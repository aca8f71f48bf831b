SPECIFICATION Spec
CONSTANTS
  p1 = p1
  p2 = p2
  c1 = c1
  c2 = c2
  PathOrder <- MCPathOrder
  Contents = {c1, c2}
  NoFile = NoFile
  MaxMade = 3
  MaxPoints = 2
  MaxBytes = 3
  ManifestSize = 1
SYMMETRY MCSymmetry
INVARIANTS PointsAreUsable FilesOutliveTheRow
PROPERTIES SavedIsOneMoment
