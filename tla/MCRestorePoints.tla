---------------------------- MODULE MCRestorePoints ----------------------------
EXTENDS RestorePoints, TLC

CONSTANTS p1, p2, c1, c2

MCPathOrder == <<p1, p2>>
MCSymmetry == Permutations({c1, c2})

================================================================================
