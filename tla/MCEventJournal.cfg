SPECIFICATION FairJournalSpec
CONSTANTS
  task = task
  request = request
  Recorders = {task, request}
  BatchSize = 2
  MaxBuffer = 3
  MaxAttempts = 2
  MaxRecorded = 3
  MaxFailures = 1
INVARIANTS JournalIsTrue
PROPERTIES WritersEnd
