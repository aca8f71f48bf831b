SPECIFICATION FairSpec
CONSTANTS
  task1 = task1
  task2 = task2
  task3 = task3
  todos = todos
  file = file
  NoCall = NoCall
  Calls <- MCCalls
  TaskCalls <- MCTasks
  TodoCalls <- MCTodos
  Replies <- MCReplies
  MaxConcurrent = 1
  MaxTotal = 2
  MaxToolRounds = 2
  MaxReminders = 1
  MaxRuns = 2
  MaxReplies = 2
  MaxTrouble = 2
INVARIANTS HistoryIsAnswered ResultsAreTrue ChildrenEndWithTheRun
PROPERTIES SubtasksAreKept AgentEnds
