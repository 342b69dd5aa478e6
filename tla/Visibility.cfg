CONSTANTS
  Users = {ann}
  g1 = g1
  Guilds = {g1, g2}
  FirstMembers <- MCFirstMembers
  Margin = 1
  MaxTime = 3
  MaxChanges = 2
  MaxTasks = 2
SPECIFICATION Spec
CHECK_DEADLOCK FALSE
INVARIANT TypeOK
INVARIANT FalseIsProved
PROPERTY AnswersSettle
