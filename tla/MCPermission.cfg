SPECIFICATION PermissionSpec
CONSTANTS
  Session = {p, c1}
  Root = p
  Req = {r1, r2}
  None = None
  MaxSets = 2
SYMMETRY Symmetry
INVARIANTS
  PromptsTracked
  AnswerCounts
  LevelFollows
CHECK_DEADLOCK FALSE
