SPECIFICATION SqlSpec
CONSTANTS
  Tasks = {1}
  Clients = {c1, c2}
  Keys = {}
  NoKey = NoKey
  LeaseLostMax = 2
  Submissions <- RootRC
  MaxClaims = 1
SYMMETRY ClientSymmetry
PROPERTIES
  SqlCancelSurvives
CHECK_DEADLOCK FALSE
