SPECIFICATION DecisionsSpec
CONSTANTS
  r1 = r1  r2 = r2  w1 = w1  NoVersion = NoVersion  NoTree = NoTree
  c1 = c1  c2 = c2  fa = fa  fb = fb  x1 = x1  g1 = g1
  Clients = {c1, c2}
  MaxScenarios = 2
  MaxIterations = 4
  MaxRules = 4
  MaxRequests = 3
  ObjectTypes = {"tx", "acct"}
  Formulas = {fa, fb}
  AlwaysTrue = fa
  FormulaTypes <- MCFormulaTypes
  FormulaTables <- MCFormulaTables
  FormulaIndexes <- MCFormulaIndexes
  Indexes = {x1}
  IndexTable <- MCIndexTable
  Thresholds <- MCThresholds
  Groups <- MCGroups
  NoGroup = NoGroup
  NoThreshold = NoThreshold  NoRow = NoRow  NoID = NoID  NoRequest = NoRequest
  Evals = {1, 2}
  Objects = {"o1"}
  ObjectType <- MCObjectType
  Value <- MCValue
  ConfigIDs = {"k1"}
  Structured <- MCStructured
  Legacy <- MCLegacy
  TestRunIDs = {"t1"}
  TreeValid <- MCTreeValid
  TreeMatches <- MCTreeMatches
  Quotas <- AuthoringQuotas
  Foci = {"decisions"}
CHECK_DEADLOCK FALSE
PROPERTIES UnpublishedStaysDown
