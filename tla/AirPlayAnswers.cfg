SPECIFICATION InfoSpec
CONSTANTS
  Platforms <- MCPlatforms
  Requests <- MCRequests
  ProfileFiles <- MCProfileFiles
  ViewFiles <- MCViewFiles
  Geometry <- MCGeometry
INVARIANTS ReferencesKept DisplayIsWhole
PROPERTY AnswersAsStock
