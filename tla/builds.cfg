SPECIFICATION Spec
CONSTANTS
  None = None
  b1 = b1
  b2 = b2
  Builder = {b1, b2}
  Fields <- MCFields
  Folded <- MCFolded
  Normal <- MCNormal
  RegionKey <- MCRegionKey
  Words <- MCWords
  LinkIn <- MCLinkIn
  Day <- MCDay
  Blank = {" "}
  Scenarios <- MCScenarios
  Described <- MCDescribed
  Requests <- MCRequests
CHECK_DEADLOCK FALSE
INVARIANTS TypeOK OnlyOverlapDestroys CatalogDescribesBuild ConformingRequestsRun RepresentedIsReachable
