SPECIFICATION PipelineSpec
CONSTANTS
  r1 = r1
  r2 = r2
  r3 = r3
  r4 = r4
  PipelineRecords = {r1, r2, r3, r4}
  TypeOfRecord <- MCTypeOfRecord
  StampOfRecord <- MCStampOfRecord
  PublicTypes = {"pub"}
  NoData = {}
  NoRefs = {r3, r4}
  Wildcard = "*"
  PipelineDrift = 1
  PipelineMaxTime = 2
  MaxRecordsIn = 2
  MaxArrays = 2
  MaxHandlers = 1
INVARIANT NeverRoutedAgain
CHECK_DEADLOCK FALSE
