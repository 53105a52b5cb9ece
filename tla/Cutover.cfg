SPECIFICATION FairSpec
CONSTANTS
  NumMsgs = 2
  NumConvs = 1
  ConvOf <- MCConvOf
  MaxChanges = 4
  MaxFaults = 2
INVARIANTS TypeOK LegacyCanWrite
PROPERTIES OneSourceSpec UndisturbedCompletes
