CONSTANTS
  M = 3
  Broadcast = 4
  StoredAddrs = {1}
  MaxRequests = 2
  MaxUpsets = 1
  Requests <- MCRequests
SPECIFICATION FairSpec
INVARIANTS
  Numbered
  AddressIsSaved
  Accounted
  CarriedOutOnce
  AnswersAreTrue
  NothingUnreported
PROPERTIES
  NearestFirst
  AllAnswer
CHECK_DEADLOCK FALSE
