SPECIFICATION FairSpec
CONSTANTS
  Relays = {6, 7}
  Days = 2
  HourMax = 1
  MinMax = 1
  Timeout = 2
  Times <- MCTimes
  Plans <- MCPlans
  MaxEdits = 1
  MaxCalls = 1
INVARIANTS
  TypeOK
  ShownIsEdited
  TimesAreDates
  OnlySeventhWaits
PROPERTIES
  LeavingStores
  ViewingIsHarmless
  StaysOpen
  PagesClose
CHECK_DEADLOCK FALSE
