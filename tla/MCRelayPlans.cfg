\* The instance of MCSchedule.cfg, for what the comments say of the relays.
CONSTANTS
  N = 2
  Days = 2
  Minutes = 2
  Seconds = 2
  PlanTimes = {1, 2}
  MaxQuiet = 4
  MaxCalls = 2
SPECIFICATION FairSpec
PROPERTIES SwitchedByPlan
