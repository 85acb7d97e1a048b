\* A deadline late in the local day.
CONSTANTS
  StepIds = {"a", "b", "c", "custom-1", "custom-2", "custom-3"}
  Custom <- MCCustom
  Supplied <- NoSteps
  None = None
  NoId = NoId
  DayLength = 4
  Zones = {2}
  Times = {5}
  Requests <- DirectDays
SPECIFICATION Spec
CHECK_DEADLOCK FALSE
INVARIANTS DueTodaySelected
