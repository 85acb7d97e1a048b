\* Plans of three steps, template plans, and days of three tasks.
CONSTANTS
  StepIds = {"a", "b", "c", "custom-1", "custom-2", "custom-3"}
  Custom <- MCCustom
  Supplied <- Steps
  None = None
  NoId = NoId
  DayLength = 4
  Zones = {0, 2}
  Times = {5}
  Requests <- DirectDays
SPECIFICATION FairSpec
CHECK_DEADLOCK FALSE
INVARIANTS BrokenOnlyByCycles EveryStepPlanned SortedByDepth DependenciesListedFirst NoneLeftOver RankYieldsToDependencies NextComesFirst AcceptedPlansPointBack FreshDayIsReady
PROPERTIES Answered
