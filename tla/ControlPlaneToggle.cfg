SPECIFICATION Spec
CONSTANTS
  Requests = {r1}
  Updates <- MCUpdates
  StartParams <- MCStartParams
INVARIANTS
  SchedulerFollowsToggle
