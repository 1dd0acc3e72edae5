\* Both finalists of a cascade are disqualified.
CONSTANTS
  Clubs = 4
  MaxTouched = 0
  NoClub = 0
  Club <- MCClub
  Edition <- Cascades
  Goals <- GoalsFew
  Penalty = {3}
  MaxDeducted = 0

SPECIFICATION Spec
CONSTRAINTS
  FewTouched
  Closed

INVARIANT
  TheFinalNamesAChampion

CHECK_DEADLOCK FALSE
