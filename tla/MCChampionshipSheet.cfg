\* Two legs, three launches in the second, two goalkeepers at home.
CONSTANTS
  leg1 = leg1
  leg2 = leg2
  Match = {leg1, leg2}
  Side = {"home", "away"}
  Squad <- MCSquad
  Nobody = Nobody
  Id = {a1, a2, a3}
  MaxGoals = 1
  MaxStints = 3

SPECIFICATION Spec
SYMMETRY Alike
CONSTRAINTS
  FewKinds
  FirstLeg

INVARIANTS
  ExpulsionsAreExact
  GoalsHaveTheirKeeper
  EveryGoalIsConceded
  StatisticsAddUp
  AwardsAreEarned

CHECK_DEADLOCK FALSE
