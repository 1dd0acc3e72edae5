\* The smallest edition of every format, from the registrations to the champion.
CONSTANTS
  Clubs = 5
  MaxTouched = 1
  NoClub = 0
  Club <- MCClub
  Edition <- Smallest
  Goals <- GoalsFew
  Penalty = {3}
  MaxDeducted = 3

SPECIFICATION Spec
CONSTRAINTS
  FewTouched
  PlayedInOrder
  ShortSeason

INVARIANTS
  PlayGoesOn
  ChampionIsEligible
  EveryoneMeets
  TwoDefeatsAndOut
  BestOfTheLeague

CHECK_DEADLOCK FALSE
