\* Eight clubs: groups dealt out again, then any of the clubs disqualified.
CONSTANTS
  Clubs = 8
  MaxTouched = 1
  NoClub = 0
  Club <- MCClub
  Edition <- Brackets
  Goals <- Goalless
  Penalty = {3}
  MaxDeducted = 0

SPECIFICATION LateSpec
CONSTRAINTS
  FewTouchedLate
  OnFixturesOrLate
  UpToKnockout
ACTION_CONSTRAINT PunishedOnce

INVARIANTS
  PlayGoesOn
  OneMatchPerRound

PROPERTIES
  RecordsAreKept
  WinnersAdvance
  GroupsSendTheirs

CHECK_DEADLOCK FALSE
