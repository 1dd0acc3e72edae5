\* A member and a guest play; seasons of two ticks, or to a fixed date.
CONSTANTS
  Player = {ana, gil}
  Guest = {gil}
  Event = {e1, e2}
  NoEvent = NoEvent
  Length = {2}
  Week = 1
  MaxTime = 4
  MaxMatches = 2
  MaxWait = 1
  MaxSeasons = 3

SPECIFICATION Spec
SYMMETRY Alike
CONSTRAINTS
  FewSeasons
  FirstDay

INVARIANTS
  SeasonsFollow
  TitlesFollowTheArchive
  OneSuccessor

PROPERTY
  ArchiveIsFinal

CHECK_DEADLOCK FALSE
