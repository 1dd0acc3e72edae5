\* Two leagues, two requests with several locks at a time.
CONSTANTS
  ana = ana
  bia = bia
  caio = caio
  eva = eva
  Person = {ana, bia, caio, eva}
  Club = {10, 20}
  Edition = {1, 2}
  League = {1, 2}
  Capacity <- MCCapacity
  Owner <- MCOwner
  Nobody = Nobody
  NoClub = NoClub
  Free = Free
  Call = {"first", "second"}
  MaxGames = 2

SPECIFICATION MCSpec
CONSTRAINTS
  OneNewcomer
  OneAmbitious
  OneLeaguePlayed

INVARIANTS
  KeepersBelong
  MatchesFollowTheEntry

PROPERTIES
  EveryRequestEnds
  TheOrganiserDecides

CHECK_DEADLOCK FALSE
