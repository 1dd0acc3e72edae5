\* The keeper of a club changes while the club registers.
CONSTANTS
  ana = ana
  bia = bia
  caio = caio
  eva = eva
  Person = {ana, bia, caio, eva}
  Club = {10, 20}
  Edition = {1, 2}
  League = {1, 2}
  Capacity <- MCCapacity
  Owner <- MCOwner
  Nobody = Nobody
  NoClub = NoClub
  Free = Free
  Call = {"first", "second"}
  MaxGames = 2

SPECIFICATION MCSpec
CONSTRAINTS
  OneNewcomer
  OneAmbitious
  OneLeaguePlayed

PROPERTY OpenEditionsFollow

CHECK_DEADLOCK FALSE
