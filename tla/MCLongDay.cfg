\* A day of four teams, one person each, played for ever.
CONSTANTS
  ana = ana
  bia = bia
  caio = caio
  davi = davi
  edu = edu
  fabi = fabi
  gil = gil
  red = red
  blue = blue
  gold = gold
  lime = lime
  Nobody = Nobody
  Profile = {ana, bia, caio, davi}
  Guest = {}
  FirstIn = {ana, bia, caio, davi}
  Keepers0 = {}
  MayKeep = {}
  AbsenceBound = 1
  Team = {red, blue, gold, lime}
  NoTeam = NoTeam
  Settings <- CombinedSettings

SPECIFICATION MCDaySpec

PROPERTIES
  EveryTeamReturns
  ImplementsRotation

CHECK_DEADLOCK FALSE
