\* Split places, exactly two keepers, one field player more than teams and a guest who comes and goes.
CONSTANTS
  ana = ana
  bia = bia
  caio = caio
  davi = davi
  edu = edu
  fabi = fabi
  gil = gil
  red = red
  blue = blue
  gold = gold
  lime = lime
  Nobody = Nobody
  Profile = {ana, bia, caio, davi, edu, fabi}
  Guest = {gil}
  FirstIn = {ana, bia, caio, davi, edu, fabi}
  Keepers0 = {edu, fabi}
  MayKeep = {davi}
  AbsenceBound = 1
  Team = {red, blue, gold}
  NoTeam = NoTeam
  Settings <- TwoKeepersSettings

SPECIFICATION MCSpec
SYMMETRY Alike
CONSTRAINT QuietList

INVARIANTS
  EveryTeamPlaysOrWaits
  AKeeperOnEachSide
  FullStrength
  PlacesUsedExactly

PROPERTY
  NobodyIsPushedOut

CHECK_DEADLOCK FALSE
