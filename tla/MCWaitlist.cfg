\* The list under every interleaving of requests, two limits and two kinds of people.
CONSTANTS
  ana = ana
  bia = bia
  caio = caio
  davi = davi
  gil = gil
  Profile = {ana, bia, caio}
  Guest = {gil}
  Settings <- MCSettings

SPECIFICATION Spec
SYMMETRY People

INVARIANT
  LineIsNumbered

PROPERTIES
  FirstComeFirstServed
  FallbackAgrees
  ImplementsSlots

CHECK_DEADLOCK FALSE
