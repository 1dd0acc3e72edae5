\* Two matches, three people, three launches added, corrected and repeated in any order.
CONSTANTS
  ana = ana
  bia = bia
  caio = caio
  l1 = l1
  l2 = l2
  l3 = l3
  Player = {ana, bia, caio}
  Launch = {l1, l2, l3}
  MaxMatches = 2

SPECIFICATION Spec
SYMMETRY Alike

INVARIANTS
  ScoreMatchesSheet
  ExpulsionsAreExact
  ResultsMatchSheets

CHECK_DEADLOCK FALSE
