\* An owner, two accounts that come and go, two requests at a time.
CONSTANTS
  Profile = {ana, bia, caio}
  Owner = ana
  Nobody = Nobody
  Insider = bia
  Outsider = caio
  Call = {c1, c2}
  Token = {t1}
  Lifetime = 1
  Rating = {7}

SPECIFICATION MCSpec
SYMMETRY Alike
CONSTRAINT OnlyTheOutsider

PROPERTIES
  WritesAreEntitled
  OneAnswerPerRequest
  NobodySlipsIn

CHECK_DEADLOCK FALSE
