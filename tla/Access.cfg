CONSTANTS
  Handlers = {h1, h2}
  Hosts = {gw1, gw2}
  Keys = {k1}
  Certs = {c1, c2}
  Pins = {p1, p2}
  Tries = 2
  Unit = 1
  Doublings = 2
  Cap = 3
  Horizon = 6
  MaxFails = 5
  Mixes <- AllMixes
  None = None
SYMMETRY Permuted
SPECIFICATION Spec
INVARIANTS TypeOK PinnedTogether ValidMeansKnown AnswersHold AttemptsAreSpaced
