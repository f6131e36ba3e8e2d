\* One pager initialized at a time.
SPECIFICATION Spec
CONSTANTS
  p1 = p1  p2 = p2
  Pagers = {p1, p2}
  Sizes = {0, 5}
  Limits = {0, 2}
  Offsets <- FewOffsets
  Exclusive = TRUE
INVARIANTS ObserverRestored PageIsOneResponse WalkInOrder LastPageHasNoNext
PROPERTIES WalkEnds
