CONSTANTS
  Base = 3
  Total = 9
  Policies = {"first_fit", "lifo"}
  Overrun = FALSE
  Sizes = {0, 2}
  Alignments = {1, 4}
SPECIFICATION Spec
INVARIANTS ArenaSound BlocksIntact
PROPERTIES FreeAgainIgnored
