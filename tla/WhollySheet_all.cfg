SPECIFICATION Spec
CONSTANTS
  c1 = c1  c2 = c2
  k1 = k1  k2 = k2  k3 = k3  k4 = k4
  Clients = {c1, c2}
  Keys = {k1, k2, k3, k4}
  Seed <- TwoSeeds
  MaxClock = 3
  Uses <- ThreeUses
INVARIANTS CachedKeysAreRight CacheMirrorsSheet TabIsKeyed
PROPERTIES RowsNeverMove CreateReturnsItsRow ImplementsTable
\* The stamps run out (MaxClock).
CHECK_DEADLOCK FALSE
