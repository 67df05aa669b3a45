\* The agent's collector: an interface that counts and one that does not, a
\* counter of two bits, four seconds.
CONSTANTS
  Iface = {eth, wg}
  Virtual = {wg}
  Wrap = 4
  Burst = {1, 3}
  Load <- MCLoad
  Address = {home, away}
  NoAddress = ""
  TTL = 2
  MaxClock = 4
  MaxEvents = 3
SPECIFICATION Spec
INVARIANTS TypeOK RatesAreReal
PROPERTIES TilesDoNotSpike AddressIsRecent
SYMMETRY Symmetric
CHECK_DEADLOCK FALSE
