\* Settings that do not change: an MTProto and a SOCKS attempt over two cached
\* domains, so that a DNS failure of one skips the other.
SPECIFICATION FairSpec
CONSTANTS
  Domains = {c1, c2}
  Builtin = {}
  InitialManual = {}
  InitialCached = {c1, c2}
  MtProto = {a1}
  Socks = {s1}
  Kinds = {"dns", "timeout"}
  C30 = 1
  C120 = 2
  C300 = 2
  C600 = 2
  C6h = 3
  MaxReconfigs = 0
  None = None
INVARIANTS
  ExclusiveDial
PROPERTIES
  ReservationReleased
