\* Settings that change while attempts hold reservations: one MTProto and one
\* SOCKS attempt, a domain that may be manual, cached or neither, a built-in one.
SPECIFICATION Spec
CONSTANTS
  Domains = {d, b}
  Builtin = {b}
  InitialManual = {d}
  InitialCached = {}
  MtProto = {a1}
  Socks = {s1}
  Kinds = {"dns", "timeout"}
  C30 = 1
  C120 = 2
  C300 = 2
  C600 = 2
  C6h = 3
  MaxReconfigs = 1
  None = None
INVARIANTS
  NoOrphanReservation
  ReservedNotCooling
PROPERTIES
  FailureKeepsCooldown
