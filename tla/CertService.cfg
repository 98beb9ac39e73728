\* Three domains compete for a cache of two entries while two CAs replace one another.
SPECIFICATION Spec
CONSTANTS
  Handshakes = {h1, h2, h3, h4}
  Setters = {s1, s2}
  Cas = {ca1, ca2, broken}
  Unparsable = {broken}
  Domains = {d1, d2, d3, bad}
  Malformed = {bad}
  Capacity = 2
  NoOne = NoOne
  NoCa = NoCa
SYMMETRY Symmetry
INVARIANTS
  CacheWellFormed
  CacheIsCurrent
  FreshCertificates
  VisibleWithCa
PROPERTIES
  EvictsOldest
