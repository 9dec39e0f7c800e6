\* Two threads share a service and a configuration value, one looks up.
SPECIFICATION RegistrySpec
CONSTANTS
  t1 = t1
  t2 = t2
  Threads = {t1, t2}
  Services = {a}
  good = good
  noport = noport
  name = name
  Descriptions = {good, noport}
  Printable = {good}
  ConfigKeys = {k}
  ConfigValues = {v}
  Reports = {}
  None = None
  Keep = Keep
  Garbled = Garbled
  NoRequest = NoRequest
  Slots = {s1}
  Lookers = {l1}
  Queries = {name}
  Meets <- BothMeet
  Unsure = Unsure
INVARIANTS
  RegistryTypeOK
  SettledHolds
  LookupsAgree
PROPERTIES
  RemoteCalls
SYMMETRY
  Alike
