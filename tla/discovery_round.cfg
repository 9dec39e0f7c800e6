SPECIFICATION Spec
CONSTANTS
  Threads = {t1}
  name = name
  tagged = tagged
  plain = plain
  labelled = labelled
  portless = portless
  scalar = scalar
  Queries <- OneQuery
  Instances = {plain}
  Offers <- PlainOnly
  Fatal <- Sound
  Docs <- OneDoc
PROPERTIES
  RoundRobin
