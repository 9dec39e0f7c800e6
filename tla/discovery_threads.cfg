\* Two threads, a query by name and one by metadata, lists of up to three.  The
\* process may end.
SPECIFICATION Spec
CONSTANTS
  Threads = {t1, t2}
  name = name
  tagged = tagged
  plain = plain
  labelled = labelled
  portless = portless
  scalar = scalar
  Queries <- BothQueries
  Instances = {plain, labelled, portless, scalar}
  Offers <- AllOffers
  Fatal <- AllFatal
  Docs <- AllDocs
CHECK_DEADLOCK FALSE
INVARIANTS
  TypeOK
  AnswersMatch
  IndexInRange
  HeapAtReturn
PROPERTIES
  LookupsEnd
