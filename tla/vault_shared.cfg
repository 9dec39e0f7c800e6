\* Three threads: one logs in, one arrives during the login and one after it.
SPECIFICATION Spec
CONSTANTS
  Threads = {t1, t2, t3}
  Kinds = {"opt_exist", "get_opt", "gen_ssl_cert", "gen_consul_token"}
INVARIANTS
  TypeOK
  SingleLogin
  TokenSticks
  FailedLoginIsFinal
PROPERTIES
  CallsEnd
  OneSession
\* The process stops when RapidJSON's assertion fails.
CHECK_DEADLOCK FALSE
