---------------------------- MODULE VaultSession ----------------------------
(***************************************************************************)
(* What a client of a server that asks for a login can promise, and what   *)
(* VaultAdmin is shown to implement.  The session is opened at most once,  *)
(* by one of the calls, and what came of it is final.  A request that      *)
(* leaves while the session is open shows it, one that leaves after it was *)
(* refused does not, and only one that shows it is ever answered.          *)
(***************************************************************************)
CONSTANTS Threads

VARIABLES
  session,  \* "closed", "opening", "open" or "refused"
  opener,   \* the thread that opens it, in a set
  request,  \* each thread's: "none", "due", "shows", "hides" or "dead"
  result    \* how its last call ended

vars == <<session, opener, request, result>>

Init ==
  /\ session = "closed"
  /\ opener = {}
  /\ request = [t \in Threads |-> "none"]
  /\ result = [t \in Threads |-> "none"]

Become(t, state) == request' = [request EXCEPT ![t] = state]

Return(t, r) == Become(t, "none") /\ result' = [result EXCEPT ![t] = r]

Begin(t) ==
  /\ request[t] = "none"
  /\ Become(t, "due")
  /\ result' = [result EXCEPT ![t] = "none"]
  /\ UNCHANGED <<session, opener>>

Open(t) ==
  /\ request[t] = "due"
  /\ session = "closed" /\ session' = "opening"
  /\ opener' = {t}
  /\ UNCHANGED <<request, result>>

Grant(t) ==
  /\ opener = {t} /\ opener' = {}
  /\ session = "opening" /\ session' = "open"
  /\ UNCHANGED <<request, result>>

\* The call that opens the session may throw, or go on without it.
Refuse(t) ==
  /\ opener = {t} /\ opener' = {}
  /\ session = "opening" /\ session' = "refused"
  /\ Return(t, "threw") \/ UNCHANGED <<request, result>>

\* While the session is being opened a request may show it or not.
Send(t) ==
  /\ request[t] = "due" /\ t \notin opener
  /\ session # "closed"
  /\ \/ session # "refused" /\ Become(t, "shows")
     \/ session # "open" /\ Become(t, "hides")
  /\ UNCHANGED <<session, opener, result>>

Fail(t) ==
  /\ request[t] \in {"shows", "hides"}
  /\ Return(t, "failed")
  /\ UNCHANGED <<session, opener>>

\* The caller gets what it asked for, or cannot tell.
Answer(t) ==
  /\ request[t] = "shows"
  /\ Return(t, "ok") \/ Return(t, "unset")
  /\ UNCHANGED <<session, opener>>

\* What the server says is not understood, and everything stops.
Stop(t) ==
  /\ opener = {t} \/ request[t] = "shows"
  /\ opener' = {}
  /\ request' = [u \in Threads |-> "dead"]
  /\ UNCHANGED <<session, result>>

Next ==
  \E t \in Threads : \/ Begin(t) \/ Open(t) \/ Grant(t) \/ Refuse(t)
                     \/ Send(t) \/ Fail(t) \/ Answer(t) \/ Stop(t)

Spec == Init /\ [][Next]_vars
=============================================================================
