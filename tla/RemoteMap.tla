------------------------------ MODULE RemoteMap ------------------------------
(***************************************************************************)
(* What a client of a map behind a network can promise, and what           *)
(* ConsulClient is shown to implement.  A call that succeeds has taken     *)
(* effect once, at one instant between its start and its end, and returns  *)
(* what it saw there; a call that fails has taken effect at most once, and *)
(* may still do so after it has returned.                                  *)
(***************************************************************************)
CONSTANTS
  Threads,
  Keys,
  Values,    \* what the map may hold under a key
  None,      \* nothing is held under a key
  Keep,      \* the new value of a request that only reads
  Requests,  \* records with the fields key and new
  NoRequest,
  Slots      \* places for requests that may still take effect

VARIABLES
  map,
  call,   \* the request of each thread's call
  took,   \* whether it has taken effect
  saw,    \* what it read then
  last,   \* the last call's buffer: [success, val]
  late    \* the requests of calls that have failed

vars == <<map, call, took, saw, last, late>>

\* The map with the request's effect; a read takes effect on a key that is
\* there, and a write unless the map cannot hold its value.
Applies(m, r) == IF r.new = Keep THEN m[r.key] # None ELSE r.new \in Values \cup {None}
After(m, r) == IF r.new = Keep THEN m ELSE [m EXCEPT ![r.key] = r.new]

Init ==
  /\ map \in [Keys -> Values \cup {None}]
  /\ call = [t \in Threads |-> NoRequest]
  /\ took = [t \in Threads |-> FALSE]
  /\ saw = [t \in Threads |-> None]
  /\ last = [t \in Threads |-> [success |-> FALSE, val |-> None]]
  /\ late = [s \in Slots |-> NoRequest]

Start(t, r) ==
  /\ call[t] = NoRequest
  /\ call' = [call EXCEPT ![t] = r]
  /\ \E v \in {None, last[t].val} :
       last' = [last EXCEPT ![t] = [success |-> FALSE, val |-> v]]
  /\ UNCHANGED <<map, took, saw, late>>

TakeEffect(t) ==
  /\ call[t] # NoRequest /\ ~took[t] /\ Applies(map, call[t])
  /\ map' = After(map, call[t])
  /\ saw' = [saw EXCEPT ![t] = IF call[t].new = Keep THEN map[call[t].key] ELSE None]
  /\ took' = [took EXCEPT ![t] = TRUE]
  /\ UNCHANGED <<call, last, late>>

End(t) ==
  /\ call' = [call EXCEPT ![t] = NoRequest]
  /\ took' = [took EXCEPT ![t] = FALSE]
  /\ saw' = [saw EXCEPT ![t] = None]
  /\ UNCHANGED map

Succeed(t) ==
  /\ call[t] # NoRequest /\ took[t]
  /\ last' = [last EXCEPT ![t] = [success |-> TRUE, val |-> saw[t]]]
  /\ End(t)
  /\ UNCHANGED late

Fail(t) ==
  /\ call[t] # NoRequest
  /\ \/ UNCHANGED late
     \/ /\ ~took[t]
        /\ \E s \in Slots : late[s] = NoRequest /\ late' = [late EXCEPT ![s] = call[t]]
  /\ End(t)
  /\ UNCHANGED last

TakeEffectLate(s) ==
  /\ late[s] # NoRequest /\ Applies(map, late[s])
  /\ map' = After(map, late[s])
  /\ late' = [late EXCEPT ![s] = NoRequest]
  /\ UNCHANGED <<call, took, saw, last>>

Vanish(s) ==
  /\ late[s] # NoRequest
  /\ late' = [late EXCEPT ![s] = NoRequest]
  /\ UNCHANGED <<map, call, took, saw, last>>

Next ==
  \/ \E t \in Threads : \/ \E r \in Requests : Start(t, r)
                        \/ TakeEffect(t) \/ Succeed(t) \/ Fail(t)
  \/ \E s \in Slots : TakeEffectLate(s) \/ Vanish(s)

Spec == Init /\ [][Next]_vars
=============================================================================
