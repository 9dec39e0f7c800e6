------------------------------ MODULE ConfigMap ------------------------------
(***************************************************************************)
(* What KeyValueStoreInterface promises its callers                        *)
(* (aossl/core/include/kv_store_interface.h): one shared map on which      *)
(* every call takes effect at a single instant between its invocation and  *)
(* its return, and on which looking a key up changes nothing.  It has no   *)
(* locks and no intermediate states; KeyValueStore is shown to implement   *)
(* it.                                                                     *)
(***************************************************************************)
CONSTANTS
  Threads,  \* the threads that share the store
  Keys,     \* option names
  Vals,     \* option values
  None      \* "no such option", "no argument", "nothing returned"

VARIABLES
  opts,     \* the map: a value, or None, for every key
  known,    \* known[t]: keys some call has shown thread t to be present
  ret,      \* ret[t]: what t's last reading call returned, key by key
  pend      \* pend[t]: the call t has made that has not yet taken effect

mapVars == <<opts, known, ret, pend>>

Nothing == [k \in Keys |-> None]

NoRequest == [kind |-> "none", key |-> None, val |-> None]

Requests ==
       [kind : {"exist", "get"}, key : Keys, val : {None}]
  \cup [kind : {"all"}, key : {None}, val : {None}]
  \cup [kind : {"set", "add"}, key : Keys, val : Vals]

Present == {k \in Keys : opts[k] # None}

Init ==
  /\ opts = Nothing
  /\ known = [t \in Threads |-> {}]
  /\ ret = [t \in Threads |-> Nothing]
  /\ pend = [t \in Threads |-> NoRequest]

\* A thread with no call outstanding makes one, with a fresh result buffer.
Call(t) ==
  /\ pend[t] = NoRequest
  /\ \E r \in Requests : pend' = [pend EXCEPT ![t] = r]
  /\ ret' = [ret EXCEPT ![t] = Nothing]
  /\ UNCHANGED <<opts, known>>

Learn(t, S) == known' = [known EXCEPT ![t] = @ \cup S]

\* opt_exist: reveals whether the key is there.
Exist(t) ==
  /\ pend[t].kind = "exist"
  /\ Learn(t, Present \cap {pend[t].key})
  /\ UNCHANGED <<opts, ret>>

\* get_opt: returns the value of the key and leaves the map alone.
Get(t) ==
  /\ pend[t].kind = "get"
  /\ ret' = [ret EXCEPT ![t] = [Nothing EXCEPT ![pend[t].key] = opts[pend[t].key]]]
  /\ Learn(t, Present \cap {pend[t].key})
  /\ UNCHANGED opts

\* get_opts: returns the whole map as it is at one instant.
All(t) ==
  /\ pend[t].kind = "all"
  /\ ret' = [ret EXCEPT ![t] = opts]
  /\ Learn(t, Present)
  /\ UNCHANGED opts

\* set_opt: the key now has the value, whatever it had before.
Set(t) ==
  /\ pend[t].kind = "set"
  /\ opts' = [opts EXCEPT ![pend[t].key] = pend[t].val]
  /\ Learn(t, {pend[t].key})
  /\ UNCHANGED ret

\* add_opt: a default, which never replaces a value that is there.
Add(t) ==
  /\ pend[t].kind = "add"
  /\ opts' = [opts EXCEPT ![pend[t].key] = IF @ = None THEN pend[t].val ELSE @]
  /\ Learn(t, {pend[t].key})
  /\ UNCHANGED ret

Perform(t) ==
  /\ Exist(t) \/ Get(t) \/ All(t) \/ Set(t) \/ Add(t)
  /\ pend' = [pend EXCEPT ![t] = NoRequest]

\* The application starts its workers, which know the options set up so far.
Share ==
  /\ known' = [t \in Threads |-> known[t] \cup Present]
  /\ UNCHANGED <<opts, ret, pend>>

Next == Share \/ \E t \in Threads : Call(t) \/ Perform(t)

Spec == Init /\ [][Next]_mapVars
=============================================================================
