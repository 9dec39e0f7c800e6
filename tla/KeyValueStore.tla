---------------------------- MODULE KeyValueStore ----------------------------
(***************************************************************************)
(* AOSSL::KeyValueStore (aossl/core/include/kv_store.h): the map of        *)
(* options behind the application profiles, the command line and the       *)
(* properties reader, shared by threads under one Poco::RWLock.            *)
(*                                                                         *)
(* An access to the unordered_map is not atomic: a thread is "in" the map  *)
(* from the moment it has the lock until the effect of its call, and only  *)
(* then lets the lock go.  What the lock does and does not cover is thus   *)
(* visible: get_opt holds it shared although opts[key] inserts a missing   *)
(* key, and add_opt takes no lock.                                         *)
(*                                                                         *)
(* Spec is the use the project's documentation and tests make of a store:  *)
(* one thread adds the options, then the workers start, and a thread gets  *)
(* only options it knows to be there: with CallGet(t, Keys) in Client the  *)
(* store is neither free of races nor atomic.                              *)
(***************************************************************************)
CONSTANTS
  Threads,  \* the threads that share the store
  Owner,    \* the thread that builds the store
  Keys,     \* option names
  Vals,     \* option values
  Blank,    \* the empty string, which opts[key] makes up for a missing key
  None      \* "not in the map", "no argument", "no thread"

ASSUME KvAssumption ==
  /\ Owner \in Threads
  /\ Blank \in Vals
  /\ None \notin Vals \cup Keys \cup Threads

VARIABLES
  opts,     \* the unordered_map: a value, or None, for every key
  readers,  \* the threads that hold rw_mutex shared
  writer,   \* the thread that holds rw_mutex exclusively, or None
  pc,       \* where each thread is in its call
  req,      \* the call it is making
  known,    \* the keys each thread knows to be in the map
  ret,      \* what its last reading call returned, key by key
  serving   \* have the workers been started?

lockVars == <<readers, writer>>
vars == <<opts, readers, writer, pc, req, known, ret, serving>>

ReadKinds == {"exist", "get", "all"}

Nothing == [k \in Keys |-> None]

NoRequest == [kind |-> "none", key |-> None, val |-> None]

Requests ==
       [kind : {"exist", "get"}, key : Keys, val : {None}]
  \cup [kind : {"all"}, key : {None}, val : {None}]
  \cup [kind : {"set", "add"}, key : Keys, val : Vals]

Present == {k \in Keys : opts[k] # None}

TypeOK ==
  /\ opts \in [Keys -> Vals \cup {None}]
  /\ readers \subseteq Threads
  /\ writer \in Threads \cup {None}
  /\ pc \in [Threads -> {"idle", "want", "in", "out"}]
  /\ req \in [Threads -> Requests \cup {NoRequest}]
  /\ known \in [Threads -> SUBSET Keys]
  /\ ret \in [Threads -> [Keys -> Vals \cup {None}]]
  /\ serving \in BOOLEAN

Init ==
  /\ opts = Nothing
  /\ readers = {} /\ writer = None
  /\ pc = [t \in Threads |-> "idle"]
  /\ req = [t \in Threads |-> NoRequest]
  /\ known = [t \in Threads |-> {}]
  /\ ret = [t \in Threads |-> Nothing]
  /\ serving = FALSE

-----------------------------------------------------------------------------
(* Threads that touch the map at once, at least one of them changing it.   *)

\* opts[key] of a present key and emplace of a present key change nothing.
Changes(t) ==
  /\ pc[t] = "in"
  /\ \/ req[t].kind = "set"
     \/ req[t].kind \in {"get", "add"} /\ opts[req[t].key] = None

Conflict(t, u) ==
  /\ t # u
  /\ pc[t] = "in" /\ pc[u] = "in"
  /\ Changes(t) \/ Changes(u)

\* An undisturbed update is made; one that races with another may be lost.
Commit(t, m) ==
  \/ opts' = m
  \/ (\E u \in Threads : Conflict(t, u)) /\ opts' = opts

-----------------------------------------------------------------------------
(* The callers                                                             *)

\* Thread t enters a call; before the workers start only Owner runs.
Issue(t, r, first) ==
  /\ pc[t] = "idle"
  /\ serving \/ t = Owner
  /\ req' = [req EXCEPT ![t] = r]
  /\ pc' = [pc EXCEPT ![t] = first]
  /\ ret' = [ret EXCEPT ![t] = Nothing]
  /\ UNCHANGED <<opts, readers, writer, known, serving>>

CallExist(t) ==
  \E k \in Keys : Issue(t, [kind |-> "exist", key |-> k, val |-> None], "want")

CallGet(t, S) ==
  \E k \in S : Issue(t, [kind |-> "get", key |-> k, val |-> None], "want")

CallAll(t) == Issue(t, [kind |-> "all", key |-> None, val |-> None], "want")

CallSet(t) ==
  \E k \in Keys, v \in Vals :
    Issue(t, [kind |-> "set", key |-> k, val |-> v], "want")

\* add_opt takes no lock, so its caller is in the map at once.
CallAdd(t) ==
  \E k \in Keys, v \in Vals :
    Issue(t, [kind |-> "add", key |-> k, val |-> v], "in")

\* Owner has set the options up and starts the workers.
Serve ==
  /\ ~serving
  /\ pc[Owner] = "idle"
  /\ serving' = TRUE
  /\ known' = [t \in Threads |-> known[t] \cup Present]
  /\ UNCHANGED <<opts, readers, writer, pc, req, ret>>

-----------------------------------------------------------------------------
(* The store                                                               *)

AcquireRead(t) ==
  /\ pc[t] = "want" /\ req[t].kind \in ReadKinds
  /\ writer = None
  /\ readers' = readers \cup {t}
  /\ pc' = [pc EXCEPT ![t] = "in"]
  /\ UNCHANGED <<opts, writer, req, known, ret, serving>>

\* Mutant: the writer does not wait for the readers.
AcquireWrite_IgnoresReaders(t) ==
  /\ pc[t] = "want" /\ req[t].kind = "set"
  /\ writer = None
  /\ writer' = t
  /\ pc' = [pc EXCEPT ![t] = "in"]
  /\ UNCHANGED <<opts, readers, req, known, ret, serving>>

AcquireWrite(t) ==
  /\ pc[t] = "want" /\ req[t].kind = "set"
  /\ writer = None /\ readers = {}
  /\ writer' = t
  /\ pc' = [pc EXCEPT ![t] = "in"]
  /\ UNCHANGED <<opts, readers, req, known, ret, serving>>

In(t, kind) == pc[t] = "in" /\ req[t].kind = kind

Learn(t, S) == known' = [known EXCEPT ![t] = @ \cup S]

\* The call has had its effect and is about to give the lock back.
Leave(t) ==
  /\ pc' = [pc EXCEPT ![t] = "out"]
  /\ UNCHANGED <<readers, writer, req, serving>>

\* Mutant: the result of the search is not looked at.
OptExist_Always(t) ==
  /\ In(t, "exist")
  /\ Learn(t, {req[t].key})
  /\ Leave(t)
  /\ UNCHANGED <<opts, ret>>

OptExist(t) ==
  /\ In(t, "exist")
  /\ Learn(t, Present \cap {req[t].key})
  /\ Leave(t)
  /\ UNCHANGED <<opts, ret>>

\* opts[key] returns a reference to the value, made up if the key is missing.
GetOpt(t) ==
  /\ In(t, "get")
  /\ LET k == req[t].key
         v == IF opts[k] = None THEN Blank ELSE opts[k]
     IN  /\ Commit(t, [opts EXCEPT ![k] = v])
         /\ ret' = [ret EXCEPT ![t] = [Nothing EXCEPT ![k] = v]]
         /\ Learn(t, {k})
  /\ Leave(t)

\* Mutant: the copy gets the name of the missing option for a value.
GetOpts_Named(t) ==
  /\ In(t, "all")
  /\ ret' = [ret EXCEPT ![t] = [k \in Keys |-> IF opts[k] = None THEN k ELSE opts[k]]]
  /\ Learn(t, Present)
  /\ Leave(t)
  /\ UNCHANGED opts

GetOpts(t) ==
  /\ In(t, "all")
  /\ ret' = [ret EXCEPT ![t] = opts]
  /\ Learn(t, Present)
  /\ Leave(t)
  /\ UNCHANGED opts

SetOpt(t) ==
  /\ In(t, "set")
  /\ Commit(t, [opts EXCEPT ![req[t].key] = req[t].val])
  /\ Learn(t, {req[t].key})
  /\ Leave(t)
  /\ UNCHANGED ret

\* Mutant: insert_or_assign instead of emplace.
AddOpt_Assigns(t) ==
  /\ In(t, "add")
  /\ Commit(t, [opts EXCEPT ![req[t].key] = req[t].val])
  /\ Learn(t, {req[t].key})
  /\ pc' = [pc EXCEPT ![t] = "idle"]
  /\ req' = [req EXCEPT ![t] = NoRequest]
  /\ UNCHANGED <<readers, writer, ret, serving>>

\* emplace keeps the value of a key that is already there.
AddOpt(t) ==
  /\ In(t, "add")
  /\ Commit(t, [opts EXCEPT ![req[t].key] = IF @ = None THEN req[t].val ELSE @])
  /\ Learn(t, {req[t].key})
  /\ pc' = [pc EXCEPT ![t] = "idle"]
  /\ req' = [req EXCEPT ![t] = NoRequest]
  /\ UNCHANGED <<readers, writer, ret, serving>>

\* Mutants: the lock is not given back by a reader, or by a writer.
Release_KeepsReader(t) ==
  /\ pc[t] = "out"
  /\ writer' = IF writer = t THEN None ELSE writer
  /\ pc' = [pc EXCEPT ![t] = "idle"]
  /\ req' = [req EXCEPT ![t] = NoRequest]
  /\ UNCHANGED <<opts, readers, known, ret, serving>>

Release_KeepsWriter(t) ==
  /\ pc[t] = "out"
  /\ readers' = readers \ {t}
  /\ pc' = [pc EXCEPT ![t] = "idle"]
  /\ req' = [req EXCEPT ![t] = NoRequest]
  /\ UNCHANGED <<opts, writer, known, ret, serving>>

Release(t) ==
  /\ pc[t] = "out"
  /\ readers' = readers \ {t}
  /\ writer' = IF writer = t THEN None ELSE writer
  /\ pc' = [pc EXCEPT ![t] = "idle"]
  /\ req' = [req EXCEPT ![t] = NoRequest]
  /\ UNCHANGED <<opts, known, ret, serving>>

-----------------------------------------------------------------------------
Client(t) ==
  \/ CallExist(t)
  \/ CallGet(t, known[t])
  \/ CallAll(t)
  \/ CallSet(t)
  \/ ~serving /\ CallAdd(t)

Step(t) ==
  \/ AcquireRead(t) \/ AcquireWrite(t)
  \/ OptExist(t) \/ GetOpt(t) \/ GetOpts(t) \/ SetOpt(t) \/ AddOpt(t)
  \/ Release(t)

Next == Serve \/ \E t \in Threads : Client(t) \/ Step(t)

\* A thread inside a call is scheduled; nobody has to make a call.
Fairness == \A t \in Threads : WF_vars(Step(t))

Spec == Init /\ [][Next]_vars /\ Fairness

-----------------------------------------------------------------------------
(* Properties                                                              *)

\* No thread is inside the map while another one changes it: under the
\* documented discipline rw_mutex is enough, although add_opt ignores it
\* and get_opt holds it shared (kv_store.h, use.txt "Thread-Safety").
NoDataRace == \A t, u \in Threads : ~Conflict(t, u)

\* A key a thread has seen never goes away again, so the check with
\* opt_exist and the get_opt that follows need no lock around the two, and
\* the get_opt inserts nothing.
KnownPresent == \A t \in Threads : known[t] \subseteq Present

\* As long as some thread waits for the lock, some call completes: the lock
\* cannot be leaked or left in a state in which nobody gets it.
SomeoneCompletes ==
  (\E t \in Threads : pc[t] = "want") ~> (\E t \in Threads : pc[t] = "out")

\* Every call takes effect at one instant and lookups do not change the map.
pending ==
  [t \in Threads |-> IF pc[t] \in {"want", "in"} THEN req[t] ELSE NoRequest]

Map == INSTANCE ConfigMap WITH pend <- pending

AtomicMap == Map!Spec
-----------------------------------------------------------------------------
(* Why NoDataRace holds: the inductive invariant of KeyValueStore_proofs.  *)

\* rw_mutex is held exactly by the threads inside the calls that take it.
LockDiscipline ==
  /\ writer # None => readers = {}
  /\ \A t \in Threads :
       LET holds == pc[t] \in {"in", "out"}
       IN  /\ t \in readers <=> holds /\ req[t].kind \in ReadKinds
           /\ t = writer <=> holds /\ req[t].kind = "set"

\* Only Owner runs during the set-up, and add_opt runs only then.
SetUpAlone ==
  /\ ~serving => \A t \in Threads : pc[t] = "idle" \/ t = Owner
  /\ \A t \in Threads : req[t].kind = "add" => pc[t] = "in" /\ ~serving

\* A get_opt under way asks for a key its thread knows.
GetsAreKnown ==
  \A t \in Threads : req[t].kind = "get" => req[t].key \in known[t]

\* An idle thread makes no call; a thread that makes one is not idle.
CallsAreOpen == \A t \in Threads : pc[t] = "idle" <=> req[t] = NoRequest

IInv ==
  TypeOK /\ LockDiscipline /\ SetUpAlone /\ GetsAreKnown /\ CallsAreOpen /\ KnownPresent
=============================================================================
