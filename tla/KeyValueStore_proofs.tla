------------------------ MODULE KeyValueStore_proofs ------------------------
(***************************************************************************)
(* Theorems about KeyValueStore, for any number of threads, options and    *)
(* values.                                                                 *)
(*                                                                         *)
(* IInv is inductive.  NoDataRace follows from it: a writer excludes the   *)
(* readers, a get_opt under way changes nothing because its key is there,  *)
(* and add_opt, which takes no lock, runs only while Owner is alone.  With *)
(* no race every update is made, which is what KnownPresent and the        *)
(* implementation of ConfigMap rest on.                                    *)
(***************************************************************************)
EXTENDS KeyValueStore, TLAPS

-----------------------------------------------------------------------------
(* Consequences of the invariant                                           *)

\* Two threads are never in the map together when one of them changes it.
LEMMA InvNoDataRace == ASSUME IInv PROVE NoDataRace
<1> SUFFICES ASSUME NEW t \in Threads, NEW u \in Threads, t # u,
                    pc[t] = "in", pc[u] = "in", Changes(t)
             PROVE  FALSE
  BY DEF NoDataRace, Conflict
<1> USE DEF IInv, TypeOK
<1>1. CASE req[t].kind = "set"
  <2>1. t = writer /\ readers = {}
    BY <1>1, KvAssumption DEF LockDiscipline
  <2>2. req[u].kind \notin {"exist", "get", "all", "set"}
    BY <2>1 DEF LockDiscipline, ReadKinds
  <2>3. req[u].kind = "add"
    BY <2>2 DEF CallsAreOpen, Requests, NoRequest
  <2> QED
    BY <2>3 DEF SetUpAlone
<1>2. CASE req[t].kind = "add"
  BY <1>2 DEF SetUpAlone
<1>3. CASE req[t].kind = "get" /\ opts[req[t].key] = None
  BY <1>3 DEF GetsAreKnown, KnownPresent, Present
<1> QED
  BY <1>1, <1>2, <1>3 DEF Changes

\* So an update of the map is never lost: Commit leaves no choice.
LEMMA NoRival ==
  ASSUME IInv, NEW t \in Threads PROVE ~ \E u \in Threads : Conflict(t, u)
  BY InvNoDataRace DEF NoDataRace

\* Whatever a thread may ask for is a request, and not NoRequest.
LEMMA RequestTypes ==
  /\ \A k \in Keys : [kind |-> "exist", key |-> k, val |-> None] \in Requests
  /\ \A k \in Keys : [kind |-> "get", key |-> k, val |-> None] \in Requests
  /\ [kind |-> "all", key |-> None, val |-> None] \in Requests
  /\ \A k \in Keys, v \in Vals : [kind |-> "set", key |-> k, val |-> v] \in Requests
  /\ \A k \in Keys, v \in Vals : [kind |-> "add", key |-> k, val |-> v] \in Requests
  /\ NoRequest \notin Requests
  BY DEF Requests, NoRequest

\* The fields of a request.
LEMMA RequestFields ==
  ASSUME NEW r \in Requests
  PROVE  /\ r.kind \in {"exist", "get", "all", "set", "add"}
         /\ r.kind # "all" => r.key \in Keys
         /\ r.kind \in {"set", "add"} => r.val \in Vals
  BY DEF Requests

-----------------------------------------------------------------------------
(* The invariant is inductive                                              *)

\* An empty store without callers satisfies the invariant.
LEMMA InitIInv == ASSUME Init PROVE IInv
  BY KvAssumption DEF Init, IInv, TypeOK, LockDiscipline, SetUpAlone,
     GetsAreKnown, CallsAreOpen, KnownPresent, Nothing, NoRequest, ReadKinds

\* A caller enters a call.
LEMMA IssueIInv ==
  ASSUME IInv, NEW t \in Threads, NEW r \in Requests, NEW first,
         Issue(t, r, first),
         \/ first = "want" /\ r.kind # "add"
         \/ first = "in" /\ r.kind = "add" /\ ~serving,
         r.kind = "get" => r.key \in known[t]
  PROVE  IInv'
<1> USE DEF Issue, IInv
<1>1. TypeOK'
  BY DEF TypeOK, Nothing
<1>2. LockDiscipline'
  BY DEF LockDiscipline, TypeOK, ReadKinds
<1>3. SetUpAlone'
  BY DEF SetUpAlone, TypeOK
<1>4. GetsAreKnown'
  BY DEF GetsAreKnown, TypeOK
<1>5. CallsAreOpen'
  BY RequestTypes DEF CallsAreOpen, TypeOK
<1>6. KnownPresent'
  BY DEF KnownPresent, Present
<1> QED
  BY <1>1, <1>2, <1>3, <1>4, <1>5, <1>6

\* A thread inside a call moves on: what each step changes.
LEMMA StepIInv ==
  ASSUME IInv, NEW t \in Threads, Step(t)
  PROVE  IInv'
<1> USE DEF IInv
<1>1. CASE AcquireRead(t)
  <2>1. TypeOK' /\ KnownPresent'
    BY <1>1 DEF AcquireRead, TypeOK, KnownPresent, Present
  <2>2. LockDiscipline'
    BY <1>1, KvAssumption DEF AcquireRead, TypeOK, LockDiscipline, ReadKinds
  <2>3. SetUpAlone' /\ GetsAreKnown' /\ CallsAreOpen'
    BY <1>1 DEF AcquireRead, TypeOK, SetUpAlone, GetsAreKnown, CallsAreOpen, ReadKinds
  <2> QED
    BY <2>1, <2>2, <2>3
<1>2. CASE AcquireWrite(t)
  <2>1. TypeOK' /\ KnownPresent'
    BY <1>2 DEF AcquireWrite, TypeOK, KnownPresent, Present
  <2>2. LockDiscipline'
    BY <1>2, KvAssumption DEF AcquireWrite, TypeOK, LockDiscipline, ReadKinds
  <2>3. SetUpAlone' /\ GetsAreKnown' /\ CallsAreOpen'
    BY <1>2 DEF AcquireWrite, TypeOK, SetUpAlone, GetsAreKnown, CallsAreOpen
  <2> QED
    BY <2>1, <2>2, <2>3
<1>3. CASE Release(t)
  <2>1. TypeOK' /\ KnownPresent'
    BY <1>3 DEF Release, TypeOK, KnownPresent, Present
  <2>2. LockDiscipline'
    BY <1>3, KvAssumption DEF Release, TypeOK, LockDiscipline, ReadKinds, NoRequest
  <2>3. SetUpAlone' /\ GetsAreKnown' /\ CallsAreOpen'
    BY <1>3 DEF Release, TypeOK, SetUpAlone, GetsAreKnown, CallsAreOpen, NoRequest
  <2> QED
    BY <2>1, <2>2, <2>3
<1>4. CASE AddOpt(t)
  <2>1. opts' = [opts EXCEPT ![req[t].key] = IF @ = None THEN req[t].val ELSE @]
    BY <1>4, NoRival DEF AddOpt, Commit
  <2>2. req[t].key \in Keys /\ req[t].val \in Vals
    BY <1>4, RequestFields DEF AddOpt, In, TypeOK, NoRequest
  <2>3. TypeOK'
    BY <1>4, <2>1, <2>2 DEF AddOpt, Learn, TypeOK
  <2>4. LockDiscipline'
    BY <1>4, KvAssumption DEF AddOpt, In, TypeOK, LockDiscipline, ReadKinds, NoRequest
  <2>5. SetUpAlone' /\ GetsAreKnown' /\ CallsAreOpen'
    BY <1>4 DEF AddOpt, In, Learn, TypeOK, SetUpAlone, GetsAreKnown, CallsAreOpen, NoRequest
  <2>6. KnownPresent'
    BY <1>4, <2>1, <2>2, KvAssumption DEF AddOpt, Learn, TypeOK, KnownPresent, Present
  <2> QED
    BY <2>3, <2>4, <2>5, <2>6
<1>5. CASE OptExist(t) \/ GetOpt(t) \/ GetOpts(t) \/ SetOpt(t)
  <2>1. /\ pc[t] = "in" /\ pc' = [pc EXCEPT ![t] = "out"]
        /\ UNCHANGED <<readers, writer, req, serving>>
    BY <1>5 DEF OptExist, GetOpt, GetOpts, SetOpt, In, Leave
  <2>2. req[t].kind \in {"exist", "get", "all", "set"}
    BY <1>5 DEF OptExist, GetOpt, GetOpts, SetOpt, In
  <2>3. PICK S \in SUBSET Keys :
          /\ known' = [known EXCEPT ![t] = @ \cup S]
          /\ \A k \in S : opts'[k] # None
          /\ opts' \in [Keys -> Vals \cup {None}]
          /\ \A k \in Keys : opts[k] # None => opts'[k] # None
          /\ ret' \in [Threads -> [Keys -> Vals \cup {None}]]
    <3>1. CASE OptExist(t)
      <4> DEFINE S == Present \cap {req[t].key}
      <4>1. known' = [known EXCEPT ![t] = @ \cup S] /\ opts' = opts /\ ret' = ret
        BY <3>1 DEF OptExist, Learn
      <4> S \in SUBSET Keys
        BY DEF Present
      <4> WITNESS S \in SUBSET Keys
      <4> QED
        BY <4>1 DEF Present, TypeOK
    <3>2. CASE GetOpt(t)
      <4> DEFINE k == req[t].key
                 v == IF opts[k] = None THEN Blank ELSE opts[k]
      <4>1. k \in Keys /\ v \in Vals
        BY <3>2, KvAssumption, RequestFields DEF GetOpt, In, TypeOK, NoRequest
      <4>2. opts' = [opts EXCEPT ![k] = v]
        BY <3>2, NoRival DEF GetOpt, Commit
      <4>3. /\ known' = [known EXCEPT ![t] = @ \cup {k}]
            /\ ret' = [ret EXCEPT ![t] = [Nothing EXCEPT ![k] = v]]
        BY <3>2 DEF GetOpt, Learn
      <4> HIDE DEF v
      <4> {k} \in SUBSET Keys
        BY <4>1
      <4> WITNESS {k} \in SUBSET Keys
      <4> QED
        BY <4>1, <4>2, <4>3, KvAssumption DEF TypeOK, Nothing
    <3>3. CASE GetOpts(t)
      <4>1. /\ known' = [known EXCEPT ![t] = @ \cup Present] /\ opts' = opts
            /\ ret' = [ret EXCEPT ![t] = opts]
        BY <3>3 DEF GetOpts, Learn
      <4> Present \in SUBSET Keys
        BY DEF Present
      <4> WITNESS Present \in SUBSET Keys
      <4> QED
        BY <4>1 DEF Present, TypeOK
    <3>4. CASE SetOpt(t)
      <4>1. req[t].key \in Keys /\ req[t].val \in Vals
        BY <3>4, RequestFields DEF SetOpt, In, TypeOK, NoRequest
      <4>2. opts' = [opts EXCEPT ![req[t].key] = req[t].val]
        BY <3>4, NoRival DEF SetOpt, Commit
      <4>3. known' = [known EXCEPT ![t] = @ \cup {req[t].key}] /\ ret' = ret
        BY <3>4 DEF SetOpt, Learn
      <4> {req[t].key} \in SUBSET Keys
        BY <4>1
      <4> WITNESS {req[t].key} \in SUBSET Keys
      <4> QED
        BY <4>1, <4>2, <4>3, KvAssumption DEF TypeOK
    <3> QED
      BY <1>5, <3>1, <3>2, <3>3, <3>4
  <2>4. TypeOK'
    BY <2>1, <2>3 DEF TypeOK
  <2>5. LockDiscipline'
    BY <2>1 DEF TypeOK, LockDiscipline
  <2>6. SetUpAlone' /\ CallsAreOpen'
    BY <2>1, <2>2 DEF TypeOK, SetUpAlone, CallsAreOpen
  <2>7. GetsAreKnown'
    BY <2>1, <2>3 DEF TypeOK, GetsAreKnown
  <2>8. KnownPresent'
    BY <2>3 DEF TypeOK, KnownPresent, Present
  <2> QED
    BY <2>4, <2>5, <2>6, <2>7, <2>8
<1> QED
  BY <1>1, <1>2, <1>3, <1>4, <1>5 DEF Step

\* Every step, of a caller, of the store or of Owner starting the workers,
\* keeps the invariant.
LEMMA NextIInv == ASSUME IInv, [Next]_vars PROVE IInv'
<1>1. CASE Serve
  <2> USE <1>1 DEF Serve, IInv
  <2>1. TypeOK' /\ LockDiscipline' /\ CallsAreOpen'
    BY DEF TypeOK, LockDiscipline, CallsAreOpen, Present
  <2>2. SetUpAlone'
    BY KvAssumption DEF SetUpAlone, CallsAreOpen, NoRequest
  <2>3. GetsAreKnown' /\ KnownPresent'
    BY DEF TypeOK, GetsAreKnown, KnownPresent, Present
  <2> QED
    BY <2>1, <2>2, <2>3
<1>2. ASSUME NEW t \in Threads, Client(t) PROVE IInv'
  <2>1. CASE CallExist(t)
    BY <2>1, IssueIInv, RequestTypes DEF CallExist
  <2>2. CASE CallGet(t, known[t])
    <3>1. known[t] \subseteq Keys
      BY DEF IInv, TypeOK
    <3> QED
      BY <2>2, <3>1, IssueIInv, RequestTypes DEF CallGet
  <2>3. CASE CallAll(t)
    BY <2>3, IssueIInv, RequestTypes DEF CallAll
  <2>4. CASE CallSet(t)
    BY <2>4, IssueIInv, RequestTypes DEF CallSet
  <2>5. CASE ~serving /\ CallAdd(t)
    BY <2>5, IssueIInv, RequestTypes DEF CallAdd
  <2> QED
    BY <1>2, <2>1, <2>2, <2>3, <2>4, <2>5 DEF Client
<1>3. ASSUME NEW t \in Threads, Step(t) PROVE IInv'
  BY <1>3, StepIInv
<1>4. CASE UNCHANGED vars
  BY <1>4 DEF vars, IInv, TypeOK, LockDiscipline, SetUpAlone, GetsAreKnown,
     CallsAreOpen, KnownPresent, Present
<1> QED
  BY <1>1, <1>2, <1>3, <1>4 DEF Next

\* Every state of a store that is used as documented satisfies the inductive
\* invariant: rw_mutex is held by just the threads inside the calls that take
\* it, only Owner runs during the set-up, and known keys stay in the map.
THEOREM Invariance == Spec => []IInv
  BY InitIInv, NextIInv, PTL DEF Spec

\* The store is well formed in every reachable state.
THEOREM TypeCorrect == Spec => []TypeOK
  BY Invariance, PTL DEF IInv

\* Under the documented discipline no access to the map races with a change
\* of it, for any number of threads: rw_mutex is enough although get_opt
\* takes it shared and add_opt not at all (kv_store.h:67-86).
THEOREM RaceFreedom == Spec => []NoDataRace
  BY Invariance, InvNoDataRace, PTL

\* An option a thread has seen is there for good, so a get_opt after an
\* opt_exist needs no lock around the two (use.txt:80-87).
THEOREM KnownStaysPresent == Spec => []KnownPresent
  BY Invariance, PTL DEF IInv

-----------------------------------------------------------------------------
(* KeyValueStore implements ConfigMap                                      *)

USE DEF Map!Nothing, Map!NoRequest

\* Nothing pends while a thread is idle or has had its effect.
LEMMA PendingIs ==
  ASSUME NEW t \in Threads
  PROVE  pending[t] = IF pc[t] \in {"want", "in"} THEN req[t] ELSE NoRequest
  BY DEF pending

\* Entering a call is a call of the abstract map.
LEMMA IssueIsCall ==
  ASSUME IInv, NEW t \in Threads, NEW r \in Requests, NEW first \in {"want", "in"},
         Issue(t, r, first)
  PROVE  Map!Call(t)
<1> USE DEF Issue, IInv
<1>1. pending[t] = NoRequest
  BY PendingIs
<1>2. pending' = [pending EXCEPT ![t] = r]
  BY DEF pending, TypeOK
<1>3. r \in Map!Requests
  BY DEF Requests, Map!Requests
<1>4. ret' = [ret EXCEPT ![t] = Nothing] /\ UNCHANGED <<opts, known>>
  OBVIOUS
<1> QED
  BY <1>1, <1>2, <1>3, <1>4 DEF Map!Call, Nothing, NoRequest

\* The lock's steps are stuttering steps of the abstract map.
LEMMA LockStepStutters ==
  ASSUME IInv, NEW t \in Threads, AcquireRead(t) \/ AcquireWrite(t) \/ Release(t)
  PROVE  UNCHANGED <<opts, known, ret, pending>>
<1>1. pending' = pending
  <2>1. CASE AcquireRead(t) \/ AcquireWrite(t)
    BY <2>1 DEF AcquireRead, AcquireWrite, pending, IInv, TypeOK
  <2>2. CASE Release(t)
    BY <2>2 DEF Release, pending, IInv, TypeOK
  <2> QED
    BY <2>1, <2>2
<1> QED
  BY <1>1 DEF AcquireRead, AcquireWrite, Release

\* The effect of a call is that of the abstract operation.
LEMMA EffectIsPerformed ==
  ASSUME IInv, NEW t \in Threads,
         OptExist(t) \/ GetOpt(t) \/ GetOpts(t) \/ SetOpt(t) \/ AddOpt(t)
  PROVE  Map!Perform(t)
<1> USE DEF IInv
<1>1. pc[t] = "in" /\ pending[t] = req[t]
  BY PendingIs DEF OptExist, GetOpt, GetOpts, SetOpt, AddOpt, In
<1>2. pending' = [pending EXCEPT ![t] = NoRequest]
  <2>1. CASE AddOpt(t)
    BY <2>1 DEF AddOpt, pending, TypeOK
  <2>2. CASE OptExist(t) \/ GetOpt(t) \/ GetOpts(t) \/ SetOpt(t)
    <3>1. pc' = [pc EXCEPT ![t] = "out"] /\ req' = req
      BY <2>2 DEF OptExist, GetOpt, GetOpts, SetOpt, Leave
    <3> QED
      BY <3>1 DEF pending, TypeOK
  <2> QED
    BY <2>1, <2>2
<1>3. Map!Exist(t) \/ Map!Get(t) \/ Map!All(t) \/ Map!Set(t) \/ Map!Add(t)
  <2> Map!Present = Present
    BY DEF Map!Present, Present
  <2>1. CASE OptExist(t)
    BY <2>1, <1>1 DEF OptExist, In, Learn, Map!Exist, Map!Learn
  <2>2. CASE GetOpt(t)
    <3> DEFINE k == req[t].key
    <3>1. k \in Keys /\ k \in Present
      BY <2>2, <1>1 DEF GetOpt, In, GetsAreKnown, KnownPresent, TypeOK
    <3>2. opts[k] # None
      BY <3>1 DEF Present
    <3>3. opts' = [opts EXCEPT ![k] = opts[k]]
      BY <2>2, <3>2, NoRival DEF GetOpt, Commit
    <3>4. UNCHANGED opts
      BY <3>1, <3>3 DEF TypeOK
    <3>5. ret' = [ret EXCEPT ![t] = [Nothing EXCEPT ![k] = opts[k]]]
      BY <2>2, <3>2 DEF GetOpt
    <3>6. known' = [known EXCEPT ![t] = @ \cup (Present \cap {k})]
      <4>1. known' = [known EXCEPT ![t] = @ \cup {k}]
        BY <2>2 DEF GetOpt, Learn
      <4>2. Present \cap {k} = {k}
        BY <3>1
      <4> QED
        BY <4>1, <4>2
    <3>7. pending[t].kind = "get" /\ pending[t].key = k
      BY <2>2, <1>1 DEF GetOpt, In
    <3> QED
      BY <3>4, <3>5, <3>6, <3>7 DEF Map!Get, Map!Learn, Nothing
  <2>3. CASE GetOpts(t)
    BY <2>3, <1>1 DEF GetOpts, In, Learn, Map!All, Map!Learn
  <2>4. CASE SetOpt(t)
    BY <2>4, <1>1, NoRival DEF SetOpt, In, Learn, Commit, Map!Set, Map!Learn
  <2>5. CASE AddOpt(t)
    BY <2>5, <1>1, NoRival DEF AddOpt, In, Learn, Commit, Map!Add, Map!Learn
  <2> QED
    BY <2>1, <2>2, <2>3, <2>4, <2>5
<1> QED
  BY <1>2, <1>3 DEF Map!Perform, NoRequest

\* So every step of the store is a step of the abstract map, or a stutter.
LEMMA NextRefines == ASSUME IInv, [Next]_vars PROVE [Map!Next]_(Map!mapVars)
<1>1. CASE Serve
  <2>1. pending' = pending
    BY <1>1 DEF Serve, pending
  <2>2. Map!Present = Present
    BY DEF Map!Present, Present
  <2>3. Map!Share
    BY <1>1, <2>1, <2>2 DEF Serve, Map!Share
  <2> QED
    BY <2>3 DEF Map!Next
<1>2. ASSUME NEW t \in Threads, Client(t) PROVE Map!Call(t)
  <2> known[t] \subseteq Keys
    BY DEF IInv, TypeOK
  <2> QED
    BY <1>2, IssueIsCall, RequestTypes
       DEF Client, CallExist, CallGet, CallAll, CallSet, CallAdd
<1>3. ASSUME NEW t \in Threads, Step(t)
      PROVE  Map!Perform(t) \/ UNCHANGED <<opts, known, ret, pending>>
  BY <1>3, LockStepStutters, EffectIsPerformed DEF Step
<1>4. CASE UNCHANGED vars
  BY <1>4 DEF vars, pending, Map!mapVars
<1> QED
  BY <1>1, <1>2, <1>3, <1>4 DEF Next, Map!Next, Map!mapVars

\* Every call of the store takes effect at one instant between its invocation
\* and its return, and lookups do not change the map.
THEOREM Implementation == Spec => AtomicMap
<1>1. Init => Map!Init
  BY DEF Init, Map!Init, pending, Nothing, NoRequest
<1> QED
  BY <1>1, Invariance, NextRefines, PTL DEF Spec, AtomicMap, Map!Spec

-----------------------------------------------------------------------------
(* Progress, as far as it is about single steps.                            *)

Holds(t) == t \in readers \/ t = writer

\* The lock lets thread t go on, or it needs none for its next step.
CanGo(t) ==
  \/ pc[t] \in {"in", "out"}
  \/ /\ pc[t] = "want" /\ writer = None
     /\ req[t].kind \in ReadKinds \/ (req[t].kind = "set" /\ readers = {})

\* Who cannot go on is kept waiting by a thread that can.
NoDeadlock ==
  \A t \in Threads :
    pc[t] # "idle" => CanGo(t) \/ \E u \in Threads \ {t} : Holds(u) /\ CanGo(u)

\* The steps of a call, in their order; add_opt has no lock to let go of.
Successors(stage) ==
  CASE stage = "want" -> {"in"} [] stage = "in" -> {"out", "idle"} [] OTHER -> {"idle"}

\* Nobody waits for a thread that waits itself: whoever holds rw_mutex is
\* inside the map or about to let go of it, never on its way to a second lock.
\* And a call goes through its steps in order, no other call taking it
\* back or changing what it asks for.
THEOREM LockNeverStuck ==
  Spec => /\ []NoDeadlock
          /\ [][\A t \in Threads : pc[t] # "idle" =>
                 \/ pc'[t] \in Successors(pc[t])
                 \/ pc'[t] = pc[t] /\ req'[t] = req[t]]_vars
<1>1. IInv => NoDeadlock
  <2> SUFFICES ASSUME IInv, NEW t \in Threads, pc[t] = "want", ~CanGo(t)
               PROVE  \E u \in Threads \ {t} : Holds(u) /\ CanGo(u)
    BY DEF NoDeadlock, CanGo, IInv, TypeOK
  <2>1. req[t].kind \in ReadKinds \cup {"set"}
    <3>1. req[t] # NoRequest /\ req[t] \in Requests
      BY DEF IInv, TypeOK, CallsAreOpen
    <3>2. req[t].kind # "add"
      BY DEF IInv, SetUpAlone
    <3> QED
      BY <3>1, <3>2 DEF Requests, ReadKinds
  <2>2. writer # None \/ readers # {}
    BY <2>1 DEF CanGo
  <2>3. ASSUME NEW u \in Threads, Holds(u)
        PROVE  u # t /\ CanGo(u)
    BY <2>3 DEF Holds, CanGo, IInv, LockDiscipline
  <2>4. \E u \in Threads : Holds(u)
    BY <2>2 DEF Holds, IInv, TypeOK
  <2> QED
    BY <2>3, <2>4
<1>2. ASSUME IInv, [Next]_vars, NEW t \in Threads, pc[t] # "idle"
      PROVE  pc'[t] \in Successors(pc[t]) \/ (pc'[t] = pc[t] /\ req'[t] = req[t])
  <2>0. pc \in [Threads -> {"idle", "want", "in", "out"}]
        /\ req \in [Threads -> Requests \cup {NoRequest}]
    BY <1>2 DEF IInv, TypeOK
  <2>1. ASSUME NEW u \in Threads, Client(u)
        PROVE  u # t /\ pc'[t] = pc[t] /\ req'[t] = req[t]
    BY <1>2, <2>0, <2>1 DEF Client, CallExist, CallGet, CallAll, CallSet, CallAdd, Issue
  <2>2. ASSUME NEW u \in Threads, Step(u)
        PROVE  pc'[t] \in Successors(pc[t]) \/ (pc'[t] = pc[t] /\ req'[t] = req[t])
    <3>1. CASE AcquireRead(u) \/ AcquireWrite(u)
      BY <1>2, <2>0, <3>1 DEF AcquireRead, AcquireWrite, Successors
    <3>2. CASE OptExist(u) \/ GetOpt(u) \/ GetOpts(u) \/ SetOpt(u)
      <4>1. pc[u] = "in" /\ Leave(u)
        BY <3>2 DEF OptExist, GetOpt, GetOpts, SetOpt, In
      <4> QED
        BY <1>2, <2>0, <4>1 DEF Leave, Successors
    <3>3. CASE AddOpt(u) \/ Release(u)
      BY <1>2, <2>0, <3>3 DEF AddOpt, In, Release, Successors
    <3> QED
      BY <2>2, <3>1, <3>2, <3>3 DEF Step
  <2>3. CASE Serve \/ UNCHANGED vars
    BY <2>3 DEF Serve, vars
  <2> QED
    BY <1>2, <2>1, <2>2, <2>3 DEF Next
<1>3. IInv /\ [Next]_vars =>
        [\A t \in Threads : pc[t] # "idle" =>
           \/ pc'[t] \in Successors(pc[t])
           \/ pc'[t] = pc[t] /\ req'[t] = req[t]]_vars
  BY <1>2
<1> QED
  BY <1>1, <1>3, Invariance, PTL DEF Spec
=============================================================================
