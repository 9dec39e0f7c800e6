----------------------- MODULE ServiceRegistry_proofs -----------------------
(***************************************************************************)
(* ConsulClient keeps its types and implements RemoteMap, and over it      *)
(* SettledHolds and LookupsAgree hold, for every set of threads, keys,     *)
(* values, services and descriptions and any number of requests under way. *)
(***************************************************************************)
EXTENDS ServiceRegistry, FiniteSetTheorems, TLAPS

-----------------------------------------------------------------------------
(* ConsulClient.                                                            *)

\* A thread has a request just while its call is open or answered, and its flag
\* stays lowered until the call returns; an answer says anything only if the
\* agent has done what it was asked.
IInv ==
  /\ TypeOK
  /\ \A t \in Threads :
       /\ stage[t] = "idle" <=> req[t] = NoRequest
       /\ stage[t] # "answered" => reply[t] = NoReply
       /\ ~reply[t].done => reply[t] = NoReply
       /\ stage[t] # "idle" => ~buf[t].success

\* A service is described by something printable, by what is no JSON or by
\* nothing; a configuration key is written, deleted or read; a report is read.
LEMMA RequestTypes ==
  ASSUME NEW r \in Requests
  PROVE  /\ r.key \in Keys
         /\ r.key \in Services => r.new \in Printable \cup {None, Garbled}
         /\ r.key \notin Services => r.new \in ConfigValues \cup {None, Keep}
         /\ r # NoRequest
<1>1. r # NoRequest
  BY ClientAssumption
<1>2. CASE r \in {register_service(id, d) : id \in Services, d \in Descriptions}
  BY <1>1, <1>2 DEF register_service, to_json, Keys
<1>3. CASE r \in {deregister_service(id) : id \in Services}
  BY <1>1, <1>3 DEF deregister_service, Keys
<1>4. CASE r \in {set_config_value(k, v) : k \in ConfigKeys, v \in ConfigValues}
  BY <1>1, <1>4, ClientAssumption DEF set_config_value, Keys
<1>5. CASE r \in {del_config_value(k) : k \in ConfigKeys}
  BY <1>1, <1>5, ClientAssumption DEF del_config_value, Keys
<1>6. CASE r \in {opt_exist(k) : k \in ConfigKeys} \cup {get_opt(k) : k \in ConfigKeys}
  BY <1>1, <1>6, ClientAssumption DEF opt_exist, get_opt, Keys
<1>7. CASE r \in {report(k) : k \in Reports}
  BY <1>1, <1>7, ClientAssumption DEF report, Keys
<1> QED
  BY <1>2, <1>3, <1>4, <1>5, <1>6, <1>7 DEF Requests

\* What the agent applies leaves a catalogue, and reads what it holds.
LEMMA ServedTypes ==
  ASSUME TypeOK, NEW r \in Requests, Applies(r)
  PROVE  /\ After(r) \in Catalogues
         /\ Read(r) \in Values \cup {None}
         /\ r.new # Keep => r.new \in Values \cup {None}
<1>1. /\ agent \in [Keys -> Values \cup {None}]
      /\ \A id \in Services : agent[id] \in Printable \cup {None}
      /\ \A k \in ConfigKeys \cup Reports : agent[k] \in ConfigValues \cup {None}
  BY DEF TypeOK, Catalogues
<1>2. r.new # Keep => /\ r.key \in Services => r.new \in Printable \cup {None}
                      /\ r.key \notin Services => r.new \in ConfigValues \cup {None}
                      /\ r.new \in Values \cup {None}
  BY RequestTypes, ClientAssumption DEF Applies, Values
<1>3. After(r) \in Catalogues
  <2>1. CASE r.new = Keep
    BY <2>1 DEF After, TypeOK
  <2>2. CASE r.new # Keep
    <3> DEFINE a == [agent EXCEPT ![r.key] = r.new]
    <3>1. a \in [Keys -> Values \cup {None}]
      BY <1>1, <1>2, <2>2
    <3>2. \A id \in Services : a[id] \in Printable \cup {None}
      BY <1>1, <1>2, <2>2 DEF Keys
    <3>3. \A k \in ConfigKeys \cup Reports : a[k] \in ConfigValues \cup {None}
      BY <1>1, <1>2, <2>2, ClientAssumption DEF Keys
    <3> QED
      BY <2>2, <3>1, <3>2, <3>3 DEF After, Catalogues
  <2> QED
    BY <2>1, <2>2
<1>4. Read(r) \in Values \cup {None}
  BY <1>1, RequestTypes DEF Read
<1> QED
  BY <1>2, <1>3, <1>4

LEMMA InitIInv == Init => IInv
BY DEF Init, IInv, TypeOK, NoReply

\* Returning from a call keeps the invariant, whatever is returned.
LEMMA ReturnKeeps ==
  ASSUME IInv, NEW t \in Threads, NEW success \in BOOLEAN,
         NEW val \in Values \cup {None}, Return(t, success, val)
  PROVE  /\ stage' \in [Threads -> {"idle", "open", "answered"}]
         /\ req' \in [Threads -> Requests \cup {NoRequest}]
         /\ reply' \in [Threads -> [ok : BOOLEAN, done : BOOLEAN, val : Values \cup {None}]]
         /\ buf' \in [Threads -> [success : BOOLEAN, val : Values \cup {None}]]
         /\ \A u \in Threads :
              /\ stage'[u] = "idle" <=> req'[u] = NoRequest
              /\ stage'[u] # "answered" => reply'[u] = NoReply
              /\ ~reply'[u].done => reply'[u] = NoReply
              /\ stage'[u] # "idle" => ~buf'[u].success
BY DEF IInv, TypeOK, Return, GoTo, NoReply

LEMMA NextIInv == IInv /\ [Next]_vars => IInv'
<1> SUFFICES ASSUME IInv, [Next]_vars
             PROVE  IInv'
  OBVIOUS
<1> USE DEF IInv
<1>1. ASSUME NEW t \in Threads, NEW r \in Requests, Call(t, r)
      PROVE  IInv'
  <2>1. buf' \in [Threads -> [success : BOOLEAN, val : Values \cup {None}]]
    BY <1>1 DEF Call, TypeOK
  <2>2. r # NoRequest
    BY <1>1, RequestTypes
  <2> QED
    BY <1>1, <2>1, <2>2 DEF Call, GoTo, TypeOK
<1>2. ASSUME NEW t \in Threads, Serve(t)
      PROVE  IInv'
  <2>1. req[t] \in Requests
    BY <1>2 DEF Serve, TypeOK
  <2>2. agent' \in Catalogues /\ Read(req[t]) \in Values \cup {None}
    BY <1>2, <2>1, ServedTypes DEF Serve
  <2>3. reply' \in [Threads -> [ok : BOOLEAN, done : BOOLEAN, val : Values \cup {None}]]
    BY <1>2, <2>2 DEF Serve, TypeOK
  <2>4. \A u \in Threads : u # t => reply'[u] = reply[u]
    BY <1>2 DEF Serve, TypeOK
  <2>5. reply'[t].done
    BY <1>2 DEF Serve, TypeOK
  <2> HIDE DEF NoReply
  <2> QED
    BY <1>2, <2>1, <2>2, <2>3, <2>4, <2>5 DEF Serve, GoTo, TypeOK
<1>3. ASSUME NEW t \in Threads, Refuse(t)
      PROVE  IInv'
  BY <1>3 DEF Refuse, GoTo, TypeOK
<1>4. ASSUME NEW t \in Threads, Receive(t)
      PROVE  IInv'
  <2>1. reply[t].ok \in BOOLEAN
        /\ (IF reply[t].ok THEN reply[t].val ELSE buf[t].val) \in Values \cup {None}
    BY <1>4 DEF TypeOK
  <2> QED
    BY <1>4, <2>1, ReturnKeeps DEF Receive, TypeOK
<1>5. ASSUME NEW t \in Threads, GiveUp(t)
      PROVE  IInv'
  <2>1. buf[t].val \in Values \cup {None}
    BY <1>5 DEF TypeOK
  <2>2. late' \in [Slots -> Requests \cup {NoRequest}]
    BY <1>5 DEF GiveUp, TypeOK
  <2> QED
    BY <1>5, <2>1, <2>2, ReturnKeeps DEF GiveUp, TypeOK
<1>6. ASSUME NEW s \in Slots, ServeLate(s)
      PROVE  IInv'
  <2>1. late[s] \in Requests
    BY <1>6 DEF ServeLate, TypeOK
  <2> QED
    BY <1>6, <2>1, ServedTypes DEF ServeLate, TypeOK
<1>7. ASSUME NEW s \in Slots, LoseLate(s)
      PROVE  IInv'
  BY <1>7 DEF LoseLate, TypeOK
<1>8. CASE UNCHANGED vars
  BY <1>8 DEF vars, TypeOK
<1> QED
  BY <1>1, <1>2, <1>3, <1>4, <1>5, <1>6, <1>7, <1>8 DEF Next, Step

THEOREM Invariance == Spec => []IInv
BY InitIInv, NextIInv, PTL DEF Spec

-----------------------------------------------------------------------------
(* The refinement: what the agent does is the effect, a refusal changes     *)
(* nothing a caller can see.                                                *)

LEMMA InitRefines == Init => Remote!Init
BY DEF Init, Catalogues, Remote!Init, NoReply

\* The agent applies a request just when the map does, with the same effect.
LEMMA SameEffect ==
  ASSUME TypeOK, NEW r \in Requests
  PROVE  /\ Applies(r) => Remote!Applies(agent, r)
         /\ After(r) = Remote!After(agent, r)
BY ServedTypes DEF Applies, After, Remote!Applies, Remote!After

LEMMA StepRefines == IInv /\ [Next]_vars => [Remote!Next]_(Remote!vars)
<1> SUFFICES ASSUME IInv, [Next]_vars
             PROVE  Remote!Next \/ UNCHANGED Remote!vars
  OBVIOUS
<1> DEFINE took == [t \in Threads |-> reply[t].done]
           saw == [t \in Threads |-> reply[t].val]
<1> USE DEF IInv
<1>1. ASSUME NEW t \in Threads, NEW r \in Requests, Call(t, r)
      PROVE  Remote!Start(t, r)
  BY <1>1 DEF Call, TypeOK, Remote!Start
<1>2. ASSUME NEW t \in Threads, Serve(t)
      PROVE  Remote!TakeEffect(t)
  <2>1. req[t] \in Requests /\ req[t] # NoRequest
    BY <1>2, RequestTypes DEF Serve, TypeOK
  <2>2. ~reply[t].done
    BY <1>2 DEF Serve, NoReply
  <2>3. Remote!Applies(agent, req[t]) /\ agent' = Remote!After(agent, req[t])
    BY <1>2, <2>1, SameEffect DEF Serve
  <2>4. PICK ok \in BOOLEAN :
          reply' = [reply EXCEPT ![t] = [ok |-> ok, done |-> TRUE, val |-> Read(req[t])]]
    BY <1>2 DEF Serve
  <2>5. took' = [took EXCEPT ![t] = TRUE]
    BY <2>4 DEF TypeOK
  <2>6. saw' = [saw EXCEPT ![t] = Read(req[t])]
    BY <2>4 DEF TypeOK
  <2>7. UNCHANGED <<req, buf, late>>
    BY <1>2 DEF Serve
  <2> QED
    BY <2>1, <2>2, <2>3, <2>5, <2>6, <2>7 DEF Remote!TakeEffect, Read
<1>3. ASSUME NEW t \in Threads, Refuse(t)
      PROVE  UNCHANGED Remote!vars
  BY <1>3 DEF Refuse, Remote!vars
<1>4. ASSUME NEW t \in Threads, NEW success \in BOOLEAN, NEW val,
             Return(t, success, val), UNCHANGED agent
      PROVE  Remote!End(t)
  <2>1. reply' = [reply EXCEPT ![t] = NoReply]
    BY <1>4 DEF Return
  <2>2. took' = [took EXCEPT ![t] = FALSE]
    BY <2>1 DEF TypeOK, NoReply
  <2>3. saw' = [saw EXCEPT ![t] = None]
    BY <2>1 DEF TypeOK, NoReply
  <2> QED
    BY <1>4, <2>2, <2>3 DEF Return, Remote!End
<1>5. ASSUME NEW t \in Threads, Receive(t)
      PROVE  Remote!Succeed(t) \/ Remote!Fail(t)
  <2>1. req[t] # NoRequest
    BY <1>5 DEF Receive
  <2>2. Remote!End(t)
    BY <1>4, <1>5 DEF Receive, TypeOK
  <2>3. CASE reply[t].ok
    <3>1. reply[t].done
      BY <2>3 DEF NoReply
    <3>2. buf' = [buf EXCEPT ![t] = [success |-> TRUE, val |-> reply[t].val]]
      BY <1>5, <2>3 DEF Receive, Return
    <3> QED
      BY <1>5, <2>1, <2>2, <3>1, <3>2 DEF Receive, Remote!Succeed
  <2>4. CASE ~reply[t].ok
    <3>1. buf' = buf
      BY <1>5, <2>4 DEF Receive, Return, TypeOK
    <3> QED
      BY <1>5, <2>1, <2>2, <3>1 DEF Receive, Remote!Fail
  <2> QED
    BY <2>3, <2>4
<1>6. ASSUME NEW t \in Threads, GiveUp(t)
      PROVE  Remote!Fail(t)
  <2>1. req[t] # NoRequest
    BY <1>6 DEF GiveUp
  <2>2. Remote!End(t)
    BY <1>4, <1>6 DEF GiveUp
  <2>3. stage[t] = "open" => ~reply[t].done
    BY DEF NoReply
  <2>4. buf' = buf
    BY <1>6 DEF GiveUp, Return, TypeOK
  <2> QED
    BY <1>6, <2>1, <2>2, <2>3, <2>4 DEF GiveUp, Remote!Fail
<1>7. ASSUME NEW s \in Slots, ServeLate(s)
      PROVE  Remote!TakeEffectLate(s)
  <2>1. late[s] \in Requests
    BY <1>7 DEF ServeLate, TypeOK
  <2> QED
    BY <1>7, <2>1, SameEffect DEF ServeLate, Remote!TakeEffectLate
<1>8. ASSUME NEW s \in Slots, LoseLate(s)
      PROVE  Remote!Vanish(s)
  BY <1>8 DEF LoseLate, Remote!Vanish
<1>9. CASE UNCHANGED vars
  BY <1>9 DEF vars, Remote!vars
<1> QED
  BY <1>1, <1>2, <1>3, <1>5, <1>6, <1>7, <1>8, <1>9 DEF Next, Step, Remote!Next

\* A call that returns true has taken effect once, between its start and its
\* end, and returns what the agent held then; one that returns false has taken
\* effect at most once, and may still do so.
THEOREM Refinement == Spec => RemoteCalls
<1>1. Init => Remote!Init
  BY InitRefines
<1>2. IInv /\ [Next]_vars => [Remote!Next]_(Remote!vars)
  BY StepRefines
<1> QED
  BY <1>1, <1>2, Invariance, PTL DEF Spec, RemoteCalls, Remote!Spec

-----------------------------------------------------------------------------
(* The registry.                                                            *)

\* What is settled is what the agent holds and nobody tries to change it; a
\* call that has been alone with its key still is, and what it has done is
\* still so.
SInv ==
  /\ IInv
  /\ alone \in SUBSET Threads
  /\ settled \in [Services -> Printable \cup {None, Unsure}]
  /\ \A id \in Services :
       settled[id] # Unsure => agent[id] = settled[id] /\ ~InDoubt(id)
  /\ \A t \in alone :
       /\ req[t] # NoRequest /\ ~Contested(t)
       /\ reply[t].done /\ req[t].new # Keep => agent[req[t].key] = req[t].new

-----------------------------------------------------------------------------
LEMMA InitSInv == RegistryInit => SInv
<1> SUFFICES ASSUME RegistryInit PROVE SInv
  OBVIOUS
<1>1. Init /\ IInv
  BY InitIInv DEF RegistryInit
<1>2. settled \in [Services -> Printable \cup {None, Unsure}] /\ alone = {}
  BY <1>1 DEF RegistryInit, Init, Catalogues
<1>3. \A id \in Services : agent[id] = settled[id] /\ ~InDoubt(id)
  BY <1>1 DEF RegistryInit, Init, InDoubt, Stray, Rival
<1> QED
  BY <1>1, <1>2, <1>3 DEF SInv

\* Only a call under way, or one given up, changes what the agent holds.
LEMMA AgentSteps ==
  ASSUME IInv, Next, NEW k \in Keys, agent'[k] # agent[k]
  PROVE  \/ \E t \in Threads : Serve(t) /\ Rival(t, k)
         \/ \E s \in Slots : ServeLate(s) /\ late[s].key = k
<1>1. \A r : After(r)[k] # agent[k] => r.key = k
  BY DEF IInv, TypeOK, Catalogues, After
<1>2. ASSUME NEW t \in Threads, Serve(t)
      PROVE  Rival(t, k)
  <2>1. req[t] # NoRequest
    BY <1>2 DEF Serve, IInv
  <2> QED
    BY <1>1, <1>2, <2>1 DEF Serve, Rival
<1>3. ASSUME NEW s \in Slots, ServeLate(s)
      PROVE  late[s].key = k
  BY <1>1, <1>3 DEF ServeLate
<1> QED
  BY <1>2, <1>3 DEF Next, Step, Call, Refuse, Receive, GiveUp, LoseLate

\* A step takes a thread's request up or lets go of it, and otherwise leaves
\* it; its answer changes only when it is served or returns.
LEMMA RequestSteps ==
  ASSUME IInv, Next, NEW t \in Threads
  PROVE  /\ req[t] = NoRequest /\ req'[t] # NoRequest => reply'[t] = NoReply
         /\ req[t] # NoRequest /\ req'[t] # NoRequest =>
              req'[t] = req[t] /\ (Serve(t) \/ reply'[t] = reply[t])
         /\ req[t] # NoRequest /\ req'[t] = NoRequest => Receive(t) \/ GiveUp(t)
<1> USE DEF IInv, TypeOK
<1>1. ASSUME NEW u \in Threads, NEW r \in Requests, Call(u, r)
      PROVE  /\ reply' = reply /\ stage[u] = "idle" /\ req[u] = NoRequest
             /\ u # t => req'[t] = req[t]
  BY <1>1 DEF Call
<1>2. ASSUME NEW u \in Threads, Serve(u)
      PROVE  req' = req /\ (u # t => reply'[t] = reply[t])
  BY <1>2 DEF Serve
<1>3. ASSUME NEW u \in Threads, Refuse(u)
      PROVE  req' = req /\ reply' = reply
  BY <1>3 DEF Refuse
<1>4. ASSUME NEW u \in Threads, Receive(u) \/ GiveUp(u)
      PROVE  req'[u] = NoRequest /\ (u # t => req'[t] = req[t] /\ reply'[t] = reply[t])
  BY <1>4 DEF Receive, GiveUp, Return
<1>5. ASSUME NEW s \in Slots, ServeLate(s) \/ LoseLate(s)
      PROVE  req' = req /\ reply' = reply
  BY <1>5 DEF ServeLate, LoseLate
<1>6. req[t] = NoRequest => reply[t] = NoReply
  OBVIOUS
<1> QED
  BY <1>1, <1>2, <1>3, <1>4, <1>5, <1>6 DEF Next, Step

\* A call that was alone and has done what it was asked has it in the agent.
LEMMA AloneDone ==
  ASSUME SInv, Next, NEW t \in Threads, t \in alone \/ req[t] = NoRequest,
         req'[t] # NoRequest, reply'[t].done, req'[t].new # Keep
  PROVE  agent'[req'[t].key] = req'[t].new
<1>1. req[t] # NoRequest
  BY RequestSteps DEF SInv, NoReply
<1>2. /\ req'[t] = req[t] /\ (Serve(t) \/ reply'[t] = reply[t])
      /\ t \in alone /\ ~Contested(t) /\ req[t] \in Requests
  BY <1>1, RequestSteps DEF SInv, IInv, TypeOK
<1>3. req[t].key \in Keys
  BY <1>2, RequestTypes
<1>4. CASE Serve(t)
  BY <1>2, <1>3, <1>4 DEF Serve, After, SInv, IInv, TypeOK, Catalogues
<1>5. CASE ~Serve(t)
  <2>1. agent'[req[t].key] = agent[req[t].key]
    <3>1. \A s \in Slots : ServeLate(s) => late[s].key # req[t].key
      BY <1>2 DEF Contested, Stray, ServeLate
    <3>2. \A u \in Threads : Serve(u) => ~Rival(u, req[t].key)
      BY <1>2, <1>5 DEF Contested
    <3> QED
      BY <1>3, <3>1, <3>2, AgentSteps DEF SInv
  <2> QED
    BY <1>2, <1>5, <2>1 DEF SInv
<1> QED
  BY <1>4, <1>5

\* A call that settles its service has just returned, and the agent holds what
\* it said.
LEMMA SaidHolds ==
  ASSUME SInv, Next, NEW id \in Services, NEW v \in Said(id)
  PROVE  agent'[id] = v /\ v \in Printable \cup {None}
<1>1. PICK t \in alone : /\ Rival(t, id) /\ req'[t] = NoRequest
                         /\ buf'[t].success /\ v = req[t].new
  BY DEF Said
<1>2. t \in Threads /\ req[t] \in Requests
  BY <1>1 DEF SInv, IInv, TypeOK, Rival
<1>3. Receive(t) \/ GiveUp(t)
  BY <1>1, <1>2, RequestSteps DEF Rival, SInv
<1>4. Receive(t) /\ reply[t].ok /\ agent' = agent
  BY <1>1, <1>2, <1>3 DEF Receive, GiveUp, Return, SInv, IInv, TypeOK
<1>5. reply[t].done
  BY <1>2, <1>4 DEF SInv, IInv, NoReply
<1>6. req[t].key = id /\ req[t].new \in Printable \cup {None, Garbled} /\ id \in Keys
  BY <1>1, <1>2, RequestTypes DEF Rival, Keys
<1>7. req[t].new # Keep
  BY <1>6, ClientAssumption DEF Values
<1>8. agent[id] = v
  BY <1>1, <1>5, <1>6, <1>7 DEF SInv
<1>9. agent[id] \in Printable \cup {None}
  BY DEF SInv, IInv, TypeOK, Catalogues
<1> QED
  BY <1>4, <1>8, <1>9

LEMMA ClientStepSInv == ASSUME SInv, Next, Settle PROVE SInv'
<1>1. IInv'
  BY NextIInv DEF SInv
<1>2. alone' \in SUBSET Threads
  BY DEF Settle
<1>3. ASSUME NEW id \in Services
      PROVE  /\ settled'[id] \in Printable \cup {None, Unsure}
             /\ settled'[id] # Unsure => agent'[id] = settled'[id] /\ ~InDoubt(id)'
  <2>1. CASE InDoubt(id)'
    BY <2>1 DEF Settle
  <2>2. CASE ~InDoubt(id)' /\ Said(id) = {}
    <3>1. settled'[id] = settled[id]
      BY <2>2 DEF Settle
    <3>2. settled[id] # Unsure => agent'[id] = agent[id]
      <4>1. SUFFICES ASSUME settled[id] # Unsure, agent'[id] # agent[id]
                     PROVE  FALSE
        OBVIOUS
      <4>2. InDoubt(id)
        BY <4>1, AgentSteps DEF SInv, Keys, InDoubt, Stray, ServeLate
      <4> QED
        BY <4>1, <4>2 DEF SInv
    <3> QED
      BY <2>2, <3>1, <3>2 DEF SInv
  <2>3. CASE ~InDoubt(id)' /\ Said(id) # {}
    <3>1. settled'[id] \in Said(id)
      BY <2>3 DEF Settle
    <3> QED
      BY <2>3, <3>1, SaidHolds
  <2> QED
    BY <2>1, <2>2, <2>3
<1>4. settled' \in [Services -> Printable \cup {None, Unsure}]
  BY <1>3 DEF Settle
<1>5. ASSUME NEW t \in alone'
      PROVE  /\ req'[t] # NoRequest /\ ~Contested(t)'
             /\ reply'[t].done /\ req'[t].new # Keep => agent'[req'[t].key] = req'[t].new
  BY <1>5, AloneDone DEF Settle
<1> QED
  BY <1>1, <1>2, <1>3, <1>4, <1>5 DEF SInv

LEMMA NextSInv ==
  SInv /\ [RegistryNext]_<<vars, lookup, alone, settled, sure>> => SInv'
<1>1. ASSUME SInv, UNCHANGED <<vars, alone, settled>> PROVE SInv'
  <2>1. IInv'
    BY <1>1, NextIInv DEF SInv
  <2> QED
    BY <1>1, <2>1 DEF SInv, vars, InDoubt, Stray, Rival, Contested
<1> QED
  BY <1>1, ClientStepSInv DEF RegistryNext

\* After a call that was alone with its service has returned true, the agent
\* holds what it said until somebody tries something else with that service.
THEOREM Settled == RegistrySpec => []SettledHolds
<1>1. SInv => SettledHolds
  BY DEF SInv, SettledHolds
<1> QED
  BY <1>1, InitSInv, NextSInv, PTL DEF RegistrySpec

-----------------------------------------------------------------------------
(* The lookers.  ServiceDiscovery's own invariant holds here too, its steps *)
(* being among ServiceDiscovery's; what is new is that a list agrees with   *)
(* what was sure when it was fetched.                                       *)

Discovery == INSTANCE ServiceDiscovery_proofs WITH
  Threads <- Lookers, Offers <- Matched, Fatal <- Complete, Docs <- AllListings

\* The agent holds finitely many services, so that it can list them.
LEMMA ListingsFinite ==
  ASSUME NEW a \in Catalogues
  PROVE  IsFiniteSet(InstancesOf(a))
<1> DEFINE Pair == [id \in Services |-> <<id, a[id]>>]
           Pairs == {<<id, a[id]>> : id \in Services}
<1>1. Pair \in Surjection(Services, Pairs)
  BY DEF Surjection
<1>2. IsFiniteSet(Pairs)
  BY <1>1, RegistryAssumption, FS_Surjection
<1>3. InstancesOf(a) \in SUBSET Pairs
  BY DEF InstancesOf, Instances
<1> QED
  BY <1>2, <1>3, FS_Subset

\* What ServiceDiscovery assumes of its constants holds of what Lookup gives.
LEMMA DiscoveryAssumed ==
  /\ Matched \in [Instances -> SUBSET Queries]
  /\ Complete \in [Instances -> SUBSET Queries]
  /\ AllListings \subseteq Seq(Instances)
<1>1. Matched \in [Instances -> SUBSET Queries]
  BY RegistryAssumption, ClientAssumption DEF Matched, Instances
<1>3. Complete \in [Instances -> SUBSET Queries]
  BY DEF Complete
<1>2. ASSUME NEW a \in Catalogues, NEW d \in Listings(a)
      PROVE  d \in Seq(Instances)
  <2>1. Cardinality(InstancesOf(a)) \in Nat
    BY ListingsFinite, FS_CardinalityType
  <2>2. InstancesOf(a) \subseteq Instances
    BY DEF InstancesOf
  <2> QED
    BY <2>1, <2>2 DEF Listings
<1> QED
  BY <1>1, <1>2, <1>3 DEF AllListings

LEMMA InitDiscovery == RegistryInit => Discovery!DInv
BY DiscoveryAssumed, Discovery!InitDInv
   DEF RegistryInit, Lookup!Init, Discovery!Init, Lookup!NoResult, Discovery!NoResult

LEMMA StepDiscovery ==
  ASSUME Discovery!DInv, NEW t \in Lookers, Look(t)
  PROVE  Discovery!DInv'
<1>1. Discovery!GetService(t) \/ Discovery!Step(t)
  BY DEF Look, Fetch, Discovery!Step,
         Lookup!GetService, Discovery!GetService, Lookup!FetchServices, Discovery!FetchServices,
         Lookup!Visit, Discovery!Visit, Lookup!Stop, Discovery!Stop,
         Lookup!Break, Discovery!Break, Lookup!EndOfList, Discovery!EndOfList,
         Lookup!GoTo, Discovery!GoTo, Lookup!Return, Discovery!Return,
         Lookup!NextInLine, Discovery!NextInLine, Lookup!Matches, Discovery!Matches,
         Lookup!Reading, Discovery!Reading, Lookup!Readable, Discovery!Readable,
         Lookup!Entry, Discovery!Entry,
         Lookup!Unparsed, Discovery!Unparsed, Lookup!Empty, Discovery!Empty,
         Lookup!Missing, Discovery!Missing
<1> QED
  BY <1>1, DiscoveryAssumed, Discovery!StepDInv

LEMMA StutterDiscovery == Discovery!DInv /\ UNCHANGED lookup => Discovery!DInv'
BY DiscoveryAssumed, Discovery!NextDInv DEF lookup, Discovery!vars

\* A list agrees with what is sure of a service: it names it as it is
\* described, or not at all if it is gone.
DocAgrees(t) ==
  \A id \in Services :
    sure[t][id] # Unsure =>
      /\ \A n \in DOMAIN doc[t] : doc[t][n][1] = id => doc[t][n][2] = sure[t][id]
      /\ sure[t][id] \in Printable => \E n \in DOMAIN doc[t] : doc[t][n] = <<id, sure[t][id]>>

\* While a call goes on, what is sure is settled; its list agrees with it as
\* long as the list is looked at, and so does the answer it gave.
LInv ==
  /\ SInv
  /\ Discovery!DInv
  /\ sure \in [Lookers -> [Services -> Printable \cup {None, Unsure}]]
  /\ \A t \in Lookers :
       /\ pc[t] # "idle" => \A id \in Services : sure[t][id] \in {settled[id], Unsure}
       /\ \/ pc[t] \in {"loop", "break"}
          \/ pc[t] = "idle" /\ result[t] \in Nat \cup {Lookup!Missing}
          => DocAgrees(t)

LEMMA InitLInv == RegistryInit => LInv
<1> SUFFICES ASSUME RegistryInit PROVE LInv
  OBVIOUS
<1>1. SInv /\ Discovery!DInv
  BY InitSInv, InitDiscovery
<1>2. sure = [t \in Lookers |-> settled]
  BY DEF RegistryInit
<1>3. \A t \in Lookers : pc[t] = "idle" /\ result[t] \notin Nat \cup {Lookup!Missing}
  BY DEF RegistryInit, Lookup!Init, Lookup!NoResult, Lookup!Missing
<1> QED
  BY <1>1, <1>2, <1>3 DEF LInv, SInv

LEMMA WatchTypes ==
  ASSUME LInv, SInv', Watch
  PROVE  sure' \in [Lookers -> [Services -> Printable \cup {None, Unsure}]]
<1>1. settled' \in [Services -> Printable \cup {None, Unsure}]
  BY DEF SInv
<1> QED
  BY <1>1 DEF Watch, LInv

\* What a looker is sure of keeps being settled, and can only be lost.
LEMMA WatchKeeps ==
  ASSUME LInv, SInv', Watch, NEW t \in Lookers
  PROVE  /\ pc'[t] # "idle" => \A id \in Services : sure'[t][id] \in {settled'[id], Unsure}
         /\ pc[t] # "idle" => \A id \in Services : sure'[t][id] \in {sure[t][id], Unsure}
         /\ pc[t] = "idle" /\ pc'[t] = "idle" => sure'[t] = sure[t]
BY WatchTypes DEF Watch, LInv

\* A list keeps agreeing while it is the same, since what is sure can only be
\* lost.
LEMMA AgreementKept ==
  ASSUME LInv, SInv', Watch, NEW t \in Lookers, DocAgrees(t), doc'[t] = doc[t],
         pc[t] # "idle" \/ pc'[t] = "idle"
  PROVE  DocAgrees(t)'
<1>1. \A id \in Services : sure'[t][id] \in {sure[t][id], Unsure}
  BY WatchKeeps
<1> QED
  BY <1>1 DEF DocAgrees

\* A list agrees with what is sure when it is fetched: the agent holds what is
\* settled.
LEMMA FetchedAgrees ==
  ASSUME LInv, SInv', Watch, NEW t \in Lookers, Fetch(t), pc'[t] = "loop",
         UNCHANGED <<vars, settled>>
  PROVE  DocAgrees(t)'
<1> SUFFICES ASSUME NEW id \in Services, sure'[t][id] # Unsure
             PROVE  /\ \A n \in DOMAIN doc'[t] : doc'[t][n][1] = id => doc'[t][n][2] = sure'[t][id]
                    /\ sure'[t][id] \in Printable =>
                         \E n \in DOMAIN doc'[t] : doc'[t][n] = <<id, sure'[t][id]>>
  BY DEF DocAgrees
<1>1. agent[id] = sure'[t][id]
  BY WatchKeeps DEF SInv, vars
<1>2. /\ DOMAIN doc'[t] = 1..Cardinality(InstancesOf(agent))
      /\ \A n \in DOMAIN doc'[t] : doc'[t][n] \in InstancesOf(agent)
      /\ \A i \in InstancesOf(agent) : \E n \in DOMAIN doc'[t] : doc'[t][n] = i
  BY DEF Fetch, Listings
<1>3. \A i \in InstancesOf(agent) : agent[i[1]] = i[2]
  BY DEF InstancesOf
<1>4. sure'[t][id] \in Printable => <<id, sure'[t][id]>> \in InstancesOf(agent)
  BY <1>1 DEF InstancesOf, Instances
<1> QED
  BY <1>1, <1>2, <1>3, <1>4

\* A looker looks at the list it has just fetched, or still at the same.
LEMMA LookSteps ==
  ASSUME LInv, NEW t \in Lookers, Look(t)
  PROVE  /\ \A u \in Lookers \ {t} :
              pc'[u] = pc[u] /\ doc'[u] = doc[u] /\ result'[u] = result[u]
         /\ \/ pc'[t] \in {"loop", "break"}
            \/ pc'[t] = "idle" /\ result'[t] \in Nat \cup {Lookup!Missing}
            => \/ Fetch(t) /\ pc'[t] = "loop"
               \/ pc[t] \in {"loop", "break"} /\ doc'[t] = doc[t]
<1> USE DEF Lookup!GoTo, Lookup!Return
<1>1. /\ pc \in [Lookers -> {"idle", "fetch", "loop", "break", "dead"}]
      /\ DOMAIN doc = Lookers /\ DOMAIN result = Lookers
  BY DEF LInv, Discovery!DInv, Discovery!TypeOK
<1>2. CASE Lookup!GetService(t)
  BY <1>1, <1>2 DEF Lookup!GetService
<1>3. CASE Fetch(t)
  BY <1>1, <1>3 DEF Fetch, Lookup!FetchServices, Lookup!Unparsed, Lookup!Empty, Lookup!Missing
<1>4. CASE Lookup!Visit(t) \/ Lookup!Stop(t)
  BY <1>1, <1>4 DEF Lookup!Visit, Lookup!Reading, Lookup!Stop
<1>5. CASE Lookup!Break(t) \/ Lookup!EndOfList(t)
  BY <1>1, <1>5 DEF Lookup!Break, Lookup!EndOfList
<1> QED
  BY <1>2, <1>3, <1>4, <1>5 DEF Look

LEMMA LookLInv ==
  ASSUME LInv, NEW t \in Lookers, Look(t), UNCHANGED <<vars, alone, settled>>, Watch
  PROVE  LInv'
<1>1. SInv'
  <2>1. SInv /\ RegistryNext
    BY DEF LInv, RegistryNext
  <2> QED
    BY <2>1, NextSInv
<1>2. Discovery!DInv'
  BY StepDiscovery DEF LInv
<1>3. ASSUME NEW u \in Lookers,
             \/ pc'[u] \in {"loop", "break"}
             \/ pc'[u] = "idle" /\ result'[u] \in Nat \cup {Lookup!Missing}
      PROVE  DocAgrees(u)'
  <2>1. CASE u # t
    <3>1. pc'[u] = pc[u] /\ doc'[u] = doc[u] /\ result'[u] = result[u]
      BY <2>1, LookSteps
    <3>2. DocAgrees(u)
      BY <1>3, <3>1 DEF LInv
    <3> QED
      BY <1>1, <1>3, <3>1, <3>2, AgreementKept
  <2>2. CASE u = t /\ Fetch(t) /\ pc'[t] = "loop"
    BY <1>1, <2>2, FetchedAgrees
  <2>3. CASE u = t /\ pc[t] \in {"loop", "break"} /\ doc'[t] = doc[t]
    <3>1. DocAgrees(t)
      BY <2>3 DEF LInv
    <3> QED
      BY <1>1, <2>3, <3>1, AgreementKept
  <2> QED
    BY <1>3, <2>1, <2>2, <2>3, LookSteps
<1> QED
  BY <1>1, <1>2, <1>3, WatchTypes, WatchKeeps DEF LInv

LEMMA ClientLInv == ASSUME LInv, Next, UNCHANGED lookup, Settle, Watch PROVE LInv'
<1>1. SInv'
  BY ClientStepSInv DEF LInv
<1>2. Discovery!DInv'
  BY StutterDiscovery DEF LInv
<1>3. ASSUME NEW t \in Lookers,
             \/ pc'[t] \in {"loop", "break"}
             \/ pc'[t] = "idle" /\ result'[t] \in Nat \cup {Lookup!Missing}
      PROVE  DocAgrees(t)'
  <2>1. pc' = pc /\ doc' = doc /\ result' = result
    BY DEF lookup
  <2>2. DocAgrees(t)
    BY <1>3, <2>1 DEF LInv
  <2> QED
    BY <1>1, <1>3, <2>1, <2>2, AgreementKept
<1> QED
  BY <1>1, <1>2, <1>3, WatchTypes, WatchKeeps DEF LInv

LEMMA NextLInv ==
  LInv /\ [RegistryNext]_<<vars, lookup, alone, settled, sure>> => LInv'
<1>1. ASSUME LInv, UNCHANGED <<vars, lookup, alone, settled, sure>> PROVE LInv'
  <2>1. SInv' /\ Discovery!DInv'
    BY <1>1, NextSInv, StutterDiscovery DEF LInv
  <2> QED
    BY <1>1, <2>1 DEF LInv, lookup, DocAgrees
<1> QED
  BY <1>1, LookLInv, ClientLInv DEF RegistryNext

\* The end of a call: its answer is of a list that agrees with what is sure.
LEMMA AnswersAgree == LInv => LookupsAgree
<1> SUFFICES ASSUME LInv, NEW t \in Lookers, pc[t] = "idle",
                    result[t] \in Nat \cup {Lookup!Missing}
             PROVE  /\ result[t] \in Nat =>
                         LET i == doc[t][result[t] + 1] IN sure[t][i[1]] \in {i[2], Unsure}
                    /\ result[t] = Lookup!Missing =>
                         \A id \in Services :
                           sure[t][id] \in Printable => query[t] \notin Meets[sure[t][id]]
  BY DEF LookupsAgree
<1>0. Discovery!TypeOK /\ Discovery!AnswersMatch
  BY DEF LInv, Discovery!DInv
<1>1. DocAgrees(t) /\ doc[t] \in Seq(Instances)
  <2>1. DocAgrees(t)
    BY DEF LInv
  <2>2. doc[t] \in AllListings \cup {<<>>} /\ <<>> \in Seq(Instances)
    BY <1>0 DEF Discovery!TypeOK
  <2> QED
    BY <2>1, <2>2, DiscoveryAssumed
<1>2. LET m == Discovery!Matches(doc[t], query[t])
      IN  result[t] \in IF m = {} THEN {Lookup!Missing} ELSE m
  <2>1. Lookup!Missing = Discovery!Missing
    BY DEF Lookup!Missing, Discovery!Missing
  <2>2. result[t] \notin {Discovery!NoResult, Discovery!Unparsed, Discovery!Empty}
    BY DEF Lookup!Missing, Discovery!NoResult, Discovery!Unparsed, Discovery!Empty
  <2> QED
    BY <1>0, <2>1, <2>2 DEF Discovery!AnswersMatch
<1>3. CASE result[t] \in Nat
  <2>1. result[t] + 1 \in DOMAIN doc[t]
    BY <1>1, <1>2, <1>3 DEF Lookup!Missing, Discovery!Matches
  <2>2. doc[t][result[t] + 1][1] \in Services
    BY <1>1, <2>1 DEF Instances
  <2> QED
    BY <1>1, <1>3, <2>1, <2>2 DEF DocAgrees, Lookup!Missing
<1>4. CASE result[t] = Lookup!Missing
  <2> SUFFICES ASSUME NEW id \in Services, sure[t][id] \in Printable
               PROVE  query[t] \notin Meets[sure[t][id]]
    BY <1>4 DEF Lookup!Missing
  <2>1. PICK n \in DOMAIN doc[t] : doc[t][n] = <<id, sure[t][id]>>
    BY <1>1, ClientAssumption, RegistryAssumption DEF DocAgrees, Values
  <2>2. n - 1 \notin Discovery!Matches(doc[t], query[t])
    BY <1>2, <1>4 DEF Lookup!Missing, Discovery!Matches
  <2>3. n - 1 \in 0..(Len(doc[t]) - 1) /\ (n - 1) + 1 = n
    BY <1>1
  <2>4. Matched[doc[t][n]] = Meets[sure[t][id]]
    BY <2>1, <1>1 DEF Matched, Instances
  <2> QED
    BY <2>2, <2>3, <2>4 DEF Discovery!Matches
<1> QED
  BY <1>3, <1>4

THEOREM RegistryInvariance == RegistrySpec => []LInv
BY InitLInv, NextLInv, PTL DEF RegistrySpec

\* Every variable keeps its type, the history included.
THEOREM RegistryTypes == RegistrySpec => []RegistryTypeOK
<1>1. Discovery!TypeOK => Lookup!TypeOK
  BY DEF Lookup!TypeOK, Discovery!TypeOK, Lookup!Matches, Discovery!Matches,
         Lookup!NoResult, Discovery!NoResult, Lookup!Unparsed, Discovery!Unparsed,
         Lookup!Missing, Discovery!Missing, Lookup!Empty, Discovery!Empty
<1>2. LInv => RegistryTypeOK
  BY <1>1 DEF LInv, SInv, IInv, Discovery!DInv, RegistryTypeOK
<1> QED
  BY <1>2, RegistryInvariance, PTL

\* A lookup never returns a service that was known to be gone all through the
\* call, and does not miss one that was known to be there and to match.
THEOREM LookupsAreRight == RegistrySpec => []LookupsAgree
BY RegistryInvariance, AnswersAgree, PTL

-----------------------------------------------------------------------------
(* The two components in the composition.                                   *)

\* Beside look-ups too, a call of the client that returns true has taken effect
\* once, between its start and its end.
THEOREM RegistryRefinement == RegistrySpec => RemoteCalls
<1>1. RegistryInit => Remote!Init
  BY InitRefines DEF RegistryInit
<1>2. LInv => IInv
  BY DEF LInv, SInv
<1>3. [RegistryNext]_<<vars, lookup, alone, settled, sure>> => [Next]_vars
  BY DEF RegistryNext, vars
<1> QED
  BY <1>1, <1>2, <1>3, StepRefines, RegistryInvariance, PTL DEF RegistrySpec, RemoteCalls, Remote!Spec
=============================================================================
