--------------------------- MODULE ServiceRegistry ---------------------------
(***************************************************************************)
(* ConsulClient and ServiceDiscovery at one agent: some threads register   *)
(* and deregister services through ConsulAdmin, others look them up        *)
(* through NetworkApplicationProfile, which lists the agent's services.    *)
(***************************************************************************)
EXTENDS ConsulClient, Integers, Sequences, FiniteSets

CONSTANTS
  Lookers,  \* the threads that look services up
  Queries,  \* the names, or names with metadata, they look for
  Meets,    \* the queries that a description meets
  Unsure    \* nobody can know what the agent holds

Instances == Services \X Printable

InstancesOf(a) == {i \in Instances : a[i[1]] = i[2]}

\* The agent lists all of them, in any order.
Listings(a) ==
  LET all == InstancesOf(a)
  IN  {d \in [1..Cardinality(all) -> all] : \A i \in all : \E n \in DOMAIN d : d[n] = i}

AllListings == UNION {Listings(a) : a \in Catalogues}

Matched == [i \in Instances |-> Meets[i[2]]]

\* What it lists of them is complete: no entry that reading fails on.
Complete == [i \in Instances |-> {}]

ASSUME RegistryAssumption ==
  /\ IsFiniteSet(Services)
  /\ Meets \in [Descriptions -> SUBSET Queries]
  /\ Unsure \notin Values \cup {None}

VARIABLES
  last_returned_index, pc, query, doc, at, index, found, heap, result,
  alone,    \* history: the threads whose call was alone with its service so far
  settled,  \* history: what the calls that have returned say of each service
  sure      \* history: what they have said all through each looker's call

Lookup == INSTANCE ServiceDiscovery WITH
  Threads <- Lookers, Offers <- Matched, Fatal <- Complete, Docs <- AllListings

lookup == <<last_returned_index, pc, query, doc, at, index, found, heap, result>>

RegistryTypeOK ==
  /\ TypeOK
  /\ Lookup!TypeOK
  /\ alone \in SUBSET Threads
  /\ settled \in [Services -> Printable \cup {None, Unsure}]
  /\ sure \in [Lookers -> [Services -> Printable \cup {None, Unsure}]]

RegistryInit ==
  /\ Init
  /\ Lookup!Init
  /\ alone = {}
  /\ settled = [id \in Services |-> agent[id]]
  /\ sure = [t \in Lookers |-> settled]

\* A call that is under way, or was given up and may still arrive, leaves its
\* service in doubt.  One that succeeds settles it, if it was the only one from
\* its start to its end: a request given up before may arrive after its own.
Rival(t, id) == req[t] # NoRequest /\ req[t].key = id
Stray(id) == \E s \in Slots : late[s] # NoRequest /\ late[s].key = id
InDoubt(id) == Stray(id) \/ \E t \in Threads : Rival(t, id)

Contested(t) == Stray(req[t].key) \/ \E u \in Threads \ {t} : Rival(u, req[t].key)

Said(id) ==
  {req[t].new : t \in {u \in alone : Rival(u, id) /\ req'[u] = NoRequest /\ buf'[u].success}}

Settle ==
  /\ alone' = {t \in Threads : /\ req'[t] # NoRequest /\ ~Contested(t)'
                               /\ req[t] = NoRequest \/ t \in alone}
  /\ settled' = [id \in Services |->
       IF InDoubt(id)' THEN Unsure
       ELSE IF Said(id) = {} THEN settled[id]
       ELSE CHOOSE v \in Said(id) : TRUE]

\* A looker is sure of what has been settled ever since its call began.
Watch ==
  sure' = [t \in Lookers |->
    IF pc[t] = "idle" THEN IF pc'[t] = "idle" THEN sure[t] ELSE settled'
    ELSE [id \in Services |-> IF settled'[id] = sure[t][id] THEN sure[t][id] ELSE Unsure]]

\* The agent answers a looker: the list of what it holds, or nothing useful.
Fetch(t) == Lookup!FetchServices(t) /\ (pc'[t] = "loop" => doc'[t] \in Listings(agent))

Look(t) ==
  \/ Lookup!GetService(t) \/ Fetch(t) \/ Lookup!Visit(t)
  \/ Lookup!Stop(t) \/ Lookup!Break(t) \/ Lookup!EndOfList(t)

RegistryNext ==
  \/ Next /\ UNCHANGED lookup /\ Settle /\ Watch
  \/ (\E t \in Lookers : Look(t)) /\ UNCHANGED <<vars, alone, settled>> /\ Watch

RegistrySpec == RegistryInit /\ [][RegistryNext]_<<vars, lookup, alone, settled, sure>>

-----------------------------------------------------------------------------
(* Properties                                                              *)

\* After a register_service or deregister_service that no other call for the
\* same service overlapped, and before which none was given up that may still
\* arrive, has returned true, the agent holds what it said until somebody
\* tries something else with that service.
SettledHolds ==
  \A id \in Services : settled[id] # Unsure => agent[id] = settled[id]

\* A lookup never returns a service that was known to be gone, or described
\* otherwise, all through the call, and does not miss one that was known to be
\* there and to match.
LookupsAgree ==
  \A t \in Lookers :
    pc[t] = "idle" =>
      /\ result[t] \in Nat =>
           LET i == doc[t][result[t] + 1] IN sure[t][i[1]] \in {i[2], Unsure}
      /\ result[t] = Lookup!Missing =>
           \A id \in Services :
             sure[t][id] \in Printable => query[t] \notin Meets[sure[t][id]]
=============================================================================
