-------------------------- MODULE ServiceDiscovery --------------------------
(***************************************************************************)
(* NetworkApplicationProfile::get_service and get_service_by_metadata      *)
(* (aossl/profile/include/network_app_profile.h): each call fetches the    *)
(* list of service instances the local Consul agent knows and picks one    *)
(* that matches, meant to go round the instances by means of one atomic    *)
(* index that all threads and all services share.                          *)
(*                                                                         *)
(* The agent is external; an instance offers what it can be looked up by:  *)
(* its name, or its name and an entry of its metadata.  One that is no      *)
(* object, names its service by no string or lacks its address, port or id *)
(* fails an assertion of RapidJSON when it is read, which ends the process.*)
(* find_service_in_doc reads the index anew in every iteration, and writes *)
(* it in a step of its own.                                                *)
(***************************************************************************)
EXTENDS Integers, Sequences, FiniteSets

CONSTANTS
  Threads,    \* the threads that look services up
  Queries,    \* what they look for
  Instances,  \* the instances of services
  Offers,     \* the queries that each of them matches
  Fatal,      \* the queries in whose course reading it fails
  Docs        \* the lists the agent may return

ASSUME DiscoveryAssumption ==
  /\ Offers \in [Instances -> SUBSET Queries]
  /\ Fatal \in [Instances -> SUBSET Queries]
  /\ Docs \subseteq Seq(Instances)

VARIABLES
  last_returned_index,
  pc,      \* where each thread is in its call
  query,   \* what it looks for
  doc,     \* the list it has fetched
  at,      \* how many of its entries the loop's iterator has passed
  index,   \* its discovery_index
  found,   \* position of the instance in its return_service, or -1
  heap,    \* what its call has built: "service", "list"; less what was deleted
  result   \* how its last call ended: a position, or one of the below

vars == <<last_returned_index, pc, query, doc, at, index, found, heap, result>>

\* No call has ended yet; the two exceptions, for an answer that is no JSON and
\* for a list without a match; a service nothing was written to.
NoResult == -1
Unparsed == -2
Missing == -3
Empty == -4

Lengths == {Len(d) : d \in Docs}

\* The positions, from 0 on, of the instances of d that match q.
Matches(d, q) == {i \in 0..(Len(d) - 1) : q \in Offers[d[i + 1]]}

TypeOK ==
  /\ last_returned_index \in Int
  /\ pc \in [Threads -> {"idle", "fetch", "loop", "break", "dead"}]
  /\ query \in [Threads -> Queries]
  /\ doc \in [Threads -> Docs \cup {<<>>}]
  /\ at \in [Threads -> Nat] /\ index \in [Threads -> Nat]
  /\ found \in [Threads -> Nat \cup {-1}]
  /\ \A t \in Threads : /\ at[t] \in 0..Len(doc[t])
                        /\ found[t] \in {-1} \cup Matches(doc[t], query[t])
  /\ heap \in [Threads -> SUBSET {"service", "list"}]
  /\ result \in [Threads -> {NoResult, Unparsed, Missing, Empty} \cup Nat]

Init ==
  /\ last_returned_index = -1
  /\ pc = [t \in Threads |-> "idle"]
  /\ query \in [Threads -> Queries]
  /\ doc = [t \in Threads |-> <<>>]
  /\ at = [t \in Threads |-> 0]
  /\ index = [t \in Threads |-> 0]
  /\ found = [t \in Threads |-> -1]
  /\ heap = [t \in Threads |-> {}]
  /\ result = [t \in Threads |-> NoResult]

GoTo(t, label) == pc' = [pc EXCEPT ![t] = label]

\* The call ends with r, having deleted some of what it built.
Return(t, r, deleted) ==
  /\ GoTo(t, "idle")
  /\ result' = [result EXCEPT ![t] = r]
  /\ heap' = [heap EXCEPT ![t] = @ \ deleted]

-----------------------------------------------------------------------------
GetService(t) ==
  /\ pc[t] = "idle"
  /\ \E q \in Queries : query' = [query EXCEPT ![t] = q]
  /\ doc' = [doc EXCEPT ![t] = <<>>]
  /\ at' = [at EXCEPT ![t] = 0]
  /\ index' = [index EXCEPT ![t] = 0]
  /\ found' = [found EXCEPT ![t] = -1]
  /\ heap' = [heap EXCEPT ![t] = {"service"}]
  /\ GoTo(t, "fetch")
  /\ UNCHANGED <<last_returned_index, result>>

\* The agent's answer: a list; no JSON, as when the agent cannot be reached,
\* which throws; or JSON that is no object, which is passed over.
FetchServices(t) ==
  /\ pc[t] = "fetch"
  /\ \/ /\ \E d \in Docs : doc' = [doc EXCEPT ![t] = d]
        /\ heap' = [heap EXCEPT ![t] = @ \cup {"list"}]
        /\ GoTo(t, "loop")
        /\ UNCHANGED result
     \/ Return(t, Unparsed, {"service", "list"}) /\ UNCHANGED doc
     \/ Return(t, Empty, {"list"}) /\ UNCHANGED doc
  /\ UNCHANGED <<last_returned_index, query, at, index, found>>

NextInLine(t) == found[t] # -1 /\ index[t] > last_returned_index

\* An entry of the list is to be read.
Reading(t) == pc[t] = "loop" /\ at[t] < Len(doc[t]) /\ ~NextInLine(t)
Entry(t) == doc[t][at[t] + 1]
Readable(t) == query[t] \in Fatal[Entry(t)] => query[t] \in Offers[Entry(t)]

\* Mutants: one iteration too many; an iterator that is written out is not
\* moved past an instance that does not match.
Visit_PastEnd(t) ==
  /\ pc[t] = "loop" /\ at[t] <= Len(doc[t]) /\ ~NextInLine(t)
  /\ at' = [at EXCEPT ![t] = @ + 1]
  /\ index' = [index EXCEPT ![t] = @ + 1]
  /\ found' = [found EXCEPT ![t] = IF at[t] \in Matches(doc[t], query[t]) THEN at[t] ELSE @]
  /\ UNCHANGED <<last_returned_index, pc, query, doc, heap, result>>

Visit_Stays(t) ==
  /\ Reading(t) /\ Readable(t)
  /\ at' = [at EXCEPT ![t] = IF query[t] \in Offers[Entry(t)] THEN @ + 1 ELSE @]
  /\ index' = [index EXCEPT ![t] = IF query[t] \in Offers[Entry(t)] THEN @ + 1 ELSE @]
  /\ found' = [found EXCEPT ![t] = IF at[t] \in Matches(doc[t], query[t]) THEN at[t] ELSE @]
  /\ UNCHANGED <<last_returned_index, pc, query, doc, heap, result>>

\* An instance that matches replaces the one found before.  What follows when
\* one that matches lacks a member is undefined: something is read, or ...
Visit(t) ==
  /\ Reading(t) /\ Readable(t)
  /\ at' = [at EXCEPT ![t] = @ + 1]
  /\ index' = [index EXCEPT ![t] = @ + 1]
  /\ found' = [found EXCEPT ![t] = IF at[t] \in Matches(doc[t], query[t]) THEN at[t] ELSE @]
  /\ UNCHANGED <<last_returned_index, pc, query, doc, heap, result>>

\* ... the assertion fails, as it does on what is no object or names its
\* service by no string, and the process ends.
Abort(t) ==
  /\ Reading(t) /\ query[t] \in Fatal[Entry(t)]
  /\ pc' = [u \in Threads |-> "dead"]
  /\ UNCHANGED <<last_returned_index, query, doc, at, index, found, heap, result>>

\* "if (service_found && discovery_index > last_returned_index)" holds ...
Stop(t) ==
  /\ pc[t] = "loop" /\ at[t] < Len(doc[t])
  /\ NextInLine(t)
  /\ GoTo(t, "break")
  /\ UNCHANGED <<last_returned_index, query, doc, at, index, found, heap, result>>

\* Mutants: the index is not taken back by one; the instance after the one
\* found is returned.
Break_Beyond(t) ==
  /\ pc[t] = "break"
  /\ last_returned_index' = index[t]
  /\ Return(t, found[t], {"list"})
  /\ UNCHANGED <<query, doc, at, index, found>>

Break_Next(t) ==
  /\ pc[t] = "break"
  /\ last_returned_index' = index[t] - 1
  /\ Return(t, at[t], {"list"})
  /\ UNCHANGED <<query, doc, at, index, found>>

\* ... and then the index is written and the loop left.
Break(t) ==
  /\ pc[t] = "break"
  /\ last_returned_index' = index[t] - 1
  /\ Return(t, found[t], {"list"})
  /\ UNCHANGED <<query, doc, at, index, found>>

\* Mutant: the service is deleted at the end of the list, found or not.
EndOfList_Deletes(t) ==
  /\ pc[t] = "loop" /\ at[t] = Len(doc[t])
  /\ last_returned_index' = -1
  /\ Return(t, IF found[t] = -1 THEN Missing ELSE found[t], {"service", "list"})
  /\ UNCHANGED <<query, doc, at, index, found>>

\* The loop ran to the end: back to the start of the round.  Without a match
\* the service is deleted and the exception thrown past the list.
EndOfList(t) ==
  /\ pc[t] = "loop" /\ at[t] = Len(doc[t])
  /\ last_returned_index' = -1
  /\ IF found[t] = -1 THEN Return(t, Missing, {"service"})
                      ELSE Return(t, found[t], {"list"})
  /\ UNCHANGED <<query, doc, at, index, found>>

Step(t) ==
  FetchServices(t) \/ Visit(t) \/ Abort(t) \/ Stop(t) \/ Break(t) \/ EndOfList(t)

Next == \E t \in Threads : GetService(t) \/ Step(t)

\* A thread inside a call is scheduled and its request to the agent ends.
Spec == Init /\ [][Next]_vars /\ \A t \in Threads : WF_vars(Step(t))

-----------------------------------------------------------------------------
(* Properties                                                              *)

\* Whatever the other threads do to the index, a call that got a list returns
\* an instance of it that matches, and misses only when there is none.
AnswersMatch ==
  \A t \in Threads :
    pc[t] = "idle" /\ result[t] \notin {NoResult, Unparsed, Empty} =>
      LET m == Matches(doc[t], query[t])
      IN  result[t] \in IF m = {} THEN {Missing} ELSE m

\* Every way out of a call leaves the caller the service if it returns and
\* nothing if it throws; the list outlives the call when nothing matched, and
\* only then: it is then never deleted.
HeapAtReturn ==
  \A t \in Threads :
    pc[t] = "idle" =>
      heap[t] = CASE result[t] \in {NoResult, Unparsed} -> {}
                  [] result[t] = Missing -> {"list"}
                  [] OTHER -> {"service"}

\* The shared index stays short of the last instance of the longest list, so
\* with that list the loop can still be left early for every value it takes.
IndexInRange ==
  \E n \in Lengths \cup {1} : last_returned_index \in -1..(n - 2)

\* No look-up hangs, whatever the others do to the index: it ends, if only with
\* the process.
LookupsEnd == \A t \in Threads : pc[t] # "idle" ~> pc[t] \in {"idle", "dead"}

\* "If we found a service and it's next up in the round robin, then break out
\* of the loop and return it": with one thread, one query and an agent that
\* does not change, two calls in a row do not return the same instance when
\* there are several.
RoundRobin ==
  [][\A t \in Threads :
       /\ pc[t] # "idle" /\ pc'[t] = "idle" /\ result[t] \in Nat /\ result'[t] \in Nat
       /\ Cardinality(Matches(doc[t], query[t])) > 1
       => result'[t] # result[t]]_vars
=============================================================================
