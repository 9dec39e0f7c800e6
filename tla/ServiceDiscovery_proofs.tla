----------------------- MODULE ServiceDiscovery_proofs -----------------------
(***************************************************************************)
(* Theorems about ServiceDiscovery, for any number of threads, any queries *)
(* and any lists of instances.                                             *)
(*                                                                         *)
(* The properties speak of calls that have ended; DInv says what holds     *)
(* while one goes on: the index counts the entries the loop has passed,    *)
(* what it has passed without a match has none, and who leaves it early    *)
(* has found an instance and has another ahead.  None of it depends on the *)
(* shared index, which is why stale values of it do no harm.               *)
(***************************************************************************)
EXTENDS ServiceDiscovery, TLAPS

\* What a thread knows of its list at each stage of its call.
Searched(t) ==
  /\ pc[t] = "fetch" => doc[t] = <<>> /\ at[t] = 0 /\ found[t] = -1
  /\ pc[t] \in {"loop", "break"} => doc[t] \in Docs
  /\ index[t] = at[t]
  /\ found[t] < at[t] \/ found[t] = -1
  /\ found[t] = -1 => \A i \in 0..(at[t] - 1) : i \notin Matches(doc[t], query[t])
  /\ pc[t] = "break" => found[t] # -1 /\ at[t] < Len(doc[t])

\* What its call has built so far.
Building(t) ==
  /\ pc[t] = "fetch" => heap[t] = {"service"}
  /\ pc[t] \in {"loop", "break"} => heap[t] = {"service", "list"}

DInv ==
  /\ TypeOK
  /\ \A t \in Threads : Searched(t) /\ Building(t)
  /\ AnswersMatch /\ HeapAtReturn /\ IndexInRange

-----------------------------------------------------------------------------
LEMMA DocLengths == ASSUME NEW d \in Docs PROVE Len(d) \in Nat /\ Len(d) \in Lengths
  BY DiscoveryAssumption DEF Lengths

LEMMA MatchesBounds ==
  ASSUME NEW d, NEW q PROVE \A i \in Matches(d, q) : i \in 0..(Len(d) - 1)
  BY DEF Matches

\* The start of a round is in range whatever the lists are.
LEMMA StartInRange == last_returned_index = -1 => IndexInRange
<1>1. 1 \in Lengths \cup {1} /\ -1 \in -1..(1 - 2)
  OBVIOUS
<1> QED
  BY <1>1 DEF IndexInRange

\* A call leaves as HeapAtReturn has it if what it did not delete is what its
\* result calls for; the other threads' calls are not touched.
LEMMA ReturnHeap ==
  ASSUME DInv, NEW t \in Threads, NEW r, NEW gone, Return(t, r, gone),
         r \in {NoResult, Unparsed} => heap[t] \ gone = {},
         r = Missing => heap[t] \ gone = {"list"},
         r \notin {NoResult, Unparsed, Missing} => heap[t] \ gone = {"service"}
  PROVE  HeapAtReturn'
<1> SUFFICES ASSUME NEW u \in Threads, pc'[u] = "idle"
             PROVE  heap'[u] = CASE result'[u] \in {NoResult, Unparsed} -> {}
                                 [] result'[u] = Missing -> {"list"}
                                 [] OTHER -> {"service"}
  BY DEF HeapAtReturn
<1>1. /\ pc \in [Threads -> {"idle", "fetch", "loop", "break", "dead"}]
      /\ heap \in [Threads -> SUBSET {"service", "list"}]
      /\ DOMAIN result = Threads
  BY DEF DInv, TypeOK
<1>2. Missing \notin {NoResult, Unparsed}
  BY DEF Missing, NoResult, Unparsed
<1>3. CASE u = t
  <2>1. heap'[u] = heap[t] \ gone /\ result'[u] = r
    BY <1>1, <1>3 DEF Return
  <2> QED
    BY <2>1, <1>2
<1>4. CASE u # t
  <2>1. heap'[u] = heap[u] /\ result'[u] = result[u] /\ pc[u] = "idle"
    BY <1>1, <1>4 DEF Return, GoTo
  <2> QED
    BY <2>1 DEF DInv, HeapAtReturn
<1> QED
  BY <1>3, <1>4

LEMMA ReturnTypes ==
  ASSUME TypeOK, NEW t \in Threads, NEW gone,
         NEW r \in {NoResult, Unparsed, Missing, Empty} \cup Nat, Return(t, r, gone)
  PROVE  /\ pc' \in [Threads -> {"idle", "fetch", "loop", "break", "dead"}]
         /\ result' \in [Threads -> {NoResult, Unparsed, Missing, Empty} \cup Nat]
         /\ heap' \in [Threads -> SUBSET {"service", "list"}]
<1>1. pc' \in [Threads -> {"idle", "fetch", "loop", "break", "dead"}]
  BY DEF Return, GoTo, TypeOK
<1>2. result' \in [Threads -> {NoResult, Unparsed, Missing, Empty} \cup Nat]
  BY DEF Return, TypeOK
<1>3. heap[t] \ gone \in SUBSET {"service", "list"}
  BY DEF TypeOK
<1>4. heap' \in [Threads -> SUBSET {"service", "list"}]
  <2> DEFINE left == heap[t] \ gone
             All == SUBSET {"service", "list"}
  <2>1. heap' = [heap EXCEPT ![t] = left] /\ heap \in [Threads -> All] /\ left \in All
    BY <1>3 DEF Return, TypeOK
  <2> HIDE DEF left, All
  <2>2. heap' \in [Threads -> All]
    BY <2>1
  <2> QED
    BY <2>2 DEF All
<1> QED
  BY <1>1, <1>2, <1>4

LEMMA InitDInv == Init => DInv
<1> SUFFICES ASSUME Init PROVE DInv
  OBVIOUS
<1> USE DEF Init
<1>1. TypeOK
  BY DEF TypeOK
<1>2. \A t \in Threads : Searched(t) /\ Building(t)
  BY DEF Searched, Building
<1>3. AnswersMatch /\ HeapAtReturn
  BY DEF AnswersMatch, HeapAtReturn, NoResult, Unparsed, Missing, Empty
<1>4. IndexInRange
  BY StartInRange
<1> QED
  BY <1>1, <1>2, <1>3, <1>4 DEF DInv

LEMMA StepDInv == ASSUME DInv, NEW t \in Threads, GetService(t) \/ Step(t) PROVE DInv'
<1> USE DEF DInv
<1>1. CASE GetService(t)
  <2>1. TypeOK'
    BY <1>1 DEF GetService, GoTo, TypeOK
  <2>2. \A u \in Threads : Searched(u)' /\ Building(u)'
    BY <1>1 DEF GetService, GoTo, TypeOK, Searched, Building
  <2>3. AnswersMatch' /\ HeapAtReturn'
    BY <1>1 DEF GetService, GoTo, TypeOK, AnswersMatch, HeapAtReturn
  <2>4. IndexInRange'
    BY <1>1 DEF GetService, IndexInRange
  <2> QED
    BY <2>1, <2>2, <2>3, <2>4
<1>2. CASE FetchServices(t)
  <2>1. TypeOK'
    <3>1. at[t] = 0 /\ found[t] = -1
      BY <1>2 DEF FetchServices, Searched
    <3>2. doc' \in [Threads -> Docs \cup {<<>>}]
      BY <1>2 DEF FetchServices, TypeOK
    <3>3. /\ pc' \in [Threads -> {"idle", "fetch", "loop", "break", "dead"}]
          /\ result' \in [Threads -> {NoResult, Unparsed, Missing, Empty} \cup Nat]
          /\ heap' \in [Threads -> SUBSET {"service", "list"}]
      <4>1. CASE Return(t, Unparsed, {"service", "list"})
        BY <4>1, ReturnTypes
      <4>2. CASE Return(t, Empty, {"list"})
        BY <4>2, ReturnTypes
      <4>3. CASE GoTo(t, "loop") /\ UNCHANGED result
                 /\ heap' = [heap EXCEPT ![t] = @ \cup {"list"}]
        <5>1. heap[t] = {"service"}
          BY <1>2 DEF FetchServices, Building
        <5>2. heap' = [heap EXCEPT ![t] = {"service", "list"}]
          BY <4>3, <5>1
        <5> QED
          BY <4>3, <5>2 DEF GoTo, TypeOK
      <4> QED
        BY <1>2, <4>1, <4>2, <4>3 DEF FetchServices
    <3>4. ASSUME NEW u \in Threads
          PROVE  (at[u] \in 0..Len(doc[u]))' /\ (found[u] \in {-1} \cup Matches(doc[u], query[u]))'
      <4>1. CASE u = t
        <5>1. doc'[u] \in Docs \cup {<<>>} /\ Len(doc'[u]) \in Nat
          BY <3>2, DocLengths
        <5> QED
          BY <1>2, <4>1, <3>1, <5>1 DEF FetchServices
      <4>2. CASE u # t
        <5>1. doc'[u] = doc[u]
          BY <1>2, <4>2 DEF FetchServices, TypeOK
        <5> QED
          BY <1>2, <5>1 DEF FetchServices, TypeOK, Matches
      <4> QED
        BY <4>1, <4>2
    <3> QED
      BY <1>2, <3>2, <3>3, <3>4 DEF FetchServices, TypeOK
  <2>2. \A u \in Threads : Searched(u)' /\ Building(u)'
    <3>1. \A u \in Threads \ {t} : Searched(u)' /\ Building(u)'
      BY <1>2 DEF FetchServices, Return, GoTo, TypeOK, Searched, Building, Matches
    <3>2. pc'[t] = "loop" => Searched(t)' /\ Building(t)'
      <4> HAVE pc'[t] = "loop"
      <4>1. /\ doc'[t] \in Docs /\ at'[t] = 0 /\ index'[t] = 0 /\ found'[t] = -1
            /\ heap'[t] = {"service", "list"}
        BY <1>2 DEF FetchServices, Return, GoTo, TypeOK, Searched, Building
      <4> QED
        BY <4>1 DEF Searched, Building
    <3>3. pc'[t] # "loop" => Searched(t)' /\ Building(t)'
      <4> HAVE pc'[t] # "loop"
      <4>1. pc'[t] = "idle" /\ at'[t] = 0 /\ index'[t] = 0 /\ found'[t] = -1
        BY <1>2 DEF FetchServices, Return, GoTo, TypeOK, Searched
      <4> QED
        BY <4>1 DEF Searched, Building
    <3> QED
      BY <3>1, <3>2, <3>3
  <2>3. AnswersMatch'
    BY <1>2 DEF FetchServices, Return, GoTo, TypeOK, AnswersMatch, NoResult, Unparsed, Empty
  <2>5. HeapAtReturn'
    <3>1. heap[t] = {"service"}
      BY <1>2 DEF FetchServices, Building
    <3>2. Empty \notin {NoResult, Unparsed, Missing} /\ Unparsed # Missing
      BY DEF NoResult, Unparsed, Missing, Empty
    <3>3. CASE Return(t, Unparsed, {"service", "list"})
      BY <3>1, <3>2, <3>3, ReturnHeap
    <3>4. CASE Return(t, Empty, {"list"})
      BY <3>1, <3>2, <3>4, ReturnHeap
    <3>5. CASE GoTo(t, "loop") /\ UNCHANGED result
               /\ heap' = [heap EXCEPT ![t] = @ \cup {"list"}]
      BY <3>5 DEF GoTo, TypeOK, HeapAtReturn
    <3> QED
      BY <1>2, <3>3, <3>4, <3>5 DEF FetchServices
  <2>4. IndexInRange'
    BY <1>2 DEF FetchServices, IndexInRange
  <2> QED
    BY <2>1, <2>2, <2>3, <2>4, <2>5
<1>3. CASE Visit(t)
  <2>1. TypeOK'
    BY <1>3 DEF Visit, Reading, TypeOK
  <2>2. \A u \in Threads : Searched(u)' /\ Building(u)'
    BY <1>3 DEF Visit, Reading, TypeOK, Searched, Building
  <2>3. AnswersMatch' /\ HeapAtReturn'
    BY <1>3 DEF Visit, Reading, TypeOK, AnswersMatch, HeapAtReturn
  <2>4. IndexInRange'
    BY <1>3 DEF Visit, IndexInRange
  <2> QED
    BY <2>1, <2>2, <2>3, <2>4
<1>7. CASE Abort(t)
  <2>1. \A u \in Threads : pc'[u] = "dead"
    BY <1>7 DEF Abort
  <2>2. TypeOK'
    BY <1>7 DEF Abort, TypeOK
  <2>3. \A u \in Threads : Searched(u)' /\ Building(u)'
    BY <1>7, <2>1 DEF Abort, Searched, Building
  <2>4. AnswersMatch' /\ HeapAtReturn'
    BY <2>1 DEF AnswersMatch, HeapAtReturn
  <2>5. IndexInRange'
    BY <1>7 DEF Abort, IndexInRange
  <2> QED
    BY <2>2, <2>3, <2>4, <2>5
<1>4. CASE Stop(t)
  <2>1. TypeOK'
    BY <1>4 DEF Stop, GoTo, TypeOK
  <2>2. \A u \in Threads : Searched(u)' /\ Building(u)'
    BY <1>4 DEF Stop, GoTo, NextInLine, TypeOK, Searched, Building
  <2>3. AnswersMatch' /\ HeapAtReturn'
    BY <1>4 DEF Stop, GoTo, TypeOK, AnswersMatch, HeapAtReturn
  <2>4. IndexInRange'
    BY <1>4 DEF Stop, IndexInRange
  <2> QED
    BY <2>1, <2>2, <2>3, <2>4
<1>5. CASE Break(t)
  <2>0. /\ doc[t] \in Docs /\ index[t] \in 1..(Len(doc[t]) - 1) /\ at[t] = index[t]
        /\ found[t] \in Matches(doc[t], query[t]) /\ found[t] \in Nat
    BY <1>5, DocLengths DEF Break, TypeOK, Searched
  <2>1. TypeOK'
    BY <1>5, <2>0 DEF Break, Return, GoTo, TypeOK
  <2>2. \A u \in Threads : Searched(u)' /\ Building(u)'
    BY <1>5 DEF Break, Return, GoTo, TypeOK, Searched, Building
  <2>3. AnswersMatch'
    BY <1>5, <2>0 DEF Break, Return, GoTo, TypeOK, AnswersMatch
  <2>4. HeapAtReturn'
    <3>1. heap[t] \ {"list"} = {"service"}
      BY <1>5 DEF Break, Building
    <3>2. found[t] \notin {NoResult, Unparsed, Missing}
      BY <2>0 DEF NoResult, Unparsed, Missing
    <3> QED
      BY <1>5, <3>1, <3>2, ReturnHeap DEF Break
  <2>5. IndexInRange'
    BY <1>5, <2>0, DocLengths DEF Break, IndexInRange
  <2> QED
    BY <2>1, <2>2, <2>3, <2>4, <2>5
<1>6. CASE EndOfList(t)
  <2>0. doc[t] \in Docs /\ at[t] = Len(doc[t]) /\ Len(doc[t]) \in Nat
    BY <1>6, DocLengths DEF EndOfList, TypeOK, Searched
  <2>1. found[t] = -1 => Matches(doc[t], query[t]) = {}
    BY <2>0, MatchesBounds DEF Searched
  <2>2. TypeOK'
    <3>1. found[t] = -1 \/ found[t] \in Nat
      BY DEF TypeOK
    <3>2. \E r \in {Missing} \cup Nat : \E gone : Return(t, r, gone)
      BY <1>6, <3>1 DEF EndOfList
    <3> QED
      BY <1>6, <3>2, ReturnTypes DEF EndOfList, TypeOK
  <2>3. \A u \in Threads : Searched(u)' /\ Building(u)'
    <3>1. pc'[t] = "idle" /\ UNCHANGED <<query, doc, at, index, found>>
      BY <1>6 DEF EndOfList, Return, GoTo, TypeOK
    <3>2. \A u \in Threads \ {t} : pc'[u] = pc[u] /\ heap'[u] = heap[u]
      BY <1>6 DEF EndOfList, Return, GoTo, TypeOK
    <3> QED
      BY <3>1, <3>2 DEF Searched, Building, Matches
  <2>4. AnswersMatch'
    BY <1>6, <2>1 DEF EndOfList, Return, GoTo, TypeOK, AnswersMatch, Missing
  <2>5. HeapAtReturn'
    <3>1. heap[t] \ {"list"} = {"service"} /\ heap[t] \ {"service"} = {"list"}
      BY <1>6 DEF EndOfList, Building
    <3>2. Missing \notin {NoResult, Unparsed}
      BY DEF NoResult, Unparsed, Missing
    <3>3. CASE found[t] = -1
      BY <1>6, <3>1, <3>2, <3>3, ReturnHeap DEF EndOfList
    <3>4. CASE found[t] # -1
      <4>1. found[t] \notin {NoResult, Unparsed, Missing}
        BY <3>4 DEF TypeOK, NoResult, Unparsed, Missing
      <4> QED
        BY <1>6, <3>1, <3>4, <4>1, ReturnHeap DEF EndOfList
    <3> QED
      BY <3>3, <3>4
  <2>6. IndexInRange'
    <3>1. last_returned_index' = -1 /\ 1 \in Lengths \cup {1} /\ -1 \in -1..(1 - 2)
      BY <1>6 DEF EndOfList
    <3> QED
      BY <3>1 DEF IndexInRange, Lengths
  <2> QED
    BY <2>2, <2>3, <2>4, <2>5, <2>6
<1> QED
  BY <1>1, <1>2, <1>3, <1>4, <1>5, <1>6, <1>7 DEF Step

LEMMA NextDInv == ASSUME DInv, [Next]_vars PROVE DInv'
<1>1. CASE UNCHANGED vars
  BY <1>1 DEF vars, DInv, TypeOK, Searched, Building, AnswersMatch, HeapAtReturn,
              IndexInRange
<1> QED
  BY <1>1, StepDInv DEF Next

\* What holds of every call while it goes on.
THEOREM Invariance == Spec => []DInv
  BY InitDInv, NextDInv, PTL DEF Spec

\* The state is well formed: no position outside a list.
THEOREM TypeCorrect == Spec => []TypeOK
  BY Invariance, PTL DEF DInv

\* Whatever the other threads do to the index, a call that got a list returns
\* an instance that matches, and misses only when there is none.
THEOREM AnswersAreRight == Spec => []AnswersMatch
  BY Invariance, PTL DEF DInv

\* Nothing is leaked but the list of a call that finds no instance.
THEOREM NoOtherLeak == Spec => []HeapAtReturn
  BY Invariance, PTL DEF DInv

\* The index stays short of the last position of some list the agent returns.
THEOREM IndexStaysInRange == Spec => []IndexInRange
  BY Invariance, PTL DEF DInv

-----------------------------------------------------------------------------
(* Progress, as far as it is about single steps.                            *)

\* The steps a call has left at most, once it has its list.
StepsLeft(t) ==
  CASE pc[t] = "loop" -> Len(doc[t]) - at[t] + 2 [] pc[t] = "break" -> 1 [] OTHER -> 0

\* A call's own step fetches the list, ends the call, or leaves fewer steps of
\* it; a step of another call changes nothing of it; either may end the process.
Advances(t) ==
  \/ pc[t] = "fetch" /\ pc'[t] \in {"loop", "idle"}
  \/ /\ pc[t] \in {"loop", "break"} /\ pc'[t] \in {"loop", "break", "idle"}
     /\ StepsLeft(t)' < StepsLeft(t) /\ doc'[t] = doc[t]
  \/ \A u \in Threads : pc'[u] = "dead"
  \/ <<pc'[t], doc'[t], at'[t], found'[t]>> = <<pc[t], doc[t], at[t], found[t]>>

\* A call under way has a next step: there is an instance to visit, or the
\* list is at its end.
HasStep ==
  \A t \in Threads :
    /\ pc[t] \notin {"idle", "dead"} =>
         \/ pc[t] \in {"fetch", "break"}
         \/ pc[t] = "loop" /\ at[t] \in 0..Len(doc[t])
    /\ StepsLeft(t) \in 0..(Len(doc[t]) + 2)

LEMMA StepAdvances ==
  ASSUME DInv, NEW t \in Threads, Step(t), NEW u \in Threads
  PROVE  Advances(u)
<1>0. /\ pc \in [Threads -> {"idle", "fetch", "loop", "break", "dead"}]
      /\ doc \in [Threads -> Docs \cup {<<>>}] /\ Len(doc[t]) \in Nat
      /\ at \in [Threads -> Nat] /\ at[t] \in 0..Len(doc[t])
      /\ found \in [Threads -> Nat \cup {-1}]
  BY DiscoveryAssumption DEF DInv, TypeOK
<1>3. CASE Abort(t)
  BY <1>3 DEF Abort, Advances
<1>1. CASE u # t /\ ~Abort(t)
  BY <1>0, <1>1 DEF Step, FetchServices, Visit, Stop, Break, EndOfList, GoTo, Return, Advances
<1>2. CASE u = t /\ ~Abort(t)
  <2>1. CASE FetchServices(t)
    BY <1>0, <1>2, <2>1 DEF FetchServices, GoTo, Return, Advances
  <2>2. CASE Visit(t)
    <3>1. /\ pc'[t] = "loop" /\ pc[t] = "loop" /\ doc'[t] = doc[t]
          /\ at'[t] = at[t] + 1 /\ at[t] < Len(doc[t])
      BY <1>0, <2>2 DEF Visit, Reading
    <3> QED
      BY <1>0, <1>2, <3>1 DEF Advances, StepsLeft
  <2>3. CASE Stop(t)
    <3>1. pc'[t] = "break" /\ doc'[t] = doc[t] /\ at[t] < Len(doc[t]) /\ pc[t] = "loop"
      BY <1>0, <2>3 DEF Stop, GoTo
    <3> QED
      BY <1>0, <1>2, <3>1 DEF Advances, StepsLeft
  <2>4. CASE Break(t) \/ EndOfList(t)
    <3>1. pc'[t] = "idle" /\ doc'[t] = doc[t] /\ pc[t] \in {"loop", "break"}
      BY <1>0, <2>4 DEF Break, EndOfList, GoTo, Return
    <3> QED
      BY <1>0, <1>2, <3>1 DEF Advances, StepsLeft
  <2> QED
    BY <1>2, <2>1, <2>2, <2>3, <2>4 DEF Step
<1> QED
  BY <1>1, <1>2, <1>3

\* However the threads overwrite the shared index, a look-up that has its list
\* ends after at most two steps more than the list is long, if the process does
\* not end first: nobody can make it go round again or leave it without a next
\* step.
THEOREM LookupsAdvance ==
  Spec => [][\A t \in Threads : pc[t] # "idle" => Advances(t)]_vars /\ []HasStep
<1>1. DInv /\ [Next]_vars => [\A t \in Threads : pc[t] # "idle" => Advances(t)]_vars
  <2> SUFFICES ASSUME DInv, NEW t \in Threads, GetService(t) \/ Step(t),
                      NEW u \in Threads, pc[u] # "idle"
               PROVE  Advances(u)
    BY DEF Next
  <2>1. CASE GetService(t)
    BY <2>1 DEF DInv, TypeOK, GetService, GoTo, Advances
  <2> QED
    BY <2>1, StepAdvances
<1>2. DInv => HasStep
  <2> SUFFICES ASSUME DInv, NEW t \in Threads
               PROVE  /\ pc[t] \notin {"idle", "dead"} =>
                           \/ pc[t] \in {"fetch", "break"}
                           \/ pc[t] = "loop" /\ at[t] \in 0..Len(doc[t])
                      /\ StepsLeft(t) \in 0..(Len(doc[t]) + 2)
    BY DEF HasStep
  <2>1. /\ pc[t] \in {"idle", "fetch", "loop", "break", "dead"}
        /\ at[t] \in 0..Len(doc[t]) /\ Len(doc[t]) \in Nat
    BY DiscoveryAssumption DEF DInv, TypeOK
  <2> QED
    BY <2>1 DEF StepsLeft
<1> QED
  BY <1>1, <1>2, Invariance, PTL DEF Spec
=============================================================================
