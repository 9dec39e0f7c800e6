------------------------- MODULE TieredLoad_proofs -------------------------
(***************************************************************************)
(* Theorems about TieredLoad, for any options, sources and secrets and any *)
(* number of loads and writes.                                             *)
(*                                                                         *)
(* The load goes through the keys one by one; the invariant says what each *)
(* key holds before its turn, at each stage of it, and after.              *)
(***************************************************************************)
EXTENDS TieredLoad, FiniteSetTheorems, TLAPS

\* What a key holds after each stage.
FromProps(k) == IF k \in props /\ "props" \in ahead[k] THEN "props" ELSE base[k]
FromConsul(k) == IF said[k] # "nothing" THEN said[k] ELSE FromProps(k)
FromEnv(k) == IF k \in env /\ "env" \in ahead[k] THEN "env" ELSE FromConsul(k)

Pending(k) == said[k] = "nothing" /\ ahead[k] = Local /\ store[k] = base[k]

InTurn(k) ==
  /\ "cli" \in ahead[k]
  /\ pc \in {"consul", "env"} => "env" \in ahead[k]
  /\ pc = "consul" => said[k] = "nothing" /\ store[k] = FromProps(k)
  /\ pc = "env" => store[k] = FromConsul(k)
  /\ pc = "cli" => store[k] = FromEnv(k)

Final(k) == store[k] = Winner(k)

\* Where the load is.
Place ==
  /\ pc \in {"idle", "vault"} => todo = {} /\ cur = {}
  /\ pc = "key" => cur = {}
  /\ pc \in {"consul", "env", "cli"} => \E k \in Keys \ todo : cur = {k}
  /\ status = "loading" <=> pc # "idle"
  /\ \E c : cur \subseteq {c}

\* What the keys hold.
Contents ==
  /\ \A k \in todo : Pending(k)
  /\ \A k \in cur : InTurn(k)
  /\ \A k \in Keys \ (todo \cup cur) : Final(k)
  /\ \A k \in todo \cup cur \cup secrets : secret[k] = "nothing"

\* The key is as it was or has its final value.
Fine(k) == store[k] \in {base[k], Winner(k)}

InBetween == \E c : \A k \in Keys : k = c \/ Fine(k)

LInv ==
  /\ TypeOK /\ Place /\ InBetween
  /\ status \in {"loading", "done"} => Contents

-----------------------------------------------------------------------------
\* While a load goes on, only the key whose turn it is can be in between.
LEMMA ContentsInBetween == Place /\ Contents => InBetween
<1> SUFFICES ASSUME Place, Contents PROVE InBetween
  OBVIOUS
<1>1. PICK c : cur \subseteq {c}
  BY DEF Place
<1>2. ASSUME NEW k \in Keys, k # c PROVE Fine(k)
  <2>1. CASE k \in todo
    BY <1>2, <2>1 DEF Contents, Pending, Fine
  <2>2. CASE k \notin todo
    <3>1. Final(k)
      BY <1>1, <1>2, <2>2 DEF Contents
    <3> QED
      BY <1>2, <3>1 DEF Final, Fine
  <2> QED
    BY <2>1, <2>2
<1> QED
  BY <1>2 DEF InBetween

LEMMA ContentsInBetweenNext == Place' /\ Contents' => InBetween'
BY ContentsInBetween, PTL

LEMMA InitLInv == Init => LInv
<1> SUFFICES ASSUME Init PROVE LInv
  OBVIOUS
<1>1. TypeOK
  BY LoadAssumption, FS_EmptySet DEF Init, TypeOK, Values
<1>2. Place
  BY DEF Init, Place
<1>3. InBetween
  BY DEF Init, InBetween, Fine
<1> QED
  BY <1>1, <1>2, <1>3 DEF Init, LInv

\* The set of the key whose turn it is stays a singleton or empty.
LEMMA CurTypes ==
  ASSUME cur' = {} \/ (\E k \in Keys : cur' = {k})
  PROVE  cur' \subseteq Keys /\ Cardinality(cur') <= 1
<1>1. CASE cur' = {}
  BY <1>1, FS_EmptySet
<1>2. ASSUME NEW k \in Keys, cur' = {k} PROVE cur' \subseteq Keys /\ Cardinality(cur') <= 1
  BY <1>2, FS_Singleton
<1> QED
  BY <1>1, <1>2

LEMMA LoadConfigLInv == ASSUME LInv, LoadConfig PROVE LInv'
<1>1. TypeOK'
  <2>1. loads' \in 0..MaxLoads
    BY LoadAssumption DEF LInv, TypeOK, LoadConfig
  <2> QED
    BY <2>1, LoadAssumption DEF LInv, TypeOK, LoadConfig, sources
<1>2. Place'
  BY DEF LInv, Place, LoadConfig
<1>3. Contents'
  <2>1. todo' = Keys /\ cur' = {}
    BY DEF LInv, Place, LoadConfig
  <2>2. \A k \in Keys : Pending(k)' /\ secret'[k] = "nothing"
    BY DEF LoadConfig, Pending, LInv, TypeOK
  <2> QED
    BY <2>1, <2>2, LoadAssumption DEF Contents, LoadConfig
<1> QED
  BY <1>1, <1>2, <1>3, ContentsInBetweenNext DEF LInv

LEMMA LoadPropsLInv == ASSUME LInv, LoadProps PROVE LInv'
<1>1. PICK k \in todo : /\ Stage("key", k, k \in props, "props", "consul")
                        /\ todo' = todo \ {k} /\ cur' = {k} /\ said' = said
  BY DEF LoadProps
<1>2. /\ k \in Keys /\ pc = "key" /\ pc' = "consul" /\ cur = {}
      /\ status = "loading" /\ Contents /\ "props" \in Values
  BY <1>1 DEF LInv, TypeOK, Place, Stage, Values
<1>3. /\ store' \in [Keys -> Values]
      /\ \A j \in Keys \ {k} : store'[j] = store[j]
      /\ store'[k] = IF k \in props THEN "props" ELSE store[k]
  BY <1>1, <1>2 DEF Stage, LInv, TypeOK
<1>4. TypeOK'
  BY <1>1, <1>2, <1>3, CurTypes DEF Stage, LInv, TypeOK, sources
<1>5. Place'
  BY <1>1, <1>2 DEF Stage, Place
<1>6. Contents'
  <2>1. InTurn(k)'
    BY <1>1, <1>2, <1>3 DEF Stage, Contents, Pending, InTurn, FromProps, Local, sources, history
  <2>2. ASSUME NEW j \in todo' PROVE Pending(j)'
    BY <1>1, <1>2, <1>3, <2>2 DEF Stage, Contents, Pending, LInv, TypeOK
  <2>3. ASSUME NEW j \in Keys \ (todo' \cup cur') PROVE Final(j)'
    BY <1>1, <1>2, <1>3, <2>3 DEF Stage, Contents, Final, Winner, sources, history
  <2>4. \A j \in todo' \cup cur' \cup secrets' : secret'[j] = "nothing"
    BY <1>1, <1>2 DEF Stage, Contents
  <2> QED
    BY <1>1, <1>2, <2>1, <2>2, <2>3, <2>4 DEF Contents
<1> QED
  BY <1>1, <1>2, <1>4, <1>5, <1>6, ContentsInBetweenNext DEF Stage, LInv

LEMMA LoadConsulLInv == ASSUME LInv, LoadConsul PROVE LInv'
<1>1. PICK k \in cur, answer \in {"nothing", "consul", "consul_null"} :
        /\ Stage("consul", k, answer # "nothing", answer, "env")
        /\ said' = [said EXCEPT ![k] = answer] /\ UNCHANGED <<todo, cur>>
  BY DEF LoadConsul
<1>2. /\ k \in Keys \ todo /\ pc = "consul" /\ pc' = "env" /\ cur = {k}
      /\ status = "loading" /\ Contents
  BY <1>1 DEF LInv, TypeOK, Place, Stage
<1>3. /\ store' \in [Keys -> Values]
      /\ \A j \in Keys \ {k} : store'[j] = store[j]
      /\ store'[k] = IF answer # "nothing" THEN answer ELSE store[k]
  BY <1>1, <1>2 DEF Stage, LInv, TypeOK, Values
<1>4. /\ said' \in [Keys -> {"nothing", "consul", "consul_null"}]
      /\ said'[k] = answer /\ \A j \in Keys \ {k} : said'[j] = said[j]
  BY <1>1, <1>2 DEF LInv, TypeOK
<1>5. TypeOK'
  BY <1>1, <1>2, <1>3, <1>4 DEF Stage, LInv, TypeOK, sources
<1>6. Place'
  BY <1>1, <1>2 DEF Stage, LInv, Place
<1>7. Contents'
  <2>1. InTurn(k)'
    BY <1>1, <1>2, <1>3, <1>4
    DEF Stage, Contents, InTurn, FromConsul, FromProps, sources, history
  <2>2. ASSUME NEW j \in todo' PROVE Pending(j)'
    BY <1>1, <1>2, <1>3, <1>4, <2>2 DEF Stage, Contents, Pending, LInv, TypeOK
  <2>3. ASSUME NEW j \in Keys \ (todo' \cup cur') PROVE Final(j)'
    BY <1>1, <1>2, <1>3, <1>4, <2>3 DEF Stage, Contents, Final, Winner, sources, history
  <2>4. \A j \in todo' \cup cur' \cup secrets' : secret'[j] = "nothing"
    BY <1>1, <1>2 DEF Stage, Contents
  <2> QED
    BY <1>1, <1>2, <2>1, <2>2, <2>3, <2>4 DEF Contents
<1> QED
  BY <1>1, <1>2, <1>5, <1>6, <1>7, ContentsInBetweenNext DEF Stage, LInv

LEMMA LoadEnvironmentLInv == ASSUME LInv, LoadEnvironment PROVE LInv'
<1>1. PICK k \in cur : /\ Stage("env", k, k \in env, "env", "cli")
                       /\ UNCHANGED <<todo, cur, said>>
  BY DEF LoadEnvironment
<1>2. /\ k \in Keys \ todo /\ pc = "env" /\ pc' = "cli" /\ cur = {k}
      /\ status = "loading" /\ Contents /\ "env" \in Values
  BY <1>1 DEF LInv, TypeOK, Place, Stage, Values
<1>3. /\ store' \in [Keys -> Values]
      /\ \A j \in Keys \ {k} : store'[j] = store[j]
      /\ store'[k] = IF k \in env THEN "env" ELSE store[k]
  BY <1>1, <1>2 DEF Stage, LInv, TypeOK
<1>4. TypeOK'
  BY <1>1, <1>2, <1>3 DEF Stage, LInv, TypeOK, sources
<1>5. Place'
  BY <1>1, <1>2 DEF Stage, LInv, Place
<1>6. Contents'
  <2>1. InTurn(k)'
    BY <1>1, <1>2, <1>3
    DEF Stage, Contents, InTurn, FromEnv, FromConsul, FromProps, sources, history
  <2>2. ASSUME NEW j \in todo' PROVE Pending(j)'
    BY <1>1, <1>2, <1>3, <2>2 DEF Stage, Contents, Pending, LInv, TypeOK
  <2>3. ASSUME NEW j \in Keys \ (todo' \cup cur') PROVE Final(j)'
    BY <1>1, <1>2, <1>3, <2>3 DEF Stage, Contents, Final, Winner, sources, history
  <2>4. \A j \in todo' \cup cur' \cup secrets' : secret'[j] = "nothing"
    BY <1>1, <1>2 DEF Stage, Contents
  <2> QED
    BY <1>1, <1>2, <2>1, <2>2, <2>3, <2>4 DEF Contents
<1> QED
  BY <1>1, <1>2, <1>4, <1>5, <1>6, ContentsInBetweenNext DEF Stage, LInv

LEMMA LoadCliLInv == ASSUME LInv, LoadCli PROVE LInv'
<1>1. PICK k \in cur :
        /\ Stage("cli", k, k \in cli, "cli", IF todo = {} THEN "vault" ELSE "key")
        /\ cur' = {} /\ UNCHANGED <<todo, said>>
  BY DEF LoadCli
<1>2. /\ k \in Keys \ todo /\ pc = "cli" /\ cur = {k}
      /\ pc' = IF todo = {} THEN "vault" ELSE "key"
      /\ status = "loading" /\ Contents /\ "cli" \in Values
  BY <1>1 DEF LInv, TypeOK, Place, Stage, Values
<1>3. /\ store' \in [Keys -> Values]
      /\ \A j \in Keys \ {k} : store'[j] = store[j]
      /\ store'[k] = IF k \in cli THEN "cli" ELSE store[k]
  BY <1>1, <1>2 DEF Stage, LInv, TypeOK
<1>4. TypeOK'
  BY <1>1, <1>2, <1>3, CurTypes DEF Stage, LInv, TypeOK, sources
<1>5. Place'
  BY <1>1, <1>2 DEF Stage, LInv, Place
<1>6. Contents'
  <2>1. Final(k)'
    <3>1. store[k] = FromEnv(k) /\ "cli" \in ahead[k] /\ secret[k] = "nothing"
      BY <1>2 DEF Contents, InTurn
    <3>2. store'[k] = IF k \in cli THEN "cli" ELSE store[k]
      BY <1>3
    <3>3. UNCHANGED <<history, cli, env, props>>
      BY <1>1 DEF Stage, sources, history
    <3>4. Winner(k)' = IF k \in cli THEN "cli" ELSE FromEnv(k)
      BY <3>1, <3>3 DEF Winner, FromEnv, FromConsul, FromProps, history
    <3> QED
      BY <3>1, <3>2, <3>4 DEF Final
  <2>2. ASSUME NEW j \in todo' PROVE Pending(j)'
    BY <1>1, <1>2, <1>3, <2>2 DEF Stage, Contents, Pending, LInv, TypeOK
  <2>3. ASSUME NEW j \in Keys \ (todo' \cup cur'), j # k PROVE Final(j)'
    BY <1>1, <1>2, <1>3, <2>3 DEF Stage, Contents, Final, Winner, sources, history
  <2>4. \A j \in todo' \cup cur' \cup secrets' : secret'[j] = "nothing"
    BY <1>1, <1>2 DEF Stage, Contents
  <2> QED
    BY <1>1, <1>2, <2>1, <2>2, <2>3, <2>4 DEF Contents
<1> QED
  BY <1>1, <1>2, <1>4, <1>5, <1>6, ContentsInBetweenNext DEF Stage, LInv

LEMMA LoadSecretLInv == ASSUME LInv, LoadSecret PROVE LInv'
<1>1. PICK k \in secrets, answer \in {"nothing", "vault", "vault_null"}, flag \in BOOLEAN :
        LET taken == flag /\ answer # "nothing"
        IN  /\ secrets' = secrets \ {k}
            /\ store' = IF taken THEN [store EXCEPT ![k] = answer] ELSE store
            /\ secret' = IF taken THEN [secret EXCEPT ![k] = answer]
                         ELSE IF answer = "vault" THEN [secret EXCEPT ![k] = "dropped"]
                         ELSE secret
  BY DEF LoadSecret
<1>2. /\ k \in Keys /\ secrets \subseteq Keys /\ pc = "vault" /\ todo = {} /\ cur = {}
      /\ status = "loading" /\ Contents /\ secret[k] = "nothing"
      /\ UNCHANGED <<sources, pc, todo, cur, status, loads, writes, base, ahead, said>>
  BY LoadAssumption DEF LInv, TypeOK, Place, LoadSecret, Contents
<1>3. /\ store' \in [Keys -> Values]
      /\ secret' \in [Keys -> {"nothing", "vault", "vault_null", "dropped"}]
      /\ \A j \in Keys \ {k} : store'[j] = store[j] /\ secret'[j] = secret[j]
      /\ \/ secret'[k] \in {"vault", "vault_null"} /\ store'[k] = secret'[k]
         \/ secret'[k] \in {"nothing", "dropped"} /\ store'[k] = store[k]
  <2>1. CASE flag /\ answer # "nothing"
    BY <1>1, <1>2, <2>1 DEF LInv, TypeOK, Values
  <2>2. CASE ~(flag /\ answer # "nothing")
    BY <1>1, <1>2, <2>2 DEF LInv, TypeOK, Values
  <2> QED
    BY <2>1, <2>2
<1>4. TypeOK'
  BY <1>1, <1>2, <1>3 DEF LInv, TypeOK, sources
<1>5. Place'
  BY <1>2 DEF LInv, Place
<1>6. Contents'
  <2>1. ASSUME NEW j \in Keys PROVE Final(j)'
    BY <1>2, <1>3 DEF Contents, Final, Winner, sources
  <2>2. \A j \in secrets' : secret'[j] = "nothing"
    BY <1>1, <1>2, <1>3 DEF Contents
  <2> QED
    BY <1>2, <2>1, <2>2 DEF Contents
<1> QED
  BY <1>2, <1>4, <1>5, <1>6, ContentsInBetweenNext DEF LInv

\* The end of a load leaves all keys as they are.
LEMMA EndLInv == ASSUME LInv, Finish \/ Throw \/ Abort PROVE LInv'
<1>1. /\ UNCHANGED <<store, sources, loads, writes, history>>
      /\ todo' \subseteq todo /\ cur' \subseteq cur /\ secrets' \subseteq secrets
  BY DEF Finish, Throw, Abort
<1>2. TypeOK'
  <2>1. cur' = cur \/ cur' = {}
    BY DEF Finish, Throw, Abort
  <2>2. Cardinality(cur') <= 1
    <3>1. Cardinality(cur) <= 1
      BY DEF LInv, TypeOK
    <3> QED
      BY <2>1, <3>1, FS_EmptySet
  <2> QED
    BY <1>1, <2>2 DEF Finish, Throw, Abort, LInv, TypeOK, sources, history
<1>3. Place'
  BY DEF LInv, Place, Finish, Throw, Abort, Asking
<1>4. InBetween'
  BY <1>1 DEF LInv, InBetween, Fine, Winner, sources, history
<1>5. status' \in {"loading", "done"} => Contents'
  <2>1. CASE Throw
    BY <2>1 DEF Throw
  <2>2. CASE Finish \/ Abort
    <3>1. Contents /\ todo' = todo /\ cur' = cur /\ pc' \in {"idle", "dead"}
      BY <2>2 DEF Finish, Abort, Asking, LInv, Place
    <3> QED
      BY <1>1, <3>1 DEF Contents, Pending, InTurn, Final, Winner, sources, history
  <2> QED
    BY <2>1, <2>2
<1> QED
  BY <1>2, <1>3, <1>4, <1>5 DEF LInv

\* A write of the application, before, in or after the turn of its key.
LEMMA SetOptLInv == ASSUME LInv, NEW k \in Keys, SetOpt(k) PROVE LInv'
<1>1. /\ \A j \in Keys \ {k} : /\ store'[j] = store[j] /\ base'[j] = base[j]
                               /\ ahead'[j] = ahead[j] /\ said'[j] = said[j]
                               /\ secret'[j] = secret[j]
      /\ store'[k] = "app" /\ base'[k] = "app" /\ ahead'[k] = StillToAsk(k)
      /\ said'[k] = "nothing" /\ secret'[k] = "nothing"
      /\ UNCHANGED <<sources, pc, todo, cur, secrets, status, loads>>
  BY DEF SetOpt, LInv, TypeOK
<1>2. TypeOK'
  <2>1. StillToAsk(k) \in SUBSET Local
    BY DEF StillToAsk, Local
  <2> QED
    BY <2>1, LoadAssumption DEF SetOpt, LInv, TypeOK, Values, sources
<1>3. Place'
  BY <1>1 DEF LInv, Place
<1>4. InBetween'
  <2>1. PICK c : \A j \in Keys : j = c \/ Fine(j)
    BY DEF LInv, InBetween
  <2>2. ASSUME NEW j \in Keys, j # c PROVE Fine(j)'
    BY <1>1, <2>1, <2>2 DEF Fine, Winner, sources
  <2> QED
    BY <2>2 DEF InBetween
<1>5. Contents => Contents'
  <2> SUFFICES ASSUME Contents PROVE Contents'
    OBVIOUS
  <2>1. ASSUME NEW j \in todo PROVE Pending(j)'
    BY <1>1, <2>1 DEF Contents, Pending, StillToAsk, LInv, TypeOK
  <2>2. ASSUME NEW j \in cur PROVE InTurn(j)'
    <3>1. CASE j = k
      BY <1>1, <2>2, <3>1 DEF InTurn, FromEnv, FromConsul, FromProps, StillToAsk, Local,
                              LInv, Place, sources
    <3>2. CASE j # k
      BY <1>1, <2>2, <3>2 DEF Contents, InTurn, FromEnv, FromConsul, FromProps,
                              LInv, TypeOK, sources
    <3> QED
      BY <3>1, <3>2
  <2>3. ASSUME NEW j \in Keys \ (todo \cup cur) PROVE Final(j)'
    BY <1>1, <2>3 DEF Contents, Final, Winner, StillToAsk, sources
  <2>4. \A j \in todo \cup cur \cup secrets : secret'[j] = "nothing"
    BY <1>1, LoadAssumption DEF Contents, LInv, TypeOK
  <2> QED
    BY <1>1, <2>1, <2>2, <2>3, <2>4 DEF Contents
<1> QED
  BY <1>1, <1>2, <1>3, <1>4, <1>5 DEF LInv

LEMMA NextLInv == LInv /\ [Next]_vars => LInv'
<1>1. ASSUME LInv, UNCHANGED vars PROVE LInv'
  BY <1>1 DEF vars, LInv, TypeOK, Place, InBetween, Fine, Winner, Contents, Pending,
              InTurn, Final, FromEnv, FromConsul, FromProps, sources, history
<1> QED
  BY <1>1, LoadConfigLInv, LoadPropsLInv, LoadConsulLInv, LoadEnvironmentLInv,
     LoadCliLInv, LoadSecretLInv, EndLInv, SetOptLInv DEF Next, Loading

THEOREM Invariance == Spec => []LInv
BY InitLInv, NextLInv, PTL DEF Spec

\* Every variable keeps its type.
THEOREM TypeCorrect == Spec => []TypeOK
BY Invariance, PTL DEF LInv

\* A completed load leaves every key at the value of its best source.
THEOREM LoadsAreComplete == Spec => []LoadedValues
<1>1. LInv => LoadedValues
  <2> SUFFICES ASSUME LInv, status = "done" PROVE LoadedValues
    BY DEF LoadedValues
  <2>1. Contents /\ pc = "idle"
    BY DEF LInv, Place
  <2> QED
    BY <2>1 DEF LInv, Place, Contents, Final, LoadedValues
<1> QED
  BY <1>1, Invariance, PTL

\* At most one key is caught between the sources, also when a load has thrown.
THEOREM LoadsGoKeyByKey == Spec => []OneKeyInBetween
<1>1. LInv => OneKeyInBetween
  <2> SUFFICES ASSUME LInv PROVE OneKeyInBetween
    OBVIOUS
  <2>1. PICK c : \A k \in Keys : k = c \/ Fine(k)
    BY DEF LInv, InBetween
  <2> DEFINE Caught == {k \in Keys : store[k] \notin {base[k], Winner(k)}}
  <2>2. Caught \in SUBSET {c}
    BY <2>1 DEF Fine
  <2>3. IsFiniteSet({c}) /\ Cardinality({c}) = 1
    BY FS_Singleton
  <2> HIDE DEF Caught
  <2>4. Cardinality(Caught) <= 1
    BY <2>2, <2>3, FS_Subset
  <2> USE DEF Caught
  <2> QED
    BY <2>4 DEF OneKeyInBetween
<1> QED
  BY <1>1, Invariance, PTL

-----------------------------------------------------------------------------
(* Progress, as far as it is about single steps.                            *)

\* How far the load is with the key it is at.
StagesLeft(stage) == CASE stage = "consul" -> 3 [] stage = "env" -> 2 [] stage = "cli" -> 1
                  [] OTHER -> 0

\* A step of the load ends it, takes a key or a secret off what is left to do,
\* or comes closer to the end of the key's turn.
Advances ==
  \/ pc' \in {"idle", "dead"}
  \/ todo' \subseteq todo /\ todo' # todo /\ secrets' = secrets
  \/ todo' = todo /\ secrets' \subseteq secrets /\ secrets' # secrets /\ pc' = pc
  \/ todo' = todo /\ secrets' = secrets /\ StagesLeft(pc') < StagesLeft(pc)

\* A load that goes on has something to do next.
HasWork ==
  /\ pc = "key" => todo # {}
  /\ pc \in {"consul", "env", "cli"} => cur # {}

LEMMA WorkSteps == LInv /\ HasWork /\ [Next]_vars => HasWork'
<1> SUFFICES ASSUME LInv, HasWork, [Next]_vars PROVE HasWork'
  OBVIOUS
<1>1. ASSUME LoadConfig PROVE HasWork'
  BY <1>1 DEF LoadConfig, HasWork
<1>2. ASSUME LoadProps PROVE HasWork'
  BY <1>2 DEF LoadProps, Stage, HasWork
<1>3. ASSUME LoadConsul \/ LoadEnvironment \/ LoadCli PROVE HasWork'
  BY <1>3 DEF LoadConsul, LoadEnvironment, LoadCli, Stage, HasWork
<1>4. ASSUME LoadSecret \/ Finish \/ Throw \/ Abort PROVE HasWork'
  BY <1>4 DEF LoadSecret, Finish, Throw, Abort, HasWork
<1>5. ASSUME NEW k \in Keys, SetOpt(k) PROVE HasWork'
  BY <1>5 DEF SetOpt, HasWork
<1>6. CASE UNCHANGED vars
  BY <1>6 DEF vars, HasWork
<1> QED
  BY <1>1, <1>2, <1>3, <1>4, <1>5, <1>6 DEF Next, Loading

LEMMA LoadingAdvances == ASSUME Loading PROVE Advances
<1>1. ASSUME LoadProps PROVE Advances
  BY <1>1 DEF LoadProps, Stage, Advances
<1>2. ASSUME LoadConsul \/ LoadEnvironment PROVE Advances
  BY <1>2 DEF LoadConsul, LoadEnvironment, Stage, Advances, StagesLeft
<1>3. ASSUME LoadCli PROVE Advances
  BY <1>3 DEF LoadCli, Stage, Advances, StagesLeft
<1>4. ASSUME LoadSecret PROVE Advances
  BY <1>4 DEF LoadSecret, Advances
<1>5. ASSUME Finish \/ Throw \/ Abort PROVE Advances
  BY <1>5 DEF Finish, Throw, Abort, Advances
<1> QED
  BY <1>1, <1>2, <1>3, <1>4, <1>5 DEF Loading

\* Whatever Consul and Vault answer, and however often the application writes
\* meanwhile, a load_config under way comes closer to its end with every step
\* of its own and is not thrown back by the others; and it is never without a
\* next step.  With finitely many options it therefore ends if it is scheduled.
THEOREM LoadsAdvance ==
  Spec => [][pc \notin {"idle", "dead"} =>
               Advances \/ UNCHANGED <<pc, todo, cur, secrets>>]_vars /\ []HasWork
<1>1. [Next]_vars => [pc \notin {"idle", "dead"} =>
                        Advances \/ UNCHANGED <<pc, todo, cur, secrets>>]_vars
  <2>1. LoadConfig => pc = "idle"
    BY DEF LoadConfig
  <2>2. \A k \in Keys : SetOpt(k) => UNCHANGED <<pc, todo, cur, secrets>>
    BY DEF SetOpt
  <2> QED
    BY <2>1, <2>2, LoadingAdvances DEF Next
<1>2. Init => HasWork
  BY DEF Init, HasWork
<1> QED
  BY <1>1, <1>2, WorkSteps, Invariance, PTL DEF Spec
=============================================================================
