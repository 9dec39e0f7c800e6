------------------------ MODULE ProfileSources_proofs ------------------------
(***************************************************************************)
(* Theorems about ProfileSources, for any number of threads and objects    *)
(* and for command lines and files of any length.                          *)
(*                                                                         *)
(* The argument has two parts.  The objects: each pointer of the profile   *)
(* is to an object of its kind, the one under construction is not yet      *)
(* pointed to, and no thread holds a client while one is built.  The texts: *)
(* what is left to parse is the rest of what was given, and the options    *)
(* are those of the texts before it.                                       *)
(***************************************************************************)
EXTENDS ProfileSources, TLAPS

\* While an object is built its pointer is null, and with the interpreter every
\* pointer is.
Building ==
  /\ pc = "parse" <=> fresh # Null
  /\ pc = "parse" => ptr[fresh[1]] = Null
  /\ pc = "parse" /\ fresh[1] = "cli" => \A k \in Kinds : ptr[k] = Null

\* A client is held only while the profile points to it, and none while one is
\* built or when the profile is gone; the owner holds none between its calls.
Holding ==
  /\ \A t \in Threads : held[t] \in {Null} \cup {ptr[k] : k \in Kinds}
  /\ pc \in {"parse", "gone"} => \A t \in Threads : held[t] = Null
  /\ pc = "idle" => held["owner"] = Null

\* What is left of ts when n of its texts have been parsed.
Left(n, ts) ==
  /\ n + Len(texts) = Len(ts)
  /\ \A i \in 1..Len(texts) : texts[i] = ts[n + i]

\* The options when n arguments, or n lines, have been parsed.
CliUpTo(n) ==
  \A k \in Keys :
    \/ (\A i \in 1..n : args[i].key # k) /\ opts["cli"][k] = None
    \/ \E i \in 1..n : /\ args[i].key = k
                       /\ \A j \in 1..n : args[j].key = k => i <= j
                       /\ opts["cli"][k] = Valued(args[i])

Counts(i, k) == read[i].key = k /\ k \notin Comments /\ read[i].val # NoEq

PropsUpTo(n) ==
  \A k \in Keys :
    \/ (\A i \in 1..n : ~Counts(i, k)) /\ opts["props"][k] = None
    \/ \E i \in 1..n : /\ Counts(i, k)
                       /\ \A j \in 1..n : Counts(j, k) => j <= i
                       /\ opts["props"][k] = read[i].val

ParsedSoFar ==
  /\ pc = "parse" /\ fresh[1] = "cli" => \E n \in Nat : Left(n, args) /\ CliUpTo(n)
  /\ ptr["cli"] # Null => CliUpTo(Len(args))
  /\ pc = "parse" /\ fresh[1] = "props" => \E n \in Nat : Left(n, read) /\ PropsUpTo(n)
  /\ ptr["props"] # Null => PropsUpTo(Len(read))

IInv == TypeOK /\ Building /\ Owned /\ Holding /\ ParsedSoFar

-----------------------------------------------------------------------------
(* The objects.                                                             *)

\* A pointer tells which kind it is of, so two of the profile's never agree.
LEMMA PointersDiffer ==
  ASSUME TypeOK, NEW k \in Kinds, ptr[k] # Null
  PROVE  /\ ptr[k] \in Objects /\ ptr[k][1] = k
         /\ \A j \in Kinds : ptr[j] = ptr[k] => j = k
<1>1. \A j \in Kinds : ptr[j] # Null => ptr[j] \in Objects /\ ptr[j][1] = j
  BY DEF TypeOK, Objs
<1> QED
  BY <1>1

LEMMA InitIInv == Init => IInv
<1> SUFFICES ASSUME Init PROVE IInv
  OBVIOUS
<1>0. /\ \A k \in Kinds : ptr[k] = Null
      /\ ptr["cli"] = Null /\ ptr["props"] = Null
      /\ {ptr[k] : k \in Kinds} = {Null}
      /\ Holding
  BY DEF Init, Holding, Threads, Kinds
<1>1. CASE pc = "idle" /\ fresh = Null /\ live = {} /\ texts = <<>>
  <2>1. TypeOK
    BY <1>1, SourcesAssumption DEF Init, TypeOK, Options, Unset
  <2>2. Building /\ Owned /\ ParsedSoFar
    BY <1>0, <1>1 DEF Building, Owned, ParsedSoFar
  <2> QED
    BY <1>0, <2>1, <2>2 DEF IInv
<1>2. ASSUME NEW a \in Args, a # <<>>, texts \in {a, Tail(a)},
             pc = "parse", fresh = <<"cli", 1>>, live = {fresh}
      PROVE  IInv
  <2>1. fresh \in Objects /\ fresh # Null /\ fresh[1] = "cli" /\ fresh[2] = 1
    BY <1>2, SourcesAssumption DEF Objects, Kinds
  <2>2. texts \in Seq(Texts)
    BY <1>2, SourcesAssumption
  <2>3. made \in [Kinds -> 0..MaxObjects] /\ made["cli"] = 1
    BY <2>1, SourcesAssumption DEF Init, Kinds
  <2>4. TypeOK
    BY <1>2, <2>1, <2>2, <2>3 DEF Init, TypeOK, Options, Unset
  <2>5. Building /\ Owned
    BY <1>0, <1>2, <2>1 DEF Building, Owned, Kinds
  <2>6. Left(0, args) /\ CliUpTo(0)
    BY <2>2 DEF Init, Left, CliUpTo, Unset, Kinds
  <2>7. ParsedSoFar
    BY <1>0, <1>2, <2>1, <2>6 DEF ParsedSoFar
  <2> QED
    BY <1>0, <2>4, <2>5, <2>7 DEF IInv
<1> QED
  BY <1>1, <1>2 DEF Init

\* A step of load_config takes one of the profile's clients or none, and lets
\* go of it before the call returns; it changes nothing else.
LEMMA LoadSteps ==
  ASSUME Load
  PROVE  /\ pc \notin {"parse", "gone", "crashed"}
         /\ pc' \in {"idle", "props", "consul", "decode", "cli", "vault"}
         /\ \E o \in {Null} \cup {ptr[k] : k \in Kinds} :
              held' = [held EXCEPT !["owner"] = o] /\ (pc' = "idle" => o = Null)
         /\ UNCHANGED <<ptr, live, made, fresh, texts, opts, args, read>>
<1>1. ASSUME NEW from, NEW to, Loading(from, to),
             from \in {"idle", "props", "consul", "decode", "cli", "vault"},
             to \in {"idle", "props", "consul", "decode", "cli", "vault"}
      PROVE  /\ pc \notin {"parse", "gone", "crashed"}
             /\ pc' \in {"idle", "props", "consul", "decode", "cli", "vault"}
             /\ \E o \in {Null} \cup {ptr[k] : k \in Kinds} :
                  held' = [held EXCEPT !["owner"] = o] /\ (pc' = "idle" => o = Null)
             /\ UNCHANGED <<ptr, live, made, fresh, texts, opts, args, read>>
  <2> DEFINE o == CASE to \in Kinds -> ptr[to] [] to = "decode" -> ptr["consul"]
                    [] OTHER -> Null
  <2>1. o \in {Null} \cup {ptr[k] : k \in Kinds} /\ (to = "idle" => o = Null)
    BY DEF Kinds
  <2>2. held' = [held EXCEPT !["owner"] = o] /\ pc = from /\ pc' = to
        /\ UNCHANGED <<ptr, live, made, fresh, texts, opts, args, read>>
    BY <1>1 DEF Loading, Hold
  <2> QED
    BY <1>1, <2>1, <2>2
<1> QED
  BY <1>1 DEF Load

-----------------------------------------------------------------------------
(* The steps, for the objects and for the texts.                            *)

\* What a step that builds, deletes and points to nothing must do to keep the
\* objects in order.
LEMMA StillOwned ==
  ASSUME IInv, UNCHANGED <<ptr, live, fresh>>, pc' # "gone", pc # "gone",
         pc' = "parse" <=> pc = "parse"
  PROVE  Building' /\ Owned'
BY DEF IInv, Building, Owned

\* Parsing one text more.
LEMMA LeftStep ==
  ASSUME TypeOK, NEW ts \in Seq(Texts), NEW n \in Nat, Left(n, ts),
         texts # <<>>, texts' = Tail(texts)
  PROVE  /\ texts[1] \in Texts /\ texts[1] = ts[n + 1]
         /\ n + 1 \in 1..Len(ts)
         /\ n + 1 + Len(texts') = Len(ts)
         /\ \A i \in 1..Len(texts') : texts'[i] = ts[n + 1 + i]
<1>1. texts \in Seq(Texts) /\ Len(texts) \in Nat \ {0} /\ Len(ts) \in Nat
  BY DEF TypeOK
<1>2. /\ Len(texts') = Len(texts) - 1
      /\ \A i \in 1..Len(texts') : texts'[i] = texts[i + 1]
  BY <1>1
<1>3. texts[1] \in Texts /\ texts[1] = ts[n + 1]
  BY <1>1 DEF Left
<1>4. \A i \in 1..Len(texts') : i + 1 \in 1..Len(texts) /\ n + (i + 1) = n + 1 + i
  BY <1>1, <1>2
<1> QED
  BY <1>1, <1>2, <1>3, <1>4 DEF Left

\* An argument with a new name sets its option, one with a known name nothing.
LEMMA ArgCounts ==
  ASSUME IInv, ParseArg
  PROVE  /\ opts' \in [Kinds -> Options] /\ opts'["props"] = opts["props"]
         /\ \E n \in Nat : (Left(n, args) /\ CliUpTo(n))'
<1>1. PICK n \in Nat : Left(n, args) /\ CliUpTo(n)
  BY DEF ParseArg, Parsing, IInv, ParsedSoFar
<1> DEFINE x == texts[1]
<1>2. /\ x \in Texts /\ x = args[n + 1] /\ n + 1 \in Nat
      /\ Left(n + 1, args)'
  BY <1>1, LeftStep DEF ParseArg, Parsing, IInv, TypeOK, Left
<1>3. opts \in [Kinds -> Options] /\ opts["cli"] \in Options /\ "cli" \in Kinds
  BY DEF IInv, TypeOK, Kinds
<1>4. Valued(x) \in Values \cup {NA} /\ Valued(x) # None /\ x.key \in Keys
  BY <1>2, SourcesAssumption DEF Valued, Texts
<1>5. /\ opts' \in [Kinds -> Options] /\ opts'["props"] = opts["props"]
      /\ \A k \in Keys : opts'["cli"][k] =
           IF k = x.key /\ opts["cli"][k] = None THEN Valued(x) ELSE opts["cli"][k]
  BY <1>3, <1>4 DEF ParseArg, Options
<1>6. UNCHANGED args
  BY DEF ParseArg, Parsing
<1>7. ASSUME NEW k \in Keys
      PROVE  \/ (\A i \in 1..(n + 1) : args[i].key # k) /\ opts'["cli"][k] = None
             \/ \E i \in 1..(n + 1) :
                  /\ args[i].key = k
                  /\ \A j \in 1..(n + 1) : args[j].key = k => i <= j
                  /\ opts'["cli"][k] = Valued(args[i])
  <2>1. CASE (\A i \in 1..n : args[i].key # k) /\ opts["cli"][k] = None
    <3>1. CASE x.key = k
      <4>1. /\ args[n + 1].key = k
            /\ \A j \in 1..(n + 1) : args[j].key = k => n + 1 <= j
            /\ opts'["cli"][k] = Valued(args[n + 1])
        BY <1>2, <1>5, <2>1, <3>1
      <4> QED
        BY <4>1
    <3>2. CASE x.key # k
      BY <1>2, <1>5, <2>1, <3>2
    <3> QED
      BY <3>1, <3>2
  <2>2. CASE \E i \in 1..n : /\ args[i].key = k
                            /\ \A j \in 1..n : args[j].key = k => i <= j
                            /\ opts["cli"][k] = Valued(args[i])
    <3>1. PICK i \in 1..n : /\ args[i].key = k
                            /\ \A j \in 1..n : args[j].key = k => i <= j
                            /\ opts["cli"][k] = Valued(args[i])
      BY <2>2
    <3>2. args[i] \in Texts
      BY <1>1, <3>1 DEF Left, IInv, TypeOK
    <3>3. Valued(args[i]) # None
      BY <3>2, SourcesAssumption DEF Valued, Texts
    <3>4. opts'["cli"][k] = Valued(args[i])
      BY <1>5, <3>1, <3>3
    <3>5. \A j \in 1..(n + 1) : args[j].key = k => i <= j
      BY <3>1
    <3> QED
      BY <3>1, <3>4, <3>5
  <2> QED
    BY <1>1, <2>1, <2>2 DEF CliUpTo
<1>8. CliUpTo(n + 1)'
  BY <1>6, <1>7 DEF CliUpTo
<1> QED
  BY <1>2, <1>5, <1>8

\* A line that says something replaces what an earlier one said.
LEMMA LineCounts ==
  ASSUME IInv, ParseLine
  PROVE  /\ opts' \in [Kinds -> Options] /\ opts'["cli"] = opts["cli"]
         /\ \E n \in Nat : (Left(n, read) /\ PropsUpTo(n))'
<1>1. PICK n \in Nat : Left(n, read) /\ PropsUpTo(n)
  BY DEF ParseLine, Parsing, IInv, ParsedSoFar
<1> DEFINE x == texts[1]
<1>2. /\ x \in Texts /\ x = read[n + 1] /\ n + 1 \in Nat
      /\ Left(n + 1, read)'
  BY <1>1, LeftStep DEF ParseLine, Parsing, IInv, TypeOK, Left
<1>3. opts \in [Kinds -> Options] /\ opts["props"] \in Options /\ "props" \in Kinds
  BY DEF IInv, TypeOK, Kinds
<1>4. x.key \in Keys /\ (x.val # NoEq => x.val \in Values)
  BY <1>2 DEF Texts
<1>5. /\ opts' \in [Kinds -> Options] /\ opts'["cli"] = opts["cli"]
      /\ \A k \in Keys : opts'["props"][k] =
           IF Counts(n + 1, k) THEN x.val ELSE opts["props"][k]
  BY <1>2, <1>3, <1>4 DEF ParseLine, Options, Counts
<1>6. UNCHANGED read
  BY DEF ParseLine, Parsing
<1>7. ASSUME NEW k \in Keys
      PROVE  \/ (\A i \in 1..(n + 1) : ~Counts(i, k)) /\ opts'["props"][k] = None
             \/ \E i \in 1..(n + 1) :
                  /\ Counts(i, k)
                  /\ \A j \in 1..(n + 1) : Counts(j, k) => j <= i
                  /\ opts'["props"][k] = read[i].val
  <2>1. CASE Counts(n + 1, k)
    <3>1. /\ \A j \in 1..(n + 1) : Counts(j, k) => j <= n + 1
          /\ opts'["props"][k] = read[n + 1].val
      BY <1>2, <1>5, <2>1
    <3> QED
      BY <2>1, <3>1
  <2>2. CASE ~Counts(n + 1, k)
    BY <1>1, <1>5, <2>2 DEF PropsUpTo
  <2> QED
    BY <2>1, <2>2
<1>8. PropsUpTo(n + 1)'
  BY <1>6, <1>7 DEF PropsUpTo, Counts
<1> QED
  BY <1>2, <1>5, <1>8

\* The parsing of one text changes nothing but the options.
LEMMA ParseKeeps ==
  ASSUME IInv, NEW k \in Kinds, Parsing(k), opts' \in [Kinds -> Options]
  PROVE  TypeOK' /\ Building' /\ Owned' /\ Holding'
<1>1. texts' \in Seq(Texts)
  BY DEF IInv, TypeOK, Parsing
<1>2. TypeOK'
  BY <1>1 DEF IInv, TypeOK, Parsing
<1>3. Building' /\ Owned' /\ Holding'
  BY DEF IInv, Building, Owned, Holding, Parsing
<1> QED
  BY <1>2, <1>3

LEMMA ParseArgKeeps == ASSUME IInv, ParseArg PROVE IInv'
<1>1. TypeOK' /\ Building' /\ Owned' /\ Holding'
  BY ArgCounts, ParseKeeps DEF ParseArg, Kinds
<1>2. ptr'["cli"] = Null /\ ptr'["props"] = Null /\ fresh'[1] = "cli"
  BY DEF ParseArg, Parsing, IInv, Building, Kinds
<1>3. ParsedSoFar'
  BY <1>2, ArgCounts DEF ParsedSoFar
<1> QED
  BY <1>1, <1>3 DEF IInv

LEMMA ParseLineKeeps == ASSUME IInv, ParseLine PROVE IInv'
<1>1. TypeOK' /\ Building' /\ Owned' /\ Holding'
  BY LineCounts, ParseKeeps DEF ParseLine, Kinds
<1>2. ptr'["props"] = Null /\ fresh'[1] = "props" /\ UNCHANGED <<ptr, args>>
  BY DEF ParseLine, Parsing, IInv, Building
<1>3. ptr'["cli"] # Null => CliUpTo(Len(args))'
  BY <1>2, LineCounts DEF IInv, ParsedSoFar, CliUpTo
<1>4. ParsedSoFar'
  BY <1>2, <1>3, LineCounts DEF ParsedSoFar
<1> QED
  BY <1>1, <1>4 DEF IInv

\* When nothing is left to parse, all that was given has been parsed.
LEMMA ConstructedKeeps == ASSUME IInv, Constructed PROVE IInv'
<1> USE DEF IInv, Constructed
<1>1. fresh \in Objects /\ fresh # Null /\ fresh[1] \in Kinds /\ fresh \in Objs(fresh[1])
  BY DEF Building, TypeOK, Objects, Objs
<1>2. /\ ptr' \in [Kinds -> Objects \cup {Null}]
      /\ ptr'[fresh[1]] = fresh
      /\ \A k \in Kinds : k # fresh[1] => ptr'[k] = ptr[k]
  BY <1>1 DEF TypeOK
<1>3. TypeOK'
  BY <1>1, <1>2 DEF TypeOK
<1>4. Building'
  BY <1>1 DEF Building
<1>5. Owned'
  <2>1. ptr[fresh[1]] = Null
    BY DEF Building
  <2>2. {ptr'[k] : k \in Kinds} \ {Null} = ({fresh} \cup {ptr[k] : k \in Kinds}) \ {Null}
    BY <1>1, <1>2, <2>1
  <2> QED
    BY <1>4, <2>2 DEF Owned, Building
<1>6. Holding'
  BY DEF Holding, Threads
<1>7. ParsedSoFar'
  <2>1. UNCHANGED <<opts, args, read>>
    OBVIOUS
  <2>2. (CliUpTo(Len(args)) => CliUpTo(Len(args))')
        /\ (PropsUpTo(Len(read)) => PropsUpTo(Len(read))')
    BY <2>1 DEF CliUpTo, PropsUpTo, Counts
  <2>3. \A n \in Nat : /\ Left(n, args) => n = Len(args)
                       /\ Left(n, read) => n = Len(read)
    BY DEF Left
  <2>4. fresh[1] = "cli" => CliUpTo(Len(args))
    BY <2>3 DEF ParsedSoFar
  <2>5. fresh[1] = "props" => PropsUpTo(Len(read))
    BY <2>3 DEF ParsedSoFar
  <2> QED
    BY <1>2, <2>2, <2>4, <2>5 DEF ParsedSoFar, Kinds
<1> QED
  BY <1>3, <1>4, <1>5, <1>6, <1>7

LEMMA ThrowsKeeps == ASSUME IInv, Throws PROVE IInv'
<1> USE DEF IInv, Throws
<1>1. fresh # Null /\ fresh \in Objects /\ fresh[1] \in Kinds /\ ptr[fresh[1]] = Null
  BY DEF Building, TypeOK, Objects
<1>2. TypeOK'
  BY DEF TypeOK
<1>3. Building'
  BY DEF Building
<1>4. Owned'
  <2>1. \A k \in Kinds : ptr[k] # fresh
    BY <1>1 DEF TypeOK, Objs
  <2>2. live' = {ptr[k] : k \in Kinds} \ {Null}
    BY <1>1, <2>1 DEF Owned
  <2>3. CASE fresh[1] = "cli"
    BY <2>2, <2>3 DEF Building, Owned, Kinds
  <2>4. CASE fresh[1] # "cli"
    BY <2>2, <2>4 DEF Owned
  <2> QED
    BY <2>3, <2>4
<1>5. Holding'
  BY DEF Holding, Threads
<1>6. ParsedSoFar'
  BY DEF ParsedSoFar, CliUpTo, PropsUpTo, Counts
<1> QED
  BY <1>2, <1>3, <1>4, <1>5, <1>6

\* The object that is replaced is held by nobody, and the new one is new.
LEMMA SetKeeps == ASSUME IInv, NEW k \in Kinds, Set(k) PROVE IInv'
<1> USE DEF IInv, Set, Build
<1>1. /\ made' \in [Kinds -> 0..MaxObjects] /\ made'[k] = made[k] + 1
      /\ \A j \in Kinds : made[j] <= made'[j]
      /\ made'[k] \in 1..MaxObjects
  <2>1. made \in [Kinds -> 0..MaxObjects] /\ MaxObjects \in Nat
    BY SourcesAssumption DEF TypeOK
  <2>2. made[k] < MaxObjects /\ made' = [made EXCEPT ![k] = made[k] + 1]
    OBVIOUS
  <2> HIDE DEF IInv, Set, Build
  <2> QED
    BY <2>1, <2>2
<1>2. fresh' = <<k, made'[k]>> /\ fresh' \in Objects /\ fresh' # Null
      /\ fresh'[1] = k /\ fresh'[2] = made'[k]
  BY <1>1, SourcesAssumption DEF Objects
<1>3. /\ ptr' \in [Kinds -> Objects \cup {Null}] /\ ptr'[k] = Null
      /\ \A j \in Kinds : j # k => ptr'[j] = ptr[j]
  BY DEF TypeOK
<1>4. fresh = Null
  BY DEF Building
<1>5. TypeOK'
  <2>1. read' \in Seq(Texts) /\ texts' \in Seq(Texts)
    <3>1. Files \subseteq Seq(Texts) /\ read \in Seq(Texts) /\ <<>> \in Seq(Texts)
      BY SourcesAssumption DEF TypeOK
    <3>2. IF k = "props" THEN read' \in Files /\ texts' = read'
                         ELSE read' = read /\ texts' = <<>>
      OBVIOUS
    <3> HIDE DEF IInv, Set, Build
    <3> QED
      BY <3>1, <3>2
  <2>2. opts' \in [Kinds -> Options]
    BY DEF TypeOK, Options, Unset
  <2>3. \A j \in Kinds : ptr'[j] \in Objs(j) \cup {Null}
    BY <1>3 DEF TypeOK
  <2>4. live' \subseteq Objects /\ \A o \in live' : o[2] <= made'[o[1]]
    <3>1. \A o \in live : o \in Objects /\ o[1] \in Kinds /\ o[2] \in Int /\ o[2] <= made[o[1]]
      BY DEF TypeOK, Objects
    <3>2. \A j \in Kinds : made[j] \in Int /\ made'[j] \in Int
      BY <1>1 DEF TypeOK
    <3> QED
      BY <1>1, <1>2, <3>1, <3>2
  <2> QED
    BY <1>1, <1>2, <1>3, <2>1, <2>2, <2>3, <2>4 DEF TypeOK
<1>6. Building'
  BY <1>2, <1>3 DEF Building
<1>7. Owned'
  <2>1. live = {ptr[j] : j \in Kinds} \ {Null}
    BY <1>4 DEF Owned
  <2>2. {ptr'[j] : j \in Kinds} \ {Null} = live \ {ptr[k]}
    BY <1>3, <2>1, PointersDiffer
  <2>3. live' = ({fresh'} \cup {ptr'[j] : j \in Kinds}) \ {Null}
    BY <1>2, <2>2
  <2> QED
    BY <2>3 DEF Owned
<1>8. Holding'
  BY DEF Holding, Threads, Quiet
<1>9. ParsedSoFar'
  <2>1. ptr'["cli"] = ptr["cli"] /\ args' = args /\ opts'["cli"] = opts["cli"]
    BY <1>3 DEF TypeOK, Kinds
  <2>2. ptr'["cli"] # Null => CliUpTo(Len(args))'
    BY <2>1 DEF ParsedSoFar, CliUpTo
  <2>3. CASE k = "props"
    <3>1. Left(0, read)'
      BY <2>3, SourcesAssumption DEF Left
    <3>2. opts'["props"] = Unset
      BY <2>3 DEF TypeOK
    <3>3. PropsUpTo(0)'
      BY <3>2 DEF PropsUpTo, Unset
    <3> QED
      BY <1>2, <1>3, <2>2, <2>3, <3>1, <3>3 DEF ParsedSoFar
  <2>4. CASE k # "props"
    <3>1. ptr'["props"] = ptr["props"] /\ read' = read /\ opts'["props"] = opts["props"]
      BY <1>3, <2>4 DEF TypeOK, Kinds
    <3>2. ptr'["props"] # Null => PropsUpTo(Len(read))'
      BY <3>1 DEF ParsedSoFar, PropsUpTo, Counts
    <3> QED
      BY <1>2, <2>2, <2>4, <3>2 DEF ParsedSoFar
  <2> QED
    BY <2>3, <2>4
<1> QED
  BY <1>5, <1>6, <1>7, <1>8, <1>9

LEMMA DestroyKeeps == ASSUME IInv, Destroy PROVE IInv'
<1> USE DEF IInv, Destroy
<1>1. TypeOK'
  BY DEF TypeOK
<1>2. Building' /\ Holding'
  BY DEF Building, Holding, Threads, Quiet
<1>3. Owned'
  <2>1. live = {ptr[k] : k \in Kinds} \ {Null}
    BY DEF Owned, Building
  <2>2. live' = {ptr["vault"]} \ {Null}
    BY <2>1, PointersDiffer DEF Kinds
  <2> QED
    BY <2>2 DEF Owned
<1>4. ParsedSoFar'
  BY DEF ParsedSoFar, CliUpTo, PropsUpTo, Counts
<1> QED
  BY <1>1, <1>2, <1>3, <1>4

\* Taking a pointer, or letting go of it, changes no source.
LEMMA UsesKeep ==
  ASSUME IInv, NEW t \in Threads, NEW o \in {Null} \cup {ptr[k] : k \in Kinds},
         held' = [held EXCEPT ![t] = o],
         UNCHANGED <<ptr, live, made, fresh, texts, opts, args, read>>,
         pc' \in {"idle", "props", "consul", "decode", "cli", "vault", "gone", "crashed", "parse"},
         pc' \in {"parse", "gone"} <=> pc \in {"parse", "gone"},
         pc' \in {"parse", "gone"} => pc' = pc /\ o = Null,
         pc' = "idle" => held'["owner"] = Null
  PROVE  IInv'
<1> USE DEF IInv
<1>1. TypeOK'
  BY DEF TypeOK
<1>2. Building' /\ Owned'
  BY DEF Building, Owned
<1>3. Holding'
  BY DEF Holding, TypeOK
<1>4. ParsedSoFar'
  <2>1. pc' = "parse" <=> pc = "parse"
    OBVIOUS
  <2>2. \A n : /\ CliUpTo(n)' = CliUpTo(n) /\ PropsUpTo(n)' = PropsUpTo(n)
              /\ Left(n, args)' = Left(n, args) /\ Left(n, read)' = Left(n, read)
    BY DEF CliUpTo, PropsUpTo, Counts, Left
  <2>3. UNCHANGED <<ptr, fresh>> /\ CliUpTo(Len(args))' = CliUpTo(Len(args))
        /\ PropsUpTo(Len(read))' = PropsUpTo(Len(read)) /\ ParsedSoFar
    BY DEF CliUpTo, PropsUpTo, Counts
  <2> HIDE DEF IInv
  <2> QED
    BY <2>1, <2>2, <2>3 DEF ParsedSoFar
<1> QED
  BY <1>1, <1>2, <1>3, <1>4

LEMMA LoadKeeps == ASSUME IInv, Load PROVE IInv'
<1>1. PICK o \in {Null} \cup {ptr[k] : k \in Kinds} :
        held' = [held EXCEPT !["owner"] = o] /\ (pc' = "idle" => o = Null)
  BY LoadSteps
<1>2. "owner" \in Threads
  BY DEF Threads
<1>3. pc' = "idle" => held'["owner"] = Null
  BY <1>1, <1>2 DEF IInv, TypeOK
<1> QED
  BY <1>1, <1>2, <1>3, LoadSteps, UsesKeep

LEMMA GetServiceKeeps == ASSUME IInv, NEW w \in Workers, GetService(w) PROVE IInv'
<1>1. w \in Threads /\ w # "owner" /\ held'["owner"] = held["owner"]
  BY SourcesAssumption DEF GetService, Hold, Threads, IInv, TypeOK
<1>2. pc' \in {pc, "crashed"}
  BY DEF GetService
<1>3. ptr["consul"] \in {ptr[k] : k \in Kinds}
  BY DEF Kinds
<1> QED
  BY <1>1, <1>2, <1>3, UsesKeep DEF GetService, Hold, IInv, TypeOK, Holding

LEMMA EndServiceKeeps == ASSUME IInv, NEW w \in Workers, EndService(w) PROVE IInv'
<1>1. w \in Threads /\ w # "owner" /\ held'["owner"] = held["owner"]
  BY SourcesAssumption DEF EndService, Hold, Threads, IInv, TypeOK
<1> QED
  BY <1>1, UsesKeep DEF EndService, Hold, IInv, TypeOK, Holding

LEMMA NextIInv == IInv /\ [Next]_vars => IInv'
<1> SUFFICES ASSUME IInv, [Next]_vars PROVE IInv'
  OBVIOUS
<1>1. CASE UNCHANGED vars
  BY <1>1 DEF vars, IInv, TypeOK, Building, Owned, Holding, ParsedSoFar, Left,
              CliUpTo, PropsUpTo, Counts
<1>2. CASE Next
  BY <1>2, ParseArgKeeps, ParseLineKeeps, ConstructedKeeps, ThrowsKeeps, SetKeeps,
     DestroyKeeps, LoadKeeps, GetServiceKeeps, EndServiceKeeps DEF Next
<1> QED
  BY <1>1, <1>2

-----------------------------------------------------------------------------
(* The theorems.                                                            *)

\* The pointers are to objects of their kind, no object is used before it is
\* made, and what was parsed is well formed.
THEOREM Invariance == Spec => []IInv
BY InitIInv, NextIInv, PTL DEF Spec

THEOREM TypeCorrect == Spec => []TypeOK
<1>1. IInv => TypeOK
  BY DEF IInv
<1> QED
  BY <1>1, Invariance, PTL

\* The setters and the destructor delete every object exactly when its pointer
\* goes, on every path, save the Vault client (app_profile.h).
THEOREM Ownership == Spec => []Owned
<1>1. IInv => Owned
  BY DEF IInv
<1> QED
  BY <1>1, Invariance, PTL

\* No thread, in load_config or in get_service, is inside a deleted client.
THEOREM NoUseAfterDelete == Spec => []HeldAreLive
<1>1. IInv => HeldAreLive
  <2> SUFFICES ASSUME IInv, NEW t \in Threads PROVE held[t] \in live \cup {Null}
    BY DEF HeldAreLive
  <2> QED
    BY DEF IInv, Holding, Owned
<1> QED
  BY <1>1, Invariance, PTL

\* The first of the arguments with a name counts, the last of the lines; and a
\* file counts as it was when it was set.
THEOREM ParsedRight == Spec => []ParsedAsWritten
<1>1. IInv => ParsedAsWritten
  <2> SUFFICES ASSUME IInv, NEW k \in Keys
               PROVE  /\ ptr["cli"] # Null =>
                           \/ Says(k, args) = {} /\ opts["cli"][k] = None
                           \/ \E i \in Says(k, args) :
                                /\ \A j \in Says(k, args) : i <= j
                                /\ opts["cli"][k] = Valued(args[i])
                      /\ ptr["props"] # Null =>
                           \/ Sets(k, read) = {} /\ opts["props"][k] = None
                           \/ \E i \in Sets(k, read) :
                                /\ \A j \in Sets(k, read) : j <= i
                                /\ opts["props"][k] = read[i].val
    BY DEF ParsedAsWritten
  <2>1. DOMAIN args = 1..Len(args) /\ DOMAIN read = 1..Len(read)
    BY DEF IInv, TypeOK
  <2>2. \A i : i \in Says(k, args) <=> i \in 1..Len(args) /\ args[i].key = k
    BY <2>1 DEF Says
  <2>3. \A i : i \in Sets(k, read) <=> i \in 1..Len(read) /\ Counts(i, k)
    BY <2>1 DEF Sets, Says, Counts
  <2>4. ptr["cli"] # Null =>
          \/ Says(k, args) = {} /\ opts["cli"][k] = None
          \/ \E i \in Says(k, args) : /\ \A j \in Says(k, args) : i <= j
                                      /\ opts["cli"][k] = Valued(args[i])
    BY <2>2 DEF IInv, ParsedSoFar, CliUpTo
  <2>5. ptr["props"] # Null =>
          \/ Sets(k, read) = {} /\ opts["props"][k] = None
          \/ \E i \in Sets(k, read) : /\ \A j \in Sets(k, read) : j <= i
                                      /\ opts["props"][k] = read[i].val
    BY <2>3 DEF IInv, ParsedSoFar, PropsUpTo
  <2> QED
    BY <2>4, <2>5
<1> QED
  BY <1>1, Invariance, PTL
=============================================================================
