--------------------------- MODULE ProfileSources ---------------------------
(***************************************************************************)
(* The sources an ApplicationProfile owns                                  *)
(* (aossl/profile/include/app_profile.h): the command line interpreter it  *)
(* is built with, and the properties reader, Consul client and Vault       *)
(* client that set_property_file, set_consul_address and set_vault_address *)
(* delete and build anew; with the parsing of the command line             *)
(* (aossl/commandline) and of the file (aossl/properties), and the uses    *)
(* that load_config and get_service make of them through plain pointers.   *)
(*                                                                         *)
(* As docs/pages/use.txt:91-96 demands, one thread, the owner, updates the *)
(* sources and loads them, and no other uses them while it updates.        *)
(***************************************************************************)
EXTENDS Integers, Sequences, FiniteSets

CONSTANTS
  Workers,     \* the other threads, which look services up
  Keys, Values,
  Comments,    \* the keys that begin with two slashes
  NoEq,        \* the value of a text that has no "="
  None,        \* no option
  NA,          \* the value of a flag, "N/A"
  Args, Files, \* the command lines and properties files: sequences of texts
  Null,        \* the null pointer
  MaxObjects   \* bound on the objects of each kind

Texts == [key : Keys, val : Values \cup {NoEq}]
Options == [Keys -> Values \cup {NA, None}]

Kinds == {"cli", "props", "consul", "vault"}
Objects == Kinds \X (1..MaxObjects)

ASSUME SourcesAssumption ==
  /\ "owner" \notin Workers
  /\ Comments \subseteq Keys
  /\ Args \subseteq Seq(Texts) /\ Files \subseteq Seq(Texts)
  /\ {NoEq, NA, None} \cap Values = {} /\ NoEq # None /\ NA # None
  /\ Null \notin Objects
  /\ MaxObjects \in Nat \ {0}

VARIABLES
  ptr,     \* the pointers of the profile
  live,    \* the objects that exist
  made,    \* how many there have been of each kind
  pc,      \* what the owner is doing
  fresh,   \* the object under construction
  held,    \* the client each thread holds a pointer to
  texts,   \* what is left to parse
  opts,    \* the options of the command line and of each properties reader
  args, read  \* history: the command line and the file that were parsed

vars == <<ptr, live, made, pc, fresh, held, texts, opts, args, read>>

Threads == Workers \cup {"owner"}
Unset == [k \in Keys |-> None]
Objs(k) == {o \in Objects : o[1] = k}

TypeOK ==
  /\ ptr \in [Kinds -> Objects \cup {Null}] /\ \A k \in Kinds : ptr[k] \in Objs(k) \cup {Null}
  /\ live \subseteq Objects
  /\ made \in [Kinds -> 0..MaxObjects] /\ \A o \in live : o[2] <= made[o[1]]
  /\ pc \in {"idle", "parse", "props", "consul", "decode", "cli", "vault", "gone", "crashed"}
  /\ fresh \in Objects \cup {Null}
  /\ held \in [Threads -> Objects \cup {Null}]
  /\ texts \in Seq(Texts)
  /\ opts \in [Kinds -> Options]
  /\ args \in Seq(Texts) /\ read \in Seq(Texts)

\* A profile without arguments, or the interpreter under construction.  From
\* argv it passes the program's name over, from a vector it parses all.
Init ==
  /\ \/ pc = "idle" /\ fresh = Null /\ live = {} /\ texts = <<>>
     \/ /\ pc = "parse" /\ fresh = <<"cli", 1>> /\ live = {fresh}
        /\ \E a \in Args : a # <<>> /\ texts \in {a, Tail(a)}
  /\ args = texts
  /\ made = [k \in Kinds |-> IF k = "cli" /\ fresh # Null THEN 1 ELSE 0]
  /\ ptr = [k \in Kinds |-> Null]
  /\ held = [t \in Threads |-> Null]
  /\ opts = [k \in Kinds |-> Unset]
  /\ read = <<>>

Quiet == \A w \in Workers : held[w] = Null

-----------------------------------------------------------------------------
\* Parsing

Parsing(k) ==
  /\ pc = "parse" /\ fresh[1] = k /\ texts # <<>>
  /\ texts' = Tail(texts)
  /\ UNCHANGED <<ptr, live, made, pc, fresh, held, args, read>>

Valued(x) == IF x.val = NoEq THEN NA ELSE x.val

\* Mutant: a later argument replaces an earlier one.
ParseArg_Assigns ==
  /\ Parsing("cli")
  /\ opts' = [opts EXCEPT !["cli"][texts[1].key] = Valued(texts[1])]

\* process_arg: add_opt, which leaves an option that is there as it is.
ParseArg ==
  /\ Parsing("cli")
  /\ opts' = IF opts["cli"][texts[1].key] # None THEN opts
             ELSE [opts EXCEPT !["cli"][texts[1].key] = Valued(texts[1])]

\* Mutant: a line without "=" is not skipped.
ParseLine_Flags ==
  /\ Parsing("props")
  /\ opts' = IF texts[1].key \in Comments THEN opts
             ELSE [opts EXCEPT !["props"][texts[1].key] = texts[1].val]

\* A comment or a line without "=" says nothing; set_opt replaces.
ParseLine ==
  /\ Parsing("props")
  /\ opts' = IF texts[1].key \in Comments \/ texts[1].val = NoEq THEN opts
             ELSE [opts EXCEPT !["props"][texts[1].key] = texts[1].val]

-----------------------------------------------------------------------------
\* Building and deleting

\* The object is complete and its pointer assigned.
Constructed ==
  /\ pc = "parse" /\ texts = <<>>
  /\ ptr' = [ptr EXCEPT ![fresh[1]] = fresh]
  /\ fresh' = Null
  /\ pc' = "idle"
  /\ UNCHANGED <<live, made, held, texts, opts, args, read>>

\* The construction throws: the object is gone, and with the interpreter the
\* whole profile.
Throws ==
  /\ pc = "parse"
  /\ live' = live \ {fresh}
  /\ fresh' = Null
  /\ texts' = <<>>
  /\ pc' = IF fresh[1] = "cli" THEN "gone" ELSE "idle"
  /\ UNCHANGED <<ptr, made, held, opts, args, read>>

\* The file is what it happens to be when it is opened.
Build(k) ==
  /\ k # "cli"
  /\ pc = "idle" /\ Quiet /\ made[k] < MaxObjects
  /\ made' = [made EXCEPT ![k] = @ + 1]
  /\ fresh' = <<k, made'[k]>>
  /\ IF k = "props" THEN read' \in Files /\ texts' = read'
                    ELSE read' = read /\ texts' = <<>>
  /\ opts' = [opts EXCEPT ![k] = Unset]
  /\ pc' = "parse"
  /\ UNCHANGED <<held, args>>

\* Mutants: the pointer is left as it is until the new object is there; the old
\* object is not deleted.
Set_KeepsPointer(k) ==
  /\ Build(k)
  /\ live' = (live \ {ptr[k]}) \cup {fresh'}
  /\ UNCHANGED ptr

Set_NoDelete(k) ==
  /\ Build(k)
  /\ live' = live \cup {fresh'}
  /\ ptr' = [ptr EXCEPT ![k] = Null]

\* set_property_file, set_consul_address, set_vault_address: the old object is
\* deleted and forgotten before the new one is built.
Set(k) ==
  /\ Build(k)
  /\ live' = (live \ {ptr[k]}) \cup {fresh'}
  /\ ptr' = [ptr EXCEPT ![k] = Null]

\* The destructor deletes all but the Vault client.
Destroy ==
  /\ pc = "idle" /\ Quiet
  /\ live' = live \ {ptr[k] : k \in {"cli", "props", "consul"}}
  /\ pc' = "gone"
  /\ UNCHANGED <<ptr, made, fresh, held, texts, opts, args, read>>

-----------------------------------------------------------------------------
\* Uses

Hold(t, o) == held' = [held EXCEPT ![t] = o]

Loading(from, to) ==
  /\ pc = from /\ pc' = to
  /\ Hold("owner", CASE to \in Kinds -> ptr[to] [] to = "decode" -> ptr["consul"]
                     [] OTHER -> Null)
  /\ UNCHANGED <<ptr, live, made, fresh, texts, opts, args, read>>

\* load_config asks the sources in this order, key by key.  A source that is not
\* set is passed over.  It calls load_config of the properties reader first,
\* whose body is empty: the file is not read again, and opts stays.
\* What the Consul client answers may throw, or be decoded by the client, whose
\* pointer is taken anew; then come the secrets.
Load ==
  \/ \E step \in {<<"idle", "props">>, <<"props", "consul">>, <<"consul", "cli">>,
                  <<"decode", "cli">>, <<"cli", "props">>, <<"cli", "vault">>,
                  <<"vault", "idle">>} : Loading(step[1], step[2])
  \/ held["owner"] # Null /\ Loading("consul", "decode")
  \/ held["owner"] # Null /\ Loading("consul", "idle")

\* get_service lists the services with the Consul client, set or not.
GetService(w) ==
  /\ pc \notin {"parse", "gone", "crashed"} /\ held[w] = Null
  /\ Hold(w, ptr["consul"])
  /\ pc' = IF ptr["consul"] = Null THEN "crashed" ELSE pc
  /\ UNCHANGED <<ptr, live, made, fresh, texts, opts, args, read>>

EndService(w) ==
  /\ held[w] # Null
  /\ Hold(w, Null)
  /\ UNCHANGED <<ptr, live, made, pc, fresh, texts, opts, args, read>>

Next ==
  \/ ParseArg \/ ParseLine \/ Constructed \/ Throws \/ Destroy \/ Load
  \/ \E k \in Kinds : Set(k)
  \/ \E w \in Workers : GetService(w) \/ EndService(w)

Spec == Init /\ [][Next]_vars

-----------------------------------------------------------------------------
(* Properties                                                              *)

\* No thread is inside a client that has been deleted, also after a new client
\* could not be built.
HeldAreLive == \A t \in Threads : held[t] \in live \cup {Null}

\* Every object is deleted exactly when nothing points to it any more, on every
\* path, except that the destructor forgets the Vault client.
Owned ==
  live = IF pc = "gone" THEN {ptr["vault"]} \ {Null}
         ELSE ({fresh} \cup {ptr[k] : k \in Kinds}) \ {Null}

\* The positions of the texts that say something of k.
Says(k, ts) == {i \in DOMAIN ts : ts[i].key = k}
Sets(k, ts) == {i \in Says(k, ts) : k \notin Comments /\ ts[i].val # NoEq}

\* Of two arguments with the same name the first counts, of two lines of the
\* file that the present reader has parsed the last; and nothing is left over
\* from the reader before it.
ParsedAsWritten ==
  \A k \in Keys :
    /\ ptr["cli"] # Null =>
         \/ Says(k, args) = {} /\ opts["cli"][k] = None
         \/ \E i \in Says(k, args) : /\ \A j \in Says(k, args) : i <= j
                                     /\ opts["cli"][k] = Valued(args[i])
    /\ ptr["props"] # Null =>
         \/ Sets(k, read) = {} /\ opts["props"][k] = None
         \/ \E i \in Sets(k, read) : /\ \A j \in Sets(k, read) : j <= i
                                     /\ opts["props"][k] = read[i].val
=============================================================================
