----------------------------- MODULE TieredLoad -----------------------------
(***************************************************************************)
(* TieredApplicationProfile::load_config                                   *)
(* (aossl/profile/include/tiered_app_profile.h): one thread pulls the      *)
(* options from the properties file, Consul, the environment and the       *)
(* command line, in that order, so that the last source that has a key     *)
(* wins; then the secrets from Vault.  Other threads go on setting options *)
(* meanwhile, each write being atomic (KeyValueStore).                     *)
(*                                                                         *)
(* A value is named after where it comes from.  The command line, the      *)
(* environment and the properties reader (whose load_config is empty) do   *)
(* not change while the program runs; Consul and Vault are external and    *)
(* answer each request as they like.                                       *)
(***************************************************************************)
EXTENDS Naturals, FiniteSets

CONSTANTS
  Keys,      \* the options added to the profile
  Secure,    \* those added with add_secure_opt
  MaxLoads,  \* bound on the calls of load_config
  MaxWrites  \* bound on the calls of set_opt

ASSUME LoadAssumption ==
  Secure \subseteq Keys /\ MaxLoads \in Nat /\ MaxWrites \in Nat

VARIABLES
  store,            \* the profile's map
  props, env, cli,  \* the keys the properties file, environment and CLI have
  pc,               \* where load_config is
  todo,             \* keys of the snapshot it iterates over, still to come
  cur,              \* the set that holds the key it is at, if any
  secrets,          \* secure keys it has not yet asked Vault for
  status,           \* how the last load_config went
  loads, writes,    \* calls so far
  base,             \* history: what each key held when the load began, or since
                    \* then was given by the application's last write to it
  ahead,            \* history: sources whose turn for the key came after that
  said,             \* history: what Consul has had for the key since
  secret            \* history: what came of asking Vault for the key since

sources == <<props, env, cli>>
history == <<base, ahead, said, secret>>
vars == <<store, sources, pc, todo, cur, secrets, status, loads, writes, history>>

Local == {"props", "env", "cli"}

\* "consul_null" is the empty string read from a Consul entry without a value,
\* "vault_null" the one taken from a Vault answer that is no object; a secure
\* option has the empty string for its default.
Values == {"default", "props", "consul", "consul_null", "env", "cli",
           "vault", "vault_null", "app"}

TypeOK ==
  /\ store \in [Keys -> Values] /\ base \in [Keys -> Values]
  /\ props \subseteq Keys /\ env \subseteq Keys /\ cli \subseteq Keys
  /\ pc \in {"idle", "key", "consul", "env", "cli", "vault", "dead"}
  /\ todo \subseteq Keys /\ cur \subseteq Keys /\ Cardinality(cur) <= 1
  /\ secrets \subseteq Secure
  /\ status \in {"none", "loading", "done", "threw"}
  /\ loads \in 0..MaxLoads /\ writes \in 0..MaxWrites
  /\ ahead \in [Keys -> SUBSET Local]
  /\ said \in [Keys -> {"nothing", "consul", "consul_null"}]
  /\ secret \in [Keys -> {"nothing", "vault", "vault_null", "dropped"}]

Init ==
  /\ store = [k \in Keys |-> "default"] /\ base = store
  /\ props \in SUBSET Keys /\ env \in SUBSET Keys /\ cli \in SUBSET Keys
  /\ pc = "idle" /\ todo = {} /\ cur = {} /\ secrets = {}
  /\ status = "none" /\ loads = 0 /\ writes = 0
  /\ ahead = [k \in Keys |-> {}]
  /\ said = [k \in Keys |-> "nothing"] /\ secret = said

-----------------------------------------------------------------------------
(* load_config                                                             *)

\* get_opts copies the map: its keys are visited in an order of their own.
LoadConfig ==
  /\ pc = "idle" /\ loads < MaxLoads
  /\ pc' = IF Keys = {} THEN "vault" ELSE "key"
  /\ todo' = Keys /\ secrets' = Secure
  /\ status' = "loading" /\ loads' = loads + 1
  /\ base' = store /\ ahead' = [k \in Keys |-> Local]
  /\ said' = [k \in Keys |-> "nothing"] /\ secret' = said'
  /\ UNCHANGED <<store, sources, cur, writes>>

\* A stage takes the value v for the key it is at if found, and goes on.
Stage(here, k, found, v, there) ==
  /\ pc = here /\ pc' = there
  /\ store' = IF found THEN [store EXCEPT ![k] = v] ELSE store
  /\ UNCHANGED <<sources, secrets, status, loads, writes, base, ahead, secret>>

\* Mutants: the file is loaded for all keys first; a key is never done.
LoadProps_AllFirst ==
  \E k \in todo :
    /\ pc = "key" /\ pc' = "consul"
    /\ store' = [j \in Keys |-> IF j \in todo \cap props THEN "props" ELSE store[j]]
    /\ UNCHANGED <<sources, secrets, status, loads, writes, base, ahead, secret>>
    /\ todo' = todo \ {k} /\ cur' = {k}
    /\ UNCHANGED said

LoadProps_KeepsKey ==
  \E k \in todo :
    /\ Stage("key", k, k \in props, "props", "consul")
    /\ cur' = {k}
    /\ UNCHANGED <<todo, said>>

LoadProps ==
  \E k \in todo :
    /\ Stage("key", k, k \in props, "props", "consul")
    /\ todo' = todo \ {k} /\ cur' = {k}
    /\ UNCHANGED said

\* Mutant: the value is stored whether there is one or not.
LoadConsul_Unchecked ==
  \E k \in cur, answer \in {"nothing", "consul", "consul_null"} :
    /\ Stage("consul", k, TRUE, answer, "env")
    /\ said' = [said EXCEPT ![k] = answer]
    /\ UNCHANGED <<todo, cur>>

\* Consul has nothing under the key, cannot be reached, or has a value.
LoadConsul ==
  \E k \in cur, answer \in {"nothing", "consul", "consul_null"} :
    /\ Stage("consul", k, answer # "nothing", answer, "env")
    /\ said' = [said EXCEPT ![k] = answer]
    /\ UNCHANGED <<todo, cur>>

LoadEnvironment ==
  \E k \in cur :
    /\ Stage("env", k, k \in env, "env", "cli")
    /\ UNCHANGED <<todo, cur, said>>

\* Mutant: the environment goes before the command line.
LoadCli_AfterEnv ==
  \E k \in cur :
    /\ Stage("cli", k, k \in cli \ env, "cli", IF todo = {} THEN "vault" ELSE "key")
    /\ cur' = {}
    /\ UNCHANGED <<todo, said>>

LoadCli ==
  \E k \in cur :
    /\ Stage("cli", k, k \in cli, "cli", IF todo = {} THEN "vault" ELSE "key")
    /\ cur' = {}
    /\ UNCHANGED <<todo, said>>

\* A secret is stored over whatever the sources before it gave.
\* get_vault_secret writes the result's success flag only when it fails: after
\* a good answer the flag is whatever the memory held, and load_vault_secret
\* stores the secret, or reports a failure, accordingly.
LoadSecret ==
  /\ pc = "vault"
  /\ \E k \in secrets, answer \in {"nothing", "vault", "vault_null"}, flag \in BOOLEAN :
       LET taken == flag /\ answer # "nothing"
       IN  /\ secrets' = secrets \ {k}
           /\ store' = IF taken THEN [store EXCEPT ![k] = answer] ELSE store
           /\ secret' = IF taken THEN [secret EXCEPT ![k] = answer]
                        ELSE IF answer = "vault" THEN [secret EXCEPT ![k] = "dropped"]
                        ELSE secret
  /\ UNCHANGED <<sources, pc, todo, cur, status, loads, writes, base, ahead, said>>

Finish ==
  /\ pc = "vault" /\ secrets = {}
  /\ pc' = "idle" /\ status' = "done"
  /\ UNCHANGED <<store, sources, todo, cur, secrets, loads, writes, history>>

\* load_config waits for an answer of Consul or Vault.
Asking == pc = "consul" \/ (pc = "vault" /\ secrets # {})

\* A Consul answer that is no JSON, or a Vault login that fails, throws out of
\* load_config, whatever has been stored by then.
Throw ==
  /\ Asking
  /\ pc' = "idle" /\ status' = "threw"
  /\ todo' = {} /\ cur' = {} /\ secrets' = {}
  /\ UNCHANGED <<store, sources, loads, writes, history>>

\* A Vault answer without d["data"]["data"][key], or a Consul array of anything
\* but objects, fails a RapidJSON assertion and ends the process.
Abort ==
  /\ Asking
  /\ pc' = "dead"
  /\ UNCHANGED <<store, sources, todo, cur, secrets, status, loads, writes, history>>

-----------------------------------------------------------------------------
(* The other threads                                                       *)

\* The local sources load_config has not yet asked for the key.
StillToAsk(k) ==
  IF k \in todo THEN Local
  ELSE IF k \notin cur THEN {}
  ELSE IF pc = "cli" THEN {"cli"} ELSE {"env", "cli"}

SetOpt(k) ==
  /\ pc # "dead" /\ writes < MaxWrites
  /\ store' = [store EXCEPT ![k] = "app"]
  /\ writes' = writes + 1
  /\ base' = [base EXCEPT ![k] = "app"]
  /\ ahead' = [ahead EXCEPT ![k] = StillToAsk(k)]
  /\ said' = [said EXCEPT ![k] = "nothing"]
  /\ secret' = [secret EXCEPT ![k] = "nothing"]
  /\ UNCHANGED <<sources, pc, todo, cur, secrets, status, loads>>

Loading ==
  \/ LoadProps \/ LoadConsul \/ LoadEnvironment \/ LoadCli
  \/ LoadSecret \/ Finish \/ Throw \/ Abort

Next == LoadConfig \/ Loading \/ \E k \in Keys : SetOpt(k)

\* load_config runs on; its requests to Consul and Vault end.
Spec == Init /\ [][Next]_vars /\ WF_vars(Loading)

-----------------------------------------------------------------------------
(* Properties                                                              *)

\* The best source of a key of those whose turn came after the key was last the
\* application's: Vault, command line, environment, Consul, properties file;
\* else what the application left there.
Winner(k) ==
  IF secret[k] \in {"vault", "vault_null"} THEN secret[k]
  ELSE IF k \in cli /\ "cli" \in ahead[k] THEN "cli"
  ELSE IF k \in env /\ "env" \in ahead[k] THEN "env"
  ELSE IF said[k] # "nothing" THEN said[k]
  ELSE IF k \in props /\ "props" \in ahead[k] THEN "props"
  ELSE base[k]

\* A completed load leaves every key at the value of its best source, or where
\* no source has it at what it held; and what the application writes to a key
\* meanwhile stays, but for the sources whose turn for that key is to come.
\* That a stored secret beats all other sources is the code's order, not the
\* documented one: SecureOrder.
LoadedValues == status = "done" => \A k \in Keys : store[k] = Winner(k)

\* At any moment of a load, and after one that threw, every key but one is
\* either as it was or has its final value: at most one is caught between the
\* sources, with a value that a better source is about to replace.
OneKeyInBetween == Cardinality({k \in Keys : store[k] \notin {base[k], Winner(k)}}) <= 1

\* Every load_config ends, in a return, an exception or an abort.
LoadEnds == pc # "idle" ~> pc \in {"idle", "dead"}

\* Secure options come from the environment, else from the properties file,
\* else from Vault (tiered_app_profile.h:647-651).
SecureOrder ==
  status = "done" =>
    \A k \in Secure \ cli :
      said[k] = "nothing" /\ secret[k] # "vault_null" =>
        store[k] = IF k \in env /\ "env" \in ahead[k] THEN "env"
                   ELSE IF k \in props /\ "props" \in ahead[k] THEN "props"
                   ELSE IF secret[k] # "nothing" THEN "vault" ELSE base[k]
=============================================================================
