----------------------------- MODULE ProfileInit -----------------------------
(***************************************************************************)
(* TieredApplicationProfile::init                                          *)
(* (aossl/profile/include/tiered_app_profile.h), which every constructor   *)
(* runs: it works out from the command line, the environment, a properties *)
(* file and two credential files which properties file to read, which      *)
(* Vault and which Consul to talk to, with which credentials, and the name *)
(* of the cluster.                                                         *)
(*                                                                         *)
(* Options stand for the keys under the profile's prefix.  Values are      *)
(* named after the source they come from, so that a state says who decided *)
(* what.  Vault is external: it may fail, hold a secret, or not.           *)
(***************************************************************************)
CONSTANTS
  Choices,  \* kinds of inputs: the sets of options each source may give
  None      \* "not set"

Options == {"props", "vault", "vault.cert", "vault.authtype", "vault.un", "vault.pw",
            "consul", "consul.cert", "consul.token", "consul.token.role", "cluster"}

Sources == {"cli", "env", "file"}

VARIABLES
  pc,       \* the part of init that comes next
  has,      \* the options each source has
  files,    \* do vault_un.txt and vault_pw.txt exist?
  fallback, \* does one of the default properties files exist?
  props,    \* who named the properties file
  vault,    \* the Vault client: where its address, certificate, login come from
  consul,   \* the Consul client: where its address, certificate, token come from
  vcert, vtoken,  \* the success flags of consul_cert_buf and consul_token_buf
  cluster,  \* who named the cluster
  held,     \* history: what Vault turned out to hold for Consul
  issued    \* history: has Vault generated a Consul token?

inputs == <<files, fallback>>
vars == <<pc, has, inputs, props, vault, consul, vcert, vtoken, cluster, held, issued>>

Stages == {"props_env", "props_cli", "props_default", "vault_env", "vault_cli",
           "vault_file", "secrets", "role", "consul_file", "consul_env",
           "consul_cli", "cluster", "done", "threw", "aborted", "crashed"}

VaultClients ==
  [from : Sources, cert : Sources \cup {None},
   un : Sources \cup {"files", "blank"}, pw : Sources \cup {"files", "blank"}]

ConsulClients ==
  [from : Sources, cert : Sources \cup {"vault", None},
   token : Sources \cup {"vault", "address", None}]

ASSUME InitAssumption ==
  /\ Choices \subseteq [Sources -> SUBSET (SUBSET Options)]
  /\ None \notin Sources \cup {"default", "files", "blank", "vault", "address"}
  /\ None \notin VaultClients \cup ConsulClients

TypeOK ==
  /\ pc \in Stages
  /\ has \in [Sources -> SUBSET Options]
  /\ files \in BOOLEAN /\ fallback \in BOOLEAN
  /\ props \in {"env", "cli", "default", None}
  /\ vault \in VaultClients \cup {None}
  /\ consul \in ConsulClients \cup {None}
  /\ vcert \in BOOLEAN /\ vtoken \in BOOLEAN /\ issued \in BOOLEAN
  /\ cluster \in Sources \cup {None}
  /\ held \subseteq {"cert", "token"}

Init ==
  /\ pc = "props_env"
  /\ \E choice \in Choices :
       \E c \in choice["cli"], e \in choice["env"], f \in choice["file"] :
         has = [s \in Sources |-> IF s = "cli" THEN c ELSE IF s = "env" THEN e ELSE f]
  /\ files \in BOOLEAN /\ fallback \in BOOLEAN
  /\ props = None /\ vault = None /\ consul = None /\ cluster = None
  /\ vcert = FALSE /\ vtoken = FALSE /\ held = {} /\ issued = FALSE

At(here, there) == pc = here /\ pc' = there

\* The options of the file can be seen once there is a reader for it.
Given(s) == IF s = "file" /\ props = None THEN {} ELSE has[s]

-----------------------------------------------------------------------------
(* The properties file                                                     *)

\* Mutant: a file once named is not replaced.
NameProps_Once(s, here, there) ==
  /\ props' = IF props = None /\ "props" \in has[s] THEN s ELSE props
  /\ At(here, there)
  /\ UNCHANGED <<has, inputs, vault, consul, vcert, vtoken, cluster, held, issued>>

NameProps(s, here, there) ==
  /\ props' = IF "props" \in has[s] THEN s ELSE props
  /\ At(here, there)
  /\ UNCHANGED <<has, inputs, vault, consul, vcert, vtoken, cluster, held, issued>>

DefaultProps ==
  /\ At("props_default", "vault_env")
  /\ props' = IF props = None /\ fallback THEN "default" ELSE props
  /\ UNCHANGED <<has, inputs, vault, consul, vcert, vtoken, cluster, held, issued>>

-----------------------------------------------------------------------------
(* Vault                                                                   *)

Address == {"vault", "vault.authtype"}
Login == {"vault.un", "vault.pw"}

\* Whose login goes with a complete address.
LoginOf(s) == IF files THEN "files" ELSE s

\* The variables of a Vault without a certificate must include the login,
\* whether it is then taken from the files or not.
VaultFromEnv ==
  /\ At("vault_env", "vault_cli")
  /\ LET g == has["env"]
         who == LoginOf("env")
         client(c) == [from |-> "env", cert |-> c, un |-> who, pw |-> who]
         secured == Address \cup {"vault.cert"} \subseteq g
     IN  vault' = IF secured /\ (files \/ Login \subseteq g) THEN client("env")
                  ELSE IF ~secured /\ Address \cup Login \subseteq g THEN client(None)
                  ELSE vault
  /\ UNCHANGED <<has, inputs, props, consul, vcert, vtoken, cluster, held, issued>>

\* load_vault_info.  Without a certificate the login is read from the source
\* again, also when it came from the files, and get_opt of an option that is
\* not there yields, and adds to the source, an empty one.
VaultFrom(s, here, there) ==
  /\ At(here, there)
  /\ LET g == Given(s)
         who == LoginOf(s)
         read(o) == IF o \in g THEN s ELSE "blank"
         login == files \/ Login \subseteq g
         secured == Address \cup {"vault.cert"} \subseteq g
     IN  \/ /\ login /\ secured
            /\ vault' = [from |-> s, cert |-> s, un |-> who, pw |-> who]
            /\ UNCHANGED has
         \/ /\ login /\ ~secured /\ Address \subseteq g
            /\ vault' = [from |-> s, cert |-> None,
                         un |-> read("vault.un"), pw |-> read("vault.pw")]
            /\ has' = [has EXCEPT ![s] = @ \cup Login]
         \/ /\ ~(login /\ Address \subseteq g)
            /\ UNCHANGED <<vault, has>>
  /\ UNCHANGED <<inputs, props, consul, vcert, vtoken, cluster, held, issued>>

-----------------------------------------------------------------------------
(* Consul                                                                  *)

\* get_vault_secret, once for the certificate and once for the token: it takes
\* the secret but never sets the success flag that was cleared beforehand.  A
\* login that fails throws out of the constructor, and an answer without the
\* members the code reads fails an assertion.
VaultSecrets ==
  /\ \/ vault = None /\ At("secrets", "role") /\ UNCHANGED held
     \/ vault # None /\ At("secrets", "role") /\ held' \in SUBSET {"cert", "token"}
     \/ vault # None /\ UNCHANGED held
        /\ (At("secrets", "threw") \/ At("secrets", "aborted"))
  /\ vcert' = FALSE /\ vtoken' = FALSE
  /\ UNCHANGED <<has, inputs, props, vault, consul, cluster, issued>>

\* Mutant: the success flag of the token is left as it was allocated.
GenerateToken_Unset ==
  /\ "consul.token.role" \in has["cli"] \cup has["env"] /\ vault # None
  /\ At("role", "consul_file")
  /\ vtoken' \in {TRUE, None} /\ issued' = vtoken'
  /\ UNCHANGED <<has, inputs, props, vault, consul, vcert, cluster, held>>

\* gen_consul_token, when the command line or the environment names a role,
\* on whatever get_vault returns.
GenerateToken ==
  /\ LET role == "consul.token.role" \in has["cli"] \cup has["env"]
     IN  \/ ~role /\ At("role", "consul_file") /\ UNCHANGED <<vtoken, issued>>
         \/ role /\ vault = None /\ At("role", "crashed") /\ UNCHANGED <<vtoken, issued>>
         \/ /\ role /\ vault # None /\ At("role", "consul_file")
            /\ vtoken' \in BOOLEAN /\ issued' = vtoken'
         \/ role /\ vault # None /\ At("role", "aborted") /\ UNCHANGED <<vtoken, issued>>
  /\ UNCHANGED <<has, inputs, props, vault, consul, vcert, cluster, held>>

Client(s, c, k) == [from |-> s, cert |-> c, token |-> k]

\* Mutants: what is missing is taken over from the client there is; the token
\* of the source goes before that of Vault.
SourceClient_Inherits(s, cert, token) ==
  Client(s, IF cert THEN s ELSE IF consul = None THEN None ELSE consul.cert,
         IF token THEN s ELSE None)

SourceClient_OwnToken(s, cert, token) ==
  Client(s, IF cert THEN s ELSE IF vcert THEN "vault" ELSE None,
         IF token THEN s ELSE IF vtoken THEN "vault" ELSE None)

\* The branches of load_consul_info for an address, with the certificate and
\* the token that Vault gave or the source has.
SourceClient(s, cert, token) ==
  IF vcert /\ vtoken THEN Client(s, "vault", "vault")
  ELSE IF cert /\ vtoken THEN Client(s, s, "vault")
  ELSE IF cert /\ token THEN Client(s, s, s)
  ELSE IF vcert \/ cert THEN Client(s, IF vcert THEN "vault" ELSE s, None)
  ELSE IF vtoken \/ token THEN Client(s, None, IF vtoken THEN "vault" ELSE s)
  ELSE Client(s, None, None)

ConsulFrom(s, here, there) ==
  /\ At(here, there)
  /\ LET g == Given(s)
     IN  consul' = IF "consul" \in g
                   THEN SourceClient(s, "consul.cert" \in g, "consul.token" \in g)
                   ELSE consul
  /\ UNCHANGED <<has, inputs, props, vault, vcert, vtoken, cluster, held, issued>>

\* The variables, with env_consul_value for the token.
ConsulFromEnv ==
  /\ At("consul_env", "consul_cli")
  /\ LET cert == "consul.cert" \in has["env"]
         token == "consul.token" \in has["env"]
     IN  consul' =
           IF "consul" \notin has["env"] THEN consul
           ELSE IF cert /\ token THEN Client("env", "env", "address")
           ELSE IF cert THEN Client("env", "env", None)
           ELSE IF vcert /\ vtoken THEN Client("env", "vault", "vault")
           ELSE IF vcert /\ token THEN Client("env", "vault", "env")
           ELSE Client("env", None, None)
  /\ UNCHANGED <<has, inputs, props, vault, vcert, vtoken, cluster, held, issued>>

\* The file, the command line and the environment, each over the one before.
NameCluster ==
  /\ At("cluster", "done")
  /\ cluster' = IF "cluster" \in has["env"] THEN "env"
                ELSE IF "cluster" \in has["cli"] THEN "cli"
                ELSE IF "cluster" \in Given("file") THEN "file" ELSE None
  /\ UNCHANGED <<has, inputs, props, vault, consul, vcert, vtoken, held, issued>>

Next ==
  \/ NameProps("env", "props_env", "props_cli")
  \/ NameProps("cli", "props_cli", "props_default")
  \/ DefaultProps
  \/ VaultFromEnv
  \/ VaultFrom("cli", "vault_cli", "vault_file")
  \/ VaultFrom("file", "vault_file", "secrets")
  \/ VaultSecrets
  \/ GenerateToken
  \/ ConsulFrom("file", "consul_file", "consul_env")
  \/ ConsulFromEnv
  \/ ConsulFrom("cli", "consul_cli", "cluster")
  \/ NameCluster

Spec == Init /\ [][Next]_vars

-----------------------------------------------------------------------------
(* Properties                                                              *)

\* The sources in the documented order of priority, for an option.
First(o) ==
  IF o \in has["cli"] THEN "cli"
  ELSE IF o \in has["env"] THEN "env"
  ELSE IF o \in Given("file") THEN "file" ELSE None

\* The profile that is built talks to the Consul that the best source names,
\* reads the properties file that the best source names, and has none of
\* either, nor a cluster, only if nobody names one.
BestSource ==
  pc = "done" =>
    /\ IF First("consul") = None THEN consul = None ELSE consul.from = First("consul")
    /\ CASE First("props") \in {"cli", "env"} -> props = First("props")
         [] OTHER -> props = IF fallback THEN "default" ELSE None
    /\ (cluster = None) <=> (First("cluster") = None)

\* The credentials one source gives never go to a server another one names; a
\* client has the whole login of its source, or, where the credential files
\* exist and there is a certificate, that of the files; and the token of a
\* Consul named by the command line or the file is that source's or Vault's.
\* What goes wrong beside that is in CredentialsAsGiven.
CredentialsStay ==
  /\ consul # None =>
       /\ {consul.cert, consul.token} \cap Sources \subseteq {consul.from}
       /\ consul.from # "env" => consul.token \in {consul.from, "vault", None}
  /\ vault # None =>
       /\ {vault.cert, vault.un, vault.pw} \cap Sources \subseteq {vault.from}
       /\ ~files => vault.un = vault.from /\ vault.pw = vault.from
       /\ files /\ vault.cert # None => vault.un = "files" /\ vault.pw = "files"

\* A token counts as Vault's only if Vault has generated it, and then it is the
\* one sent to a Consul that the command line or the properties file names,
\* whatever token these give.
GeneratedTokenWins ==
  pc = "done" /\ consul # None =>
    IF issued THEN consul.from \in {"cli", "file"} => consul.token = "vault"
    ELSE consul.token # "vault"

\* The login in the credential files "will override any CLI/Environment
\* Variables provided" (docs/pages/use.txt:141); and the environment's ACL token
\* is the one that is sent to the Consul that the environment names, unless
\* Vault generates one: not the address, and also without the "optional"
\* certificate (docs/pages/use.txt:48-49).
CredentialsAsGiven ==
  /\ files /\ vault # None => vault.un = "files" /\ vault.pw = "files"
  /\ pc = "done" /\ First("consul") = "env" /\ "consul.token" \in has["env"]
       => consul.token \in {"env", "vault"}
=============================================================================
