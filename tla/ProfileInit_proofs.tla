------------------------- MODULE ProfileInit_proofs -------------------------
(***************************************************************************)
(* Theorems about ProfileInit, for every choice of options in the sources, *)
(* every answer of Vault and whether the files exist or not.               *)
(*                                                                         *)
(* init is a chain of stages, and the invariant says what each of them has *)
(* decided so far.                                                         *)
(***************************************************************************)
EXTENDS ProfileInit, TLAPS

\* The source of the Consul client there is.
From == IF consul = None THEN None ELSE consul.from

\* The best source up to a stage.
FileSays(o) == IF o \in Given("file") THEN "file" ELSE None
EnvSays(o) == IF o \in has["env"] THEN "env" ELSE FileSays(o)

ConsulStages ==
  /\ pc \in {"consul_env", "consul_cli", "cluster", "done"} \/ consul = None
  /\ pc = "consul_env" => From = FileSays("consul")
  /\ pc = "consul_cli" => From = EnvSays("consul")
  /\ pc \in {"cluster", "done"} => From = First("consul")

TokenStages ==
  /\ issued = vtoken
  /\ issued => pc \in {"consul_file", "consul_env", "consul_cli", "cluster", "done"}
  /\ issued /\ consul # None /\ consul.from \in {"cli", "file"} => consul.token = "vault"
  /\ ~issued /\ consul # None => consul.token # "vault"

\* Who has named the properties file, when both sources have been asked.
Named == IF "props" \in has["cli"] THEN "cli"
         ELSE IF "props" \in has["env"] THEN "env" ELSE None

PropsStages ==
  /\ pc = "props_env" => props = None
  /\ pc = "props_cli" => props = IF "props" \in has["env"] THEN "env" ELSE None
  /\ pc = "props_default" => props = Named
  /\ pc \notin {"props_env", "props_cli", "props_default"} =>
       props = IF Named # None THEN Named ELSE IF fallback THEN "default" ELSE None

ClusterStage == pc = "done" => (cluster = None <=> First("cluster") = None)

PInv ==
  /\ TypeOK /\ CredentialsStay
  /\ ConsulStages /\ TokenStages /\ PropsStages /\ ClusterStage

-----------------------------------------------------------------------------
LEMMA InitPInv == Init => PInv
<1> SUFFICES ASSUME Init PROVE PInv
  OBVIOUS
<1>1. PICK choice \in Choices :
        \E c \in choice["cli"], e \in choice["env"], f \in choice["file"] :
          has = [s \in Sources |-> IF s = "cli" THEN c ELSE IF s = "env" THEN e ELSE f]
  BY DEF Init
<1>2. choice["cli"] \in SUBSET (SUBSET Options) /\ choice["env"] \in SUBSET (SUBSET Options)
      /\ choice["file"] \in SUBSET (SUBSET Options)
  BY InitAssumption DEF Sources
<1>3. has \in [Sources -> SUBSET Options]
  BY <1>1, <1>2
<1>4. TypeOK
  BY <1>3 DEF Init, TypeOK, Stages
<1> QED
  BY <1>4 DEF Init, PInv, CredentialsStay, ConsulStages, TokenStages, PropsStages, ClusterStage

\* What the sources say does not change with the logins that reading adds.
LEMMA SaysStays ==
  ASSUME TypeOK, NEW s \in Sources, NEW o \in Options \ Login,
         has' = [has EXCEPT ![s] = @ \cup Login]
  PROVE  \A u \in Sources : o \in has'[u] <=> o \in has[u]
BY DEF TypeOK

LEMMA NamePropsPInv ==
  ASSUME PInv, NEW s \in {"env", "cli"}, NEW here, NEW there, NameProps(s, here, there),
         \/ s = "env" /\ here = "props_env" /\ there = "props_cli"
         \/ s = "cli" /\ here = "props_cli" /\ there = "props_default"
  PROVE  PInv'
<1> USE DEF PInv, NameProps, At, inputs
<1>1. TypeOK'
  BY DEF TypeOK, Stages
<1>2. CredentialsStay'
  BY DEF CredentialsStay
<1>3. ConsulStages' /\ TokenStages'
  BY DEF ConsulStages, TokenStages
<1>4. PropsStages' /\ ClusterStage'
  BY DEF PropsStages, ClusterStage, Named
<1> QED
  BY <1>1, <1>2, <1>3, <1>4

LEMMA DefaultPropsPInv == ASSUME PInv, DefaultProps PROVE PInv'
<1> USE DEF PInv, DefaultProps, At, inputs
<1>1. TypeOK'
  BY DEF TypeOK, Stages
<1>2. CredentialsStay'
  BY DEF CredentialsStay
<1>3. ConsulStages' /\ TokenStages'
  BY DEF ConsulStages, TokenStages
<1>4. PropsStages' /\ ClusterStage'
  BY DEF PropsStages, ClusterStage, Named
<1> QED
  BY <1>1, <1>2, <1>3, <1>4

LEMMA VaultFromEnvPInv == ASSUME PInv, VaultFromEnv PROVE PInv'
<1> USE DEF PInv, VaultFromEnv, At, inputs
<1>1. \/ vault' = vault
      \/ /\ vault'.from = "env" /\ vault'.cert \in {"env", None}
         /\ vault'.un = LoginOf("env") /\ vault'.pw = LoginOf("env")
         /\ vault' \in VaultClients
  BY DEF VaultClients, LoginOf, Sources
<1>2. TypeOK'
  BY <1>1 DEF TypeOK, Stages
<1>3. CredentialsStay'
  BY <1>1, InitAssumption DEF CredentialsStay, LoginOf, Sources
<1>4. ConsulStages' /\ TokenStages'
  BY DEF ConsulStages, TokenStages
<1>5. PropsStages' /\ ClusterStage'
  BY DEF PropsStages, ClusterStage, Named
<1> QED
  BY <1>2, <1>3, <1>4, <1>5

LEMMA VaultFromPInv ==
  ASSUME PInv, NEW s \in {"cli", "file"}, NEW here, NEW there, VaultFrom(s, here, there),
         \/ here = "vault_cli" /\ there = "vault_file"
         \/ here = "vault_file" /\ there = "secrets"
  PROVE  PInv'
<1> USE DEF PInv, VaultFrom, At, inputs
<1>1. \/ has' = has
      \/ has' = [has EXCEPT ![s] = @ \cup Login]
  OBVIOUS
<1>2. \/ vault' = vault
      \/ /\ vault'.from = s /\ vault'.cert \in {s, None} /\ vault' \in VaultClients
         /\ vault'.un \in {s, "files", "blank"} /\ vault'.pw \in {s, "files", "blank"}
         /\ ~files => vault'.un = s /\ vault'.pw = s
         /\ files /\ vault'.cert # None => vault'.un = "files" /\ vault'.pw = "files"
  <2>1. s \in Sources
    BY DEF Sources
  <2>2. Login \subseteq Given(s) <=> "vault.un" \in Given(s) /\ "vault.pw" \in Given(s)
    BY DEF Login
  <2> DEFINE read(o) == IF o \in Given(s) THEN s ELSE "blank"
  <2>3. ASSUME files \/ Login \subseteq Given(s),
               vault' = [from |-> s, cert |-> s, un |-> LoginOf(s), pw |-> LoginOf(s)]
        PROVE  <1>2!2
    BY <2>1, <2>3 DEF VaultClients, LoginOf
  <2>4. ASSUME files \/ Login \subseteq Given(s),
               vault' = [from |-> s, cert |-> None, un |-> read("vault.un"), pw |-> read("vault.pw")]
        PROVE  <1>2!2
    BY <2>1, <2>2, <2>4 DEF VaultClients
  <2> QED
    BY <2>3, <2>4
<1>3. TypeOK'
  <2>1. has' \in [Sources -> SUBSET Options]
    BY <1>1 DEF TypeOK, Login, Options
  <2> QED
    BY <1>2, <2>1 DEF TypeOK, Stages
<1>4. CredentialsStay'
  BY <1>2, InitAssumption DEF CredentialsStay, Sources
<1>5. ConsulStages' /\ TokenStages' /\ ClusterStage'
  BY DEF ConsulStages, TokenStages, ClusterStage
<1>6. PropsStages'
  <2>1. \A u \in Sources : "props" \in has'[u] <=> "props" \in has[u]
    BY <1>1, SaysStays DEF Options, Login, Sources
  <2>2. Named' = Named
    BY <2>1 DEF Named, Sources
  <2> QED
    BY <2>2 DEF PropsStages
<1> QED
  BY <1>3, <1>4, <1>5, <1>6

LEMMA VaultSecretsPInv == ASSUME PInv, VaultSecrets PROVE PInv'
<1> USE DEF PInv, VaultSecrets, At, inputs
<1>1. TypeOK'
  BY DEF TypeOK, Stages
<1>2. CredentialsStay'
  BY DEF CredentialsStay
<1>3. ConsulStages' /\ TokenStages'
  BY DEF ConsulStages, TokenStages, TypeOK
<1>4. PropsStages' /\ ClusterStage'
  BY DEF PropsStages, ClusterStage, Named
<1> QED
  BY <1>1, <1>2, <1>3, <1>4

LEMMA GenerateTokenPInv == ASSUME PInv, GenerateToken PROVE PInv'
<1> USE DEF PInv, GenerateToken, At, inputs
<1>1. TypeOK'
  BY DEF TypeOK, Stages
<1>2. CredentialsStay'
  BY DEF CredentialsStay
<1>3. ConsulStages' /\ TokenStages'
  BY DEF ConsulStages, TokenStages
<1>4. PropsStages' /\ ClusterStage'
  BY DEF PropsStages, ClusterStage, Named
<1> QED
  BY <1>1, <1>2, <1>3, <1>4

\* A client made of one source's address has that source's credentials or
\* Vault's, and Vault's token if it has generated one.
LEMMA SourceClientTypes ==
  ASSUME NEW s \in Sources, NEW cert, NEW token
  PROVE  LET c == SourceClient(s, cert, token)
         IN  /\ c \in ConsulClients /\ c.from = s
             /\ c.cert \in {s, "vault", None} /\ c.token \in {s, "vault", None}
             /\ IF vtoken THEN c.token = "vault" ELSE c.token \in {s, None}
BY DEF SourceClient, Client, ConsulClients

LEMMA ConsulFromPInv ==
  ASSUME PInv, NEW s, NEW here, NEW there, ConsulFrom(s, here, there),
         \/ s = "file" /\ here = "consul_file" /\ there = "consul_env"
         \/ s = "cli" /\ here = "consul_cli" /\ there = "cluster"
  PROVE  PInv'
<1> USE DEF PInv, ConsulFrom, At, inputs
<1>1. s \in Sources /\ pc = here /\ pc' = there
  BY DEF Sources
<1>2. IF "consul" \in Given(s)
      THEN /\ consul' \in ConsulClients /\ consul'.from = s /\ consul' # None
           /\ consul'.cert \in {s, "vault", None} /\ consul'.token \in {s, "vault", None}
           /\ IF vtoken THEN consul'.token = "vault" ELSE consul'.token \in {s, None}
      ELSE consul' = consul
  <2>1. CASE "consul" \in Given(s)
    BY <1>1, <2>1, SourceClientTypes, InitAssumption
  <2>2. CASE "consul" \notin Given(s)
    BY <2>2
  <2> QED
    BY <2>1, <2>2
<1>3. /\ UNCHANGED <<has, files, fallback, props, vault, vcert, vtoken, cluster, held, issued>>
      /\ Given("file")' = Given("file")
  BY DEF Given
<1> HIDE DEF ConsulFrom
<1>4. TypeOK'
  BY <1>1, <1>2, <1>3 DEF TypeOK, Stages
<1>5. CredentialsStay'
  BY <1>1, <1>2, <1>3, InitAssumption DEF CredentialsStay, Sources
<1>6. ConsulStages'
  <2>1. From' = IF "consul" \in Given(s) THEN s ELSE From
    BY <1>2 DEF From
  <2>2. CASE s = "file"
    BY <1>1, <1>3, <2>1, <2>2 DEF ConsulStages, From, FileSays
  <2>3. CASE s = "cli"
    <3>1. Given("cli") = has["cli"]
      BY DEF Given
    <3>2. From = EnvSays("consul") /\ pc' = "cluster"
      BY <1>1, <2>3 DEF ConsulStages
    <3>3. From' = IF "consul" \in has["cli"] THEN "cli" ELSE EnvSays("consul")
      BY <2>1, <2>3, <3>1, <3>2
    <3>4. First("consul")' = First("consul")
      BY <1>3 DEF First
    <3>5. First("consul") = IF "consul" \in has["cli"] THEN "cli" ELSE EnvSays("consul")
      BY DEF First, EnvSays, FileSays
    <3> QED
      BY <3>2, <3>3, <3>4, <3>5 DEF ConsulStages
  <2> QED
    BY <2>2, <2>3
<1>7. TokenStages'
  BY <1>1, <1>2, <1>3, InitAssumption DEF TokenStages, Sources
<1>8. PropsStages' /\ ClusterStage'
  BY <1>1, <1>3 DEF PropsStages, ClusterStage, Named
<1> QED
  BY <1>4, <1>5, <1>6, <1>7, <1>8

LEMMA ConsulFromEnvPInv == ASSUME PInv, ConsulFromEnv PROVE PInv'
<1> USE DEF PInv, ConsulFromEnv, At, inputs
<1>1. IF "consul" \in has["env"]
      THEN /\ consul' \in ConsulClients /\ consul'.from = "env" /\ consul' # None
           /\ consul'.cert \in {"env", "vault", None}
           /\ consul'.token \in {"env", "vault", "address", None}
           /\ consul'.token = "vault" => vtoken
      ELSE consul' = consul
  BY InitAssumption DEF Client, ConsulClients, Sources
<1>2. /\ UNCHANGED <<has, files, fallback, props, vault, vcert, vtoken, cluster, held, issued>>
      /\ pc = "consul_env" /\ pc' = "consul_cli" /\ Given("file")' = Given("file")
  BY DEF Given
<1> HIDE DEF ConsulFromEnv
<1>3. TypeOK'
  BY <1>1, <1>2 DEF TypeOK, Stages
<1>4. CredentialsStay'
  BY <1>1, <1>2, InitAssumption DEF CredentialsStay, Sources
<1>5. ConsulStages'
  <2>1. From' = IF "consul" \in has["env"] THEN "env" ELSE From
    BY <1>1 DEF From
  <2> QED
    BY <1>2, <2>1 DEF ConsulStages, EnvSays, FileSays
<1>6. TokenStages'
  BY <1>1, <1>2 DEF TokenStages
<1>7. PropsStages' /\ ClusterStage'
  BY <1>2 DEF PropsStages, ClusterStage, Named
<1> QED
  BY <1>3, <1>4, <1>5, <1>6, <1>7

LEMMA NameClusterPInv == ASSUME PInv, NameCluster PROVE PInv'
<1> USE DEF PInv, NameCluster, At, inputs
<1>1. TypeOK'
  BY DEF TypeOK, Stages, Sources
<1>2. CredentialsStay'
  BY DEF CredentialsStay
<1>3. ConsulStages' /\ TokenStages' /\ PropsStages'
  BY DEF ConsulStages, TokenStages, PropsStages, Named, From, First, Given
<1>4. ClusterStage'
  BY InitAssumption DEF ClusterStage, First, Given, Sources
<1> QED
  BY <1>1, <1>2, <1>3, <1>4

LEMMA NextPInv == PInv /\ [Next]_vars => PInv'
<1>1. ASSUME PInv, UNCHANGED vars PROVE PInv'
  BY <1>1 DEF vars, inputs, PInv, TypeOK, CredentialsStay, ConsulStages, TokenStages,
              PropsStages, ClusterStage, From, FileSays, EnvSays, First, Given, Named
<1> QED
  BY <1>1, NamePropsPInv, DefaultPropsPInv, VaultFromEnvPInv, VaultFromPInv,
     VaultSecretsPInv, GenerateTokenPInv, ConsulFromPInv, ConsulFromEnvPInv,
     NameClusterPInv DEF Next

THEOREM Invariance == Spec => []PInv
BY InitPInv, NextPInv, PTL DEF Spec

\* Every field keeps its type; no client is made of half a source.
THEOREM TypeCorrect == Spec => []TypeOK
BY Invariance, PTL DEF PInv

\* The credentials one source gives never go to a server another one names, and
\* a login is not put together from two places.
THEOREM CredentialsAreKept == Spec => []CredentialsStay
BY Invariance, PTL DEF PInv

\* The profile talks to the Consul the best source names, and reads the
\* properties file the best source names.
THEOREM BestSourceWins == Spec => []BestSource
<1>1. PInv => BestSource
  <2> SUFFICES ASSUME PInv, pc = "done" PROVE BestSource
    BY DEF BestSource
  <2>1. IF First("consul") = None THEN consul = None ELSE consul.from = First("consul")
    BY InitAssumption DEF PInv, TypeOK, ConsulClients, ConsulStages, From
  <2>2. CASE First("props") \in {"cli", "env"}
    BY <2>1, <2>2, InitAssumption
    DEF PInv, PropsStages, ClusterStage, Named, First, BestSource, Sources
  <2>3. CASE First("props") \notin {"cli", "env"}
    BY <2>1, <2>3, InitAssumption
    DEF PInv, PropsStages, ClusterStage, Named, First, BestSource, Sources
  <2> QED
    BY <2>2, <2>3
<1> QED
  BY <1>1, Invariance, PTL

\* A token that Vault generates is the one sent to the Consul of the command
\* line or of the properties file, and what a Vault that fails leaves in the
\* buffer is sent to none.
THEOREM GeneratedTokenIsSent == Spec => []GeneratedTokenWins
<1>1. PInv => GeneratedTokenWins
  BY InitAssumption DEF PInv, ConsulStages, TokenStages, From, GeneratedTokenWins, Sources
<1> QED
  BY <1>1, Invariance, PTL
=============================================================================
