---------------------------- MODULE MCProfileInit ----------------------------
(* Instances of ProfileInit for TLC: which options each source may give.   *)
EXTENDS ProfileInit

From(cli, env, file) == [cli |-> cli, env |-> env, file |-> file]

\* Every combination of the options about Vault in every source; a default
\* properties file, when there is one, makes the file's visible.
VaultOptions == SUBSET {"vault", "vault.cert", "vault.authtype", "vault.un", "vault.pw"}

\* Every combination of the options about Consul and the properties file,
\* with and without a Vault.
ConsulOptions ==
  {o \cup v : o \in SUBSET {"consul", "consul.cert", "consul.token", "consul.token.role",
                           "props"},
              v \in {{}, {"vault", "vault.authtype", "vault.un", "vault.pw"}}}

Cluster == SUBSET {"cluster"}

AllChoices ==
  {From(VaultOptions, VaultOptions, VaultOptions),
   From(ConsulOptions, ConsulOptions, SUBSET {"consul", "consul.cert", "consul.token"}),
   From(Cluster, Cluster, Cluster)}

\* A Consul named by the environment, a Vault named by the command line.
Credentials == {From(VaultOptions, ConsulOptions, {{}})}
=============================================================================
