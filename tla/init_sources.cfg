\* Every combination of the options about Vault, and of those about Consul, in
\* the three sources.
SPECIFICATION Spec
CONSTANTS
  Choices <- AllChoices
  None = none
INVARIANTS
  TypeOK
  CredentialsStay
  BestSource
  GeneratedTokenWins
\* init ends.
CHECK_DEADLOCK FALSE
