SPECIFICATION Spec
CONSTANTS
  Choices <- Credentials
  None = none
INVARIANTS
  CredentialsAsGiven
\* init ends.
CHECK_DEADLOCK FALSE
