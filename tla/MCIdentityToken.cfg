\* One provider called twice, and up to three connections.
SPECIFICATION FairSpec
CONSTANTS
  Calls = {"c1", "c2"}
  Connections = {k1, k2, k3}
INVARIANTS
  IdentityTypeOK
  TokenIsOfLogin
  NothingLeftOpen
PROPERTIES
  EnvTokenComes
  LoginSettles
\* Every call may have settled, and nobody need come back from the login page.
CHECK_DEADLOCK FALSE
