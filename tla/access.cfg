SPECIFICATION AccessSpec
CONSTANTS
  Gov = Gov
  Alice = Alice
  Bob = Bob
  Vault = Vault
  None = None
  Accounts <- MCAccounts
  Protocols <- MCProtocols
  DefaultPubkey = None
  GOVERNANCE_MS = Gov
  MAX_AUTH_COUNT = 2
  MAX_USER_CLASSES = 2
  AuthUpdates <- MCAuthUpdates
  ClassUpdates <- MCClassUpdates
SYMMETRY AliceBobSymmetry
INVARIANTS
  AuthorityPrivileged
  ListsFit
PROPERTIES
  HandoverRevokes
