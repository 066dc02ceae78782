CONSTANTS
  Request = {r1, r2}
  NULL = NULL
  Ask <- MCAsk
  Unstorable <- MCUnstorable
  Accounts <- MCAccounts
  Messages <- MCMessages
SPECIFICATION Spec
INVARIANT DeletedAsAnswered
CHECK_DEADLOCK FALSE
