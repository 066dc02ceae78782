CONSTANTS
  Request = {r1, r2, r3}
  NULL = NULL
  Ask <- MCAsk
  Unstorable <- MCUnstorable
  Accounts <- MCAccounts
  Messages <- MCMessages
SPECIFICATION Spec
SYMMETRY MCSymmetry
INVARIANTS TypeOK OneRegistration SuccessIsTrue
PROPERTIES DeletedForGood AloneAsReadme
\* Every request has been answered.
CHECK_DEADLOCK FALSE
