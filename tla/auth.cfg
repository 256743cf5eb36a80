SPECIFICATION Spec
CONSTANTS
  Requests = {r1, r2, r3}
  Seeded = {seeded}
  Emails = {e1}
  NoEmail = NoEmail
  p = p
  blank_p = blank_p
  hash_p = hash_p
  hash_blank_p = hash_blank_p
  Passwords <- MCPasswords
  NoPassword = NoPassword
  Trim <- MCTrim
  Digest <- MCDigest
  Absent = Absent
  Gone = Gone
  NoToken = NoToken
  Failures = {"database", "dispatch", "crash", "userRemoved"}
SYMMETRY Symmetry
INVARIANTS
  TypeOK
  TokensWereEarned
  EmailNamesOneUser
  AccountAnswersAreTrue
  LogoutIsFinal
  DeadTokenOpensNothing
PROPERTIES
  ImplementsSessions
CHECK_DEADLOCK FALSE
