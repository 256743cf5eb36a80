SPECIFICATION Spec
CONSTANTS
  Requests = {r1, r2}
  Seeded = {seeded}
  Emails = {e1, e2}
  NoEmail = NoEmail
  p = p
  blank_p = blank_p
  hash_p = hash_p
  hash_blank_p = hash_blank_p
  Passwords <- MCPasswords
  NoPassword = NoPassword
  Trim <- MCTrim
  Digest <- MCDigest
  Absent = Absent
  Gone = Gone
  NoToken = NoToken
  Failures = {}
SYMMETRY Symmetry
INVARIANTS
  EnteredPasswordWorks
CHECK_DEADLOCK FALSE
