SPECIFICATION Spec
CONSTANTS
  Requests = {r1, r2}
  Legacy = {old}
  Users = {u1, u2}
  NoUser = NoUser
  t1 = t1
  t2 = t2
  a = a
  Titles = {t1}
  NoTitle = NoTitle
  Base <- MCBase
  Words <- MCWords
  MaxWords = 1
  Suffixes <- MCSuffixes
  NoRow = NoRow
  NoSlug = NoSlug
  Failures = {}
INVARIANTS
  SameTitleIsSuffixed
CHECK_DEADLOCK FALSE
