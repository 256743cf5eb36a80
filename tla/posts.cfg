SPECIFICATION Spec
CONSTANTS
  Requests = {r1, r2, r3}
  Legacy = {old}
  Users = {u1, u2}
  NoUser = NoUser
  t1 = t1
  t2 = t2
  a = a
  Titles <- MCTitles
  NoTitle = NoTitle
  Base <- MCBase
  Words <- MCWords
  MaxWords = 2
  Suffixes <- MCSuffixes
  NoRow = NoRow
  NoSlug = NoSlug
  Failures = {"database", "dispatch", "crash"}
SYMMETRY Symmetry
INVARIANTS
  SlugsFitTheirColumns
  MirrorAgrees
  SlugNamesOnePost
  CreateAnswersAreTrue
  DeletedStaysDeleted
  AnnouncedWritesHappened
PROPERTIES
  OnlyOwnerWrites
  ConflictOnlyWhenOvertaken
  ImplementsRegistry
CHECK_DEADLOCK FALSE
