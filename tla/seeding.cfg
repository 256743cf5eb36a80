SPECIFICATION SeedingSpec
CONSTANTS
  w1 = w1
  p1 = p1
  p2 = p2
  p3 = p3
  Requests = {w1, p1, p2, p3}
  Legacy = {}
  x = x
  author1 = author1
  author2 = author2
  Users = {x, author1, author2}
  NoUser = NoUser
  author = author
  Addresses = {author}
  Address <- MCAddress
  SeedUsers <- MCSeedUsers
  SeedPosts <- MCSeedPosts
  t1 = t1
  a = a
  Titles = {t1}
  NoTitle = NoTitle
  Base <- MCBase
  Words <- MCWords
  MaxWords = 2
  Suffixes <- MCSuffixes
  NoRow = NoRow
  NoSlug = NoSlug
  Failures = {"database", "dispatch", "crash"}
INVARIANTS
  TornOnlyBySeeder
  CompleteSeedIsWhole
PROPERTIES
  AllEnd
CHECK_DEADLOCK FALSE
