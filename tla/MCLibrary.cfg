SPECIFICATION Spec
CONSTANTS
  n1 = n1
  n2 = n2
  t1 = t1
  t2 = t2
  k1 = k1
  k2 = k2
  r1 = r1
  g1 = g1
  g2 = g2
  Names = {n1, n2}
  NoName = NoName
  LogLevels <- Levels
  MaxNews = 2
  Clones = {t1, t2}
  Default = Default
  Tokens = {k1, k2}
  NoToken = NoToken
  Requests = {r1}
  Goroutines = {g1, g2}
  Lengths <- Lengths40
  KeyOrder <- Keys
  MaxHeadingLevel = 6
  PathComponentMaxLength = 3
  Digests <- SmallDigests
  AnyPaths <- SmallPaths
  Homes <- OneHome
  Environments <- SmallEnvironments
  AppNames <- Apps
SYMMETRY Alike
INVARIANTS
  TokensStayHome
  ClonesIndependent
  AllOrNothing
  GatesAgree
  EveryProductOnce
  WithinBounds
  ConsoleReadsBack
  MarkdownTablesReadBack
  HeadingsNested
  DigestRoundTrip
  AcceptedPaths
  CacheApart
PROPERTIES
  NameSettled
CHECK_DEADLOCK FALSE
