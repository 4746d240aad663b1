\* Two sessions that are each written in two ways, two users and projects, two days of two
\* moments each; pages of one and three results.
SPECIFICATION Spec
CONSTANTS
  alice = alice
  bob = bob
  web = web
  NoName = NoName
  word = word
  sha1 = sha1
  url1 = url1
  opus = opus
  haiku = haiku
  bash = bash
  edit = edit
  All = All
  NoBatch = NoBatch
  Users = {alice, bob}
  Projects = {web, NoName}
  Days = {1, 2}
  TicksPerDay = 2
  Texts = {word, sha1, url1}
  References = {sha1, url1}
  Batches <- FourBatches
  TopN = 1
  Limits = {0, 9}
  MaxLimit = 3
INVARIANTS
  ReportsAgree
  WindowsTile
  LinksResolve
  SearchFinds
  AnswerIsWhole
