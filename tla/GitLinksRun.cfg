\* Two tool calls, two versions and three inserts.
SPECIFICATION Spec
CONSTANTS
  sha1 = sha1
  url1 = url1
  None = None
  Shas <- OneSha
  URLs <- OneURL
  CallKinds <- FourKinds
  MaxCalls = 2
  MaxTime = 1
  MaxInserts = 3
INVARIANTS
  TypeOK
  LinksComplete
PROPERTIES
  ResyncIsCanonical
  ImplementsMap
