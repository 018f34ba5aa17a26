SPECIFICATION Spec
CONSTANTS
  Backends = {"PGSQL", "MYSQL"}
  Limits = {1, 2}
  DefaultLimit = 2
  SkinDirs = {"white"}
  MaxRows = 3
  MaxFiles = 2
  Clients = {c1, c2}
  Seats = {0, 1}
  TeamMax = 1
  CooldownMs = 1
  Sizes <- TwoSizes
  FirstSize <- Wide
  Brushes = {2}
  Durations = {2}
  MaxClock = 2
  MaxGeneration = 2
  MaxSequence = 2
  MaxFail = 1
  Requests <- MCRequests
  MaxRequests = 3
  HeaderMax = 6
  RecvMax = 4
  WsMax = 5
  Routes <- MCRoutes
  PathKinds <- MCPathKinds
  MAX_SEGMENTS = 2
  MAX_SEGMENT_LEN = 4
  SplitMax = 3
  FieldSymbols = {"x", "CRLF", "--B", "--"}
  FileSymbols = {"CRLF", "--B", "nul", "name="}
  MaxValue = 3
  MaxParts = 2
  JsonKinds <- MCKinds
  MAX_JSON_DEPTH = 2
  Octets = {0, 1, 2, 65, 127, 128, 129, 130, 255}
  Arcs = {0, 1, 2, 39, 40, 127, 128, 16383, 16384, 65535}
  MaxOctets = 5
  MaxArcs = 4
  ARC_MAX = 65535
  ARC_BYTES = 3
  OID_CAP = 4
  Forms = {"ArrayList", "List", "LinkedList", "Queue", "Stack", "Vector", "HashMap", "Hashtable"}
  Objects = {"o1", "o2"}
  Keys = {"k1", "k2", "k3"}
  Nothing = nothing
  Hash <- MCHash
  MaxHeld = 2
  MaxItems = 3
  MaxMods = 7
CONSTRAINT Followed
INVARIANTS  PagesWhole SeatsOwned ViewsFresh RoomRecovers RequestsWhole    Asn1Exact 
CHECK_DEADLOCK FALSE
