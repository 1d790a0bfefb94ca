SPECIFICATION KnowledgeSpec
CONSTANTS
  s1 = s1
  s2 = s2
  s3 = s3
  d1 = d1
  d2 = d2
  d3 = d3
  d4 = d4
  h1 = h1
  h2 = h2
  k1 = k1
  k2 = k2
  y1 = y1
  y2 = y2
  q1 = q1
  None = None
  Source = {s1, s2, s3}
  Doc = {d1, d2, d3, d4}
  Ingest = {k1, k2}
  Deleter = {y1, y2}
  Reader = {q1}
  Host = {h1, h2}
  NoURI = s3
  Blank = {d3}
  ContentOf <- OwnContent
  Preloaded <- OneLoaded
  MaxFaults = 2
  MaxPages = 2
  Deployment <- Deployments
  Part = {"query"}
  x1 = x1
  x2 = x2
  b1 = b1
  b2 = b2
  txt1 = txt1
  txt2 = txt2
  txt3 = txt3
  QueryCall = {qc1, qc2}
  QueryRequest <- Questions
  Chunk = {x1, x2}
  BaseOf <- ChunkBases
  ItemChunk = {x1}
  RouteOf <- TextRoutes
  Near <- NearTexts
  CacheBackend = {"memory", "qdrant"}
  MaxEntries = 1
  MaxQueries = 2
  MaxQueryFaults = 1
  m1 = m1
  m2 = m2
  Machine = {m1, m2}
  PackExecutor = {v1, v2}
  CloneTier = "quick"
  QuickMaxBytes = 3
  Checkout <- TwoCheckouts
  MaxPublish = 2
  MaxPackFaults = 1
  ExpHost = {e1, e2}
  ExpEnvironment = {n1, n2}
  FirstEnvironment = n1
  ExpRun = {1, 2}
  ExpKey = {1}
  OfferedPack = {1, 2, 3, 4, 5}
  RuntimeOf <- Packs
  MaxExpEvents = 2
SYMMETRY Symmetry
CHECK_DEADLOCK FALSE
INVARIANT PairedAnswersDiffer
