CONSTANTS
  pooled1 = pooled1
  pooled2 = pooled2
  apart1 = apart1
  doc = doc
  None = None
  Process = {p1, p2}
  Limit = 1
  NumBuckets = 1
  BucketSize = 2
  MaxTime = 4
  MaxAttempts = 3
  MaxOutages = 1
  Base = {b1, b2}
  Preset = {}
  MaxChanges = 2
  MaxListings = 2
  MaxRaised = 1
  Cal = {k1, k2}
  Event = {e1}
  CalClient = {r1, r2}
  MaxCalRequests = 4
  MaxPolls = 2
  MaxMarkFails = 1
  Worker = {w1, w2}
  MaxCalls = 2
  MaxIterations = 1
  MaxResolves = 2
  MaxStops = 1
  File = {f1, f2}
  KB = {kb1}
  Requester = {c1, c2}
  Text = {"a", "b"}
  ForeignKeys = FALSE
  MaxRequests = 3
  MaxRaises = 1
  User = {u1, u2}
  Email = {m1, m2}
  Group = {g1}
  AccountClient = {c1, c2}
  DefaultRole = "pending"
  MaxAccountRequests = 3
  Person = {q1}
  Token = {t1}
  OAuthSession = {s1, s2, s3}
  Refresher = {r1, r2}
  Lifetime = 1
  MaxSessions = 1
  Rotates = FALSE
  MaxSeconds = 2
  MaxDown = 1
  Collection = {pooled1, pooled2, apart1}
  KindOf <- Kinds
  OwnColl <- Own
  ChunkId = {i1, i2}
  VClient = {v1, v2}
  Store = {"pgvector", "pgcrypto", "opengauss", "mariadb", "oracle", "pinecone", "elasticsearch", "chroma", "qdrant", "qdrant_multitenancy", "milvus", "milvus_multitenancy", "opensearch", "s3vector", "valkey", "weaviate"}
  MaxVectorCalls = 2
  MaxVectorRaises = 1
  MaxText = 5
  MaxPiece = 3
  MaxDeltas = 5
  ChunkSize = 2
  Toolkit = {t1}
  Function = {fn1}
  Source = {"a", "b"}
  PluginClient = {c1, c2}
  MaxPluginCalls = 3
  MaxPluginFails = 1
  Chat = {h1, h2}
  Folder = {fo1, fo2}
  Tag = {g1}
  ShareId = {s1, s2}
  Owner = {u1, u2}
  ShelfClient = {c1, c2}
  Cascades = FALSE
  ShareLimit = 2
  MaxShelfRequests = 2
  MaxMessages = 5
  Retention = 40
  Compactor = {c1, c2}
  MaxCompactions = 2
  MaxDeletions = 1
SPECIFICATION Spec
INVARIANTS RateHolds  ToolLoopHolds KnowledgeHolds   StreamHolds ShelfHolds 
PROPERTIES ModelsHold  ContractKept
CHECK_DEADLOCK FALSE
