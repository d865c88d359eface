CONSTANTS
  None = None
  Process = {p}
  n1 = n1
  f1 = f1
  b1 = b1
  h1 = h1
  ch1 = ch1
  po1 = po1
  sk1 = sk1
  cal1 = cal1
  ev1 = ev1
  au1 = au1
  fo1 = fo1
  me1 = me1
  Subject = {f1, b1, n1}
  KindOfSubject <- SubjectKinds
  Seeker = {u1, u2}
  Chiefs = {}
  Querist = {u1}
  Unscoped = {"w"}
  Chunk = {"p", "q", "r", "s"}
  ScoreOf <- Scores
  TextOf <- Says
  FileText = {"p", "q", "s"}
  OtherText = {"q", "r", "s"}
  TopK = 2
  RetrievalClient = {c1}
  MaxLookups = 1
  MaxRightsChanges = 1
  MaxStoreErrors = 1
  Msg = {m1, m2, m3, m4}
  HistoryClient = {c1, c2}
  Dialect = {"postgresql", "sqlite"}
  MaxHistoryCalls = 2
  MaxRowFails = 1
  McpServer = {s1, s2}
  Plans <- Turns
  MaxTurnFails = 2
  MaxTurnWrites = 1
  Thing = {n1, f1, b1, h1, ch1, po1, sk1, cal1, ev1, au1, fo1, me1}
  Sort <- Sorts
  Reader = {u1, u2, u3}
  Heads = {u3}
  MaxBtChanges = 1
  Prompt = {pr1}
  Preset = {m1, m2, m3}
  Skill = {sk1}
  Note = {n1}
  Version = {v1, v2, v3}
  Text = {"a", "b"}
  Command = {"x", "y"}
  Member = {u1, u2}
  Admins = {u1}
  Publishers = {}
  GrantList <- Grants
  LibClient = {c1, c2}
  MaxLibCalls = 2
  MaxLibFails = 1
  Channel = {ch1}
  Post = {po1, po2, po3}
  Hook = {w1}
  Guest = {u1, u2}
  ChannelAdmins = {u1}
  ChannelClient = {c1, c2}
  MaxChannelCalls = 2
  MaxChannelFails = 1
  MemoryId = {e1, e2}
  MemoryPath <- Paths
  MemoryClient = {c1, c2}
  MaxMemoryCalls = 2
  MaxMemoryFails = 1
  Url = {"a", "b"}
  Bare = {"m", "n"}
  Offer <- Offers
  AskedIds <- AskedFor
  Speaker = "a"
  Worker = {w1, w2}
  ProviderClient = {c1, c2}
  Asker = {c1}
  MaxProviderCalls = 2
  Embedder = {"", "openai", "odd"}
  Buildable = {"", "openai"}
  Ranker = {"none", "local", "external"}
  LocalRanker = {"none", "local"}
  NoRanker = "none"
  ToolServer = {s1, s2}
  Callee = {b1, h1}
  DefaultCallee = b1
  Factory <- Shipped
  OldFile <- InOldFile
  Admin = {c1, c2}
  MaxSettingsCalls = 2
  MaxLoadFails = 1
  MaxStarts = 2
SPECIFICATION Spec
INVARIANTS RetrievalHolds   ToolsHold LibraryHolds MemoryHolds 
PROPERTIES MessagesStay ChannelsHold
CHECK_DEADLOCK FALSE
