SPECIFICATION Spec
CONSTANTS
    Items = {"m1", "m2", "m3"}
    Parent <- ItemParent
    Hidden = {"m3"}
    Owner <- ItemOwner
    Agents = {"a", "b"}
    Collections = {"c1", "c2"}
    MaxReindex = 1
    First = "c1"
    NoItem = "none"
    Consumers = {"embed-v1"}
    Embedding = "embed-v1"
    EmbedReplicas = {"r1", "r2"}
    NoWorker = nobody
    FetchSize = 1
    MaxDeliveries = 1
    MaxCopies = 1
    MaxFaults = 1
    Processes = {"api", "worker", "mig"}
    ModelOf <- ProcessModel
    DimOf <- ProcessDim
    Unset = Unset
    Created = {1, 2}
    Words <- ItemWords
    PinnedItems = {}
    Searches = {{"x", "y"}}
    Limit = 2
    Replicas = {"s1"}
    Askers = {"s1"}
    KeyVersions = {1, 2}
    BatchSize = 2
    BatchCap = 2
    Memories = {1, 2, 3}
    Supersedes <- ItemSupersedes
    Lexical <- LexicalScore
    Semantic <- SemanticScore
    LayerOf <- ItemLayer
    SeedLayers = {1, 3}
    Tokens <- ItemTokens
    TopK = 3
    MinScore = 2
    PerLayer = 1
    Budget = 3
    Facts = {1, 2, 3, 4}
    SlotOf <- FactSlot
    ValueOf <- FactValue
    Reflectors = {"worker", "api"}
    Editors = {"a"}
    Texts <- NoteTexts
    FirstText <- NoteText
    MaxRev = 3
    Documents = {"text", "pdf"}
    PagesOf <- Pages
    ChunkSizes <- ChunkShapes
    Callers = {"a", "b"}
    MaxCalls = 1
    MonitoredWorkers = {"w1", "w2"}
    KindOf <- OneKind
    RequiredKinds = {"embedding"}
    TTL = 1
    Retention = 3
    AuditEvents = {1, 2, 3}
    CreatedAt <- EventTimes
    Cutoffs = {2, 3}
    Batch = 1
    MaxBatches = 2
    MaxRuns = 2
    Servers = {"s1", "s2"}
    Clients = {"c1", "c2"}
    ApiKeys = {"op", "ag"}
    Configs <- KeyConfigs
    Bound <- KeyBound
    AgentIds = {"a1", "a2"}
    Requests <- ClientRequests
    MaxStarts = 2
    Runs = {"r1", "r2"}
    Queries = {{"memory", "trivial"}, {"continuation"}}
    Events <- RunEvents
    Rows = {1}
    Slots = {"t1"}
    MinRuns = 1
    Artifacts = {"ui_walkthrough", "embedding"}
    Builds = {"b1", "b2"}
    ModelNames = {"m1", "m2"}
    Outcomes <- ReportOutcomes
    MaxAge = 1
    MaxClock = 3
    MaxDeploys = 1
    MaxWrites = 3
INVARIANTS
    ReadinessTruthful
    
    AnswersFit
    PrunedIsExported
    BackupHonest
    ContentKept
    AgentMemoryKept
    AccessKept
    
PROPERTIES
    ImplementsIndex
CHECK_DEADLOCK FALSE
