SPECIFICATION Spec
CONSTANTS
    Page = {"secret"}
    Val = {"a", "b"}
    MaxVersion = 2
    MaxRefs = 2
    MaxAnswers = 1
    MaxFaults = 1
    Group = {"g1", "g2"}
    MaxFetches = 2
    MaxChanges = 2
    MaxMisses = 2
    Namespace = {"n1", "n2"}
    Uid = {"u1", "u2"}
    Filter = {{"u1"}, {"u1", "u2"}}
    MaxMessages = 1
    MaxTime = 2
    MaxCloses = 1
    MaxChoices = 1
    Container = {"c1", "c2"}
    BufferSize = 2
    MaxStreams = 2
    MaxTexts = 3
    MaxMoves = 3
    Shell = {"c1", "c2"}
    NoShell = {"c3"}
    MaxSessions = 3
    Text = {"x", "y"}
    RowValue = {"x", "y"}
    MaxRows = 2
    MaxUids = 3
    Item = {"i1", "i2"}
    MaxItems = 2
    MaxEdits = 2
    Project = {"p1", "p2"}
    MaxHistory = 2
    Plain = {"CAN_LIST_NS"}
    Openshift = {"PROJECTS_AVAILABLE"}
    MaxGlitches = 1
    MaxSwitches = 1
    Query = {"q1", "q2"}
    MaxQueries = 2
    MaxDrafts = 3
    MaxTests = 2
    MaxTries = 2
    Count = {0, 1, 2}
    MaxSaves = 2
    MaxScales = 1
    Env = {"e1", "e2"}
    MaxSaved = 2
    MaxVersions = 3
    ListNs = {"n1", "n2"}
    Typed = {{1, 2}}
    LateGroup = {"a.example", "extensions"}
    MaxSteps = 2
    Client = {"kubectl"}
    MaxGrants = 1
    MaxListings = 2
    MaxStrays = 1
    Tab = {"t1", "t2"}
    LoginPath = {"/"}
    MaxUnderway = 2
    Symbol = {"/", "="}
    NameLength = {1}
    Word = {"w"}
    MaxWrites = 2
    Credentials = {"c"}
    SecretName = {1}
    MaxPullEdits = 1
    MaxPullReads = 2
    ReadVerbs = {"get"}
    WriteVerbs = {"create"}
    NonResourceVerbs = {"get"}
    SafeResources = {"nodes"}
    AdminResources = {"roles"}
    Namespaced = {"roles"}
    Unlisted = "other"
    BindingNs = {"n1", "n2"}
    ClusterRole = {"view"}
    SubjectName = {"u"}
    Channel = {"a", "b"}
    Steps = {"s"}
    MaxOlmVersions = 3
    MaxOlmSaves = 2
    ResourceKind = {"Deployment", "ReplicaSet", "Pod"}
    MaxAnnotations = 2
    PairName = {"a"}
    PairText = {"x"}
    RefResource = {"m", "s"}
    MaxPairs = 2
    MaxPairSaves = 1
    MenuItem = {"m1", "m2"}
    FilterText = {"", "m1"}
    MaxReceived = 2
    MaxBookmarks = 1
    Part = {"cpu"}
    MemoryPart = {}
    Amount = {1}
    Unit = {"", "m"}
    MaxMonitorings = 2
    RuleLabels = {{"warning"}, {"critical"}}
    Series = {"s1"}
    MaxFirings = 2
    MaxAlertPages = 2
    MaxPollFails = 1
    ReportField = {"namespace", "pod", "cost"}
    Underscored = {"cost"}
    Loader = {"pods", "builds"}
    NavSection = {"Home"}
    NavFlag = {"OPENSHIFT"}
    Detectable = {{}}
    Workload = {"w1", "w2"}
    LabelKey = {"app", "tier"}
    LabelValue = {"x"}
    MaxLabels = 2
    Owned = {{0, 1, 2}}
    Fuzzy = {{"w1"}}
    MaxNamespaces = 1
    MaxLoads = 3
    MaxLoadFails = 2
    Secondary = {"kubernetes"}
    ClusterVersion = {"v1", "v2"}
    Installed = {"v1"}
    UpdateChannel = {"production"}
    MaxReports = 1
    TaskType = {"appversion"}
    MaxActions = 2
INVARIANT AuthIsCurrent
CHECK_DEADLOCK FALSE
