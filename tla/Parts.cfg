\* The counters of the parts are bounded.
CHECK_DEADLOCK FALSE
CONSTANTS
    None = None
    Ids = {p, a, b}
    Packs = {p}
    MaxHandle = 3
    MaxRevision = 4
    Window = 2
    SendLimit = 3
    Addresses = {a1, a2}
    MaxConnections = 2
    Processors = {cpu, rsp}
    MaxToken = 2
    MaxBreakpoint = 2
    p1 = p1
    p2 = p2
    m1 = m1
    m2 = m2
    Patches = {p1, p2}
    Module <- MCModule
    Kind <- MCKind
    Slots = {s1, s2}
    MaxChains = 3
    MaxRewrites = 1
    Coroutines = {c1, c2}
    Promises = {f}
    MaxWaits = 3
    MaxDepth = 2
    refresh = refresh
    paused = paused
    Events = {refresh, paused}
    MaxTick = 2
    MaxTimer = 2
    MaxClocks = 1
    MaxCount = 1
    l1 = l1
    l2 = l2
    MaxListener = 2
    MaxCalls = 2
    Classes = 2
    Smallest = 2
    MaxTop = 20
    Sizes = {1, 3, 6}
    Alignments = {2, 4}
    MaxLive = 3
    MaxLength = 4
    BufferSize = 2
    Pushed = {6}
    Names <- MCNames
    Files <- MCFiles
    Disks <- MCDisks
    Selections <- MCSelections
SPECIFICATION Spec
SYMMETRY Symmetry
VIEW View
INVARIANTS
    TexturesAgree
    DatagramsSound
    BreakpointsSound
    PatchesSound
    CoroutinesSound
    TimersSound
    ListenersSound
    LibcSound
    GraphSound
