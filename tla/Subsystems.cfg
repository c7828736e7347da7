\* Each part in turn, from its initial states.
SPECIFICATION Spec
CONSTANTS
    Parts = {"processes", "sessions", "pipes", "sections", "events", "ports",
             "memory", "files", "windows", "cpu", "image", "package",
             "vfio", "hotplug", "ioctl", "audio", "input", "vulkan", "wgl", "d3d", "prefixes"}
    App = {a1}
    Default = default_session
    Other = other
    None = none
    LastPid = 3
    Client = {c1, c2, c3}
    Name = {x}
    Byte = {1, 2}
    PipeSize = 3
    SectionSize = 2
    MaxObjects = 2
    MaxSent = 4
    WordSize = 32
    PageSize = 2
    FirstBase = 4
    Size = {1, 3, 31}
    MaxRegions = 3
    MaxBytes = 4
    Path = {p1, p2}
    HostName = {log, out}
    p1 = p1
    p2 = p2
    log = log
    out = out
    NameOf <- MCNameOf
    StdoutName = out
    Octet = {0, 1}
    MaxLen = 2
    LastHandle = 2
    NoFile = no_file
    Class = {k1}
    LastWindow = 2
    LastDc = 2
    MaxQueue = 4
    MaxFrames = 2
    LastCode = 2
    Stub = 9
    AddressSpace = 9
    HalfWord = 1
    MappedRegions <- MCMappedRegions
    StackTop = 5
    Immediate = {1, 2}
    PciDevice = {v1, v2}
    IommuGroup = {g1}
    MaxDevices = 3
    Iova = {a1}
    w1 = w1
    w2 = w2
    evdev = evdev
    DevicePath = {w1, w2, w3, w4}
    Subsystem = {usb, hid}
    HostPath = {evdev}
    Builtin <- MCBuiltin
    MaxPlugged = 4
    ControlCode = {7}
    MaxRules = 2
    MaxAudit = 2
    MaxStreams = 3
    BufferSize = 2
    MaxSamples = 2
    Pad = {j1, j2}
    LastObject = 7
    LastContext = 3
    LastResource = 2
    MaxPhysical = 2
    Command = {c1, c2}
    Prefix = {n1}
    Template = template
    Images <- MCImages
    SystemDll = {}
    FixedName <- MCFixed
    Unreadable = unreadable
    ImageBytes = 6
    HalfSlot = 1
    DynamicBase = 3
    dll = dll
    fun = fun
    Package <- MCPackages
    FileNames = {main_exe, other_exe, bad_name}
    MainExe = main_exe
    OtherExe = other_exe
    BadName = bad_name
    Swup = swup
    Swum = swum
    Ole = ole
    Mz = mz
    Junk = junk
    Missing = missing
INVARIANTS
    TypeOK
    LiveIsListed
    NothingLost
    NoLostWakeup
    RegionsApart
    HandlesFresh
    NothingAfterDestroy
    FramesMatch
    CallsReachImports
    WholeOrRefused
    GroupsAdmitted
    NamesApart
    ObjectsAlive
    PassMeansPrefix
CHECK_DEADLOCK FALSE
