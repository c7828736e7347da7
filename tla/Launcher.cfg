\* The launcher, the App Manager's programs and recipes, the system apps, and
\* installs, launches and removals of two processes, stopped anywhere.  A command
\* comes to its end.
SPECIFICATION MCSpec
CONSTANTS
    Proc = {p1, p2}
    Nobody = nobody
    i1 = i1
    i2 = i2
    d1 = d1
    d2 = d2
    Ids = {i1, i2}
    Dirs = {d1, d2}
    Absent = absent
    NoDir = no_dir
    Piece = {main, data}
    Main = main
    Own <- MCOwn
    Launchable <- MCLaunchable
    Allowed = {d1}
    Lines <- MCLines
    Dashed <- MCDashed
    Nothing = nothing
    Contents <- MCContents
    Names <- MCNames
    BackendNames = {"native", "other"}
    MaxCalls = 2
    Machines <- MachineType
    b1 = b1
    b2 = b2
    Bottle = {b1, b2}
    CatalogExe = "catalog.exe"
    OwnExe = "own.exe"
    NoBottle = no_bottle
    Shim = {"x64", "x86"}
    Sys32 = "x64"
    Verbs = {"corefonts", "fontsmooth"}
    Network = {"corefonts"}
    Golden <- MCGolden
    OtherKey = "other.exe"
    Words = {"PASS", "great"}
SYMMETRY Symmetry
CHECK_DEADLOCK FALSE
INVARIANTS
    PartsTypeOK
    RegistryMatchesDisk
    
    
    CatalogEntryHasPe
    MarkerMeansShim
