SPECIFICATION Spec
CONSTANTS
    b = b
    u = u
    official = official
    c1 = c1
    Plugins = {b, u}
    Bundled = {b}
    OnByDefault = {b}
    Urls = {official}
    Indexes = {{}, {b, u}}
    Official = official
    MaxRepoId = 1
    MaxInstances = 4
    MaxFailures = 2
    Prios = {1}
    Manifest = 9
    Calls = {c1}
    MaxRequests = 4
    Requests = {"toggle", "priority", "install", "update", "import",
                "uninstall", "repositories", "call", "hooksFail", "lockedDb", "restart"}
INVARIANTS TypeOK RegistryFollows RunsOnlyIfAllowed OrderFollowsOverrides EnabledHears
CHECK_DEADLOCK FALSE
