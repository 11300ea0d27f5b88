SPECIFICATION Spec
CONSTANTS
    None = None
    Ids = {c1, c2, c3, c4}
    Names = {"app", "traefik"}
    Volumes = {"v1"}
    Nets = {"managed", "other"}
    Managed = "managed"
    Reqs = {r1, r2}
    Proxy = "traefik"
    Domains = {"a.b", "a-b"}
    SafeName <- DomainFiles
    Outside = {}
    Deployments = {"g1", "g2"}
    Sources = {0, 1, 2}
    NameOf <- OneName
    TagOf <- OneTag
    Jobs = {j1}
    Slots = {s1, s2}
    Schedules <- CronSchedules
    Day = 2
    Week = 2
    End = 5
    Stores = {"v1", "v2"}
    Seconds = {1, 2}
    Backups = {b1, b2}
    Contents = {1, 2}
    Hands = {h1, h2}
    Stacks = {k1}
    Files = {"f1", "f2"}
    Serves <- StackServices
    Deployers = {e1, e2}
    Rows = {w1, w2}
    MaxAgeDays = 1
    LastDay = 2
    AlertRules = {a1, a2}
    Deadly = {a1}
    Threshold = 2
    Cooldown = 2
    Hours = 3
    Rules = {l1, l2}
    Broken = {l2}
    Editors = {e1, e2}
    MaxRules = 3
    Databases = {d1}
    Clients = {q1, q2}
    Params = {"max_connections", "work_mem", "freeze_max_age"}
    Static = {"max_connections"}
    Postmaster = {"max_connections", "freeze_max_age"}
    Catalogs = {k1, k2}
    Admins = {e1, e2}
    Boxes = {"x1", "x2", "x3", "x4"}
    Found <- FoundBoxes
    Labels = {n1, n2}
    Adopters = {e1, e2}
    PortStart = 1
    PortEnd = 3
    Apps = {o1, o2}
    Accounts = {u1, u2}
    Visits = {v1, v2}
    Uses = {b1, b2}
    App = "app"
    Scenarios <- OneRestore
    Budget = 5
SYMMETRY RequestSymmetry
CHECK_DEADLOCK FALSE
INVARIANT RestoreReversesDownload
