\* Requests at once: about a share, sign-ins, sessions, changes of limits.
SPECIFICATION Spec
CONSTANTS
    None = None
    Parts = {"share", "signIn", "session", "limits", "import", "page"}
    ShareRequests = {x1, x2, x3}
    MaxExpiry = 2
    MaxCrashes = 1
    SignInRequests <- TwoRequests
    MaxFails = 2
    Window = 1
    LockSec = 1
    Tries = 2
    PerUser = 2
    CodeSet = 2
    MaxPasskeys = 2
    MaxApiKeys = 1
    SignInTime = 2
    MaxKeyIds = 3
    MaxCodes = 6
    MaxChals = 3
    MaxTokens = 2
    MaxPw = 3
    SignInPlans <- AllSignIns
    Owner = "owner"
    SessionUser = "user"
    Sids = {x1, x2, x3}
    SessionRequests <- TwoRequests
    Slide = 1
    Timeouts <- TwoTimeouts
    MayRaise = FALSE
    SessionTime = 7
    SessionPlans <- AllSessions
    Roles = {"role1", "role2"}
    Tabs = {"t1", "t2"}
    QuotaLists <- SavedLists
    NoLimit = 3
    LimitPlans <- AllLimits
    Names = {"owner", "public", "ann", "ben"}
    ImportPublic = "public"
    FileRoles = {"ops"}
    Docs <- Documents
    ImportMost = 3
    ImportPlans <- AllImports
    Who = {"ann", "ben"}
    PageIdle = 4
    PageAbs = 6
    PageSlide = 2
    Warn = 2
    Lag = 1
    Watches <- TwoRequests
    PagePlans <- AllPages
SYMMETRY Interchangeable
PROPERTIES ShareSafe  OneTimeKept SessionsSafe LimitsSafe
CHECK_DEADLOCK FALSE
