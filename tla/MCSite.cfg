\* The content items and the components around them, side by side.
SPECIFICATION MCSpec
CONSTANTS
    N = 2
    Slugs = {s1, s2}
    Types = {post}
    Requests = {r1, r2}
    DueJob = DueJob
    MaxTime = 2
    MaxRequests = 3
    Grace = 1
    ListLimit = 1
    KindOf <- MCKindOf
    HomeLimit = 2
    RelatedLimit = 1
    SitemapLimit = 3
    MaxMoves = 4
    Admins = {a1, a2}
    MaxChanges = 3
    Clients = {c1}
    Offered <- MCOffered
    MaxPerRate = 1
    RateSpan = 1
    MaxAge = 0
    MaxAhead = 1
    MaxEvents = 3
    MaxPosts = 2
    MaxMoment = 2
    Days = {1, 2}
    Views <- MCViews
    TopLimit = 2
    MaxHits = 3
    Loggers = {c1, c2}
    HooksUsed <- MCHooks
    PageLimit = 1
    MaxEntries = 2
    TypeOfPiece <- MCTypeOfPiece
    PieceSlugs = {"a", "b", "c", "d e"}
    BadSlugs = {"d e"}
    Platforms = {"twitter", "native"}
    Targets <- MCTargets
    MaxEdits = 2
    MaxShares = 1
    LinkThreads = {t1, t2}
    LinkNames = {"a", "b"}
    MaxLinkId = 2
    MaxLinkCalls = 4
    Members = {"ann", "eve"}
    RoleOf <- MCRoleOf
    OwnerOf <- MCOwnerOf
    RoleActions <- MCRoleActions
    AbacRules <- MCAbacRules
    Public = {}
    GrantThreads = {g1, g2}
    MaxGrantCalls = 3
    Starters = {m1, m2}
    Scripts <- MCScripts
    MaxStarts = 3
    Units = {u1, u2}
    CallsUsed <- MCCalls
    MaxCalls = 2
    Articles = {x1, x2}
    ArticleTypes = {post}
    Names = {n1}
    Pictures = {p1}
    Writers = {w1, w2}
    Lead = 1
    MaxNow = 1
    MaxWrites = 3
INVARIANTS
    SitePartsSound
    SettingsKept
    SiteHonest
    IngestHonest
    
    AuditComplete
    ShareArrives
    LinksKept
    GrantsHonest
    StartHonest
    UnitsWhole
PROPERTIES
    StatusSafe
    DuePublished
\* Every component stops at its bounds.
CHECK_DEADLOCK FALSE
