\* The services side by side: newsletter, limiters, counts, visits, redirects, assets and
\* their backup, access, rich text, clock, the drill of a backup.
SPECIFICATION ServicesSpec
CONSTANTS
    M = 2
    Emails = {e1, e2}
    Visitors = {v1, v2}
    TokenLife = 0
    MaxHour = 1
    MaxStops = 1
    Callers = {c1, c2}
    Limit = 2
    Window = 2
    MaxAdmitted = 4
    MaxTick = 3
    Recorders = {r1, r2}
    BucketTypes = {"minute", "hour"}
    Width <- MCWidth
    MaxMinute = 2
    MaxBucket = 4
    MaxRecords = 2
    Pages = {p1, p2}
    Seconds = {29, 30, 3600}
    Percents = {24, 25, 101}
    MaxSessions = 3
    Days = {1, 2}
    TopLimit = 1
    EventKeys = {k1}
    TTL = 2
    MaxSecond = 5
    Editors = 2
    Paths = {q1, q2, q3}
    MaxChain = 2
    MaxRows = 3
    MaxSaves = 3
    Uploaders = 2
    AssetIds = {s1}
    Contents = {b1, b2}
    MaxVersion = 2
    MaxUploads = 3
    MaxCrashes = 1
    BackupUploads = 2
    Threads = 2
    MaxUsers = 3
    MaxInvites = 1
    Addresses = {"a@", "b@", "c@"}
    SessionLife = 1
    InviteLife = 0
    MaxDay = 2
    MaxBegun = 3
    Names <- MCNames
    Shapes <- MCShapes
    MaxNodes = 3
    MaxLinks = 1
    Spring = 3
    Autumn = 9
    Hour = 2
    MaxInstant = 13
    LastSecond = 1
    MaxBackups = 2
    MaxHarm = 1
INVARIANTS
    ServicesPartsSound
    LimitKept
    TotalsHonest
    RedirectsSafe
    
    
    SanitizeSettles
    
PROPERTIES
    NewsletterHonest
    VisitsHonest
\* Every part stops at its bounds.
CHECK_DEADLOCK FALSE
