\* The pages of the frontend before the routes they call, and the PDF resources.
SPECIFICATION PagesSpec
CONSTANTS
    MaxClock = 1
    MaxTyped = 1
    MaxPresses = 2
    MaxFailures = 1
    ListPages = {"content", "redirects", "newsletter", "audit", "analytics", "schedule"}
    PageSize = 1
    MaxActs = 2
    MaxMishaps = 1
    MaxHalves = 4
    Bottom = 2
    MaxClicks = 3
    Resources = {r1, r2}
    Slugs = {s1}
    PdfAssets = {a1}
    OtherAssets = {a2}
    Versions = {v1}
    TypedSlugs = {s1}
    MaxCalls = 2
    MaxOthers = 1
INVARIANTS
    ListsHonest
    ReaderHonest
    ResourcePagesSound
 
\* Pages are left, and the bounds used up.
CHECK_DEADLOCK FALSE
