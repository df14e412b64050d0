------------------------------ MODULE MCServices ------------------------------
(***************************************************************************)
(* The services that share no state, checked side by side: `part` says      *)
(* which of them a behaviour is about, and the others stay as they begin.   *)
(***************************************************************************)
EXTENDS Newsletter, RateLimits, Aggregates, Visits, Redirects, Backup, Access,
        RichText, LondonTime, RestoreDrill, TLC

CONSTANT BackupUploads   \* bound: uploads begun, one at a time, around a backup

VARIABLE part

(* A minute bucket is one minute wide, an hour bucket (here) two.            *)
MCWidth == ("minute" :> 1) @@ ("hour" :> 2)

(* The nodes of documents: types the schema knows and one it does not,       *)
(* attributes it allows and not, links before and behind an unsafe one.      *)
Shape(t, a, s, m) == [type |-> t, attrs |-> a, src |-> s, marks |-> m]
MCMark(i, t, h, a) == [id |-> i, type |-> t, href |-> h, attrs |-> a]
MCNames == {"doc", "paragraph", "heading", "codeBlock", "image", "text", "script", "link", "bold",
            "underline", "style", "level", "src", "href", "title", "rel"}
MCShapes ==
    { Shape("doc", {}, "safe", {}),
      Shape("paragraph", {"style"}, "safe", {}),
      Shape("heading", {"level"}, "safe", {}),
      Shape("codeBlock", {}, "safe", {}),
      Shape("script", {}, "safe", {MCMark(1, "link", "safe", {"href"})}),
      Shape("image", {"src", "style"}, "safe", {}),
      Shape("image", {"src"}, "unsafe", {MCMark(1, "link", "safe", {})}),
      Shape("text", {}, "safe", {}),
      Shape("text", {}, "safe", {MCMark(1, "bold", "safe", {"style"}),
                                 MCMark(2, "link", "unsafe", {"href"}),
                                 MCMark(3, "link", "safe", {"href", "title", "style"})}),
      Shape("text", {}, "safe", {MCMark(1, "link", "safe", {"href", "rel"}),
                                 MCMark(2, "underline", "safe", {})}) }

storeVars == <<assetVars, backup>>
servicesVars == <<part, newsletterVars, rateVars, countVars, visitVars, redirectVars,
                  storeVars, accessVars, textVars, clockVars, drillVars>>

Parts == {"newsletter", "logins", "subscriptions", "counts", "engagement", "dedupe",
          "redirects", "assets", "backup", "access", "text", "clock", "drill"}

ServicesInit ==
    /\ part \in Parts
    /\ NewsletterInit /\ RateInit /\ CountInit /\ VisitInit /\ RedirectInit
    /\ BackupInit /\ AccessInit /\ TextInit /\ ClockInit /\ DrillInit
    /\ part # "text" => document = EmptyDoc
    /\ part # "counts" => store = "memory"

LimitNext == \/ part = "logins" /\ LoginNext
             \/ part = "subscriptions" /\ SubscribeNext
MeasureNext == \/ part = "engagement" /\ Engage
               \/ part = "dedupe" /\ DedupeNext
StoreNext == \/ part = "assets" /\ AssetNext /\ UNCHANGED backup
             \/ /\ part = "backup" /\ backup.at # "done" /\ BackupNext
                /\ begun' <= BackupUploads /\ Cardinality(Working') <= 1 /\ crashes' = 0

ServicesNext ==
    /\ UNCHANGED part
    /\ IF part = "newsletter" THEN NewsletterNext ELSE UNCHANGED newsletterVars
    /\ IF part \in {"logins", "subscriptions"} THEN LimitNext ELSE UNCHANGED rateVars
    /\ IF part = "counts" THEN CountNext ELSE UNCHANGED countVars
    /\ IF part \in {"engagement", "dedupe"} THEN MeasureNext ELSE UNCHANGED visitVars
    /\ IF part = "redirects" THEN RedirectNext ELSE UNCHANGED redirectVars
    /\ IF part \in {"assets", "backup"} THEN StoreNext ELSE UNCHANGED storeVars
    /\ IF part = "access" THEN AccessNext ELSE UNCHANGED accessVars
    /\ IF part = "text" THEN TextNext ELSE UNCHANGED textVars
    /\ IF part = "clock" THEN ClockNext ELSE UNCHANGED clockVars
    /\ IF part = "drill" THEN DrillNext ELSE UNCHANGED drillVars

ServicesSpec == ServicesInit /\ [][ServicesNext]_servicesVars /\ NewsletterFairness

(* Every variable of every service has its type, and a drill of a backup    *)
(* says what restoring from it would.                                       *)
ServicesPartsSound ==
    /\ part \in Parts
    /\ NewsletterTypeOK /\ CountTypeOK /\ RedirectTypeOK /\ AssetTypeOK
    /\ BackupTypeOK /\ AccessTypeOK /\ TextTypeOK /\ ClockTypeOK /\ DrillTypeOK
    /\ DrillHonest
==============================================================================
