# TLA+ specifications of Little Research Lab

The repository is a small publishing system: a FastAPI application over SQLite
(`src/src`) with a Next.js client (`src/frontend`). The modules here model its
services, the table operations below them and the pages in front of them.

Paths are those of the repository with `src/` in front, so its own `src/`
directory appears as `src/src/`.

## 1. The system

FastAPI runs the (synchronous) endpoints in a pool of threads, so every request
is a process of its own; the machine may be stopped when it is idle and started
again, and everything held in memory is lost. A SQL statement is atomic and
committed by itself or with the repository call it belongs to: no route opens a
transaction over several calls. A component function typically reads a row into
a Python object, checks it, changes it and writes the whole row back. Most of
what is hard in this code follows from that sentence; the rest comes from
objects that threads share in memory, from files beside the database, and from
pages that wait for several answers at once.

| Component | State | Operations | What makes it correct |
|---|---|---|---|
| Scheduler (`components/scheduler`) | `publish_jobs` | schedule, unschedule, reschedule, claim_next, execute_job, run_due_jobs | one worker per job, never early, bounded retries, every job ends |
| Publisher (`ContentPublisher`, `api/routes/admin_schedule.py`) | content item | publish | a job that succeeded published its item |
| In-memory job table (`MockPublishJobRepo`, same file) | dict of shared objects, set of claims | save, delete, claim, list | the same, without the database's atomicity |
| Dev runner (`adapters/dev_jobs.py`, `adapters/sqlite_db.py`) | job table, event, flag, thread | start, stop, trigger_now, batch | one poller, honest counts, no early start |
| Content, publish (`components/content`, `components/publish`, `domain/state.py`) | `content_items` | create, update, transition, delete, publish, schedule, unpublish, process_due | legal status moves, what is due is published |
| Newsletter (`components/newsletter`) | subscribers with tokens | subscribe, confirm, unsubscribe, delete | double opt-in, one row per address, a link works once |
| Redirects (`components/redirects`) | source-to-target table | create, update, delete, resolve, validate_all | visitors arrive, bounded chains, unique sources |
| Assets, storage, backup (`components/assets`, `adapters/local_storage.py`, `scripts/backup.py`) | rows, versions in memory, two files for an object | upload, set_latest, get, backup | what a row points at can be read |
| Authentication, users, invitations (`components/auth`, `components/invite`) | users, sessions, invitations | login, verify, create and update user, redeem | the disabled are out, an administrator is left, an invitation makes one user |
| Collaboration, policy (`components/collab`, `domain/policy.py`) | grants | grant, revoke, check_permission | the last answer decides who may edit |
| Limiters (`app_shell/rate_limit.py`, `api/deps.py`) | times of attempts | allow_request, check, record | no more than the limit in any window |
| Analytics (`components/analytics`, `core/services/analytics_*.py`) | events, buckets, keys seen | ingest, record, query, deduplicate, attribute | an event is counted once, figures agree |
| Engagement (`components/engagement`) | rows of buckets | calculate, totals, distributions, top lists | what is reported was measured |
| Audit (`components/audit`, `shell/hooks`) | log | log, query, summary | who reads to the end has seen all |
| Settings, links (`components/settings`, `components/links`) | one row; a table with unique slugs | update, reset; create, update, delete | no confirmed change is lost, a slug leads to one link |
| Sharing (`components/sharing`, `api/routes/outbound.py`) | none | generate, attribute, go out | a link leads to its item and is counted as what it is |
| PDF resources (`core/services/resource_pdf.py`) | dict of live objects | create, update, set_pinned_policy, delete | what is stored obeys the rules |
| Content service, deprecated (`core/services/content.py`) | `content_items` with their blocks | create, update, schedule, publish, delete, process due | valid articles, one article for a slug |
| Restore drill (`scripts/restore_drill.py`) | copies and manifests on a disk | find the newest, check hashes, open, compare tables | a drill that reports success has read a whole backup |
| Public site (`api/routes/public_ssr.py`, `public.py`, `components/render`) | none | home, related, sitemap, pages | only what is published is shown, and is found |
| Rich text (`components/richtext`, `render_posts`) | none | validate, sanitise, render | sanitised once is sanitised |
| Clock (`adapters/time_london.py`) | time | to_utc, to_local, is_future | a displayed time is not read as an earlier one |
| Start (`ui/main.py`, `adapters/sqlite/migrator.py`, `components/bootstrap`) | schema, migrations, owner | init_db, migrate, bootstrap | the schema is whole, one owner |
| Unit of work (`adapters/sqlite_db.py`) | connection, transaction | enter, commit, rollback, exit and every call that writes | all or nothing |
| Frontend | what a page holds and what it has asked for | buttons, fetches, events | pages end up to date, handlers leave nothing half done |
| Monetization, HTTP wiring, scripts of operation | none | | not modelled, see section 5 |

Interactions: the routes build a component per request with the repositories as
arguments; the scheduler calls the publisher, which calls the content repository;
deleting a content item removes its jobs and grants; the dev runner calls a
publish callback; the pages call the routes, some of them two or three in a row.
`PROJECT.json` lists every component with what is modelled of it, and the
hazards with the line where each bites.

## 2. The modules

| Module | Models | Checked by |
|---|---|---|
| `PublishScheduler`, `MCPublishScheduler` | `SchedulerService` over `SQLitePublishJobRepo` and `ContentPublisher` | `scheduler*` |
| `PublishJobLifecycle` | what a job promises (SM2 in `core/entities.py`): the abstract specification | `scheduler_lifecycle` |
| `PublishSchedulerProofs`, `MemorySchedulerProofs`, `DevJobsProofs` | theorems about the module of that name | tlapm |
| `RecordsProofs` | theorems about `ContentLifecycle`, `Sharing`, `Ingestion`, `Audit`, `UnitOfWork` | tlapm |
| `SiteProofs` | theorems about `Settings`, `Links`, `Grants`, `PublicSite`, `Startup`, `Dashboard`, `ContentService`, and their composition `MCSite` | tlapm |
| `ServicesProofs` | theorems about `Newsletter`, `RateLimits`, `Aggregates`, `Visits`, `Redirects`, `Assets` with `Backup`, `Access`, `RichText`, `LondonTime`, `RestoreDrill`, and their composition `MCServices` | tlapm |
| `PagesProofs` | theorems about `Reader`, `EditPage`, `Resources`, `ResourcePages`, `AdminLists`, and their composition `MCPages` | tlapm |
| `Induction` | lemmas: induction over numbers and finite sets, sums over finite sets, walks | tlapm |
| `MemoryScheduler` | `SchedulerService` over `MockPublishJobRepo`, which the routes use | `memory_scheduler*` |
| `DevJobs`, `MCDevJobs` | `DevJobScheduler`, `DevJobRunner`, `claim_next_runnable` | `dev_jobs*` |
| `ContentLifecycle` | content and publish over `SQLiteContentRepo` | `content` |
| `PublicSite`, `Settings`, `Ingestion`, `Dashboard`, `Audit`, `Sharing`, `Links`, `Grants`, `Startup`, `UnitOfWork`, `ContentService` | the component of that name | `content` (`MCSite`) |
| `Newsletter`, `RateLimits`, `Aggregates`, `Visits`, `Redirects`, `Assets`, `Backup`, `Access`, `RichText`, `LondonTime`, `RestoreDrill` | the component of that name | `services` (`MCServices`), `redirect_loops` |
| `EditPage`, `AdminLists`, `Reader`, `Resources`, `ResourcePages` | pages, and the service of the resources | `pages` (`MCPages`) |

`MCSite`, `MCServices` and `MCPages` each check several modules side by side.
Modules that share no variable need no product of their states, so a variable
(`part`, `side`) chosen in the initial state says which of them moves and the
others stay as they begin. Modules that do interact are composed: `Backup` runs
beside the uploads of `Assets`, `ResourcePages` before the service of
`Resources`, `PublishScheduler` with its publisher and the rest of the content's
writers, `EditPage` with the item, the job table and its workers.

The scheduler has two job tables in the repository: the routes are wired to the
in-memory one, the context of the user interface creates the SQL one. They
differ in what is atomic and in what a thread holds after a read (a copy or the
shared object), hence two modules.

### PublishScheduler

State. `jobs` is the table (a row has the content item, the instant, the text
that SQL compares, the status, attempts, retry time and claimant; status
"absent" is no row), `content` the status of each item, `used` the ids handed
out. `admin[a]` is a request between its checks and its write, `worker[w]` a
worker between two repository calls; both hold the copy of the row they read.
`calls`, `published` and `clobbered` are history and no guard reads them.

Actions and code. A request is two actions: all reads and checks
(`ScheduleCheck`, `UnscheduleCheck`, `RescheduleCheck`), then its write
(`ScheduleSave`, `UnscheduleDelete`, `RescheduleSave`). A worker is
`ListDue` (claim_next up to the listing), `Claim` (the conditional UPDATE),
`Begin` (execute_job's time check), `PublishRead` and `PublishWrite` (the two
halves of the publisher), `SaveSuccess` or `SaveFailure`. `Crash` drops a
worker's copy. `EditContent` and `DeleteContent` are the rest of the system.

Abstractions, all of them:
* The time is a counter; the backoff, the grace period and the UTC offsets are
  in ticks. The text of a time is its wall clock (instant plus offset), which is
  how two ISO strings of different offsets compare up to the suffix.
* reschedule reads the row by id and then by key; the two reads are one action.
* An early return that changes nothing (past time, unknown job, existing key) is
  the absence of a step. schedule returns an existing job: no step either.
* Whether the dates of an item allow "scheduled" is left open, and the publisher
  may fail at its read or at its write for any reason.
* Other requests save whole content items they read earlier, so the status they
  write may follow from none the item has now: `EditContent` writes any status,
  and `DeleteContent` removes any item, whatever the check of its status saw.
* A request that dies is a request that never takes its second action.
* A save of a job whose content item is gone raises on the foreign key: the
  table stays as it is.

### MemoryScheduler

`object[j][o]` are the Python objects that have existed for job `j`: the one
`schedule` created (owner `Creator`) and one for each worker, because `claim_job`
stores a `replace`d object. `table[j]` says which of them the dict refers to,
`claimed` is the set of claims, `order` the dict's insertion order, which is the
order of `list_due_jobs`. A thread
that read a job holds an owner, not a copy: the assignment in `reschedule`
(`RescheduleMutate`) is seen by whoever holds the same object. `ClaimCheck` and
`ClaimTake` are the tests and the writes of `claim_job`. `Restart` empties the
table and the claims and ends all requests. A `RuntimeError` of a dict that
changes while it is walked ends the request before it wrote anything, and is no
step. Whether a publisher call succeeds is left open.

### DevJobs

`stopEvent`, `running` and `thread` are the fields of `DevJobScheduler`;
`joining` is a call of `stop` inside `Thread.join`, which returns when the thread
is over or after five seconds (`StopJoined` covers both; `overran` records the
second). `batch[e]` is a thread inside `run_due_jobs`: `Select`, `Update` and
`Reget` are the three statements of `claim_next_runnable`, `Count` is the save
before the execution, `Mark` the answer of the executor with its save.
The instant of a batch is dropped from its state with its last job, after which
nothing reads it. `Raise` is a database error: the batch is given up. start and stop are called by
one thread (nothing in the code makes them safe for more), and
`create_if_not_exists` by one thread at a time.

### Content, and the components around it (`MCSite`)

**ContentLifecycle.** `items` is the table, `request[p]` what a request is about
to write (its copy of the row), `due` the copies `run_process_due` still has to
publish. An operation of the content or the publish component is an action up to
its write (`Create`, `Update`, `Transition`, `PublishNow`, `Schedule`,
`Unpublish`, `DeleteCheck`, with the checks of the slug) and then `SaveCopy` or
`DeleteRow`; the UNIQUE slug refuses at the write. `run_process_due` is `ListDue`
and a `PublishDue` per item, `Tick` the clock. Two status machines appear
because the repository has two: `DEFAULT_TRANSITIONS` of the component and
`transition` of `domain/state.py`. `outdated` says whose copy is not the row any
more. Publication by `ContentPublisher` is one more request (`DueJob`).

**PublicSite.** `since` is when an item was published, `view` the request with the
ids its query found and the copies read so far: a list is a query for ids and
then one read per item (`GetHome`, `GetRelated`, `GetSitemap`, then `ReadNext`
and `Answer`), and items are published and withdrawn in between. `GetPage` is a request for one address. The
paths (`ContentPath`, `EntryPath`, the prefixes `PageRoutes` of the router) and
the cache policy are operators.

**Settings, Links, Grants.** Three tables with the same shape of trouble: an
operation reads, checks, and writes a whole row or deletes by id. Links has the
two conflict clauses of its table; Grants has `PolicyEngine.check_permission`
with its wildcards, roles and attribute rules, so that what a grant is worth is
asked of the policy and not of the table.

**Ingestion, Dashboard, Audit.** Events are checked and stored one by one,
batches included, each request with the limiter the route builds for it
(`post[c].hits`); what is stored keeps its request and place. A dashboard is
five queries beside recordings; a log is read in pages while it grows, and an
entry gets its time before it is in the log.

**Sharing.** A link is made for an item and a platform, the item changes, a
reader follows the link with or without a referrer, is attributed, and leaves
through the outbound route. Queries are functions from parameters to values.

**Startup.** `init_db`, the migrator and `run_bootstrap` are run by several
starters, statement by statement, and any of them may stop. `made` are the
statements whose effect the database has, `migrated` the recorded files.

**UnitOfWork.** `unit[u].bound` says which connection each repository of a unit
has: the unit's, one of its own for every call, or one that is closed already,
because a repository is made at its first use and kept. `work` is the database
with the open transaction of the one connection that has the write lock, `disk`
what all others read. Calls are their statements; `Perform` runs the next
one, `Return` ends a call that has none left and `Raise` one that failed;
`Commit`, `Rollback` and `Exit` end the unit. `promised` is the abstract database,
in which a unit happens at once. Only the tests use it so far.

**ContentService.** The deprecated service, which its own callers and the tests
still use. `drafts[w]` is the copy of a row a caller holds between its read and
its save; the table has the UNIQUE slug, the service the rules for a title, a
slug, a publication time and the pictures of the blocks.

### The services (`MCServices`)

**Newsletter.** A handler is a sequence of calls (`visit[v]` is its next one):
read, write, mail. Threads interleave between them and may stop at any.
**RateLimits.** The limiter of the shell, one locked step; the newsletter's, four
steps over a list that threads replace; that of the ingestion, one per request. A
list of times is a set of pairs of a time and a number. **Aggregates.** Get-or-create and
increment over both repositories (`store`); the dictionary's version is built
and put back, the table's is one UPDATE. **Visits.** Engagement rows and every
query over them, with the rates and shares the routes compute, and the
deduplication keys. A top list is any of the lists that SQL may answer: it
orders by the count and leaves ties open. **Redirects.** The table in rowid order, a validation and a
save for each request, resolution, and the loop report; a walk is a function of
the number of steps. **Assets, Backup.** An upload is a row, the reading, writing and
returning of a version number (`ReadCounter`, `WriteCounter`, `TakeNumber`), the
test of the storage key (`CheckKey`), the files and the pointers; any step may
raise, and a crash keeps table and files only. The backup script copies the
database, then walks over the files. **RestoreDrill.** `shelf` are the copies by
the second they were begun in, `manifests` what lists them; the drill takes the
newest manifest and checks hash, file and tables one entry after the other, while
files are damaged and further backups, of the same second too, write. **Access.** Users, sessions and invitations; requests are
the checks and then each write. **RichText.** A document is the set of its
nodes, numbered in the order the code meets them, with their depths; schema, sanitiser and renderer are operators over it,
the routes that call them are actions. **LondonTime.** One year with both
changes of the clock; readings carry the fold as zoneinfo has it.

### The pages (`MCPages`)

The server's side of a request is one step here, because its races are those of
the modules above. **EditPage:** `runs` are handlers that send one request after
the other; the item, the job table and its workers are the server. **AdminLists:**
`asks` and `deeds` are fetches and changes under way, `shows` what the page holds;
one module for eight pages, which differ in what they filter, page through, ask
first and refetch. **Reader:** measurement of a visit, speech, share menu, the
newsletter form and the pages behind its letters, each a `widget`.
**Resources, ResourcePages:** the service, which assigns to the repository's own
objects before it validates, and the two pages in front of it.

### Abstractions they share

Times are ticks, texts are members of small sets that tell apart what the code
tells apart (a slug with blanks, a URL that is not safe, an address), ids are
drawn in order. Logging, wording, layout, password hashes and token formats are
left out. An early return that changes nothing is the absence of a step. What
the code takes from outside (SQLite, the browser, the network, the clock) is
modelled from how it is used and marked external in `PROJECT.json`.

### Exceptions written into properties

Some properties exempt a situation, because without the exemption the code
violates them. Each is a history variable that no guard reads.

| Module | Exempt | Why |
|---|---|---|
| PublishScheduler | `clobbered`: a stale reschedule wrote the row back | run `scheduler_double_execution` |
| DevJobs | `overlapped`: two batches at once; `overran`: a batch outlived the join | run `dev_jobs_double_execution`; five seconds of `Thread.join` |
| MemoryScheduler | `raced`: two workers between test and addition in `claim_job` | not atomic in the code |
| ContentLifecycle | `StaleWrite`: a write from a copy that is not the row; items behind `ListLimit` due ones | whole-row writes; one listing of 100 |
| Newsletter | a handler writes a stale copy | the same |
| RateLimits | `overlapped`: two threads inside the newsletter's limiter | it has no lock, and loses records |
| Aggregates | equality only over the table and at rest | in memory counts are lost when threads cross |
| Redirects | `overtaken`: the table changed after the validation; `moved`: a source was changed alone | no constraint; run `redirect_loops` |
| Assets | `shared`: two uploads were given one number | the counter is read and written back |
| Access | `crossed`: a write after its reads were overtaken; `cut`: a redemption half done or doubled | three writes without a transaction |
| Settings, Links, Grants | `crossed`; `linkStale`, `padded`; `crossing`, `missed` | a copy or a check made old; a slug with blanks |
| PublicSite | `withdrawn`: between the query and the read, in the home and related lists | they do not look at the status again |
| RestoreDrill | `disturbed`: a file of the drilled second changed while the drill ran | two backups of one second share their names |
| Startup | `shaken`: a start cut off, or two at once | scripts are not transactions |
| Sharing | the addresses of pages | they lead nowhere, see section 5 |
| UnitOfWork | `spoiled`: an error caught half way through a save, a repository made outside the block | no savepoints; repositories keep their connection |
| Resources, ResourcePages | `spoiled`: a refused request changed an object; an emptied PDF | assignments before validation; JSON leaves it out |
| EditPage | `mingled`, `behind`, lost answers | handlers overlap, workers move items |
| AdminLists | `outrun`, `doubtful`, `strayed` | fetches are not cancelled; see section 5 |
| Reader | `parted`, `crossed`, `muffled`, failed answers | see section 5 |
| Dashboard | `busySince`: equality only if nothing was counted | queries are not one transaction |

## 3. The runs

| Run | Instance | Shows |
|---|---|---|
| `scheduler` | 2 jobs, 1 item, 2 workers, 1 administrator, 2 requests, clock 0..2, 2 attempts, offsets {-1, 0}, crashes | all safety properties and the inductive invariant (about a million states) |
| `scheduler_lifecycle` | only schedule and edits, no crash, two workers, fair | the refinement of `PublishJobLifecycle`, and that every job comes to an end (about 61 000 states) |
| `scheduler_double_execution` | 1 job, 2 workers | I4 of the scheduler's contract is not kept across a reschedule |
| `scheduler_duplicate_key` | 2 jobs, 2 administrators | I1 is not kept by two concurrent schedule calls |
| `dev_jobs` | 1 job, 2 polling threads, 1 trigger, 1 database error, clock 0..2, 2 attempts | `PollerSound`, `AttemptsHonest`, `StartsWhenDue` (about 4.5 million states) |
| `dev_jobs_double_execution` | 1 job, 1 polling thread, 1 trigger | the claim is not atomic |
| `memory_scheduler` | 2 jobs, 2 workers, 1 administrator, 3 requests, 1 restart | no early publication, one call per job (about 5.8 million states) |
| `memory_scheduler_retry` | 1 job, 1 worker, fair | a failed job is never retried in the in-memory table |
| `content` | `MCSite`: 2 items, 2 slugs, 2 requests and the job of a due item, clock 0..2, listings of one; the other components as below | one property per component (the content service's in `SitePartsSound`), legal moves, and that what is due is published (about 405 000 states) |
| `services` | `MCServices` | one property per service (the drill's in `ServicesPartsSound`), and that who asks for the newsletter again gets the link (about 308 000 states) |
| `redirect_loops` | 1 administrator, 3 paths | I2 of the redirects' contract is not kept by an update of the source |
| `pages` | `MCPages`: 2 presses, 1 lost answer, 2 resources, six of the list pages | one property per page (about 1.4 million states) |

No run checks for deadlock: clocks, requests and ids are bounded, and the models
rest when they are used up.

### Bounds, and why they are enough

Almost every race of this code is between two processes over one row, so two
threads (workers, requests, callers, members of a page's handlers) are the
interesting number, and a second row is there where the order of a listing, a
unique column or a foreign row matters. The rest, by component:

* Schedulers: two attempts give a failure that is retried and one that is final;
  the clock needs the instant before a job, the job's, and a later one for its
  retry; offset -1 makes the text of a time smaller than its instant. Two
  requests allow a reschedule of a scheduled job, three a further one against it.
* Content: `ListLimit = 1` with two items makes one due item stand behind another;
  `MaxRequests = 3` gives each of two requests a predecessor.
* Sites, dashboard: two to four items of all three types, lists shorter than the
  number of items; `TopLimit` below and above the number of entries.
* Ingestion: a limit of one per span of one tick, three events of every kind in
  single requests and batches, clients that ask twice.
* Audit: pages of one entry, two entries, two loggers.
* Settings, Links, Grants: three or four requests of two threads; rules and roles
  are those of the documents as far as they speak of items.
* Startup: a file of three statements that may run again and one of a statement
  that may not, three starts of two processes.
* UnitOfWork: two units, two calls, four kinds of call (`CallsUsed`): the save and
  deletion of an item with its blocks, the insertion of a version, and the move of
  the latest mark, which takes two statements. The other calls have one of these
  forms and other tables.
* Newsletter: two addresses, two ids, tokens that expire at once, one handler
  that stops. RateLimits: limit 2, window 2, four ticks. Aggregates: two events,
  minutes and (two-minute) hours. Visits: times and depths on both sides of each
  threshold that decides, two pages, two days, lists of one.
* Redirects: three paths, chains of two, three rows, three saves: enough for the
  circle of three that the cut-off walk cannot see. Assets: two uploads at once,
  three in all, one crash; the backup runs beside two uploads (`BackupUploads`).
  Access: three users, one invitation, three requests, lives of one day.
* ContentService: two callers, two articles with one slug between them, three writes.
  RestoreDrill: two seconds, two backups that may fall into one second, one
  damaged file.
* RichText: every tree of three nodes over ten shapes. LondonTime: a year of 14
  hours with both changes.
* Pages: `MaxPresses = 2`, `MaxActs = 2`, one mishap (a lost request or another
  user), four half seconds of a visit, pages of one row. The two list pages left
  out of the run (links, resources) behave as redirects and content do.

Symmetry is used for workers, administrators and polling threads in safety runs
without liveness.

### Fairness

`FairSpec` of the schedulers: each worker keeps calling run_due_jobs, and the
clock goes on. The repository leaves the calls to an external trigger of the
run-due-jobs endpoint, or to the polling thread of the dev runner: without a
caller nothing is published, so the assumption is the deployment's. Nothing is
assumed of requests, edits or the publisher's answers. `EveryJobSettles`
excludes crashes: a worker that stops after its claim leaves the row "running",
and nothing looks for such rows.

`MCFairness`, for `DuePublished`: weak fairness of the listing, of the
publication of what was listed and of the clock; again someone keeps calling
`run_process_due`. Requests may stop between read and write.

`NewsletterFairness`, for the link that arrives: a handler that runs goes on
(weak fairness), and the owner of an address without a link subscribes again
(`AskAgain`, strong fairness, because an answer under way disables it now and
then). The number of handlers that stop is bounded.

### Mutants

Each property of a passing run has an operator (marked `Mutant:` in the modules)
that changes one definition the way a plausible bug would and breaks the
property; `PROJECT.json` lists them.

## 4. The proofs

The theorems hold for every value of the constants. Their assumptions are the
named ASSUMEs of the modules: bounds that are naturals, limits and delays of at
least one, nonempty sets where the code draws from one, finite sets where a query
adds up over them (days, pages, views, recorders), a name that stands for "none"
outside the set it is the none of, and the shapes of the inputs
(`TextAssumption`, `StartupAssumption`, `GrantsAssumption`). TLC evaluates all of
them on the runs' values. Two theorems have a hypothesis besides:
`GrantsTheorem` that the rules give a grant to edit its meaning
(`RulesGiveEdit`, which `MCSite` assumes of the rules of the documents and TLC
evaluates there), `ServicesTheorem` that there is a bucket type, without which
no event could be counted.

Each proof begins with an inductive invariant; a lemma per action says that the
action keeps it, and the theorem follows from it. The theorems that are written
`Spec => [](TypeOK /\ Inv)` in the modules state the type invariant too.

| Module | Theorem | Run property |
|---|---|---|
| `PublishSchedulerProofs` | `TypeCorrect`, `PublishedInTime`, `Exclusive`, `RetriesBounded`, `SuccessIsReal` | the invariants of `scheduler` |
| | `InductiveHolds` | `Inductive`, from which the others follow |
| | `VerdictsStand` | `FinishedStaysFinished` |
| | `ImplementsLifecycle` | the refinement `JobLifecycle`, crashes included |
| `MemorySchedulerProofs` | `MemoryDueTheorem`, `MemoryTableTheorem` | `NeverPublishEarly`, `TableSound` |
| `DevJobsProofs` | `PollerTheorem`, `AttemptsTheorem`, `DueTheorem` | `PollerSound`, `AttemptsHonest`, `StartsWhenDue` |
| `RecordsProofs` | `StatusTheorem` | `StatusSafe` |
| | `SharingTheorem`, `IngestTheorem`, `AuditTheorem` | `ShareArrives`, `IngestHonest`, `AuditComplete` |
| | `UnitsTheorem` | `UnitsWhole` |
| `SiteProofs` | `SettingsTheorem`, `LinksTheorem`, `GrantsTheorem` | `SettingsKept`, `LinksKept`, `GrantsHonest` |
| | `SiteTheorem`, `StartTheorem`, `DashboardTheorem` | `SiteHonest`, `StartHonest`, `DashboardAgrees` |
| | `ArticlesTheorem` | `ArticlesSound`, the content service's part of `SitePartsSound` |
| | `SitePartsTheorem` | `SitePartsSound`, and every other safety property of `content`, of the composition |
| `ServicesProofs` | `ConsentTheorem` | `ConsentKept`, the safety of `NewsletterHonest` |
| | `LimitTheorem`, `StorageTheorem`, `LondonTheorem` | `LimitKept`, `StorageSound`, `NeverReadEarly` |
| | `CountsTheorem`, `VisitsTheorem` | `TotalsHonest`, `VisitsHonest` |
| | `RedirectsTheorem`, `TextTheorem`, `AccountsTheorem` | `RedirectsSafe`, `SanitizeSettles`, `AccountsSafe` |
| | `DrillTheorem` | `DrillHonest`, the drill's part of `ServicesPartsSound` |
| | `ServicesTheorem` | `ServicesPartsSound`, and every other safety property of `services`, of the composition |
| `PagesProofs` | `ReaderTheorem`, `EditorTheorem` | `ReaderHonest`, `EditorSound` |
| | `ResourcesTheorem`, `ResourcePagesTheorem` | `ResourcesSound` (alone and as part of the next), `ResourcePagesSound` |
| | `ListsTheorem` | `ListsHonest` |
| | `PagesTheorem` | every property of `pages`, of the composition |

**PublishScheduler.** For all backoff sequences, grace periods and offsets, with
all endpoints and crashes enabled. `NeverPublishEarly` and the types are
inductive by themselves. The others are not: that two workers never hold one job
needs that a held job is "running" or gone (`HeldByOwner`), so that the
conditional UPDATE refuses it; for that a request's late insert must not hit a
held id, which needs that a new id names nothing else (`FreshIds`). The bound on
the calls needs that the attempts in a row, or in the copy of its holder, cover
the calls made so far (`AttemptsCover`), and that a queued row has no attempts
(`QueuedUntried`), so that a reschedule does not reset a count. `Inductive` is
the conjunction, checked by TLC in the run `scheduler`. `ImplementsLifecycle`
holds when the only endpoint is schedule and content is not deleted: cancelling,
rescheduling and deleting write rows without looking at them again, so the state
machine is not kept with them.

**MemoryScheduler.** That nothing is published early and that the table is sound
need to know who holds which object: a request holds the one that `schedule`
made, a worker its own from the claim on, and the table never refers to the
object of a worker in which the job is still queued (`OwnerInv`); a key of the
dict was handed out (`UsedInv`); and a publisher call was made under a claim that
is kept, or the job went with a restart (`OnceInv`), so that a second worker finds
the claim unless both were between the test and the addition (`raced`).

**DevJobs.** That `stop` and `start` leave one polling thread follows from
`PollerInv` (a stop that waits was called while the scheduler ran; only the
thread created last is alive). The counts and the due times need what the holder
of a job knows of its row at each of its statements (`HolderInv`), which holds
as long as no two batches overlap (`SerialInv`), and that a batch's instant is
one the clock has passed (`InstantInv`).

**ContentLifecycle.** A request that has not been overtaken is about to make a
move that is legal for the row as it is now (`RequestInv`), a listed item is
still due (`DueInv`); for a new item, that its id names no row (`CreatedInv`).
The action properties are proved of every step from the invariant before it.

**UnitOfWork.** For every choice of the repositories' calls, with all their forms.
The database of a connection is a matter of how far each unit has come
(`UnitsInv`): the connection that has the lock would read, after the rest of its
call, what the calls done so far make of the disk (`HeldIn`); a unit without the
lock has done nothing that could be lost; and each call, from whichever database
it starts, leaves the parts of an item (of an asset's versions, of a user's
roles) agreeing with its row (`Good`, `Whole`), which none of its statements does.
A row a unit has read is the one its connection still reads, or a commit of
another has marked it as crossed (`ViewIn`). The promised database follows: the
disk is it until an error was caught half way (`spoiled`). What a list of statements
makes of a database is a walk (`ResultWalk`), and what two lists make one after
the other is what they make joined (`ResultJoin`).

**Newsletter.** One row per address is inductive only with what a thread about to
insert has in hands: an id no row, no mailed link and no other thread has
(`InsertInv`, `DrawnInv`). The moves of the double opt-in need that a thread
about to update has a copy that may follow the row unless it is stale
(`UpdateInv`), and that only a pending row has a token (`OpenInv`), which is why
a link works once.

**Settings, Links.** A copy that nobody overtook still agrees with the row, and
every copy passes the rules that its merge was checked with (`SettingsCopyInv`); a link
about to be saved has a slug nobody else has, unless the check was made before
another write or of a slug with blanks, and an id handed out once (`LinkWorkInv`,
`LinkIdsInv`).

**Grants.** The ids a thread has in hands are of its own pair, and those of a
revoke are all the pair has unless a grant crossed it (`GrantHandInv`); a new id is in
one thread's hands (`GrantHandsApart`); hence the table of a pair is what the last
answer said (`GrantWantedInv`). That an answer decides who may edit needs rules that
give a grant to edit its meaning: the hypothesis `RulesGiveEdit`, which TLC
evaluates for the rules of the documents in `MCSite`.

**Access.** A row about to be written on reads that nothing overtook leaves an
administrator, because an administrator does not lock himself out, and disables
nobody who has a session (`FreshInv`); a redeemer writes a row of its own
(`RowsApart`, from the choice of a free id); an invite that made a user is marked
or is about to be, and one that is being redeemed is nobody else's unless a
redemption was cut (`OnceInv`).

**PublicSite.** An id that a query for published items found is published still or
has been withdrawn since (`ViewInv`), so what is shown of it was published when
it was read. What holds of each list follows from the set form of `Newest`. What is written about
the addresses holds by calculation from the routes.

**Startup.** Where a starter stands in a script tells which statements have run
(`PlaceInv`), a recorded file has run whole (`RecordedInv`), and unless starts
met or were cut off, one that works is alone (`AloneInv`): hence a statement that
may not run twice does not, and the schema of a server that came up is whole.

**Dashboard.** The queries are not one transaction, so what is shown together is
bounded by what was true when each was read: counts only grow, and a total that
was read before a list is at most the list's sum, equal if nothing was counted
since (`BoardInv`). That a ranking leaves nothing out when it is shorter than its
limit is a lemma about `Ranked` (`RankedSum`); that the sum over the days is the sum over the
buckets is a regrouping.

**Sharing, Ingestion, Audit.** A link that was shared is one the component makes of
an item (`SharedInv`), a visit was judged by the parameters of its link
(`ArrivalInv`), and who leaves carries those of his event (`LeavingInv`); slugs
are apart (`SlugsInv`). What a request
answered so far is what is stored of it (`AnsweredInv`), and the limiter of a
request has each stored event of the span (`LimiterInv`), which bounds them. An
entry that the first page's log had is seen or stands behind the pages turned so
far, because new entries only push it further back (`WalkInv`); a part counted
for a summary is still there when later parts are counted (`SummaryInv`).

**RateLimits.** The list of a limiter has every admitted time that still counts
(`LoginInv`), for the newsletter's unless two threads were inside
(`SubscribeInv`). The bound then is a count of a subset.

**Aggregates.** `CountsInv` says that there is a tally, a number for each bucket and
kind of visitor: what was begun is what the tally has and what the threads still
have to count (`Balanced`); the table holds the tally, the dictionary no more than
it (`StoredInv`); and the copy a thread is about to put counts at most one event more
than the tally of its bucket, in which it belongs (`AtHand`). The tally is
quantified, so the model needs no further variable. That a query over a whole range meets the
buckets of the range, all of them and once, is arithmetic of widths.

**Visits.** A row knows from its buckets whether its sessions were engaged
(`RowInv`), and the rows of a page and day add up to what was measured there
(`MeasuredInv`): every total, distribution and rate then is a sum over the same
rows grouped in another way (`TotalGroups`, `TotalImage`). That no share and no
rate exceeds a hundred, and that a top list has no row below one it leaves out,
follow. A key in the cache was reported, and one that is gone had expired
(`ReportedInv`), so what is asked for again too early is known.

**Redirects.** As long as nobody's validation was overtaken and no source was moved
alone, the redirects descend: there is a rank that falls with each
(`Descends(Onward)`), which excludes a circle of any length, the long ones the code's
cut-off walk cannot see included. To keep it an edit must know that its target
does not lead back to its source, or that the row says so already (`EditSound`),
which is what the validation's walk of `MaxChain` steps shows of a table whose
chains it found short enough. A visitor arrives because his walk falls in rank and
meets no row twice, of which there are at most `MaxRows`; that
the report lists every circle within its reach compares two walks step by step
(`WalkOnly`).

**RichText.** The document is one the schema's shapes allow, and either nothing was
sanitised yet or `clean` is `Sanitize(document)` and `html` its rendering
(`TextInv`). Sanitising again removes nothing because every node and mark that
stays has kept only what may stay, and its ancestors stay with it: a lemma about
`Sanitize` for all documents. What is rendered has no unsafe link by the same
argument.

**Assets, Backup.** As long as no two uploads held one number: what a row or a
pointer names is written, and nobody writes where something points or where
another has a number (`SettledInv`); the files of the rows a backup copied are in
its archive or among those the walk has still to meet (`ArchiveInv`).

**LondonTime.** The clock is a moment of the year (`ClockInv`); the content is a lemma
about the two conversions, a case for each side of each change of the clock.

**RestoreDrill.** As long as nothing disturbed it, the drill is content exactly if
every entry it went through can be restored, and the one it has open has the hash
of the manifest (`Verified`, `DrillInv`).

**Reader.** The time on the screen is what is counted and what is running, and a
page on the screen has its report still to send unless an unload took it
(`Measured`, `VisitInv`). An answer under way is one the state of the server
explains (`FormInv`, `LetterInv`); speech and the share menu need little more than
their types (`SpeechInv`, `ShareInv`).

**ContentService.** The stored rows are sound only if the copies about to be saved
are (`DraftsSound`), wherever the row has gone meanwhile; slugs are kept apart by
the column and not by the service's check.

**EditPage.** A handler that schedules and stands at its transition has its job in
the table (`QueueInv`); handlers overlap only in a mingled page (`Apart`); unless
a handler has moved the item and not fetched it yet, what is shown is the item
(`ShownInv`), and the text a publication was pressed with is the item's when it is
published (`TextInv`).

**Resources, ResourcePages.** Ids are in the order of creation (`OrderInv`) and what
is stored and unspoiled obeys the rules (`StoreInv`). Which requests may be under
way with which flags of the page (`FlagInv`) makes a page answer for what it
asked, and a page that nothing crossed says what is stored (`CleanInv`).

**AdminLists.** One invariant for the eight pages: a page that waits has a fetch
under way, one that shows an error had one that failed (`ScreenInv`), and for every part of a page the last fetch that
will bring it either is under way for what is on screen or has shown it, and
those before it were told what they were for (`CurrentInv`).

**The compositions.** A step of `MCSite`, `MCServices` or `MCPages` is, for each
component, a step of its specification or a stutter (`SiteMoves`, `ServicesMove`,
`PagesMove`), so what was proved of each by itself holds of the whole. One pair
shares variables: the store of the resources is reached by requests while the
page of a resource has not begun (`StoreSideInv`, `Unopened`).

**Induction.** What is recursive is written as recursive functions and as the folds
of the community modules. The library's induction theorems take an operator as a
parameter and cannot be used here, so `Induction` has them for sets: a set of
naturals with 0 and with the successor of each of its members is all of them
(`AllNumbers`); a set of sets with {} and with each of its members enlarged by an
element has all finite sets (`AllFiniteSets`). From these come the sum over a finite set
(`Total`, equal to `MapThenSumSet`), which adds, grows and regroups, and
that a walk from a start exists and is determined (`WalkExists`, `WalkOnly`).

Only model-checked is liveness, which the provers do not reach: `EveryJobSettles`
and `DuePublished`, the link that arrives in `NewsletterHonest`
(`LinkArrives`). The properties of the five runs that expect a violation have
their counterexamples there; nothing is proved of them.

## 5. What the modelling met, and what is not modelled

### Where the code goes another way than its text

Five of these have a run (section 3) and stand under "findings" in
`PROJECT.json`. The others were met while reading and are exempt in a property
or outside every property:

* Scheduling pages. Unscheduling on the edit page moves the item and leaves the
  job, though `publishing-controls.tsx:232` says it cancels the publication: the
  draft is published at the old time. The page creates a job before the
  transition that may be refused. "Publish Now" runs the first due job, whichever
  it is, and reports success; a job that failed once blocks the listing of one.
  `publish_now` never finds a PDF resource, and its page says it was published.
  Jobs in memory are lost at a restart while their items stay scheduled.
* List pages. Fetches are not cancelled; the refetch after a deletion uses the
  filter of the moment it was pressed; pages stay behind the last row.
* Reader. Each return to a page reports the whole time once more as another view;
  a `beforeunload` that does not leave stops the report until the page is hidden
  and shown; a confirmation link opened again fails although
  `public_newsletter.py:221` speaks of an idempotent answer; speech stopped while
  paused stays silent, and a late event of a cancelled utterance shows "stopped".
* Engagement routes. `/engagement/distribution` and `/engagement/top-content` read
  fields the rows do not have and fail as soon as there is a row.
* Resources. A refused update or pinned policy is stored all the same, since the
  object is the store's own; the resolver that is wired knows no version, so
  "pinned" is always refused. Emptying the selected PDF saves nothing.
* Public site. Canonical addresses and share links of pages, and sitemap entries
  of pages and resources, lead to no route; the listing of a hundred items of any
  status is cut before it is filtered; home and related lists read items again
  without their status; `visibility` is not looked at.
* Assets. The route's store has no `put`. Redirects have a table only in the seed script, without a
  unique source.
* Restore drill. It expects the tables users, content and assets, and the schema's
  is called `content_items`, so it fails on every copy the backup makes of this
  program's database (the model leaves open what the copied database has). A
  number of extracted files that differs from the archive's does not fail the
  drill; with `--json` the exit status is 0 after a failure too.
* Ingestion. The route builds a limiter per request, so its limit of 600 in 60
  seconds holds within one request only.
* Attribution by substring takes reddit.com for "t.co" and netflix.com for
  "x.com". The duplicate check of links compares the slug before it is stripped.
* Clock. `to_utc` documents the later of two ambiguous times and takes the
  earlier; `parse_local` takes the later.
* Start. `init_db` runs the first migration only and is satisfied by one table;
  `run_migrations` has no caller. The seed script makes a laxer schema.
* Unit of work. A unit used for a second `with` block finds its repositories on
  the closed connection; one whose repositories were used before the block
  commits each call; reads before its first write are outside its transaction,
  so an item may be read with blocks of another save.

### Not modelled

* Monetization chooses blocks of a page by tier: pure and without state.
* HTTP wiring, schemas, the router of the shell and the command line decide what
  is connected with what; the modules take the connections as they are.
* Reading and validating `rules.yaml` (not in the repository); the rules
  themselves are constants of `Grants`.
* The remaining templates and metadata of pages, `sanitize_html` (no caller),
  TipTap conversion.
* Users, login and settings pages, the generated API client, the user interface
  kit: they send one request and show its answer.
* Scripts of operation except the backup and the restore drill; the privacy check.
* Deprecated services other than `core/services/content.py` are copies of the
  components: `core/services/richtext.py` equals `components/richtext/_impl.py`
  byte for byte, the other facades hand on.
* A reader of an in-memory dictionary while a thread adds to it
  (`RuntimeError`) is the end of a request and no step.

### What comes next

As modules: the calendar queries of the scheduler, the administration of users in
the frontend, and the outbound redirect with its events once it is included in
`api/main.py`. As theorems: what `MemoryScheduler` and `PublishScheduler` have in
common, as refinements of one abstract job table.
