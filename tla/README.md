# A verification project for baza-skolkovo

The system collects documents, news, events and pages about the Skolkovo
Foundation, asks language models to classify them, indexes them for semantic
search, and tells residents what concerns them. It is one Go program
(`src/cmd/skolkovo`): `serve` runs an MCP server, an admin panel, a portal, the
Telegram bots and a job scheduler in one process; other commands (`sync`,
`sitepages ...`, `news`, `collect`, `migrate`) do parts of the same work in
processes of their own over the same PostgreSQL and Qdrant. Almost everything
that is hard in it comes from that: a row is listed, minutes or hours pass in the
network or with a model, and the row is written, while somebody else has done
the same.

The modules here describe those parts in TLA+. TLC checks them on small
instances; TLAPS proves the invariants of the core, of the office and of the
collectors for all instances.

    cd tla
    tlc -config JobScheduler_main.cfg MCJobScheduler     # a run
    tlc -workers 2 -config Office.cfg MCOffice           # eleven modules in one run
    tlapm JobSchedulerProofs.tla                         # the proofs of a module

PROJECT.json lists the runs, the mutants (a plausible bug for every property,
which must break it), the line of code behind every definition, the findings,
the hazards and the theorems.

## 1. Inventory

### Modelled, in whole or in part

| part | state it keeps | operations | module |
|---|---|---|---|
| **Job scheduler** (`jobsched`, `admin/scheduler_admin.go`) | tables `scheduler_jobs`, `scheduler_runs`; the map `running`, the trigger channel | register, tick, scan, execute, trigger by hand, edit, journal | JobScheduler, SerialRuns |
| **Change feed and dispatch** (`changes`, `pipeline`, `relevance`, `notify`) | `change_events` with two flags, `client_notifications` | record, analyse, dispatch per stage, mail, alert, re-analyse by hand | ChangeFeed |
| **Documents and their index** (`common/store`, `rag_service`, `scraper`, `collector`, `docenrich`, `news`, handlers of `admin`) | table `documents`, points in Qdrant with fresh identifiers | ingest, attach a body, approve, outdate, delete, annotate, index | DocumentIndex |
| **Pages of the site** (`sitepages`) | table `site_pages`, a point per URL | crawl, upsert, mark as gone, annotate, edit, fill dates, reindex, prune | SitePages |
| **Residency** (`postgres_client_store.go`, `residency_admin.go`, `residency_tools.go`) | clients with a stage and a key, history of transitions, deadlines | transition by panel and tool, issue and revoke a key, open deadline | Residents |
| **Deadlines** (`deadline_auto.go`, `consultant.go`, `sendDailySummary`) | table of deadlines, the hour of the summary | daily summary, dashboard, page, client's card | Deadlines |
| **Tenants' bots** (`tgbot`) | rows of tenants; map of running bots; offset, queue, chats of a bot | edit a tenant, reconcile, start, stop, poll, answer, cool down | Tenants, TgBot |
| **Access to MCP** (`key_cache.go`, `ratelimit.go`, `server.go`) | verdicts on keys cached for a minute; a bucket per address | look up, cache, rotate, revoke, fill, take | ApiAccess, RateLimit |
| **Portal** (`portal`) | one-time links, sessions with an end | mail a link, verify, open a session, log out, clean up, pages | Portal |
| **Doors of the panel** (`admin/auth.go`, `ListenAndServe`) | sessions in memory, credentials | log in and out, admit a request, serve a page, the residency port | PanelDoor |
| **Proxies and the browser** (`proxy_manager.go`, `fetcher.go`) | list in memory and in a file, the current one; the session of a run | add, remove, activate, test, switch, answer a block | Proxies |
| **Models and agents** (`aimodels`, `ai_admin.go`, `docenrich`, `agents`, `relevance`) | tables of models and agents | seed, edit, press "seed Qwen", look for an agent, fail over | Assistants |
| **Forms** (`generator`, `portal`, `agent_tools.go`) | files of templates and of forms | store the standard templates, render, hand out | Forms |
| **Collectors** (`events`, `contests`, `faq`, `telegram`, `residents`, `preferences`, `regulations`, `news`, `health`) | a table each, a row of health each | fetch, parse, look up, write, announce, report | Collectors, Cards |
| **Catalogue** (`fetcher`: walk, listing, download by cookie) | queue of the walk; links and titles seen; rows, files | walk, list, download, register | SiteWalk, Downloads |
| **Versions and their comparison** (`scraper`, `version_store.go`, `diff`, `diff_admin.go`) | copies of files, rows of versions | download, archive, number, compare | Versions, Compare |
| **Eligibility** (`eligibility`) | none | ask two registers, judge | Eligibility |
| **Navigation index** (`navindex`, `qdrant`) | a collection, the map and its JSON | create, fill, prune, answer, at start, by button, by command | NavIndex |
| **Lists** (`source_tools.go`, `regulation_tools.go`, `residency_tools.go`, pages of `admin`) | filter, limit, number of a leaf | narrow, cut, count, turn over | Listings, Paging |
| **Start and migrations** (`migrate`, `cmdServe`, `cmdMigrate`) | `schema_migrations`, files, who schedules what | apply, record, refuse, assemble, stop | Service |

Calls join them as follows. JobScheduler starts the jobs of ChangeFeed (job
`documents`), DocumentIndex, SitePages, Collectors, Downloads and SiteWalk.
Collectors, DocumentIndex, SitePages and Downloads record the events that
ChangeFeed dispatches. Residents moves the clients ChangeFeed mails to and opens
the deadlines that Deadlines announces. ApiAccess accepts the keys that Tenants
and Residents issue, Proxies carries the browser of Downloads, Service decides
who starts all of them. They meet in the rows of a table, and each module models
what the others may do to its rows between any two of its own steps.

### Not modelled

| part | why |
|---|---|
| legacy scheduler and reports (`scheduler`, `analytics`, `audit`, `validator`) | settings read once at start, read-only reports whose rules are wording |
| chat widget, prompts and answers of the agents (`chat_widget`, most of `agents`) | a prompt, a call, the last messages under one lock; what a model says is a free choice in the modules that ask it |
| packages without a caller (`requirements`, `registry`, escalation and progress of `agents`, parts of `notify`) | nothing reaches them |
| infrastructure (`qdrant`, `embed`, `mailer`, `feed`, `config`, `health` probes) | their calls are steps of the modules that make them, and may fail there |
| JSON store, parsing of files, templates, the graph | formatting, I/O, a store for tests without a database |

## 2. The modules

All models work at the same grain: **one call to a store, to the network or to
a queue is one step**; what a function holds between two calls is in its local
variables, with a program counter; a call may fail where the code checks an
error, and a process may die between any two steps. Bounds of a model
(`MaxFaults`, `MaxEdits`, `MaxTime` and the like) are in the guards and limit
only what the environment does. Texts, mails and answers of a model are members
of small sets. Variables that no code holds (a count of lost summaries, the set
of bodies once approved) are named as such in the module; they are read by
properties only.

### The core

**JobScheduler, SerialRuns.** `Runner.Run` is one goroutine: `Boot` and the
registrations; a select between the ticker (`TickerFires`, which lists the rows
and scans them) and the trigger channel (`TakeTrigger`); `execute` in its five
steps (journal row, body, close the row, next_run_at, release). Beside it
handlers edit rows and put names into the channel (`Trigger` finds a job free under
the mutex, `Send` puts it into the channel after the unlock), time passes, the
process stops and starts again. Time is relative: `next` is what is left until
next_run_at. SerialRuns is the promise in the comment on Runner without
goroutine, table or channel: bodies run one at a time, each under an open
journal row of its own. JobScheduler implements it (`ImplementsSerialRuns`; the
abstract run is what is in a body).

**ChangeFeed.** `Works(p)` is one pipeline: it fetches a page of events not
analysed (`Limit`), and for each asks the analyser, stores the verdict, and for
each stage concerned lists the clients, inserts into the inbox, and mails
whoever's row the insert created; then it sends the alert and marks what was
handled; then it fetches what is left and sends the generic alert. Each process has
Telegram configured or not, and a restart may change that: without it nothing is
announced, what was dispatched is marked all the same, and what was not dispatched
stays unsent, as a comment of pipeline.go says. Several pipelines run on one feed.
Clients change their stage meanwhile, the panel re-analyses by hand in its two
statements.

**DocumentIndex.** Nine kinds of workers over the table and the points. What
matters is what each statement writes: `Upsert` overwrites every column but those
of the annotation with the copy the worker has read, `SetStatus`, `SetIndexed`
and `UpdateClassification` write their own columns. `IndexDocument` is get,
classify, save, delete the points, load new ones with fresh identifiers, set the
flag. `approved` is a history variable: the bodies that an administrator approved.

**SitePages.** Nine tasks (the job, the crawl command, indexing, backfill, the
command enrich, one page from the panel, an edit of a curator, dates, pruning)
over the table and the points. `Upsert` is a read and one of three statements;
`EnrichBatch` answers page by page for the text that was listed; `Reindex` deletes
the points of dead pages and writes the others as they were listed. Two things
are in the model that no column holds: `note`, the text that an annotation was
really made from, and in a date whether it came from the markup or from the
model. `age` is the order of last_changed. Excluded pages are those the denylist
has come to cover after they were collected.

### The office (composed in Doors and Office)

**Doors, Office.** Doors holds the ways in (ApiAccess, RateLimit, Portal, PanelDoor,
Forms), Office adds the other parts below. They declare the constants of all
parts with a named assumption for each, since a module that is instantiated
cannot have its assumptions evaluated by a run; MCOffice only names the values
that a configuration cannot write down.

**Residents.** Panel, JSON API and MCP tool share one sequence: read the row,
check the move on the copy, write the history, write the whole row from the
copy, list the deadlines, create one. Issuing and revoking a key are the same
read and whole-row write. Any number of requests overlap, any statement fails.

**Deadlines.** Time in parts of a day. A move to reporting opens a deadline, the
service sleeps until its hour, sends the summary or loses it (down, or the
message does not arrive), and waits for the next day. The lists of clients and of
deadlines may fail to be read; the summary then goes out without them. Durations are cut
towards zero as Go does. The dashboard, the page and the card are read from the
same rows.

**Tenants, TgBot.** Tenants: every edit, and the manager when a started bot tells
its name, reads the row and writes all of it back; the round of the manager
reads the rows once and then starts and stops bots in any order. TgBot: the life
of one bot over several starts: a loop that polls with an offset, a queue, a
handler; a stopped loop still has its last poll under way and drains it beside
its successor. Replies, menus, the cooling time of questions and the banner are
kept per chat.

**ApiAccess, RateLimit.** ApiAccess: a request looks into the cache, then asks the
tenants, then the clients, then caches what it found, and the tables change
between; failed queries count as "unknown". RateLimit: a token bucket per
address in whole seconds.

**Portal, PanelDoor.** Portal: a link is mailed, taken once, turned into a session
in a critical section of its own; a cleanup runs beside; two clients may share
one address. PanelDoor: a request is admitted, and handled later; two tabs of
two browsers log in and out; the residency port opens before the panel checks
that it has credentials, and the panel ends the process when it has none.

**Proxies.** The manager's list and file under one mutex that a test releases
while it asks; a panic under the mutex leaves it locked. Nobody looks whether the
file was written: it may keep what it held before, or a torso that reads as an
empty list. Beside it a headless run
that keeps one session and answers blocks by switching. Addresses are numbers,
and an id used as an address is another number.

**Assistants.** What a start seeds, step by step and with failures, if no model is
still the provider's own (the panel may give a model to another provider); what the panel
edits; a batch that reads agents, models and reserve one statement at a time and
then calls. `steady` collects what stayed usable during the whole search.

**Forms.** Orders that overlap render into files named after client, form and day,
and hand out by name, the portal in a second request. Names are equal after
sanitizing; a template may not parse.

### Collecting and showing (composed in Collect)

**Collect** is for these parts what Doors and Office are for theirs: the constants
of all of them, a named assumption for each, and the properties. A source, a
page or a set of downloads is a record of settings (`Watches`, `Sheets`, `Loads`),
so one module is instantiated for several of them; MCCollect names the values.

**Collectors.** One action system for every collector; a behaviour draws the kind
of its source at the start: does the parser tell of a failure or return nothing
(`quiet`), is the row inserted or upserted, does the identifier fit the column.
The job announces and reports, the command does neither. The row of health may not
be written, which the code ignores or logs (`recordHealth`). **Cards** has the parsers
themselves: every page of a few nodes is written node by node, and at every
state the entries each of six parsers finds in it are compared.

**Downloads.** `CollectViaCookie` as its two loops over categories and links with
the sets of links and titles seen, the panel's registration by title, the job's
by link, and the listing that enters rows without a body: it reads a row and writes
all of it in two statements, so a body registered between the two, or not seen
because the reading failed, is gone from the row (`erased` remembers whose). **SiteWalk** is
`EnumerateSite` over every graph of links and every order of the site's own map.

**Versions.** Each step of `download` (read the row, copy the old file, row of the
old version, write file, write row, row of the new version) may fail or be the
last one. **Compare** is the LCS table of `diff.go`, by its cells, the page made from
it and what the API counts, over every pair of texts. **Eligibility**: one check, each register answering, failing,
using a word the check does not know, or telling the company by a form or a name that
misleads the search for the mark of a sole trader (`Forms`). **NavIndex**: three builders over a
collection that a release may need in another size.

**Listings, Paging.** Listings has each list's own default period, offset and order of narrowing and cutting;
an answer is the set of rows it shows (in the order of its table: the newest first, residents by name).
Paging is a reader who goes from leaf to leaf while rows come, move and go; under the
filter of failed annotations the link leads him astray into the list of all pages
(`LosesFilter`).

**Service.** Migrations are read, executed and recorded in separate statements by
`serve` and by `migrate`; files change with releases; a start may lose a store and
falls back to the loop. The works of both schedulers are derived from the
settings as `buildJobRunner` and `scheduleNewModules` do.

**Office and Collect.** Their parts share no state in the program beyond what
the modules already contain as environment, so a behaviour picks one part at the
start, takes only its steps, and a property is the conjunction of what each part
promises under that name. This is a union of state spaces, not a product, and a
fault in one part is found under the common run.

## 3. What TLC checks

| run | instance | shows |
|---|---|---|
| `scheduler` | 2 jobs, an interval to choose beside the default, channel of 1, 1 fault | runs do not overlap, decisions of a scan stand, settings change by his requests only, the journal accounts for open rows, SerialRuns is implemented; enabled jobs start again and again, accepted triggers are served |
| `feed_two` | 2 pipelines, 2 clients, 2 stages, 1 event, 2 faults | at most one mail per client and change, and none lost but by a failure of its own |
| `feed_one` | 1 pipeline, page of 1, 2 events, a moving client, 1 fault | nobody of a visited stage left out but who slips behind the dispatch; nothing is marked in silence; each change is analysed in the end, and marked where Telegram is configured in the end |
| `feed_reanalyze` | 1 pipeline, 1 event | *refuted:* every change of a document is dispatched |
| `index_serial` | 2 documents, one replacing the other, 2 bodies | the flag `indexed` tells the truth between operations |
| `index_live` | 1 document, 2 bodies, 2 workers, 1 fault | what nobody approved is never found; what is active gets indexed |
| `pages_race` | 1 page, 2 workers (the job; the crawl command, the panel's re-annotation or the filling of dates), 1 change of the site, 1 fault | no stale annotation is overlooked, no date is lost or taken from the model when there was one, the page is annotated in the end |
| `pages_serial` | an ordinary and an excluded page, 1 worker, a fault | no point without a row, no dead page found |
| `office` | fourteen parts of eleven modules, each with 1 or 2 clients, requests, tenants, sessions or orders, and 1 fault | the table below |
| `collect` | nineteen parts of eleven modules, over every page of 4 or 5 nodes, every text of 4 lines, every site of 3 pages, every table of 2 rows | the table below |
| `collect_silent` | a source, its job and its command | *refuted:* a source whose runs bring nothing is not shown as in order |
| `collect_twice` | the panel's download, repeated | *refuted:* no document is entered twice |

What the two composed runs state, by part:

| property | part | statement |
|---|---|---|
| `StageRecorded` | two requests and a key handler on one client, a failing statement | nobody is in a stage the history does not lead to |
| | one request at a time | the history is a path of allowed moves to the stage; one open deadline, however often a client returns to reporting |
| `DeadlinesAreAnnounced` | deadlines over six days | a deadline passes unannounced only when the summaries of the four days before were all lost or went out without the deadlines of the client; summary, dashboard, page and card agree |
| `RateIsBounded` | two addresses | in any stretch of time no more than a full bucket and the stretch's refill |
| `UsableIsUsed` | proxies | no proxy but the current one is active, and a start reads back a list with exactly one, whatever became of the file; an open browser goes through the proxy its run has chosen |
| | models | a batch is skipped only without a usable agent; every model is asked before a document is given up; no start seeds an agent, or a model still of its provider, twice |
| `ServedByInvitation` | portal | a page only in a live session from the only use of a link mailed to the client's address |
| | panel | a page only in a session opened with the password; an ended session never returns; who logged in is not asked again within its life |
| | forms | who is sent for his form gets it, and his own unless another order for the same file overlapped |
| `DecisionsAreRecent` | API keys | let in or turned away on what the tables said at most a lookup and a TTL ago |
| `BotsFollowTenants`, `EveryUpdateReplied` | bots | left alone, the running bots come to be the wanted ones; every update gets a reply across stops and starts |
| `NewOnce`, `FailureIsNoticed`, `TableCatchesUp` | collectors | an entry with a key is announced as new once; three recorded failures show; the table comes to hold what the page shows |
| `InnermostStays` | parsers | of nested boxes the innermost entry stays |
| `NothingIsMissed` | downloads | a whole run leaves every title with its live file, whatever dead duplicates stand before it, but one whose only file a listing wrote over meanwhile |
| | walk | what a loaded page links to was visited, and no more than maxPages are loaded |
| | service | migrations are applied in order, repeated only after a cut-off, a clean start is up to date, each work has one scheduler |
| | versions | per fault at most one version missed or doubled; two faults for a wrong text |
| | navigation | after a pass the index holds exactly the release's nodes |
| `ShownIsTrue` | lists, leaves | a row of the period is kept back only before the offset or behind as many newer ones as the limit counts; a reader to the end, under the filters that links hand on, misses no more than moved meanwhile |
| | comparison | without a fault the two compared follow one another; the lines the difference keeps are a longest common subsequence of the two texts (`Picks`, `ReadAlike`, no table), it lists the others in order, and page and API count alike |
| | company | the verdict does not depend on which register answered, but for words and forms that mislead |
| | navigation | a node once filled in is found while the index is rebuilt |

**Bounds.** Two workers suffice for every race of "read, go away, write" that the
code contains, since a stale write needs one other writer; two bodies or texts
tell an old one from a new one; a limit of 1 with two rows puts a queue past its
limit; one fault at any step is enough for each partial failure and each death,
and `feed_two`, the versions and the long part of the collectors take two or
three because their statements count faults. Three sites' pages give a cycle, a
chain and a page nobody links; three clients with two clean names give a
collision and an innocent; three releases give a tree that shrinks and a vector
that changes size; lifetimes of one or two ticks and a clock of two to four
give every order of expiry and use. Small values are chosen where a
larger one only repeats a case: a day of two parts has one before and one after
the hour of the summary.

**Sizes** (distinct states, with two workers): `scheduler` 460,166 in three and a half
minutes, temporal properties included; `feed_one` 367,016 and `feed_two` 2,411,137 in
two; `office` 427,846 in one; `collect` 1,257,870 in two; the others less.

Deadlock is checked in `scheduler`, which never stops; the other systems are at
rest when nothing is left to do or a bound is reached, and their configurations
say so.

**Fairness.** The scheduler: its goroutine is scheduled and bodies return (WF of
RunnerWorks; the jobs have timeouts on their calls), Go chooses a ready case of
select at random, so that one ready again and again is taken (SF of TickerFires
and TakeTrigger), and time passes. Pipelines and workers: each takes its next
step (WF of Works), because a goroutine is scheduled and calls to services return
or fail; the job of the index is called again by the ticker (WF of `IndexActive`, SF of
starting the job on an idle worker). That a change is marked as sent in the end is
promised only if some pipeline ends up with Telegram configured
(`<>[](telegram # {})` in `EveryChangeHandled`): Telegram is optional, and without it
the code leaves what nobody was told of in the feed on purpose. The manager of bots: its ticker fires and
its round goes on (WF of Round), and an editor's request, once begun, ends. A
bot: a started loop polls and handles (WF of StartBot, Poll, Works). A collector:
its runs go on and begin again (WF of Works). Nothing is assumed of
administrators, of the site, or of the success of calls, beyond the bound on
failures: forever failing services refute every promise of delivery. All other
parts are checked for safety without fairness.

### Refuted statements

Each is a sentence of a comment that the code does not keep; "findings" quotes
the line.

1. Re-analysing a document by hand marks its newest event as analysed although
   nobody has dispatched it; residents are not told (`feed_reanalyze`).
2. The parsers of contests and Telegram drop the errors of fetching, and errors
   of single entries stay in the result, so a source that brings nothing is
   shown as in order (`collect_silent`).
3. A file attached to the row of its title keeps that row's identifier, which
   SkipURL does not look for: the next download enters the document a second
   time (`collect_twice`).

### Observed while modelling, without a run of its own

*Scheduler and feed.* An interval edited while its job runs is kept, but
next_run_at is computed from the old one, so the new one applies a run later than
postgres.go:129 says. MarkRun sets next_run_at for a disabled
job too. A second pipeline may repeat the generic alert. A daily summary is lost
when the service is down at its hour or the message fails; nothing completes a
deadline. When the store of the jobs does not open, the fallback runs no
annotation of documents, and pipeline and loop run side by side.

*Documents.* A new feed entry puts an active document back under review but its
points keep "active". `Upsert` overwrites `category`, so a crawl that read the row
before an annotation wipes the category. A body attached to an active document
is indexed without an approval of its own. Two workers on one document leave two
batches of points until the next indexing. collectCatalog sets approved and
rejected documents back to pending. Two documents with one file name overwrite
each other's body: the file is named by the end of the address within a status and
a category (scraper.go:637). The panel's collector replaces the hash or the status of an
indexed row and keeps its flag (collector.go:357-380), so the points stay as they
were. The panel's collection runs on the request's context: a
closed browser makes every category fail, counts all rows as removed and reports
"done".

*Versions.* After a failed registry write the next download archives the new body
under the old hash (scraper.go:484). Two overlapping scrapers double or mix
versions. A read that fails on an unchanged document counts it as new. Adjacent
changes are not grouped as a comment of diff.go says, all land in one section.

*Pages.* The job indexes the New+Changed newest rows, but dead pages move
last_changed too, so a changed page behind a dead one keeps its old text in the
index while the annotator is off. Excluded pages at the head of the queue are cut
in with the limit and dropped afterwards: with as many of them as the limit,
nothing behind is annotated. A `Reindex` beside a pruning puts the point of a
deleted page back (hence `PointHasRow` and `DeadNotFound` are stated for operations
that do not overlap). `sitepages crawl` leaves the points of dead pages. A page
that returns with its old text is active but not in the index.

*Residents, tenants, doors.* Two clients with one address: only the youngest logs
in. The portal's page of deadlines shows everybody's overdue ones. Without
ADMIN_USER and ADMIN_PASSWORD the residency port is open until the panel ends the
process. `keyCache.invalidate` has no caller. The sets of limiters and of the
panel's sessions are never pruned. Deadlines overdue by less than a day count as
0 days left. CreateClientChecklist has no caller, so checklists never exist.

*Proxies.* headless_collect.go:78 uses the identifier that AutoSwitch returns as an
address. A test writes to an index found before it let the mutex go; a removal
meanwhile panics with the mutex held. Activating an unknown id deactivates all in
memory. The test of an OpenVPN file always reports "ok". AutoSwitch always takes
the first proxy that works.

*Models.* Two processes starting at once seed twice; an annotator created before
the first seeding blocks the default agents; default agents take the first model
even if it is disabled; the timeout of two minutes is shared by all models of a
failover. The validator's `Passed` is true exactly for documents with errors
(validator.go:376).

*Forms.* Four of five standard templates call `default`, which the table of
functions lacks, so they do not parse. `generate` without arguments overwrites
edited standard templates. Variables may replace the client in the data.

*Collectors.* What a command stores first is never announced as new, and commands
keep no health. Links between registry documents cannot be stored (migration 002
refers to client_documents). The rows of regulations are saved whole over an
administrator's status.

*Lists.* The page and the API of changes apply the limit before words, end of
period and tag. `search_events` with one end of the period ignores it. Links of
the page list lose the filter of failed annotations (admin.go:3571), so that the next
leaf belongs to the list of all pages. Changes are filtered from a UTC
midnight to a local one.

*Start.* A migration executed but not recorded runs again; 018 then overwrites
prices edited meanwhile. A changed file of an applied migration stops all later
ones while `serve` goes on with the old schema. `migrate` on an empty database
stops at 015 until a store has created the table of documents. A torn file of
settings stops the panel's start.

## 4. What is proved

The proofs hold for any number of jobs, pipelines, clients, documents, pages,
workers, requests, sessions, keys, entries, nodes, redactions, lines and failures. They use the assumptions on the
constants alone (they are of the right kind, the special values are outside their
sets), and no fairness.

* **JobSchedulerProofs.** `IndInv`: types, the locals in use have values, `running`
  is what is between the two critical sections of `execute`, and `SnapshotStands`:
  a row of the snapshot that the scan has still to visit agrees with the table
  unless the row was edited since, and an edited row is due. That last part is
  what `ScanDecisionStands` needs: hours pass in a job while the rest of the
  snapshot waits. From IndInv follow `TypeCorrect`, `RunsDoNotOverlap`,
  `ScanDecisionsStand`; `SettingsKept` (a step that changes the settings of a registered
  job is the administrator's request for that job) and `Refinement`
  (initial states map to initial states, each step to a step or a stutter).
  `JournalAccounted`: the rows that nobody is going to close (`Left`) are at most
  as many as the faults, since only a fault leaves the current row behind.
* **ChangeFeedProofs.** `OneMail`: at most one mail per client and change. The
  invariant says who may mail: a pipeline that is at "mail" for a client is alone
  there, the inbox row exists and no mail has gone out, because the insert into
  the inbox let only one through. Also `TypeCorrect` and `FlagsKept` (flags and
  inbox rows only rise: proved, and needed by no run of its own).
  `NothingDroppedSilently` and `EveryClientReached`, as long as nothing has failed,
  from `TellInv`: what a pipeline has finished is said already, it marks only what
  is finished (`Settled`), and whom it has listed is still to come or has the event
  in the inbox (`Reaches`).
* **DocumentIndexProofs.** `OnlyApprovedFound`. The invariant follows the status
  "active" through every copy: a row, a worker's snapshot, a listed row and a
  batch of points may be active only if the document was ever approved. Approvals
  only grow, so stale copies do no harm. `FlagTellsTheTruth` needs `OneByOne`: no
  overlap, no collector of the panel (it keeps the flag of a row it changes), no
  document that replaces itself. `Truth` says what each label relies on while a
  document is half-way (`Ready`) and which labels may meet (`Fits`), since a change
  of status and a deletion have two goroutines each.
* **SitePagesProofs.** `NothingStaleForgotten`: enrich_hash is always the text that
  the annotation was made from, hence comparing it with content_hash overlooks
  nothing. `DatesStay`: each statement either lets the table grow (`RowsGrow`) or
  deletes one row. `PointsHaveRows`: for a single worker, what its lists hold is in
  the table (`Held`) until it is pruned, and what it prunes has lost its point
  before its row. `DeadAreNotFound`, where operations neither overlap nor fail:
  dead pages have points only while the job crawls and remembers that one died;
  when it cleans, its list holds all of them (`Tidy`); the rest of the time there
  are none.
* **DoorsProofs.**
  *Keys of the MCP server* (`AccessAnswersAreRecent`, an action property). The
  invariant follows the moment an answer was true through a lookup (`Lookups`: not
  before the lookup began, which is at most MaxLookup ago) into the cache
  (`CacheTrue`: at most MaxLookup and TTL before the entry expires), and the ghosts
  only move forward.
  *Rate limit* (`RateHolds`). What passed between two ticks is a sum over a stretch;
  the invariant bounds it for every beginning of the stretch by a full bucket and
  its refill, less what the bucket still holds.
  *Portal* (`PagesServedByInvitation`). A link is in one of three places: in the
  store, in the hands of one request (`TakenOnce`), or behind one session
  (`OpenedOnce`); each of the two critical sections moves it on by one place.
  *Panel* (`PagesServedToTheAdmin`, `LoginsLast`). A session that was opened is
  either held, with the end that was fixed when it was opened, or has ended
  (`HeldUntilEnded`), and a cookie names a session of its own browser.
  *Forms* (`FormsAreOwn`). While an order is alone with its file, the file holds what
  it has rendered.
* **OfficeProofs.**
  *Residents* (`StagesRecorded`, `HistoriesLeadToStages`). The copy a request holds
  may be hours old; the invariant (`CopiesWarranted`) says that its stage is one the
  client has been in, that a move still to be recorded was allowed from it, and
  that a stage about to be written has been recorded. Histories only grow, so this
  outlives every step of the other requests. One request at a time, the history
  is a path, and `SerialInv` says at each statement how far row and history are
  apart.
  *Deadlines* (`DeadlinesTold`). A deadline not warned of has lost each summary of
  its window (`Window`) whose hour is past, or its client was missing from it; that there was one, and that summary,
  dashboard, page and card agree, is arithmetic of days (`Division`,
  `MultiplesApart`) over one open deadline per client.
  *Proxies* (`OneProxyActive`). No file that a start may find lists two active ones,
  whether it was written or not. Only one row is active through append, removal, switch
  and test, by where a row of that identifier stands (`IndexFound`, `Removal`,
  `InARow`); the run's proxy is the one its session was opened with.
  *Bots* (`UpdatesAreHeld`). An update that is confirmed has its reply or is in the
  queue or in the hands of some loop, also of one that was stopped. This is the
  safety half of `EveryUpdateReplied`.
  *Tenants* (`TenantsTypeCorrect`). What a round wants has a token, and a row unless
  it is the bot of no tenant; rows are never taken away, so what the round has read
  stays good.
  *Models and agents* (`AssistantsFindModels`). What never ceased to be usable is
  among what the batch has still to try or has tried (`Ahead`), whatever the panel
  edits between two reads; a start has seeded what comes before its place in the
  list and nothing else (`AiStart`), as a start begins to seed only where there is
  nothing.
  *The office.* `OfficeInv` is the invariant of whichever part runs; from it follow
  all the invariants and the action property of the run `office`
  (`OfficeTypeCorrect`, `OfficeStagesRecorded`, `OfficeDeadlinesAnnounced`,
  `OfficeRateIsBounded`, `OfficeServedByInvitation`, `OfficeUsesTheUsable`,
  `OfficeDecisionsAreRecent`).
* **CollectProofs.** One section per part, each under the assumption of its
  settings.
  *Runs over a source* (`RunsAnnounceOnce`). Two runs may hold one entry; what was
  announced of it is bounded by its row (`AnnouncedOnce`), because the insert into
  the table lets one of them through. Three failures in a row are those the row of
  health counts (`FailuresCounted`).
  *Parsers* (`InnermostOfEveryPage`). What each of six parsers finds takes only nodes
  of its box and its own text (`Sound`, one lemma per parser), and of two boxes one
  inside the other the inner is found later (`InnerIsLater`); the entry that is
  written last under a key is then the innermost. A page of any number of nodes
  needs no induction: nesting is an order of depths.
  *Downloads* (`LiveTitlesGetFiles`). No statement but the listing's, which is
  remembered, takes a file away from a title (`Keeps`), whoever runs; so of a run it is enough to know that each link it saw failed, is being
  downloaded or has its title taken, and that a title once taken has its file or
  is being registered (`RunMissesNone`).
  *Walk* (`WalkLeavesNothing`). A link of a loaded page is visited or waits.
  *Lists* (`ListsAnswerTheQuestion`), one lemma per kind of list: what a cut keeps
  back stands behind as many rows as it lets through (`CutKeepsBack`), before an
  offset or beyond the limit.
  *Leaves* (`LeavesMissNoMoreThanMoved`). Of the first b rows of the list, where b is
  what the reader has read, as many are unseen as have left (`Passed`). That the
  other moves do not disturb it is a statement about prefixes of sequences
  (`OneMore`, `NoneBut`): a removal lets one row into each prefix, an insertion none
  but the new one.
  *Start* (`StartsAreComplete`). A statement is executed once for its record and once
  for each process that stands between it and the record (`ExecutionsCounted`).
  *Redactions* (`RedactionsAreKept`). An embedding of the history into what the site
  has shown (`Embeds`) is carried from step to step; it loses one place per fault
  (`Follows`), and between two statements of a download it is known which place is
  still to come (`FollowsBut`).
  *Difference* (`DifferencesAreExact`). That the table of `computeLCS` exists, cell by
  cell, is proved of any table whose cells depend on cells nearer the corner
  (`TableExists`, `CellByCell`); by the same induction over cells no common
  subsequence is longer than the cell says (`NoneLonger`) and the walk of
  `buildDiff` leaves out one that is as long (`WalkExplains`).
  *Company* (`VerdictsAreSteady`). What a register told is the company's own, or a state in
  a word that the check does not know (`OwnWord`), or a form that misleads.
  *Site map* (`MapsAreComplete`). Who is in the middle of a pass has marked, loaded or
  listed what its place says (`StageFits`), under any release and beside the others.
  *The collectors.* `CollectInv` is the invariant of whichever part runs; from it
  follow all the invariants of the run `collect` (`CollectTypeCorrect`,
  `CollectAnnouncesOnce`, `CollectNoticesFailure`, `CollectKeepsInnermost`,
  `CollectMissesNothing`, `CollectShowsTrue`).
* **DataLemmas** has what these need of numbers and sequences: a least number,
  induction over numbers stated of a set (`InductionTo`), the equations of a recursive
  function (`Recursion`), division, what a removal leaves of a sequence.

The proofs of the office use the named assumptions of Doors and Office, which the
run evaluates: times and bounds are numbers; an address has one youngest client; 0
is no session and no proxy; what is urgent is looked ahead for, the first report
is further away than that; a summary goes out after its hour has struck, so never
at midnight itself, when deadlines fall (main.go:1754); the lists of seeds are not empty and name nothing twice.

The proofs of the collectors use the named assumptions of Collect, which the run
evaluates too: bounds are numbers; entries and texts are numbers from 1; a
category has a page, a page's links have titles, and the marks of a row without
a body are no links; the sets of pages are finite; a leaf has rows and links to
three leaves at least (seven in the code); releases carry the migrations up to
some number and there is one; a state of a company is no missing state; the
parts of the composition have names of their own.

Lemmas are one per action, under one case split in `InductiveStep`; the lemmas on
local variables (`Replace`, `GoFree`, `OneLess`) say once what a change of one
worker's locals leaves alone.

**Model-checked only.** All liveness (`EnabledJobRuns`, `AcceptedTriggerRuns`,
`EveryChangeHandled`, `ActiveGetsIndexed`, `AnnotatedInTheEnd`, `BotsFollowTenants`,
`EveryUpdateReplied`, `TableCatchesUp`): fairness and ENABLED are out of the
prover's reach. The safety half of `EveryUpdateReplied` is a theorem
(`UpdatesAreHeld`). `MailsLostByFaults`, which counts over a set that grows and
shrinks, is left to TLC as well. The other invariants of the passing runs are proved. The refuted
statements are TLC's by nature.

**What the proofs found in the models.** Three definitions (the urgency of a client,
the banner of a bot, the title of a section) were CASE expressions with guards that overlap, which
TLC takes from the top while TLA+ leaves the choice open; they are nested
conditions now, as in the code. The order of agents with one name and of models
with one provider and name was that of their identifiers, which no statement of
the code asks for; it is any order now. So is the order of the pages of a site's map
and of the rows of a list at first, which was that of a set. The answers of the
lists are sets of rows: nothing is stated of their order. The difference was
compared with a definition that tried all subsequences, recursively; it is now
stated by the places that a choice of lines picks, which can be reasoned about.
Modules of this composition take from the community modules only Functions, since
every operator of an instance weighs on each of its proof obligations.

## 5. What is left out, and why

* Within the modelled parts: the order and the budget of the crawl of pages (every
  page not excluded is known to a crawl), the dictionary of tags, the JSON store,
  prompts and wording, token accounting, the parsing of dates. A database
  statement is atomic and reads what was last committed; Qdrant's calls are
  atomic too.
* A count or a list of a leaf that cannot be read (the page is then drawn without
  rows), and two documents that share one file of versions.
* Errors that the code ignores on purpose (`_ =`) without effect on modelled
  state are not steps.
* Identifiers made of the clock or at random are fresh. Hashes do not collide.
* Outside them: the last table of section 1, and "components" in PROJECT.json with
  a reason for each.

## 6. What the plan has left

1. Composition across modules where a row is shared: a tenant's rotation (Tenants)
   with the cache (ApiAccess), a transition (Residents) with the dispatch
   (ChangeFeed), a download with the index.
2. The crawl of pages with its waves and budgets; one-time display of keys; the
   graph of documents.
