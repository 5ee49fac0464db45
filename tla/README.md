# A TLA+ model of mcp-camoufox

mcp-camoufox is an MCP server that drives Camoufox browsers. It runs either as one stdio process or
as a thin *proxy* per client in front of a shared *daemon* that owns the browsers. This directory
models the parts of it whose correctness is a matter of order: leases and idle exit, spawning and
replacing the daemon, recovery from a lost daemon, browser builds and launches, sessions and their
locks, tabs and dialogs, the per-tab logs, the uids of elements, the steps of acting on an element,
and what a tool call tells of the tab. Paths below are relative to `src/src/camoufox_mcp/`.

Contents: [inventory](#inventory), [modules](#modules), [runs](#runs), [fairness](#fairness),
[proofs](#proofs), [disagreements](#disagreements-between-code-and-documentation), [not
modelled](#what-is-not-modelled), [plan](#plan).

## Inventory

| Component | State | Operations | Talks to |
|---|---|---|---|
| Lease table (`daemon/leases.py`, `lease_routes.py`) | leases with expiry and ttl, vacating instant, closed flag | grant, renew, release, prune, refresh_all, close | proxies over HTTP; the watchdog |
| Daemon lifetime (`daemon/lifecycle.py`, `suspend.py`, `routes.py`) | last activity, requests in flight, two clocks, open sessions | idle watchdog, suspend detector, `/health`, `/shutdown`, activity middleware | lease table, session manager |
| Proxy and recovery (`daemon/proxy.py`, `lease.py`, `lease_client.py`, `recovery.py`) | the daemon the lease is bound to, the pending notice, the respawn cooldown, a watch per request | precheck, watched call, respawn, adoption, heartbeat, report | daemon over HTTP; spawning |
| Spawning and adverts (`daemon/spawn.py`, `endpoint*.py`, `main.py`) | spawn lock, pointer file, socket | ensure_daemon, reclaim, popen, wait; bind, publish, release | every process of the data dir, through files |
| Sessions (`sessions/manager.py`, `session.py`, `teardown.py`) | sessions, file locks, creation locks | get_or_create, close_session, shutdown; launch and teardown | browser driver, operating system |
| Tab logs (`sessions/network.py`, `log.py`, `console.py`) | two bounded rings, pending requests, document marks | request, response, failure, commit; list, find, await commit | browser events; page line, observation |
| Tab and tab book (`sessions/page.py`, `page_book.py`) | indices, active tab, pending dialog, back stack | add, remove, select, dialog, goto, back | tools, browser events |
| Launch (`sessions/launch.py`, `quiet.py`, `addons.py`, `init_options.py`) | count of silenced launches, saved streams | launch, silence, extract addons | Camoufox |
| Element registry and page store (`dom/registry.py`, `identity.py`, `capture.py`, `js/00_boot.js`, `js/25_identity.js`) | store handle, retired handles, uid blocks; uid tables in the page | call, forget, dispose | browser contexts, navigation events |
| Element actions and reads (`dom/actions.py`, `identity.py`, `waiting.py`, `reads.py`, ...) | none of their own; the page's focus | resolve, poll, act, read | registry, keyboard and mouse |
| File uploads (`dom/upload*.py`) | none | stat, read in a thread, hand over | disk, page |
| Tool wrapper, observation, page line (`tools/_base.py`, `_settled_observation.py`, `_page_line.py`) | shown URL, document mark | time, translate, observe, append | sessions, network log, telemetry |
| Tools (`tools/*.py`), redaction, text | the targets a call has noted | 28 handlers; what a record may keep | all of the above |
| Updater (`updater/`, the lifespan in `bootstrap.py`) | installed builds, active key, stamp, fetch child | ensure, refresh, reassert the pin, stop | disk, child process, other servers |
| Telemetry, configuration, bootstrap, server | a log file; none | record; parse, wire | disk |

What makes each correct, and what is hard about it:

* **Lease table, lifetime.** A daemon must not leave while a proxy was told it holds a lease, and
  must leave in time when nobody needs it. Expiry is lazy: every reader has to act as if a lapsed
  lease had gone on time. The machine may sleep, with a clock that counts the sleep or one that does
  not, and clocks step.
* **Recovery.** Each restart of the daemon is reported to the conversation once and only once, and
  no call waits for ever; both as far as a renewal can tell. The notice, the binding and the watch
  of several requests interleave with a heartbeat, a shared respawn and other proxies.
* **Spawning.** One daemon per data dir, reachable while it serves, and a spawn lock that is given
  back, with two files and several processes of several versions that read, probe and unlink in
  separate steps.
* **Sessions.** One browser per profile directory over all processes, but for those the code leaves
  behind; what a caller is handed lives; no waiter is forgotten. Launch and teardown have an await
  at each step and may fail or be cancelled at each, and a teardown may fail in silence.
* **Tab logs.** The default listing shows the requests of the shown document: the commit that
  separates two documents is heard late, and from another source.
* **Element registry.** A uid names its element or nothing, and lasts as long as its document. The
  store is in the page, so a navigation takes it between any two round trips; the browser's event
  and a close reach the handle without the lock.
* **Tabs and dialogs.** The active tab is one that is open, while tabs open and close around awaits;
  a dialog that blocks a page can be answered; the back stack ends where the tab is.
* **Observation and page line.** An observation is of the page the action led to, which the browser
  commits on its own time; a page line tells the agent something new, and what was not told is not
  forgotten.
* **Element actions.** Measuring and acting are separate round trips to a page that moves. A click
  must land on what was measured last, a field told as filled must be, an error must name the field
  it is about, and the record of the call must not keep a value of a field that was never found.
* **Updates and launches.** One disk, several servers, children that fail or do not die: no fresh
  stamp over missing data, the pinned build active, a stop that ends. Launches of one server share
  its streams and a cache of addons.

## Modules

| Module | Models | Uses |
|---|---|---|
| `LeaseTable` | `leases.py`, `lease_routes.py`: one operator per operation | |
| `EagerLeases` | abstract: each lease is dropped the instant it lapses | |
| `LeaseTableRefinement` | the refinement mapping between the two | both |
| `DaemonLifetime` | watchdog, suspend detector, routes, activity | extends `LeaseTable` |
| `DaemonLifetimeProofs` | its theorems | and `LeaseTableRefinement` |
| `DaemonRecovery` | one proxy's lease, heartbeat and recovery middleware | |
| `DaemonRecoveryProofs` | its theorems | |
| `DaemonSpawn` | `ensure_daemon`, the spawn lock, both kinds of advert, a daemon's life | |
| `DaemonSpawnProofs` | its theorems | |
| `SessionManager` | `get_or_create`, `close_session`, launch and teardown | |
| `ExclusiveProfiles` | abstract: a profile is taken, its browser goes up, down or adrift, it is given up | |
| `SessionManagerProofs` | theorems of `SessionManager` | |
| `BrowserUpdate` | `updater/`, the lifespan: starts, refreshes, fetch children, stops | |
| `BrowserLaunch` | launches on a server that is up: addons, driver, silenced streams | extends `BrowserUpdate` |
| `BrowserLaunchProofs` | theorems of both | |
| `NetworkLog` | the network monitor and its two rings, the console's ring | |
| `NetworkLogProofs` | its theorems | |
| `ToolCalls` | the set of tool calls, of the three modules below that follow them | |
| `TabBook` | indices, active tab, pending dialog, back stack, and the tools over them | |
| `ElementRegistry` | `dom/registry.py`, its callers' retries, the page's uid tables | |
| `ElementRegistryProofs` | its theorems | |
| `ElementAction` | locating, measuring, clicking, filling, uploading; what a call's record keeps | |
| `SettledObservation` | the observation and the page line of a tool call | |
| `ToolCallProofs` | theorems of `TabBook`, `ElementAction` and `SettledObservation` | extends all three |
| `MC...` | values of the constants for TLC | one each |

Modules meet in shared notions rather than by one product, which TLC could not explore:
`SessionManager` sees of a launch what its locks can see (`PrepareEnds`, `LaunchEnds`), and
`BrowserLaunch` what the disk and the streams can; `ElementRegistry` has the failures of an
operation of the page, which `ElementAction` takes as one step; `NetworkLog` says when a commit is
heard, and `SettledObservation` builds on what it answers (`awaiting_commit`,
`last_document_reqid`). The two compositions that are made are `DaemonLifetime` over `LeaseTable`
and `BrowserLaunch` over `BrowserUpdate`.

Conventions. A step of a model is what runs between two awaits of the event loop (or one system
call, where processes share files). `pc` of a task or request names the await it is at. A definition
called `Name_Something` and commented "Fault:" is a plausible bug in the code `Name` models; it is
part of no specification, and serves to see that a property can fail.

**LeaseTable / DaemonLifetime.** `held`, `expires_at`, `ttl_s` are the dict of leases, `vacated_at`
and `closed` its two fields; `now` is the monotonic clock. Every operation prunes first, as in the
code, except `RefreshAll`. `DaemonLifetime` adds the activity state and the watchdog's two clock
readings; an action is a handler (`LeaseGranted`, `Shutdown`, `RequestStart`, ...) or one look of
the watchdog (`WatchdogResumes`, `WatchdogSeesNeed`, `WatchdogIdle`). `Suspend`/`Wake` let the clock
run without the loop; `WallStep` is a sleep the monotonic clock does not count, or an NTP step. What
the proxies were told (`promised`) and when the daemon was last needed (`lastNeeded`) are history.
That the asyncio loop may run the watchdog late is in the model: nothing forces it to run when it is
due.

**DaemonRecovery.** Daemons are numbered as they are spawned. A request goes from `precheck` to
`sent`, lands on whichever daemon is there (`running`), and is answered, raises, or is watched:
`Watch` is one renewal of `_call_watched`. `locking`, `ensuring`, `rechecking`, `adopting`,
`dropping`, `clearing` are the awaits of a respawn and its report. `bound`, `notice`, `recent` are
the lease and the cooldown. A request opens the conversation (`opening`: nothing else before it is
answered), lists, notifies or calls; a notification skips the precheck, and only a call reports. A
renewal is granted, refused, or proves nothing: it ran out of time or met a 5xx (`Silence`), or was
refused by a living daemon with a full backlog (`RefuseAt`). History variables count losses: the
daemons that answered a call and that the lease still knew of (`visited`), what a request will
report (`covers`), what was reported before it began (`knew`), whether the pending notice is that of
a silent repair (`hinted`), and which requests took a living daemon's refusal for its end
(`alarmed`).

**DaemonSpawn.** `pointer` and `socket` are the two files, each named by the daemon that made it,
which stands for the inode; with the loopback endpoint only the pointer exists, and its token stands
for the daemon (`platform`). A proxy goes through `ensure_daemon` and, under the lock,
`spawn_locked`; a daemon through booting, bound, serving, closing, exiting, and the two steps of
`cleanup_if_owned`. What the machine may do is a constant each (`Stalls`, `Slow`, `KillAt`,
`Pauses`).

**SessionManager.** A call is a task; the `FileLock`, creation lock, session and browser it makes
carry its name. `pc` follows `Session.create` (`preparing`, `launching`, `opening`, `stopping`) and
`close` (`closing`). The creation lock is asyncio's: `waiters` in order, free between a release and
the run of the waiter it woke, which is where its surprises are. `shutdown()` is one `close_session`
after another. `live` are the browsers that somebody will stop. A driver stop that fails or runs out
of time is swallowed (`teardown.py`, `quietly`) and the OS lock given back all the same (`StopEnds`,
`CloseEnds`); such a browser goes `adrift`, as does that of a call cancelled in `_open_initial_page`
and that of a process that died. It goes when it goes (`Sinks`). A call may be cancelled in any
await; `Mortal` bounds which processes die, and whose lost browsers go, in the run.

**BrowserUpdate / BrowserLaunch.** The disk is `installed`, `active`, `geoip` and `stamp`, shared by
all servers; of each server `srv` has its phase (off, starting, up, stopping, down, or refused), the
fetch it awaits and how far the child is. A child moves by itself, so it can land a build after its
server gave up. `overruled` is history: the servers whose pin somebody else has changed, or could
not be written. A launch is at an await of `Session.create`; a file of the addon cache is the set of
blocks written since it was truncated and carries the name of the launch that created it, so that an
open under a writer is visible. `marred` is history: two downloads were under way at once, or a host
hung up in the middle of an archive, which the code takes for its end (`HangsUp`). What Camoufox
prints, it prints in a worker thread (`prints`, `Printed`) that goes on when the call that awaits it
is cancelled, aloud if no other launch is awaited.

**TabBook.** `pages`, `next` and `active` are the book's fields; a tab of the browser is a number. A
call is at `opening`, `going`, `there` (the document is loaded, the await has not returned),
`closing` or `answering`; a second navigation of a tab aborts the first. The server hears of a
dialog (`news`) some time after it opened. `strayed` is history: tabs to which something happened
that the code does not make up for until the next navigation that is recorded alone with its tab,
and that heals them: a return that failed or was aborted, a navigation that failed when it had
landed or was recorded while a return was on its way, a move of the page's own.

**NetworkLog.** A ring is the set of ids it holds (both are filled in the order of the ids). The
console has one ring, which a commit empties. Requests are heard at once, commits when `Navigated`
takes them from the queue. Redirects, embeds, downloads and errors (a navigation that commits
nothing), and moves without a request are actions of the browser.

**ElementRegistry.** `handle`, `retired`, `lock` are `_handle`, `_retired` and the queue of `_lock`
of each tab; a tool call is at `queued`, `releasing`, `building`, `evaluating` or `dropping`, the
awaits of `call`, and `life` is how far `Page.close` got. `Run` is the page executing the operation,
`Answered` the reply, so a context can die between the two. A store holds its uids (`uids`, the
`byEl` map) and which of them its table still has (`table`, `byId`); `Mint` takes any subset of the
elements, in any order, for what a capture's filters select. Browser events are taken in the order
the server hears them; that one pipe carries them and the replies is why a document can be one
number.

**ElementAction.** Every look, every key and every click is a step; a value is typed in `Keys` of
them (`typed`), between which the focus can move. A place is 0 or 1; a text is the sequence of the
calls that typed into it, so that mixed and lost input can be told. A call notes its targets
(`notes`) as it goes; `InClear` is what `redact_args` keeps of its arguments when it ends. `calm`
and `still` are history: nobody else has touched the field since it was measured, or moved it since
the last look; so is `strayed`: some other field had the focus when the call typed. A fill refuses a
file input, which only `upload_file` sets. The disk is one file, small, over the limit or refused.

**SettledObservation.** One tab. A call goes from its body through the observation (`observe`,
`settle`, `ready`, `commit`, `build`, `read`) to the page line (`line`, `settle`, `title`). Each
poll is a step, and a budget may end at any poll at which the code lets it. A page is a URL and a
title, which may change by itself and fail to be had. A move within the document (`pushState`)
commits at once and a document's commit may be heard late; either is a `framenavigated`, and the
monitor takes it for the one the wait is for (`Passes`). `block` is the title the observation of the
call carries, `line` the whole page line. `told` is history: the URL the agent was last shown, and
whether the baseline could follow it (`fresh`).

## Runs

Bounds are the constants of the `.cfg` files. Each run finishes in at most about three minutes on
two cores.

| Run | What it asks | Bounds |
|---|---|---|
| `daemon_lifetime` | the table implements `EagerLeases`; the daemon closes only unneeded, in time, misleading no proxy | 3 proxies, room for 2, clock to 5, ttl 2, 1 request, 1 session |
| `session_manager` | one browser per profile but for those adrift, live sessions, implements `ExclusiveProfiles`, calls end and OS locks come free unless a launch hangs | 4 calls in one process, 1 in another that may die, 1 profile; cancelled and failing anywhere |
| `recovery` | no loss forgotten or told twice, calls end | 1 `initialize`, 2 calls, 3 daemons; renewals that prove nothing, refusals by living daemons, cancellation in any await |
| `spawn` | one daemon, advertised while it serves, spawn lock comes free | both endpoints; 2 proxies of one version, 1 of another, 3 daemons |
| `browser_launch` | no stamp over missing data, the pin active, streams silenced while a launch is awaited, a whole addon cache unless downloads overlap or a host hangs up, stops end | 2 servers in 10 pairs of configurations over every disk of 2 builds; or 1 server with 2 launches |
| `addon_cache_torn` (violation) | the addon cache is never torn | as above, and no host hangs up |
| `network_log` | what a commit retires, what the rings forget, the commit wait | 5 requests, 3 console messages, 3 documents, rings of 2 |
| `tab_book` | the active tab is open, dialogs can be answered, the stack ends at the tab | 3 calls of any tool, 3 tabs, 2 URLs, 2 dialogs; 2 tabs with dialogs, 1 that moves by itself |
| `element_registry` | uids name their element or none and go stale only for cause; handles are owned and released once, never under an operation; nothing is replayed; calls end | 2 reads, 1 act, 2 tabs of which 1 changes, 1 navigation, 1 element per document, blocks of 1 |
| `registry_overtaken` (violation) | uids last as long as the document | as above |
| `element_action` | clicks land where they last looked, filled fields are as asked, errors name the field, records keep what they may | a click, a fill by selector, a form of 4 fields that may be cancelled, an upload: any 2 of them; values of 2 keys; 2 changes of page or disk |
| `settled_observation` | observations of the page led to, lines that are news, nothing untold forgotten | 3 calls in sequence, 2 URLs, 2 titles, 2 document requests |

Why the bounds are enough. Three proxies are the least for a full table with one more at the door,
and a clock of 5 lets a lease of 2 lapse and a TTL of 2 pass after it. Three daemons are a loss, its
repair and a second loss. Four calls in one process are a holder, a queue of two and a late closer;
profiles do not interact, so one is enough. Two proxies of one version and one of another are the
least for a race to spawn and a shutdown of the other version's daemon. Two servers are one that
does something to the disk and one to which it is done, over every disk there can be; two launches
are the least that overlap, and the proofs have any number. Rings of 2 overflow with 5 requests and
3 messages, and three documents are the one replaced, the one shown and the one to come. Three tabs
are the one acted on, the one that closes and the one that takes its place. A block of as many uids
as a document has elements puts every store at the end of its block. Three calls are one in flight,
one behind it and one that comes after; the second tab of the registry is there for uids carried
over and is quiet (`Busy`). Each kind of field is in the form or the upload, the text twice, so that
keys can go to a field the form is past or has not come to; the form meets the click at a toggle and
the fill at a text, and what a third call adds is another pair. Two requests are a navigation and
the redirect that follows it, or the one that overtakes it.

What the passing runs assume, and why:

* `session_manager` assumes nothing of when calls fail, are cancelled or overlap.
  `OneBrowserPerProfile` is about the browsers that somebody will stop; those adrift it excuses,
  because the code gives their lock back (see below).
* `recovery` has every outcome of a renewal: a grant, a refusal, a timeout, and a living daemon's
  refusal while a call is forwarded, at its precheck and when it failed. Lists and notifications are
  left out of the run for its size and are in the proofs, which have refusals anywhere. What the
  properties excuse is part of their statements: a daemon the lease was made to forget (`visited`),
  the notice of a silent repair (`hinted`) and a living daemon taken for dead (`alarmed`).
* `spawn` assumes that a serving daemon answers one probe in three (`Stalls` FALSE), that deadlines
  of 20 s are kept (`Slow` FALSE), that nobody publishes between the two steps of `cleanup_if_owned`
  (`Pauses` FALSE) and that a proxy is not killed while its daemon boots (`KillAt`).
* `network_log` assumes that the tab does not move on before its last commit was heard (`Overlap`
  FALSE) and that a document without a request asks for nothing before its commit was heard (`Early`
  FALSE), which is what `network.py` `_rotate` argues from. `RetiresOnlyTheReplaced` needs both,
  `AwaitsEveryCommit` the first and `OnlyBoundsForget` neither, as the theorems say.
* `settled_observation` has one call at a time (`Serial`), as an agent that waits for its results
  makes them; `Page.doc_mark` and the shown URL are one per tab, and with calls at once one spends
  the other's mark, or tells what the other just told, and `ReadsWhereItLed` and `LineIsNews` fail.
  `BaselineIsTold` is proved without it.
* `element_action` has no radio: see below for what is done to one.
* `browser_launch` lets the servers that update not launch, and the other way round (`Launching`):
  what a launch reads of the disk is its build, and that is `PinIsActive`.

* `daemon_lifetime` has the suspends, but the daemon counts as needed whenever its watchdog takes a
  jump for one; a detector that misses them, or sees them where there are none, violates no property
  here.

`CHECK_DEADLOCK FALSE` is set everywhere: the bounded systems stop when every call has ended, every
daemon or server has been used up or the clock stands.

## Fairness

* `SessionManager.FairSpec`: the event loop runs, so a woken waiter goes on; a teardown ends,
  because each of its steps is under a deadline (`deadlines.bounded`, `teardown.py`); a dead
  `FileLock` is collected. The awaits of a launch (`session.py:61`, `70`, `77`, `88`:
  `prepare_addons`, the driver's start, `AsyncNewBrowser`, `new_page`) have no deadline and no
  fairness, so `EveryCallEnds` and `LocksComeFree` say what holds unless one of them hangs: then the
  calls that queue behind it, and the OS lock, wait as long. Starting, failing, cancelling and
  crashing are not fair.
* `DaemonRecovery.FairSpec`: the proxy's event loop runs, so each request's own steps are taken; a
  daemon that is closing exits; a living daemon answers a request, and in the end a renewal
  (`Hears`: the renewals of a watch do not prove nothing for ever). Deaths and respawns by other
  proxies are not fair, and `CallsEnd` holds although nothing makes a dead daemon's request raise.
* `DaemonSpawn.FairSpec`: processes run. A proxy's waits all have deadlines, which are actions of
  their own (`HealthyTimesOut`, `LockTimesOut`).

* `ElementRegistry.FairSpec`: every await of a call ends, at the latest by its time limit
  (`deadlines.bounded`), and the lock is handed over. The page owes no answer, and the close of a
  tab and cancellations are not fair.

* `BrowserUpdate.UpdateFairness`: a server that is stopping goes on with its wait, whose two
  deadlines are steps of their own (`TermExpires`, `KillExpires`), because its event loop runs
  (`child.py`, `_terminate`). No child need ever exit.

The other modules have no liveness. In `DaemonLifetime`, that a daemon goes is a bound on time
(`NeverOverstays`), which is stronger.

## Proofs

`DaemonLifetimeProofs` proves, for any number of proxies, ttls, limits and clock values, from
`LeaseConstants` and `LifetimeConstants` alone, `TypeOK`, `NoProxyMisled`, `NeverOverstays` and
`ClosesOnlyWhenUnneeded`. None is inductive. The invariant `IInv` adds

* that a promise made to a proxy is kept by the table: a proxy told its lease holds until t has an
  entry that expires at t, or the daemon was closed by force;
* that the larger of the last activity and the last lapse (noticed or not) *is* the instant the
  daemon was last needed. This is what lazy pruning makes delicate: after a prune the vacating
  instant must be the last lapse, and a grant must erase it;
* that at the watchdog's last look an open daemon had been needed within the TTL, which with a late
  watchdog gives the bound of `NeverOverstays`.

Each action's step is a lemma; the two of the watchdog's idle look carry the argument.

From the same invariant, `ImplementsEager` proves that the table implements `EagerLeases`: a clock
step is where leases lapse in the abstract table, and every handler, which prunes first, is the
abstract operation on what is left. The vacating instant of the mapping (`EmptiedAt`) is the one the
code will notice, so what a prune does is a stutter.

`SessionManagerProofs` proves `OneBrowserPerProfile` and `SessionsAreAlive` for any number of
processes, calls and profiles, from `ManagerConstants` alone: whatever fails, is cancelled or dies.
The invariant says that whoever has a browser to stop, launching, stored or being closed, holds the
OS lock of its profile, and that a browser is adrift only when the call that launched it is over
(`AdriftAreLost`). Two browsers of a profile that are not adrift would be two holders of one lock.
`ImplementsExclusive` proves that the manager implements `ExclusiveProfiles`, action by action: a
launch, a teardown, a crash and a browser that drifts are each one step of the profile they are of,
and everything else a stutter of every profile. The invariant is what shows that a step the code
takes for its own call is no other owner's.

`BrowserLaunchProofs` has four theorems, for any servers, builds, configurations, disks and
launches, from `BuildConstants` and `LaunchConstants` (which ask that there be finitely many
launches, and that a disk with a fresh stamp have its database to begin with). Each has an invariant
of its own:

* `StampHidesNothing` and `PinIsActive` (`UpdateInv`): a server that awaits or has had a database
  says so only if the database is there, and a pin that prevailed is both active and installed until
  somebody else activates another build, which makes the server overruled.
* `SilencedWhileAwaited` (`StreamsInv`): the depth of a server *is* the number of its launches that
  are awaited, and while it is not zero what was saved is the real stream; whatever prints is
  awaited or was cancelled. Plain nesting of saves, each restoring what it found, breaks this with
  two launches.
* `WholeUnlessMarred` (`CacheIsOrderly`): until two downloads overlap, or a host hangs up, at most
  one launch writes, to a file that is not the cached one and that no launch still to come will
  create; the `.part` name is its file's or nobody's.

`ToolCallProofs` has three parts, one for each module of what a tool call does to a tab. It extends
all three, which have names of their own for that (`Spec`, `ObservationSpec`, `ActionSpec`) and
share only the set of calls.

For `TabBook` it proves `ActiveIsOpen` and `DialogCanBeAnswered` for any calls and bounds. The
book's invariant adds that indices are given once and below `next`, that no tab has two, and that a
tab being closed was opened before, so that no new one can be it; that a non-empty book has a lowest
index is the well-foundedness of the naturals. For dialogs: what a tab shows is the last it has told
of, so when the news is used up it is the one in the slot, or it was taken from there to be
answered.

`StackEndsHere` needs to know what a tab's calls are about while they are under way (`StackOf`): at
most one move is not there yet, since a second aborts the first; a `go_back` that is not there leads
to the last entry; and unless one is on its way, the stack ends where the tab is, or a call that is
there is about to record it. A call that is aborted before it is there changes neither; what breaks
this is what `strayed` lists, and a navigation recorded alone makes it true again.

For `SettledObservation`, for any calls, URLs and documents, it proves

* `BaselineIsTold`, from `ObservationConstants` alone. The baseline and what the agent was last
  shown change in the same step, the end of a result, and a URL the result named last is among those
  it says (`Honest`); so they agree, or the tab had left that URL, or its title could not be had,
  however calls overlap.
* `ReadsWhereItLed` and `LineIsNews`, with `Serial` besides. With one call at a time `doc_mark` and
  `_committed` are about the requests of that call (`Tells`): from the wait for commits on, what was
  under way when the page was read was over, was asked for before the call or after the wait, or the
  wait gave up. The property itself excuses a wait that another move ended, and an answer that
  commits nothing. At the title, the URL expected is not the baseline, which is the agent's by
  `BaselineIsTold`, unless the tool navigates; and since the line is compared whole with what the
  result says, with the title the page has then, it is never the one the observation carries,
  whatever became of the title in between.

For `ElementAction` it proves all four properties for any elements, forms of any length and bounds,
with any number of calls at once. The invariant (`ActInv`) has a part for each:

* `GoesThrough`: a form has filled the fields before the one it is at, and that one too when it is
  done; with `OwnsUp`, which says where a call's keys and file can be, this is
  `FailureNamesTheField`. Keys reach the page only in `Type`, one by one, and a call that has not
  strayed typed all of them into its field;
* `Aims`: a click not yet made is aimed at where its element is, uncovered, as long as nobody has
  moved it since the last look, hence `ClicksWhatItNames`;
* `Agrees`: what a call knows of its field (its state, that it has the focus, all selected, the keys
  it has so far) is so while nobody else set it; `DoesTo`: what is about to be done to a field fits
  its kind. From both, and from what each of the five steps that tell a field as filled does to it,
  `FilledAsAsked` follows, if no value asks to uncheck a radio (`NoRadioUnchecked`; see
  disagreements);
* `Noting`: the notes are one for each field the call came to, and only the last can be unresolved.
  A measurement completes that one (`IdentifiesLast`), so in the end the notes that resolved are the
  fields found, which is `RecordsWhatItMay`.

That another call at the same field takes the calm from those whose knowledge it spoils, and from
nobody's place or aim, is `OthersAgree` and `OthersHold`.

`DaemonSpawnProofs` proves `OneDaemon` and `Advertised` for any proxies, codes and daemons, on both
endpoints, from `Punctual`: `Stalls`, `Slow` and `Pauses` are FALSE and `"polling"` is not in
`KillAt`. A daemon comes up under the spawn lock, which its spawner keeps until it answers
(`UpUnderLock`), so no two come up at once; and whoever is about to spawn, or to unlink what is
advertised, has seen under the lock that nobody answers, which nobody can change but its own daemon
(`ClearedRightly`). A daemon on its way out unlinks only after it has stopped answering, and then
not another's files (`UnlinksItsOwn`). Each part of `Punctual` has its counterexample under
disagreements.

`DaemonRecoveryProofs` proves `LossesArePending` and `ReportedOnce` for any number of daemons and of
requests of every kind, whatever each renewal proves and wherever a request is cancelled, from
`RecoveryConstants` alone. What the code does not keep is said by the properties and nowhere
assumed: the daemons the lease was made to forget, the report lost with a call cancelled in its last
await, the late notice of a silent repair, and a living daemon's refusal.

* `LossesArePending` is inductive with one more fact (`LossesOK`): an unbound lease remembers no
  daemon that answered. When the lease comes to know a newer daemon, the loss of the one before
  becomes a notice in the same step, or a request's to tell, which covers everything before it
  (`WillTell`).
* `ReportedOnce` needs that losses reported, and those about to be, are older than the daemon the
  lease knows, and than the one a notice is of (`Past`, `ReportsOK`), and that what a call knew is
  older than any daemon it was sent to, waits for or is to report (`Knows`). A call that was refused
  by a living daemon knows nothing any more (`alarmed`), and a notice that is hinted at is no
  evidence.
* `HandshakeOK`: until the `initialize` is answered nothing has been asked, and there is nothing to
  lose.

`NetworkLogProofs` proves the three properties of the logs, for any bounds. `OnlyBoundsForget` needs
the types alone: a ring forgets its oldest when it is full, so what it forgot has that many newer
ones. For the others, `TabOK` says that at most one commit is on its way, and that it parts what the
content process announced before it from what it announced after it; `MarksOK` that
`_first_document_since_rotation` and `_last_document_id` are of document requests, the one set while
a commit is to come, the other the newest; `PartedOK` that what was asked before the first document
request is the shown document's or older. Without `Overlap` these three are invariant; the last one
needs `Early` FALSE too.

`ElementRegistryProofs` proves all five safety properties of the registry, for any tabs, calls,
elements, documents and block sizes, with no assumption beyond `RegistryConstants`. The invariant
has four layers, each used by the next:

* the types and the lock (`LockOK`): a call is once in the queue of its tab, and first while it is
  within;
* the owners (`OwnInv`): the slot is empty from the moment its holder begins to build a store until
  it stores it, so nothing is overwritten; what an evaluation under way uses is in the slot or
  retired; what is retired is released only by the holder, at its start, when nothing runs.
  `OneOwner` and `ReleaseOvertakesNone` follow;
* the uids (`UidsOK`): every store numbers its elements in a block no other store, and no call that
  is building one, has. `NeverTheWrongElement` follows, since two stores share no number;
* the acts (`ActsOK`): an act that has run is not queued again, which is `ActsRunOnce`.
  `StaleOnlyWhenLost` combines all four: if the document is still shown, its store is in the slot
  (`CurrentOK`) and has the uid.

Only model-checked:

* liveness under fairness (`CallsEnd`, `EveryCallEnds`, `LockComesFree` and the others under
  Fairness), and with it anything about ENABLED, which TLAPS does not handle.

Every other property of a passing run is stated by a theorem. No module declares a RECURSIVE
operator, and nothing is proved by induction over data, which the installed provers cannot do.

## Disagreements between code and documentation

With a run (details in `PROJECT.json`):

1. `registry_overtaken`: a page read between its commit and its `domcontentloaded` loses the uids
   just handed out, because the event retires whatever store there is (`page.py:152` against `147`
   and `registry.py:78-80`).
2. `addon_cache_torn`: two launches that download one addon at once share its `.part` file, and a
   truncated archive ends up in the cache for good (`addons.py:35` against `30-31`).

Found with the models and without a run of their own; where a constant is named, the property fails
when it is changed:

* *Leases.* A handler that prunes between a wake and the watchdog's look drops leases that
  `refresh_all` should have renewed (`leases.py:100-104`, `lifecycle.py:145-148`).
* *Sessions.* A driver stop that times out or fails is swallowed (`teardown.py:33-36`, `51`) and the
  lock of the profile given back with its browser perhaps up (`manager.py:77`, `111`); so is one
  whose call was cancelled in `_open_initial_page` (`session.py:89` against `65-66`), once its lock
  is collected. A second browser may follow on either, against "A profile is exclusive across the
  whole machine" (`docs/profiles.md:77`); the model has them as `adrift`. A launch has awaits that
  nothing bounds (`session.py:61`, `70`, `77`, `88`), and one that hangs keeps its profile and the
  calls that queue for it. A `get_or_create` during the same process's `close_session` of the
  profile is told that *another process* has it (`manager.py:51`, `164`). `_forget_creation_lock`
  may drop a lock with calls queued on it, because `asyncio.Lock.locked()` is false until the woken
  waiter runs (`manager.py:144-148`).
* *Recovery.* A respawn whose renewal proves nothing unbinds the lease, and with it forgets a daemon
  that answered: if another replaces the fresh one before the next renewal, that is never reported
  (`lease.py:104-114` against `recovery.py:17-18`, "never missed"). A call cancelled while its dead
  backend is dropped takes the notice with it (`recovery.py:244-256`). A list that repairs silently
  raises its notice after a call may have reported the same restart (`recovery.py:190`, against
  "never reported twice" in `18`). One refused connection before a call, or after one failed, is
  reported as the death of the daemon and of its sessions, although the respawn found it healthy
  (`recovery.py:181` against `9-11` and `76-79`). A call sent under an unbound lease is never judged
  moved and only watched for refusals, so it may wait for ever on a replaced daemon
  (`recovery.py:236` against `32-34`). A request that reached the successor of its daemon is
  cancelled there, on a living daemon (`recovery.py:216` against `40-41`).
* *Spawning.* A daemon busy over three probes is taken for dead and loses its socket (`Stalls` TRUE;
  `spawn.py:146` against `134`). A daemon that comes up after its spawner gave up may be reclaimed
  between its probe and its unlink (`Slow` TRUE; `spawn.py:149` against `endpoint.py:148-149`). A
  proxy killed while its daemon boots frees the lock, and a second daemon is spawned (`KillAt` with
  `"polling"`; `spawn.py:36-37`). A process paused inside `cleanup_if_owned` unlinks its successor's
  files (`Pauses` TRUE; `endpoint.py:141-151`).
* *Updates.* Between a server's re-assertion of its pin and its launches another server may activate
  another build (`overruled`; `fetch.py:13-15`). When a start installed the build and then failed,
  "Camoufox download failed and build X is not present" may be untrue of the disk.
* *Launches.* The thread that prints for a launch goes on when the call that awaits it is cancelled,
  and then prints on the real streams, which "corrupts the MCP framing" (`quiet.py:17-25`,
  `session.py:76-77`). A host that closes the connection in the middle of an archive ends the copy
  without an error, and the truncated archive is cached (`addons.py:36-37` against `30-31`).
* *Logs.* A commit heard late uses up the boundary of the next one, which then retires the shown
  document's own requests (`Overlap` TRUE; `network.py:132` against `95`). After a navigation that
  commits nothing, what the document that stays asks for survives the next commit as stale entries,
  more than the "entry or 2" of `network.py:123`.
* *Tabs.* "The last element is always the current page" (`page.py:131-133`) is not so after a
  `go_back` that failed or was aborted, since `back_url` drops the entry it leaves before the `goto`
  is awaited (`page.py:140`); after a `goto` that landed but failed, which is not recorded; after a
  navigation recorded while a `go_back` is on its way; and after any move the page makes itself.
  `StackEndsHere` excepts these four (`strayed`) until the next navigation that nothing overlaps.
* *Actions.* Filling a checked radio with "false" clicks it, which leaves it checked, and answers
  that it was unchecked (an element of `Kind` `"radio"`; `actions.py:212` against
  `tools/fill.py:31`). A fill answers "Filled" though something took the focus after `prepareFill`
  and its keys went there (`actions.py:157-167`); the properties except that (`calm`, `strayed`). A
  form that names one uid twice is redacted by the uid, so one resolved mention speaks for both. An
  upload's size is that of the look, not of the bytes that are read afterwards (`upload.py:37-41`),
  so more than the 25 MB of `upload_file.py` can pass.
* *Observation.* A document requested during the wait for DOMContentLoaded, after the wait for
  commits, is not waited for, and the page being left is described (`_settled_observation.py:80`
  against `55`). Neither is one that the action led to when another move is heard first: a
  `pushState` or the late commit of an earlier navigation is taken for its commit (`network.py:92`,
  `126-132`), and the wait ends with the page being left (`_settled_observation.py:30`, `55`). A
  title that cannot be had leaves the baseline behind what the result told. A tab that moves and
  comes back to the URL it was shown at is never reported, and whether a result has told a URL is a
  substring test (`_page_line.py`).

## What is not modelled

Data: request bodies, headers, tool texts, snapshots, selectors, names, the patterns of redaction,
telemetry records and the rotation of their file. What runs inside one synchronous evaluation of the
page (the walk, names, selectors, geometry: `dom/js/10` to `65`) has no interleaving, and no
property here depends on what it computes. Process plumbing: signals, log files, directory modes,
the hardening of the socket. `POST /shutdown` without force ignores requests in flight, and can end
a daemon in a launch; `DaemonLifetime` has the step and states nothing about it.
`SessionManager.shutdown` walks a snapshot of the sessions; whether a request can still open one
then is Uvicorn's and FastMCP's. The browser is an environment throughout: a driver whose stop
succeeds takes its browser with it, an OS lock dies with its holder, events of one source come in
order. What a launch whose call was cancelled at `AsyncNewBrowser` does later is in `BrowserLaunch`
for its printing only.

The registry: an operation the page runs only after its time limit, and a second `domcontentloaded`
of one document (`document.open`), are left out. The proxy: its fail-fast opening and the release of
its lease at exit. A launch: the temporary directory of addons that a cancelled `prepare_addons`
leaves behind (`launch[l].tmp`) is in the state and in no property, since the code promises nothing
of it.

## Plan

Done: leases and lifetime, sessions, recovery, spawning over both endpoints, updates and launches,
both tab logs, tabs and dialogs, the element registry, element actions and uploads, observations;
the proofs of the safety properties of all of them, and of both refinements.

1. `SettledObservation` over `NetworkLog`'s own commits instead of its verdicts.
2. `wait_for`: a poll over several tabs' documents, with its deadline.
3. The rotation of the telemetry file under several servers.
