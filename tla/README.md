# A verification development for agentsctl

`agentsctl` is one terminal program over several agent sessions: Codex threads
behind a shared app-server daemon, ChatGPT Project conversations read through a
helper browser, and Claude Code sessions. It keeps what each provider reports in
memory, merges it, and shows it in the Agent View. What is hard about it is not
computation but *time*: notifications, catalog reads, snapshots, persisted
copies and user actions arrive in any order, and the rows on screen must still
be what is true. Its own calls are conversations with programs that other clients
use at the same time, and its files belong to every agentsctl process.

The modules here model that part. Every action is a translation of a handler or
step of the Go source; `PROJECT.json` maps each definition to its lines.

## 1. The system

```
 Codex daemon ──notifications, replies──▶ codexRuntime ─┐ Observer updates
 codex app-server (one per List) ──catalog──▶           │
 Project in the browser ──enumeration──▶ chatgpt.Provider┼─▶ sessionctl ─▶ Agent View ─▶ terminal
            state.json (localstate) ◀──catalog, pins──▶ │   Controller     event loop
 Claude CLI / statusLine hooks ──▶ claude.Provider ─────┘
```

| component (code) | state it keeps | operations | what must hold | status |
|---|---|---|---|---|
| Codex runtime (`provider/codex/runtime.go`, `activity.go`) | durable catalog, live-started threads with closing marks, status cache, hidden threads, turn hints, connection and snapshot flags | connect, snapshot with re-reads, catalog re-reads, seven notifications, disconnect, publish | one row per thread; a status only while a live connection vouches for it, and then the daemon's; hidden threads nowhere; no change unpublished; rows converge | **modelled** |
| Codex Observer hub, `Provider.List` (`observe.go`, `provider.go`) | subscribers, the current lifecycle | Observe, unsubscribe, List's own catalog | the newest catalog wins; a new subscriber is never given an old lifecycle's rows | partly (one subscriber, one lifecycle at a time) |
| Codex operations (`dispatch.go`, `turn.go`, `provider.go`, `rename_only.go`) | turn hints, per-call connections | Dispatch, Stop, Archive, Unarchive, Rename, Open | Stop interrupts the turn it resolved and no other; Archive is no implicit Stop; a new session's bootstrap turn is ended; calls return | **modelled** |
| Codex connection and daemon start (`runtime_client.go`, `daemon.go`, `appserver.go`) | pending calls, reader | call, notify, close, start | replies overtake no notification; a dead connection fails every call | partly (ordering and failure) |
| ChatGPT provider (`provider/chatgpt/provider.go`, `localstate/chatgpt.go`) | refresh state machine, cache, durability warning, one-slot subscriber channel, persisted catalog | New/hydrate, Refresh, runRefresh, Observe, List, Close | one refresh at a time; every request answered by a refresh begun after it; catalogs never go back; loss is reported; the view ends at the cache | **modelled** |
| ChatGPT browser and bridge (`browser.go`, `bridge.go`, `enumerate.go`) | helper process, bridge connection, assets | enumerate with cursors, open, tear down | an enumeration is complete or failed; a broken bridge is replaced and the good one kept; no assets outlive Close | partly (one enumeration is atomic) |
| Agent View event loop (`agentview_unix.go`, `transient_unix.go`) | retained snapshot per provider, generations, targeted refreshes | reload, apply arrivals, targeted refresh, commands | a superseded arrival is never applied; the Observer outranks List; rows never go back; the loading mark ends with the newest | partly (usage and drawing left out) |
| Agent View state (`state.go`, `update.go`, `group.go`, `rename.go`) | rows, group display state, cursor, awaited dispatch, rename, two-press confirmation, prompt | catalogs, every key that moves, folds, pins, renames, archives, dispatches | the cursor is on an item; catalogs do not move it; a rename in progress stays with its session; a dispatched session is selected when it comes | partly (text editing, layout) |
| Session controller (`sessionctl`) | pins, streams | List, Observe, Pin, Unpin, Rename, Archive | no pin is lost; a provider's failure is its own | partly (usage streams) |
| Session domain (`session`) | none (pure) | overview order, scope cycle, usage windows | a window past its reset is unknown | partly (with their users) |
| Local state store (`localstate`) | `state.json`: pins, archive overlay, legacy names, creation times | read-modify-write under a file lock | processes never undo each other's changes | **modelled** |
| Claude usage probe (`claude/usage_*`, `probestate`) | probe identity, usage snapshot, machine lock, in-process single flight | Usage, probe, rotate, collect | one probe per machine; no probe row is ever shown; freshness is true; a limit found is reported | **modelled** |
| Claude provider and transports (`claude/provider.go`, `*_transport*`, `attach_unix.go`, `open_unix.go`) | none of its own: the native catalog, the overlay, `claude attach` clients | List, Dispatch, Stop, Archive, Rename, Open | overlapping Lists heal; archived sessions stay hidden; a rename is typed only where it is read and reported as it went; no client stays behind unless it cannot be told | **modelled** |
| Terminal (`terminal`) | foreground child, relays, screen filter | run, detach, restore | no relay waits for another; the terminal is restored | not modelled |
| Self-update, entry point, worktree discovery | -- | -- | -- | not modelled: wiring and I/O |

The components meet in four ways: **calls** (controller to provider), **one-slot
channels** in which a newer value replaces an older one (`changed`, `wake`, the
subscriber channels), **shared state under short mutexes**, and **files**. The
hard behaviours all come from those; `PROJECT.json` lists each as a hazard at
its line, with the properties that would catch it, or why none does.

## 2. The modules

| module | what it is |
|---|---|
| `CodexDaemon` | the daemon, as far as the runtime relies on it (external): native store, loaded threads, ordered notifications, replies |
| `CodexRuntime` | `codexRuntime`; extends `CodexDaemon`; contains the run goroutine, the connection's reader, Provider.List's catalogs and the publisher |
| `MCCodexRuntime` | symmetry for TLC |
| `CodexRuntimeProofs` | TLAPS proofs about `CodexRuntime` |
| `CoalescedRefresh` | what `Provider.Refresh` of ChatGPT promises, without its state machine |
| `ChatGPTRefresh` | that state machine with cache, store, subscription and Agent View's rows; implements `CoalescedRefresh` |
| `ChatGPTRefreshProofs` | TLAPS proofs about `ChatGPTRefresh` |
| `AgentViewStore` | the event loop's retained catalogs of all providers: reload generations, targeted refresh, Observer publications, renames |
| `MCAgentViewStore` | two providers for TLC |
| `AgentViewStoreProofs` | TLAPS proofs about `AgentViewStore` |
| `AgentViewSelection` | what the keys act on: list, cursor, groups, rename, confirmation, awaited dispatch |
| `AgentViewSelectionProofs` | TLAPS proofs about `AgentViewSelection` |
| `CodexTurns` | Dispatch, Stop, Archive, Open and Unarchive of one thread among other clients |
| `CodexTurnsProofs` | TLAPS proofs about `CodexTurns` |
| `LocalState` | `state.json` under its file lock, and the atomic store it promises (`AtomicStore`) |
| `ClaudeCatalog` | extends `LocalState`: overlapping `Provider.List` calls, Archive, pins, Dispatch and Stop against Claude's native catalog |
| `ClaudeCatalogProofs` | TLAPS proofs about both: the locked file implements the atomic one, and what `ClaudeCatalog` makes of it |
| `ClaudeAttach` | Rename and Open through `claude attach` clients |
| `ClaudeAttachProofs` | TLAPS proofs about `ClaudeAttach` |
| `ClaudeUsageProbe` | the usage probe of several processes, its machine lock, identity and snapshot |
| `ClaudeUsageProbeProofs` | TLAPS proofs about `ClaudeUsageProbe` |
| `MCAgentViewSelection`, `MCClaudeCatalog`, `MCClaudeAttach`, `MCClaudeUsageProbe` | their instances for TLC |

### CodexRuntime

State is the code's, under the code's names (`catalog`, `catalogSeq`, `started`,
`startedNow`, `closedStarted`, `status`, `hidden`, `dirty`, `needCatalog`,
`activeTurnHints`, ...). A partial map is a function with `Absent`; a thread's
row is its name (title, preview, cwd and times follow it and decide nothing);
a thread is hidden or not for good. `pc` is where the run goroutine is: it has
at most one request outstanding, whose answer is `reply`. A reply carries, in
`after`, how many notifications the daemon sent before it that the reader has
not handled yet; the goroutine can use it once that is 0, which is the order
`rpcConn` guarantees. Daemon events happen at any time.

An action is one section under `r.mu` with the channel signals that directly
follow. The exception, stated in the module's header: a notification's handler
is *one* action although it takes the mutex up to three times; its sections are
not interleaved with the run goroutine's. `disconnected` and the end of the
connection are one action too.

Names kept next to a definition with the word *variant* (`Unkicked`,
`SettledByClosing`, ...) are plausible wrong versions of it. Nothing uses them
in the model; they show that the properties tell the code from its neighbours.

### ChatGPTRefresh

A catalog is the number of the remote version it holds. The remote Project is
edited at any time, so an enumeration yields *some* version of its time span, or
fails. A `runRefresh` goroutine steps through `started`, `listing`, `listed`,
`cached`, `written`/`unwritten`, `saved`/`unsaved` (or `failed`), `published`;
each step is one access to shared state, because cache, store, warning and
subscriber channel are guarded by *different* locks. A follow-up refresh reuses
the slot in `Jobs` of the finished one. `Observe`'s registration and its
initial warning are two steps under `subMu`. Agent View's part is what one
provider's rows go through: a List from each reload, applied only while no
Observer update has been (`applyLoadSnapshot`), and the updates
(`applyObserverUpdate`).

Reloads are what asks for a refresh. `asked`, `begun`, `covered`, `served`,
`wanted`, `outcome` and `missed` are history: nothing in the model's control
depends on them. `Restart` is a kill or exit followed by a new process: memory
is gone, the store stays. `Close` follows Agent View's `Run`, so updates and
Lists are applied only before it.

### AgentViewStore

Agent View's state belongs to one goroutine, so an action is one case of
`eventLoop`'s select (or one `Intent` of a key). What runs beside it are the
providers' `List` calls, of a reload (`round` 0) or of a targeted round. `calls`
has one record for each from its start until the event loop has received what it
returned, or nobody will. The channels between only forward: `LoadStream`'s is
unbuffered, `catalogCh` is first in first out within a generation, and `results`
has room for every provider; they are folded into the call's phase `listed`, and
`catalogEvent.done` is "no other call of the generation is left" (`Last`). A
superseded generation's contexts are cancelled; such a List may still return, or
hang for ever, and `DropStale` is both ways in which its result is not used.

A catalog is the version of the provider's sessions and the name Agent View last
gave them; `StartingVersions` says which versions list a Starting session.
`ApplyObserverUpdate` takes *some* catalog the provider has had, not older than
the last one published. That an Observer publishes in order is assumed here; it
is the matter of `CodexRuntime` (for its exceptions see section 5) and
of `ChatGPTRefresh`'s `NeverOlder`. Rows that the scope filters out, usage
cycles, the order of two warnings and an empty provider list are left out.
`rows` is kept beside `store` although every arrival recomputes it, since a
rename changes `rows` alone; that is finding 2.

### AgentViewSelection

`AgentViewStore` says which rows arrive; this module says what they do to the
user. `act()` runs an operation to its end before the event loop looks at
anything else, so an action is one key with its operation and outcome, or one
catalog (`SetRows`). `Items` is the derived list of sessions, *show more* and
*show sessions* controls, in `SortOverview`'s order; a larger session number is
a newer session. Any catalog may arrive at any time, with any sessions filtered
out, pinned (`MayPin`, beside what Ctrl+T pins) or running (`MayRun`); a group's
visible count of 0 is kept as the page size it is read as; an archived session that has left
the list does not come back. Left out, because they leave this state alone or
take one key and change nothing else: provider, scope and refresh keys, Open,
help, the text inside the rename editor, and a prompt of white space only.

### CodexTurns

One thread and its turns, numbered in the order they were accepted, which other
clients start, end and unload as they like (external). Each call has a connection
of its own and goes from request to request (`pc`, and `look` inside
`readCurrentTurnState`, the sequence thread/read, thread/turns/list, thread/read).
A request, its answer and what the call makes of it are one step: between
requests a call reads only what it recorded itself and the turn hint, which
`ObserverForgets` drops at any time. A request may be refused, or carried out
with its answer lost; a connection may end. A Stop's request may also never be
answered (`NeverAnswered`; at the interrupt, carried out or not): `rpcConn.call`
has no deadline of its own and the caller's context ends with the program, so
that Stop is `silent` until its connection ends. A Dispatch gives up by itself
and moves on, which is what its lost answers are. Fates completed, failed and shut
down are one (`ended`), since no call distinguishes them. `failed` is the set of
calls that report an error; it, `asked`, `sight` and `implicit` are history.

### LocalState and ClaudeCatalog

A client of the store locks, loads, changes, saves and unlocks; `Begin` is lock
and load, `Commit` save and unlock, `Abort` a failed save, `Dies` a killed
process (its lock goes, the file stays: a save is a rename into place).
`ClaudeCatalog` adds `Provider.List` as the code has it: the native catalog, the
archive overlay and the known creation times are read in separate steps, the
last of which writes back what the listing taught it. A session's row has the
process's start time instead of the session's as long as it has a process, which
is why creation times are kept at all. `blind`, `hidden` and `quiet` say of a List
that the overlay could not be read, what was archived when it began, and that
nothing interfered.

### ClaudeAttach

One session, whose worker may stop and be respawned at any time and which others
rename too, and calls of Rename and Open, each with a client of its own. A client
is `starting` from its exec until it attaches, which wakes a session without a
worker, and may attach long after `waitSessionLive` saw an older worker. The write
of the command puts it into the pty's queue (`pty`); the client reads it when it
has attached (`Delivered`), and then it reaches a mounted composer (`input`) or
the early-input capture (`early`). The end of a worker takes its attached clients
along, with what they had not read; a client that is still starting stays and will
attach to the next worker. `overtaken` records the Renames that happened to.

`detachClaudeClient`'s escalation (Ctrl-Z, SIGHUP, SIGTERM, giving up) is `leave`; a
Rename's clean-up runs beside the confirmation, and the return waits for both. A
client may ignore Ctrl-Z and SIGHUP. Three things that end a call are kept apart:
its context ends (`ContextEnds`: exec kills the client, and the waits and polls
return); an Open's terminal fails (`TerminalFails`: the pty is closed under the
client, which is a SIGHUP to it and nothing more: `hung up`); a `claude agents`
hangs (`AgentsHangs`: the poll then ends with the context only). `borne` has the
Renames during which the session had their name.

### ClaudeUsageProbe

`Agents` are processes, `Callers` calls of `Probe.Usage`. A leader's `Refresh` is
followed step by step: lock, start, settle, trust dialog, prompt, poll, save, one
rotation (persisted or not) and second attempt (started or not); callers of the same process wait for its channel.
Each claude process (`child`) prints a conflict or a limit, answers, and has its
status line run the collector at any time, also after its leader is gone, until
the closed terminal ends it. A tick of `now` is more than a minute, so it happens
only while every call waits on something that may take that long (`Urgent`;
settle delays are seconds). `out` records what a call returns while its snapshot
is fresh. A crash is modelled while the
process holds the lock, where it leaves most behind.

## 3. What TLC checks

`tlc -config X.cfg M`. Times are for two workers.

| run | bounds | shows | states |
|---|---|---|---|
| `codex_observer` | 2 threads, 2 names, 3 daemon events of every kind but unarchive | types; the status shown is the daemon's; at rest the rows are the daemon's; rows do not blink | 0.98 M, 0:31 |
| `codex_shared` | a visible and a hidden thread, one List, one fault, 2 events (start, status, unarchive) | hidden threads nowhere; every change is published; no loaded thread is shown a wrong status; a second row comes in one way only and goes with the next catalog | 3 M, 1:05 |
| `codex_converges` | 1 thread, 3 events, one fault | under fairness the published rows become the daemon's and stay so | 0.56 M |
| `codex_turns` | a rename-only Dispatch, a Stop, an Archive; 2 turns, one fault | Stop interrupts only what it resolved, and its turn is over when it succeeds; Archive shuts down no turn it could have seen; a Dispatch past its commit point returns, and so does a Stop the daemon answers | 0.88 M, 1:09 |
| `codex_two_rows` | 1 thread, one List | *violated*: one row per thread, once List runs | small |
| `chatgpt_refresh` | 3 reloads, 2 versions, 1 failed save or restart, room for 2 jobs | types; no unreported loss; every request answered; the view is current; catalogs never older; refines `CoalescedRefresh` with its liveness | 0.99 M, 1:07 |
| `agent_view` | 2 providers, one an Observer, the other with a Starting session; 2 reloads, 2 rounds, 2 changes | a finished cycle is fresh or warned about; rows never go back; the loading mark goes out; targeted refresh comes to rest | 0.80 M, 1:06 |
| `agent_view_rename` | the same, 1 change, 1 round | *violated*: an update of one provider leaves another's rows alone | small |
| `agent_view_selection` | 3 sessions (2 at first) in 2 directories, one of which may be found pinned (Ctrl+T pins the others) and one running; pages of 1 | the cursor is on an item; an awaited dispatch is selected as soon as it can be; catalogs do not move the selection; a rename keeps its session's row | 0.17 M, 0:41 |
| `claude_catalog` | 1 session, 2 overlapping Lists, a user whose process may die | the file changes by one whole operation at a time; an undisturbed List repairs the creation times; what was archived is not listed | 0.53 M, 0:18 |
| `claude_attach` | a Rename and an Open, two names others may give the session (one of them the Rename's); both contexts may end, the Rename's `claude agents` may hang | a command reaches the early-input capture in one case only; a reported name was true; no client stays behind that could be told to leave; every call ends that something can end | 0.33 M, 0:19 |
| `usage_probe` | 2 processes, 3 calls, 2 claude processes, one crash, TTL 2, window 2, clock up to 3 | one probe per machine; its rows are hidden; freshness is bounded; a limit is reported; calls return | 1.03 M, 1:11 |

**Why the bounds suffice.** Codex: a race between a snapshot (or a re-read) and
the daemon needs one event before, one during and at most one after the read
that matters, hence three; two threads show cross-thread mix-ups, as every
handler touches one thread and an installation treats threads pointwise; one
re-read round (`maxSnapshotRounds` is 3) reaches both ends of the loop; one
fault reaches every reconnect. Three reloads are one that runs, one that
coalesces and one that coalesces again or starts afresh; two versions tell an old
catalog from a new one; initial states with a persisted catalog and with a
failed hydrate stand for what earlier runs of the process left, so one fault is
one *more*. `Jobs` has room for two goroutines so that a broken single flight
shows; the code never needs the second. Daemon events, faults, reloads and
versions are capped in the guards (`MaxEvents`, `MaxFaults`, `MaxReloads`,
`MaxVersion`, `MaxChanges`, `MaxTransientRefreshes`); `events` and `faults` exist only for that. `CHECK_DEADLOCK FALSE`:
a system whose capped events are used up, or that is closed, has stopped.

Agent View: a generation can only be mistaken for the one before it, so two
reloads reach every overlap; two rounds are a round and its successor, and the
last one the budget allows (`maxTransientRefreshes` is 180); two changes are one
before and one after a List is answered. Two providers suffice, as the store
treats them pointwise and only "last of the generation" relates them.

Selection: a page is 10 sessions in the code and 1 here, so that three sessions
already give later pages, folded pages and *show more*; two directories and
Pinned give three groups, which is what moving between groups and leaving one
needs; two sessions there at first and one dispatched show a dispatch arriving
below, above and during a rename. Turns: one turn to resolve and its replacement
are two; one fault is a lost answer, a refused request or an ended connection at
any of a call's steps. The one Dispatch is the rename-only form, which takes all
steps of the ordinary one and cleans up besides. Attach: a second Rename could do
no more to the first than stop, respawn or rename the session under it, and the
worker and `RenamedElsewhere` do that at any time; the Open adds a second client
that attaches, wakes and is left behind. (The theorems hold for any number of
both.) Catalog: sessions meet only in the file, which operations change
pointwise; a second session multiplies the states and adds no case. Probe: one
caller in one process and two in the other reach the machine lock's contention,
the shared refresh and a waiter; two claude processes are an attempt and either
its recovery or the next process's; at TTL 2 a snapshot of one tick ago can
be reused and served for another tick, which is the bound; a window of two ticks
has its reset inside the run. The bounds `MaxTurns`, `MaxSpawn`, `MaxTime`, `MaxCrashes`,
`MaxSessions` are in the guards like the others.

**Fairness.** `Converges` assumes `WF` of the reader (`HandleNotification`), of
the daemon's answers, of the run goroutine's own steps (its context is alive, and
its waits are bounded timers: back-off and `catalogGap`), of lifecycle start and
of the publisher loop. No daemon event, fault, stop or List is assumed to
happen; neither is the absence of faults, only that they are finitely many, which
`MaxFaults` says. In `ChatGPTRefresh` a job's steps are fair, since each bridge
call has a deadline, an enumeration is bounded in pages, and the mutexes are
held briefly; and so is the rest of an `Observe` that holds `subMu`. Nothing
else is, and the refinement needs nothing else: `CoalescedRefresh` promises
that an open provider begins an enumeration for uncovered requests and that each
one ends. In `AgentViewStore` the event loop serves its channels, armed timers
fire, and Lists of the newest generation return. The last is an assumption about
the commands behind them (`claude agents`, `codex app-server`) that the code does
not enforce with a deadline: if one hangs, the loading mark stays until the user
asks again, which begins a newer generation. Nothing is assumed of an obsolete
List, of reloads or of Observers. In `CodexTurns` a Dispatch past its commit point
goes on, since each of its clean-up steps has a deadline, and so does a Stop whose
request is answered. A Stop has no deadline of its own (`provider.go:153-195`): one
whose request the daemon never answers (`silent`) waits until its connection or the
program ends, and `StopsReturn` excepts it. Its `waitInactive` has no timer either;
it relies on the notifications of a connection that stays up, and the property's
hypothesis is that the thread does become inactive. The daemon may never answer,
start or end a turn. In `ClaudeAttach` the calls' steps go on, and a
client that was sent SIGTERM or was killed ends; a poll ends unless its `claude
agents` hangs, which the model lets it do, as the code gives that command no
deadline (`exec.go:12-19`); a client whose pty was only closed need not end, and
nothing is assumed of the worker. In `ClaudeUsageProbe` *some* started call that can move does, no matter
which; nothing is assumed of claude, of contexts or of new calls. The other three
are stated in that weaker form too, one weak fairness for all the steps named:
none of their liveness properties needs to know which of them goes first.
`ClaudeCatalog` and `AgentViewSelection` state no liveness: a List that waits for
a lock waits for whoever holds it, and keys come from the user.

**Properties, in words.** `StatusIsCurrent`: with all notifications handled, a
live runtime shows each thread the status the daemon has, although the snapshot
read it while notifications kept arriving -- this is what `dirty` and the re-read
rounds are for. `NoWrongStatus`: the same beside concurrent Lists and unarchives,
for the threads the daemon has loaded: their status or none, since a List may
cost a thread its status but may never give it a wrong one. `QuiescentRows`: at rest, rows are exactly the daemon's threads
plus possibly removed ones (see findings). `NoFlicker`: no late catalog takes a
still existing thread off. `PublishedIsCurrent`: no signal pending means
consumers have what the runtime holds. `NoSilentLoss`: a cache that is not on
disk is either mid-save or reported. `ViewIsCurrent`: at rest Agent View's rows
and warning are the provider's, whatever order subscribing, publishing, listing
and applying took, but for two named cases (`missed`): a success published
before `Observe`'s goroutine registered, and the failure update that replaces an untaken success (section 5).
`FreshOrWarned`: when the loading mark goes out, each provider's rows are as new as
the request, or a warning says that they may not be, or an Observer owns them,
whatever superseded what. `Settles`: targeted refresh comes to rest, when the
Starting session has settled or the budget is spent, even if a List of an older
generation never returns. `NeverBack`:
rows get older only once, when an Observer takes them over from List.

`StopsWhatItSaw`: whatever ends, begins or unloads between Stop's requests, the
only turn it asks the daemon to interrupt is one accepted before it last looked.
`StoppedIsOver`: a Stop that reports success has its turn over, also when the
interrupt was refused because the turn ended by itself (`reconcileStopRace`).
`ArchiveOnlyRaces`: Archive checks and then archives, and the daemon ends a turn
in an archived thread; the only turns it can end so are those that began after
the check, which `DesignDoc.md:634` concedes. `AtomicStore`: neither a failed save
nor a killed process nor two processes lose or half-apply an operation.
`StopsReturn`: when the thread's turns come to an end, every Stop returns, whatever
order its requests, the notifications and a lost connection come in, unless the
daemon leaves a request of it unanswered. `QuietListHeals`: overlapping Lists may
write back creation times from an older listing; the next List that runs alone
puts them right. `NotIntoEarlyCapture`: whenever the client attaches and reads, and
however often the worker stops and is respawned, a command is lost to the early-input
capture in one case only: the worker `waitSessionLive` saw ended before the client had attached
to it. An attached client ends with its worker, and what it had not read with it.
`NoClientLeft`, `CallsEnd`: a call that returned has ended its client, or tried
everything, or was cancelled, or is an Open whose terminal failed; and every call
returns, unless a `claude agents` hangs, which may keep its client too.
`ProbeRowsHidden`: an ID is in the identity before claude is started with it and
stays there when it is rotated away, whatever crash or second process comes in
between (that List can read the identity is another matter, see section 5). `LimitIsReported`: what the leader found reaches its caller through the
cache that others may write in the meantime. `SelectionHolds`: the cursor leaves
a session that is still listed only for one the user dispatched.
`RenameKeepsItsRow`: while a session is renamed inline and the list has it, the
cursor is on it, also when it had left the list, the cursor had moved on, and a
later catalog brings it back.
`TwoRowsOnlyByOvertaking`: a thread is in the live-started threads or in the
catalog, and only the installation of a snapshot that a List overtook puts it in
both; whatever comes then, the next installed catalog, by whomever, ends it. It is
what holds of the promise that `codex_two_rows` shows broken.

## 4. What is proved

`tlapm CodexRuntimeProofs.tla`; for any `Threads`, `HiddenThreads`, `Names`,
`Turns`, `Kinds`, `ListCalls` and bounds, under `DaemonAssumption` and
`RuntimeAssumption` (both checked by TLC on
every run of `CodexRuntime`):

| theorem | argument |
|---|---|
| `TypeCorrect`: `Spec => []TypeOK` | `TypeOK` is inductive; one lemma per group of actions, one step per action. The delicate part is `reply.after`, a `Nat` that handlers decrement |
| `StatusNeedsLiveAlways` | not inductive: whether a handler may touch the status cache depends on `live` and `snapshotting`, which nothing ties to where the goroutine is. `Phase` does: `snapshotting`, `live` and `connected` are functions of `pc` |
| `HiddenNeverVisibleAlways` | not inductive: a hidden thread could sit in the unfinished snapshot or in a closing mark. `HiddenOut` keeps it out of `snap.loaded` too, and `SnapshotRead` and `addStarted` keep it so |
| `PublishedIsCurrentAlways` | inductive with `Phase`; one lemma shows that steps which change no row need no signal, and a stale catalog changes none |
| `TwoRowsOnlyByOvertakingAlways` | beside any Lists and faults. `InstallCatalogOneRow`: whatever was there before, an installed catalog takes all it lists out of the live-started threads; `OneRowHandled`: no notification adds what is listed. What is left is `installSnapshot` with a catalog that is rejected. Without Lists nothing overtakes a snapshot (`FetchOrder`), and then there are never two rows: the lemma `OneRowStep`, which the next theorems use |
| `StatusIsCurrentAlways` | under `Undisturbed`: `ListCalls = {}` and no unarchive among `Kinds`. `Tracking`, ten conjuncts, of which two are the argument: in a snapshot, each thread read so far has the daemon's status, unless a notification about it is still to come, or it is still to be read, or is `dirty`, which is what the next round reads again (`SnapshotReads`); afterwards the same without the last two (`StatusFollows`). The others say what wire and answers tell: the last notification about a thread tells its present status (`WireTruth`), an answer tells it as of `reply.after` (`Replies`), a thread's first notification is `thread/started` (`StartedFirst`), and so on |
| `NoFlickerAlways` | from `Tracking`: what an installation no longer lists the daemon no longer has, or is live-started |
| `QuiescentRowsAlways` | under `Undisturbed`, from `Tracking` with `Naming`, the same for rows: an unpersisted thread is live-started under its name (`LiveRows`), a closing mark waits for a fetch that begins after it (`ClosedWaits`), and while no fetch is to come a persisted thread's name is in the catalog, live-started, or in the answer about to be installed (`SnapNames`, `LiveNames`) |

`Undisturbed` is needed for `StatusIsCurrent`: TLC finds it violated in the
same instance with one List, and with unarchive among the kinds (section 5). A
List's fetch is ordered with no notification, and an archived thread is unloaded
without one, so that after its unarchive a runtime has the status of before.
`codex_observer` is an instance that satisfies `Undisturbed`. What is left
without it needs no hypothesis on the constants:

| theorem | argument |
|---|---|
| `NoWrongStatusAlways` | `Following` is inductive beside any Lists and unarchives, because it does not look at catalogs: none brings a status in (`FollowingCatalog`). It is `Tracking` with "or no status" in the two conjuncts of the argument, for the threads of `Followed`: those the daemon has loaded or, where nothing is unarchived, all it has not removed. A thread leaves that set without a word, and a notification tells the status it comes back with. In place of `StartedFirst`, `FirstTold`: nothing tells of a thread before its announcement, and until that is handled it has no status here; without it a status left in the cache would survive the announcement |
| `ListsOnlyDropStatuses` | where nothing is unarchived, `Followed` is every visible thread that is not removed: also a finished one keeps no status of before. It is the gap to `StatusIsCurrent` that Lists make, and no more |

`tlapm ChatGPTRefreshProofs.tla`; for any `Jobs`, `MaxReloads`, `MaxVersion`
and `MaxFaults` under `RefreshAssumption` (checked by TLC on its run).
The inductive invariant is built in layers, each proved with the ones before it:

| theorem | argument |
|---|---|
| `TypeCorrect`, `SingleFlightAlways` | `OneJob`: while `refreshing` there is exactly one goroutine, else none. It is proved together with the types, because a request finds a free slot only if there is no goroutine |
| `NoSilentLossAlways`, `NeverOlderAlways` | `Ordered`: what a running enumeration can find is at least as new as store and cache, and from its installation on its answer *is* the cache, and is not older than the store. Then a save cannot write an older catalog, and the warning set afterwards tells whether the two agree |
| `AnswersEveryRequestAlways` | `Answering`: unless another refresh is pending, the running one's answer is at least as new as the newest request |
| `RefinesCoalescedSafely` | every step maps to a step of `CoalescedRefresh` or a stutter. Needs `Counting`: an enumeration about to begin, and one that will follow it, were each asked for |
| `ViewIsCurrentAlways` | `RowsArrive`: unless a goroutine holds a catalog it has not published, the newest catalog on its way to Agent View (in the slot, else handed over, else shown, else in the newest List) is the cache with its warning. `FailuresPass` says the same of failures, `Subscribing` that a subscription's initial update is due to a warning still set or about to be replaced by a publication, `Reported` that a publication carries the warning its save set. The hypothesis on `missed` is used in one place: where `Publish` loses the newest success |

`tlapm AgentViewStoreProofs.tla`; for any `Providers`, `Observers`, `Renamers`,
`StartingVersions` and bounds under `StoreAssumption` (checked by TLC on both
of the module's runs). All theorems come from one inductive invariant, `IInv`
(`InvariantAlways`; one lemma per action):

| theorem | argument |
|---|---|
| `TypeCorrect` | with `Counted`: a round is armed only below the budget |
| `OneListAtATimeAlways` | `Rounds`: a cycle loads exactly while one of its Lists is outstanding, no round is armed or outstanding then, and `inFlight` has an entry exactly for the targeted Lists outstanding |
| `TransientArmedAlways` | each arrival ends with `schedule` (`Rearmed`), and a fired round that begins no List found none due |
| `ScopeFollowsAlways` | `ScopeArrives`: the outstanding Lists of a cycle carry the newest scope, so the first arrival already sets it |
| `FreshOrWarnedAlways` | `FreshOnArrival` says it per provider from its own arrival on; `Answers`: what a current List returned is as new as the request |
| `NeverBackAlways` | `Answers` again, with `OneListAtATime`: between the answer and its arrival no other List of the provider can have been applied |

`tlapm AgentViewSelectionProofs.tla`; for any directories, catalogs, pins,
number of sessions and page size under `SelectionAssumption` (checked by TLC on
`agent_view_selection`). `IInv` is the types with the two state invariants, and
that the rows are sessions there are (`Known`). What takes the
work is the derived list: that `CHOOSE` finds an order (`Descending`, by an
induction over the size of the set, done with least elements) and that
`FlattenSeq` of the groups' items has exactly their elements. `ListedIff` puts it
in one line, who is listed when, and the steps use nothing else of the list:

| theorem | argument |
|---|---|
| `TypeCorrect` | part of `IInv` |
| `CursorIsListedAlways` | each key that moves the cursor takes an item of the new list; a revealed session is listed; folding and unfolding put the cursor on an item they list |
| `RequestIsAwaitedAlways` | a catalog that lists the requested session serves the request, unless a rename is active, and the end of the rename serves it |
| `SelectionHoldsAlways` | from `ListedIff`: a catalog's session that was under the cursor is revealed, not searched for |
| `RenameKeepsItsRowAlways` | a catalog serves no request during a rename, and tracks the rename's target instead of the cursor; no key moves the cursor then |

`tlapm ClaudeCatalogProofs.tla`; for any `Ids`, `Times` and `Clients` under
`TimesAssumption`, and for any `Lists`, `Users` and `Mortal` under
`CatalogAssumption` (both checked by TLC on `claude_catalog`):

| theorem | argument |
|---|---|
| `StoreTyped` | with `OneTransaction`: whoever has a transaction open has it alone, on the file as it is, and the file is well-formed |
| `StoreIsAtomic`: `StoreSpec => AtomicStore` | from the same invariant: only `Commit` changes the file, and the copy it writes back is the file with one operation applied. `StoreSpec` is the store by itself |
| `CatalogUsesStore`: `Spec => StoreSpec`, `CatalogIsAtomic` | each step of `ClaudeCatalog` is a step of the store or leaves it alone; what a List synchronises is one of the store's operations (`SyncOpIsOp`) |
| `ArchivedStaysHiddenAlways` | `Overlaid`: what was archived when a List began is archived until it reads the overlay, since no operation of `ClaudeCatalog` takes an ID out of it, and is in what it has read |
| `QuietListHealsAlways` | `Settled`: the other Lists of a quiet one are idle, so none has a transaction open, and once it is about to return its listing leaves nothing to synchronise, because synchronising twice is synchronising once (`SyncedOnce`) and users' operations leave the times alone |

`tlapm CodexTurnsProofs.tla`; for any calls, number of turns, faults and
cancellations under `TurnsAssumption` (checked by TLC on `codex_turns`). None of
the three is inductive: what a call did depends on what it read some steps ago,
while other clients begin and end turns. `OneTurn` says what turns there can be
(the accepted ones are the turns 1 to n, at most one is in progress, and none
unless the thread is active), and `Advance` that a step neither withdraws a turn
nor reopens one, so whatever a call has learned of a turn stays so:

| theorem | argument |
|---|---|
| `StopsWhatItSawAlways` | `Saw`: until its interrupt a Stop has asked for nothing, then at most for the turn it resolved; that was an accepted turn (`Remembered` says so of the hint too), so it is no newer than the newest one at that moment |
| `StoppedIsOverAlways` | `Saw` again: a Stop succeeds only once it has found its turn over, and `Advance` keeps it so |
| `ArchiveOnlyRacesAlways` | `ArchiveSaw`: from the read that found the thread at rest to `thread/archive`, every turn that was there at the read is over. A turn that begins in between is the race the name speaks of, and is not excluded |

`tlapm ClaudeUsageProbeProofs.tla`; for any processes, callers, limits, clock and
crashes under `ProbeAssumption` (checked by TLC on `usage_probe`):

| theorem | argument |
|---|---|
| `OneProbeAlways` | `OneLeader` ties the two guards together: in a process at most one caller leads, and its channel is there for it (`flight`); between processes, whoever runs a session holds `refresh.lock` for its process. A crash frees the lock together with everything that ran under it |
| `ProbeRowsHiddenAlways` | `RowsOwned`: what the persisted identity knows only grows, a rotation included, and claude is started only with an ID the identity persisted before |
| `FreshIsBoundedAlways` | `Dated` follows a snapshot's age along its way: in `usage.json` it is of the past; what a leader is about to save or install is younger than a TTL, since no tick passes between reading and installing; in memory it was that when it was installed. A second TTL is what memory then grants |
| `LimitIsReportedAlways` | `Dated` again: what a leader installs says *exhausted* of each window of its limit message, and `Finish` gives its caller what it has just installed; only `At` can turn that into unknown, and then the reset is past |

`tlapm ClaudeAttachProofs.tla`; for any calls, names and cancellations under
`AttachAssumption` (checked by TLC on `claude_attach`). One invariant, `IInv`,
one lemma per group of steps:

| theorem | argument |
|---|---|
| `TypeCorrect` | part of `IInv` |
| `NotIntoEarlyCaptureAlways` | `WriteIsLive`: a command on its way (about to be written for a client that is there, or in its pty) has the worker it saw still mounted, or was overtaken: the end of a worker takes attached clients along and marks those that are still starting |
| `ReportedNameWasTrueAlways` | `Judged`: a running Rename is in `borne` once the session has its name, whoever gave it, and the confirming read judges by that |
| `NoClientLeftAlways` | `Clients`: a call that stopped asking its client to leave knows it has left, never had one, gave it up, was cancelled, or hung it up |

`StatusNeedsLive` (a status is shown only while a live connection vouches for
it), `SingleFlight`, `TransientArmed` (a Starting session has a round armed or
outstanding until the budget is spent), `ScopeFollows` (a finished cycle has the
newest scope) and `OneListAtATime` are theorems without a run of their own: they
hold for every instance, and the deeper properties that are run rest on them.

Only model-checked, and for good: `Converges`, `LoadingEnds`, `Settles`,
`CommittedReturns`, `StopsReturn`, `UsageReturns`, `CallsEnd` and
`RefinesCoalesced` as a whole, since liveness under fairness is out of the
prover's reach. Every safety property a passing run checks is a theorem, three of
them (`StatusIsCurrent`, `NoFlicker`, `QuiescentRows`) under `Undisturbed`. `NoWrongStatus`, which
says what the first of them loses without its hypothesis, needs none. The types
of `AgentViewStore` are proved and not run, those of `ClaudeCatalog` and
`ClaudeUsageProbe` are neither run nor proved on their own; the invariants above
carry what of them is needed. No module declares a recursive operator.

## 5. Findings

1. **Two rows for one thread** (`codex_two_rows`, `runtime.go:430`). A
   `Provider.List` begun after a snapshot and installed before it makes the
   snapshot's catalog stale; `installSnapshot` has already made its loaded
   threads live-started, and nothing takes the listed ones out again until the
   next catalog. `runtime.go:150-151` says a thread is in at most one of the two.
2. **A rename that reverts on screen** (`agent_view_rename`,
   `agentview_unix.go:685`). A rename's patch, "already-confirmed"
   (`sessionctl/result.go:23`), reaches the displayed rows but not the retained
   snapshot; the next update of *any* provider rebuilds the rows and shows the old
   name until the renamed session's provider is listed again.
   `providersnapshot_test.go:205-206` says that a publication of one provider must
   never touch another's rows.

Met while reading or modelling, without a run of their own. The models do what
the code does in each case, and the properties above are stated so that they
leave it room:

*Codex*
- A snapshot that read a thread before its `thread/archived` installs it as
  live-started, and the row stays (`runtime.go:619`; `DesignDoc.md:998`).
- A thread archived and unarchived between two catalog reads keeps its old
  status (`runtime.go:219`, against the comment at 214-216).
- With concurrent Lists `StatusIsCurrent` fails for a moment: `addStarted` drops
  an announced status when a List already listed the thread (`codex_observer`
  has no List for that reason; `codex_shared` checks what is left, `NoWrongStatus`).
- A Stop has no deadline: one whose request the daemon never answers waits until
  the connection or the program ends (`provider.go:153-195`,
  `runtime_client.go:118-131`); `StopsReturn` excepts it.
- The sequence number of a catalog is taken when its fetch starts, so a List
  whose answer is older may replace a newer catalog (`QuiescentRows` likewise).

*ChatGPT*
- `sendLatest` lets an `Err`-only update replace an untaken success
  (`provider.go:331`); the subscriber ends with older rows than the cache, which
  `publish`'s comment (312-315) says never happens. `ViewIsCurrent` excepts it.
- A refresh that outlives `Close` re-creates the browser's asset directory; a
  call cancelled after it was sent leaves its response in the bridge stream.

*Claude*
- After a failed attempt the coordinator takes a usage snapshot that no response
  produced for a finished refresh (`usage_probe_unix.go:328-331` against
  `snapshot.go:151`), and stamps what it reuses from disk with the present time;
  `FreshIsBounded` is the bound that is left, just under two TTLs.
- A limit just detected is shown as unknown when the reset carried over from the
  previous snapshot is already past (`usage_refresh.go:168-200`);
  `LimitIsReported` excepts it.
- An overlapping older List can drop a creation time a newer one recorded
  (`provider.go:193-195`, `DesignDoc.md:926`) until the next one that runs alone.
- Archive does not look again whether the session has come back to work
  (`provider.go:337-339`, `DesignDoc.md:636`); an unreadable overlay shows archived
  sessions (`provider.go:144`).
- A Rename's command can reach the early-input capture although `ready` has
  passed: the worker reported live ends before the client attaches, the client
  respawns it and then reads the queued command.
  `rename_transport_unix.go:33` says that writing is reliable once ready has
  passed. `NotIntoEarlyCapture` excepts exactly this; Rename then reports failure.
- `pollNativeRow` says that a slow `claude agents` cannot balloon the wait
  (`provider.go:478-482`), but looks at its deadline only between two of them, and
  a run has none (`exec.go:12-19`). One that hangs keeps the Rename, and while it
  waits for the session to become live its client attached (`CallsEnd`).
- An Open whose terminal fails closes the pty and returns without waiting for its
  client (`open_unix.go:37-40, 57-59, 74-80`), which may ignore that SIGHUP.
- When `probe.json` cannot be read, `KnownSessionIDs` is empty
  (`identity.go:174-180`) and List shows the probe's rows; `ProbeRowsHidden` is
  about what the file says.
- A Rename that reports failure may still take effect (`provider.go:356,
  373-375`); Rename attaches, and so starts a worker for a session that was
  stopped (344-351); "bounded by renameCleanupTimeout" (382-386) is up to three
  such waits.

*Agent View*
- After Archive was armed, a reload that shows the session running leaves the
  notice to press again, while the next Ctrl+X stops it (`notice.go:45-52` says
  that a notice can never go stale). Nothing is archived that was not asked about.
- Esc takes its cases in another order than `DesignDoc.md:359` lists them.
- A confirmation whose row has left the list goes on taking part in input
  (`state.go:180-187`); a rename whose target has left makes each further catalog
  reset the cursor to the head of the list.
- No provider sets `Session.PreviousKeys`, so pin migration and
  `followIdentity` are not reached.

## 6. Not modelled, and why

- *Parsing, framing, wording, layout, styling*: no control depends on them.
- *Several processes on one ChatGPT catalog*: `ChatGPTRefresh` has one process at
  a time on its store; two would break `NeverOlder`, as the code lets the last
  writer win. Everything else in `state.json` is shared in `ClaudeCatalog`.
- *Several subscribers and overlapping lifecycles of the Codex hub*, and *the
  ChatGPT browser's helper processes, bridge stream and cursor chain*: planned.
- *The connection's internals*: reply matching, handshake and process start.
- *The terminal hand-over*: process groups, PTYs, signals and byte scanners; its
  unit tests cover the scanners, and its shutdown order is planned.
- *Identity transitions of sessions*: no provider makes one.
- *Self-update, entry point, worktree discovery*: wiring and one-shot I/O.
- `StopLifecycle` from back-off also resets what `disconnected` would; the code
  has reset it already, so no state is gained.

## 7. Plan

1. Proofs: a fairness-free measure for `Settles` (that each targeted round spends
   some of the budget); that a status a List dropped is back after the next snapshot.
2. `CodexObserve`: the hub with two overlapping lifecycles and several
   subscribers, over an abstract runtime.
3. `ChatGPTBrowser`: bridge replacement, close, cancelled calls, cursor chain.
4. `Foreground`: shutdown order of the relays.
