---------------------------- MODULE CodexRuntime ----------------------------
(***************************************************************************)
(* codexRuntime (internal/provider/codex/runtime.go): what agentsctl knows *)
(* of the daemon's threads, from one persistent connection.  Three actors  *)
(* share its state under one mutex: the run goroutine (connect, snapshot,  *)
(* resync), the connection's reader (handleNotification) and the calls of  *)
(* Provider.List, which install catalogs of their own.  A notification's   *)
(* handler is one action: it takes the mutex up to three times (setStatus, *)
(* markStartedClosed, requestCatalog), and the sections of one handler are *)
(* not interleaved with the other actors.  Everywhere else an action is    *)
(* one section under the mutex together with the channel signals (kick,    *)
(* wake) that directly follow it.                                          *)
(***************************************************************************)
EXTENDS CodexDaemon, Integers

CONSTANTS
    ListCalls,  \* the calls of Provider.List, each made once
    Turns,      \* turn IDs returned by this process's turn/start calls
    NoTurn,     \* no hint for a thread
    MaxRounds,  \* maxSnapshotRounds
    MaxFaults   \* how many failed connections and lifecycle ends a run has

ASSUME RuntimeAssumption ==
    /\ NoTurn \notin Turns
    /\ MaxRounds \in Nat
    /\ MaxFaults \in Nat

VARIABLES
    pc,              \* where the run goroutine is
    fetchSeq,        \* number of the newest catalog fetch
    catalog,         \* installed catalog: thread -> name, or Absent
    catalogSeq,      \* the fetch that produced catalog
    started,         \* live-started threads: thread -> name, or Absent
    startedNow,      \* those announced during the running snapshot
    closedStarted,   \* fetchSeq when a live-started thread closed
    activeTurnHints, \* thread -> turn, or NoTurn
    status,          \* native status of each thread the daemon has loaded
    hidden,          \* threads known to be internal
    live, everLive,  \* a snapshot is installed / has been, this lifecycle
    lastErr,         \* why the last connection failed
    snapshotting, dirty,
    needCatalog, wake, \* a catalog re-read is asked for / its signal
    changed,         \* the one-slot channel to the publisher
    snap,            \* locals of the running snapshot or resync
    lists,           \* state of each Provider.List call
    published,       \* the newest update handed to the subscribers
    faults

catalogVars == <<fetchSeq, catalog, catalogSeq, started, closedStarted>>
requestVars == <<needCatalog, wake>>
linkVars == <<live, everLive, lastErr, snapshotting>>

runtimeVars ==
    <<pc, catalogVars, startedNow, activeTurnHints, status, hidden, linkVars,
      dirty, requestVars, changed, snap, lists, published, faults>>

vars == <<daemonVars, runtimeVars>>

-----------------------------------------------------------------------------
NotClosed == -1
AllAbsent == [t \in Threads |-> Absent]
AllNotLoaded == [t \in Threads |-> NotLoaded]
NoHints == [t \in Threads |-> NoTurn]
NoneClosed == [t \in Threads |-> NotClosed]

Entry == Names \cup {Absent}

RunStates ==
    {"stopped", "backoff", "dialed", "listing", "loading", "reading",
     "install", "serve", "waiting", "gap", "resync"}
SnapshotStates == {"listing", "loading", "reading", "install"}
ServeStates == {"serve", "waiting", "gap", "resync"}

EmptySnap ==
    [seq |-> 0, threads |-> AllAbsent, todo |-> {}, status |-> AllNotLoaded,
     loaded |-> AllAbsent, hidden |-> {}, round |-> 0]

SnapType ==
    [seq : Nat, threads : [Threads -> Entry], todo : SUBSET Threads,
     status : [Threads -> Status], loaded : [Threads -> Entry],
     hidden : SUBSET Threads, round : Nat]

ListState == [pc : {"idle", "asked", "answered", "done"}, seq : Nat,
              threads : [Threads -> Entry]]

(***************************************************************************)
(* What a consumer sees: visibleCatalogLocked, each row with its observed  *)
(* status (unknown while the connection is down).                          *)
(***************************************************************************)
Visible(t) == started[t] # Absent \/ catalog[t] # Absent

Rows ==
    LET seen(t) == IF live THEN status[t] ELSE "unknown"
    IN {[thread |-> t, name |-> started[t], status |-> seen(t)] :
            t \in {u \in Threads : started[u] # Absent}}
       \cup
       {[thread |-> t, name |-> catalog[t], status |-> seen(t)] :
            t \in {u \in Threads : catalog[u] # Absent}}

RowType == [thread : Threads, name : Names, status : Status \cup {"unknown"}]

Errors == {"none", "endpoint", "connection"}

NothingPublished == [kind |-> "nothing"]
EndpointError == [kind |-> "error"]
RowsUpdate == [kind |-> "rows", rows |-> Rows,
               warning |-> IF live THEN "none" ELSE lastErr]

Update == {NothingPublished, EndpointError}
          \cup [kind : {"rows"}, rows : SUBSET RowType, warning : Errors]

RuntimeTypeOK ==
    /\ pc \in RunStates
    /\ fetchSeq \in Nat
    /\ catalog \in [Threads -> Entry]
    /\ catalogSeq \in Nat
    /\ started \in [Threads -> Entry]
    /\ startedNow \in SUBSET Threads
    /\ closedStarted \in [Threads -> Nat \cup {NotClosed}]
    /\ activeTurnHints \in [Threads -> Turns \cup {NoTurn}]
    /\ status \in [Threads -> Status]
    /\ hidden \in SUBSET Threads
    /\ live \in BOOLEAN /\ everLive \in BOOLEAN
    /\ lastErr \in Errors
    /\ snapshotting \in BOOLEAN
    /\ dirty \in SUBSET Threads
    /\ needCatalog \in BOOLEAN /\ wake \in BOOLEAN
    /\ changed \in BOOLEAN
    /\ snap \in SnapType
    /\ lists \in [ListCalls -> ListState]
    /\ published \in Update
    /\ faults \in Nat

TypeOK == DaemonTypeOK /\ RuntimeTypeOK

RuntimeInit ==
    /\ pc = "stopped"
    /\ fetchSeq = 0 /\ catalog = AllAbsent /\ catalogSeq = 0
    /\ started = AllAbsent /\ startedNow = {} /\ closedStarted = NoneClosed
    /\ activeTurnHints = NoHints
    /\ status = AllNotLoaded /\ hidden = {}
    /\ live = FALSE /\ everLive = FALSE /\ lastErr = "none"
    /\ snapshotting = FALSE /\ dirty = {}
    /\ needCatalog = FALSE /\ wake = FALSE /\ changed = FALSE
    /\ snap = EmptySnap
    /\ lists = [c \in ListCalls |->
                    [pc |-> "idle", seq |-> 0, threads |-> AllAbsent]]
    /\ published = NothingPublished
    /\ faults = 0

-----------------------------------------------------------------------------
(* Signals.                                                                *)

Unkicked == UNCHANGED changed  \* variant: the signal is forgotten
Kick == changed' = TRUE

RequestCatalog == needCatalog' = TRUE /\ wake' = TRUE

-----------------------------------------------------------------------------
(***************************************************************************)
(* installCatalogLocked(seq, threads), with the live-started threads, their*)
(* closing marks, the statuses and the hidden threads it starts from.      *)
(***************************************************************************)
AsListed(threads) == threads  \* variant: no filter
WithoutHidden(threads) ==
    [t \in Threads |-> IF t \in HiddenThreads THEN Absent ELSE threads[t]]

\* Variants: only a closing settles a thread; only a listing does; any
\* catalog settles a closed thread.
SettledByClosing(seq, threads, closed) ==
    {t \in Threads : closed[t] # NotClosed /\ seq > closed[t]}
SettledByListing(seq, threads, closed) ==
    {t \in Threads : WithoutHidden(threads)[t] # Absent}
SettledWhenClosed(seq, threads, closed) ==
    {t \in Threads : \/ WithoutHidden(threads)[t] # Absent
                     \/ closed[t] # NotClosed}

\* Live-started threads the catalog of fetch seq settles: listed now, or
\* closed before the fetch began and still not listed.
Settled(seq, threads, closed) ==
    {t \in Threads : \/ WithoutHidden(threads)[t] # Absent
                     \/ closed[t] # NotClosed /\ seq > closed[t]}

InstallCatalog(seq, threads, starting, closed, known) ==
    IF seq > catalogSeq
    THEN LET settled == Settled(seq, threads, closed) IN
         /\ catalog' = WithoutHidden(threads)
         /\ catalogSeq' = seq
         /\ hidden' = known \cup {t \in HiddenThreads : threads[t] # Absent}
         /\ started' = [t \in Threads |->
                            IF t \in settled THEN Absent ELSE starting[t]]
         /\ closedStarted' = [t \in Threads |->
                            IF t \in settled THEN NotClosed ELSE closed[t]]
    ELSE /\ started' = starting
         /\ closedStarted' = closed
         /\ hidden' = known
         /\ UNCHANGED <<catalog, catalogSeq>>

\* A thread that leaves the catalog loses its status.
StatusKept(seq, threads) ==
    [t \in Threads |->
        IF /\ seq > catalogSeq
           /\ catalog[t] # Absent
           /\ WithoutHidden(threads)[t] = Absent
        THEN NotLoaded ELSE status[t]]

-----------------------------------------------------------------------------
(***************************************************************************)
(* The reader: handleNotification.                                         *)
(***************************************************************************)
Inactive == {"idle", "systemError", NotLoaded}

\* setStatus reaches the status cache only on a live connection and for a
\* thread not known to be hidden.
Observes(t) == live /\ ~snapshotting /\ t \notin hidden

\* Variants: an unloaded thread gets a status of its own; a snapshot is not
\* told.
HintsAfter(t, s) == IF s \in Inactive
                    THEN [activeTurnHints EXCEPT ![t] = NoTurn]
                    ELSE activeTurnHints
DirtyAfter(t) == IF snapshotting THEN dirty \cup {t} ELSE dirty

SetStatusClosed(t, s) ==
    /\ activeTurnHints' = HintsAfter(t, s)
    /\ dirty' = DirtyAfter(t)
    /\ status' = IF ~Observes(t) THEN status
                 ELSE [status EXCEPT ![t] =
                        IF s = NotLoaded THEN "closed" ELSE s]
SetStatusUnmarked(t, s) ==
    /\ activeTurnHints' = HintsAfter(t, s)
    /\ dirty' = dirty
    /\ status' = IF Observes(t) THEN [status EXCEPT ![t] = s] ELSE status

SetStatus(t, s) ==
    /\ activeTurnHints' = HintsAfter(t, s)
    /\ dirty' = DirtyAfter(t)
    /\ status' = IF Observes(t) THEN [status EXCEPT ![t] = s] ELSE status

HandleStatusChanged(n) ==
    LET t == n.thread IN
    /\ n.method = "status"
    /\ SetStatus(t, n.status)
    /\ changed' = (changed \/ Observes(t))
    /\ IF Observes(t) /\ catalog[t] = Absent
       THEN RequestCatalog
       ELSE UNCHANGED requestVars
    /\ UNCHANGED <<started, startedNow, closedStarted, catalog, hidden>>

\* setStatus, markStartedClosed and requestCatalog.
HandleClosed(n) ==
    LET t == n.thread IN
    /\ n.method = "closed"
    /\ SetStatus(t, NotLoaded)
    /\ closedStarted' = IF started[t] # Absent
                        THEN [closedStarted EXCEPT ![t] = fetchSeq]
                        ELSE closedStarted
    /\ changed' = (changed \/ Observes(t))
    /\ RequestCatalog
    /\ UNCHANGED <<started, startedNow, catalog, hidden>>

HandleHiddenStarted(n) ==
    /\ n.method = "started"
    /\ n.thread \in HiddenThreads
    /\ hidden' = hidden \cup {n.thread}
    /\ UNCHANGED <<started, startedNow, closedStarted, catalog, dirty, status,
                   activeTurnHints, requestVars, changed>>

\* addStarted, then requestCatalog.
HandleStarted(n) ==
    LET t == n.thread IN
    /\ n.method = "started"
    /\ t \notin HiddenThreads
    /\ IF (live \/ snapshotting) /\ catalog[t] = Absent
       THEN /\ started' = [started EXCEPT ![t] = n.name]
            /\ closedStarted' = [closedStarted EXCEPT ![t] = NotClosed]
            /\ startedNow' = IF snapshotting THEN startedNow \cup {t}
                             ELSE startedNow
            /\ SetStatus(t, n.status)
            /\ Kick
       ELSE UNCHANGED <<started, closedStarted, startedNow, dirty, status,
                        activeTurnHints, changed>>
    /\ RequestCatalog
    /\ UNCHANGED <<catalog, hidden>>

\* applyName, then requestCatalog.
HandleNameUpdated(n) ==
    LET t == n.thread
        Renamed(map) == IF map[t] = Absent THEN map
                        ELSE [map EXCEPT ![t] = n.name]
    IN
    /\ n.method = "name"
    /\ started' = Renamed(started)
    /\ catalog' = Renamed(catalog)
    /\ changed' = (changed \/ Visible(t))
    /\ RequestCatalog
    /\ UNCHANGED <<startedNow, closedStarted, hidden, dirty, status,
                   activeTurnHints>>

\* forgetStarted, forgetActiveTurn, requestCatalog.
HandleRemoved(n) ==
    LET t == n.thread IN
    /\ n.method \in {"archived", "deleted"}
    /\ started' = [started EXCEPT ![t] = Absent]
    /\ closedStarted' = [closedStarted EXCEPT ![t] = NotClosed]
    /\ activeTurnHints' = [activeTurnHints EXCEPT ![t] = NoTurn]
    /\ changed' = (changed \/ started[t] # Absent)
    /\ RequestCatalog
    /\ UNCHANGED <<startedNow, catalog, hidden, dirty, status>>

HandleUnarchived(n) ==
    /\ n.method = "unarchived"
    /\ RequestCatalog
    /\ UNCHANGED <<started, startedNow, closedStarted, catalog, hidden, dirty,
                   status, activeTurnHints, changed>>

HandleNotification ==
    /\ wire # <<>>
    /\ LET n == Head(wire) IN
        \/ HandleStatusChanged(n) \/ HandleClosed(n)
        \/ HandleHiddenStarted(n) \/ HandleStarted(n)
        \/ HandleNameUpdated(n) \/ HandleRemoved(n) \/ HandleUnarchived(n)
    /\ wire' = Tail(wire)
    /\ reply' = IF reply = NoReply \/ reply.after = 0 THEN reply
                ELSE [reply EXCEPT !.after = @ - 1]
    /\ UNCHANGED <<dStore, dStatus, dName, connected, events, pc, fetchSeq,
                   catalogSeq, linkVars, snap, lists, published, faults>>

-----------------------------------------------------------------------------
(***************************************************************************)
(* The run goroutine: run, connect, snapshot, installSnapshot and          *)
(* serveCatalog.  It has at most one request outstanding.                  *)
(***************************************************************************)
Received(kind) == reply.kind = kind /\ reply.after = 0

\* readySocket, dial and the handshake.  Notifications flow from here on.
Connect ==
    /\ pc = "backoff"
    /\ pc' = "dialed"
    /\ connected' = TRUE
    /\ UNCHANGED <<dStore, dStatus, dName, wire, reply, events, catalogVars,
                   startedNow, activeTurnHints, status, hidden, linkVars,
                   dirty, requestVars, changed, snap, lists, published,
                   faults>>

BeginSnapshot ==
    /\ pc = "dialed"
    /\ pc' = "listing"
    /\ snapshotting' = TRUE
    /\ dirty' = {} /\ startedNow' = {} /\ needCatalog' = FALSE
    /\ fetchSeq' = fetchSeq + 1
    /\ snap' = [EmptySnap EXCEPT !.seq = fetchSeq + 1]
    /\ UNCHANGED <<daemonVars, catalog, catalogSeq, started, closedStarted,
                   activeTurnHints, status, hidden, live, everLive, lastErr,
                   wake, changed, lists, published, faults>>

AnswerRequest ==
    /\ reply = NoReply
    /\ \/ pc \in {"listing", "resync"} /\ reply' = ListReply
       \/ pc = "loading" /\ reply' = LoadedReply
       \/ pc = "reading" /\ \E t \in snap.todo : reply' = ReadReply(t)
    /\ UNCHANGED <<dStore, dStatus, dName, wire, connected, events,
                   runtimeVars>>

\* The snapshot's local steps touch nothing the mutex guards.
SnapshotStep(next) ==
    /\ pc' = next
    /\ reply' = NoReply
    /\ UNCHANGED <<dStore, dStatus, dName, wire, connected, events,
                   catalogVars, startedNow, activeTurnHints, status, hidden,
                   linkVars, dirty, requestVars, changed, lists, published,
                   faults>>

SnapshotListed ==
    /\ pc = "listing" /\ Received("list")
    /\ snap' = [snap EXCEPT !.threads = reply.names]
    /\ SnapshotStep("loading")

AfterReads(todo) == IF todo = {} THEN "install" ELSE "reading"

SnapshotLoaded ==
    /\ pc = "loading" /\ Received("loaded")
    /\ snap' = [snap EXCEPT !.todo = reply.ids]
    /\ SnapshotStep(AfterReads(reply.ids))

SnapshotRead ==
    /\ pc = "reading" /\ Received("read")
    /\ LET t == reply.id
           present == t \notin HiddenThreads /\ reply.status # NotLoaded
       IN snap' = [snap EXCEPT
            !.todo = @ \ {t},
            !.hidden = IF t \in HiddenThreads THEN @ \cup {t} ELSE @,
            !.status[t] = IF present THEN reply.status ELSE NotLoaded,
            !.loaded[t] = IF present THEN reply.name ELSE Absent]
    /\ SnapshotStep(AfterReads(snap.todo \ {reply.id}))

\* installSnapshot found dirty threads: they are read again.
RereadDirty ==
    /\ pc = "install" /\ dirty # {} /\ snap.round < MaxRounds
    /\ snap' = [snap EXCEPT !.todo = dirty, !.round = @ + 1]
    /\ dirty' = {}
    /\ pc' = "reading"
    /\ UNCHANGED <<daemonVars, catalogVars, startedNow, activeTurnHints,
                   status, hidden, linkVars, requestVars, changed, lists,
                   published, faults>>

\* The threads a finished snapshot leaves live-started.
SnapshotStarted(known) ==
    [t \in Threads |->
        IF snap.loaded[t] # Absent /\ t \notin known THEN snap.loaded[t]
        ELSE IF t \in startedNow THEN started[t]
        ELSE Absent]

InstallSnapshot ==
    /\ pc = "install" /\ dirty = {}
    /\ LET known == hidden \cup snap.hidden IN
        /\ InstallCatalog(snap.seq, snap.threads, SnapshotStarted(known),
                          NoneClosed, known)
        /\ status' = [t \in Threads |->
                        IF t \in hidden' THEN NotLoaded ELSE snap.status[t]]
    /\ startedNow' = {}
    /\ snapshotting' = FALSE
    /\ live' = TRUE /\ everLive' = TRUE /\ lastErr' = "none"
    /\ Kick
    /\ pc' = "serve"
    /\ snap' = EmptySnap
    /\ UNCHANGED <<daemonVars, fetchSeq, activeTurnHints, dirty, requestVars,
                   lists, published, faults>>

\* serveCatalog: take the request for a re-read, or wait for one.
ServeRequest ==
    /\ pc = "serve"
    /\ pc' = IF needCatalog THEN "gap" ELSE "waiting"
    /\ needCatalog' = FALSE
    /\ UNCHANGED <<daemonVars, catalogVars, startedNow, activeTurnHints,
                   status, hidden, linkVars, dirty, wake, changed, snap,
                   lists, published, faults>>

AwaitWake ==
    /\ pc = "waiting" /\ wake
    /\ wake' = FALSE
    /\ pc' = "serve"
    /\ UNCHANGED <<daemonVars, catalogVars, startedNow, activeTurnHints,
                   status, hidden, linkVars, dirty, needCatalog, changed,
                   snap, lists, published, faults>>

\* catalogGap is over.
BeginResync ==
    /\ pc = "gap"
    /\ pc' = "resync"
    /\ fetchSeq' = fetchSeq + 1
    /\ snap' = [EmptySnap EXCEPT !.seq = fetchSeq + 1]
    /\ UNCHANGED <<daemonVars, catalog, catalogSeq, started, closedStarted,
                   startedNow, activeTurnHints, status, hidden, linkVars,
                   dirty, requestVars, changed, lists, published, faults>>

InstallResync ==
    /\ pc = "resync" /\ Received("list")
    /\ InstallCatalog(snap.seq, reply.names, started, closedStarted, hidden)
    /\ status' = StatusKept(snap.seq, reply.names)
    /\ changed' = (changed \/ snap.seq > catalogSeq)
    /\ pc' = "serve"
    /\ reply' = NoReply
    /\ snap' = EmptySnap
    /\ UNCHANGED <<dStore, dStatus, dName, wire, connected, events, fetchSeq,
                   startedNow, activeTurnHints, linkVars, dirty, requestVars,
                   lists, published, faults>>

-----------------------------------------------------------------------------
(***************************************************************************)
(* A connection attempt or a connection ends: disconnected(err).           *)
(***************************************************************************)
Disconnected(err) ==
    /\ changed' = (changed \/ live \/ lastErr # err)
    /\ live' = FALSE /\ snapshotting' = FALSE
    /\ dirty' = {} /\ status' = AllNotLoaded /\ activeTurnHints' = NoHints
    /\ lastErr' = err
    /\ connected' = FALSE /\ wire' = <<>> /\ reply' = NoReply
    /\ snap' = EmptySnap
    /\ UNCHANGED <<dStore, dStatus, dName, events, catalogVars, startedNow,
                   hidden, everLive, requestVars, lists, published>>

\* The daemon is unavailable, or the connection is lost at any point.
ConnectFails ==
    /\ pc = "backoff" /\ faults < MaxFaults
    /\ \E err \in {"endpoint", "connection"} : Disconnected(err)
    /\ faults' = faults + 1
    /\ UNCHANGED pc

ConnectionLost ==
    /\ connected /\ faults < MaxFaults
    /\ Disconnected("connection")
    /\ faults' = faults + 1
    /\ pc' = "backoff"

\* A thread cannot be read, or its status kept changing.
SnapshotFails ==
    /\ \/ pc = "reading" /\ Received("error")
       \/ pc = "install" /\ dirty # {} /\ snap.round >= MaxRounds
    /\ Disconnected("connection")
    /\ pc' = "backoff"
    /\ UNCHANGED faults

\* observeLoop starts the lifecycle: startLifecycle, then run.
StartLifecycle ==
    /\ pc = "stopped"
    /\ pc' = "backoff"
    /\ live' = FALSE /\ everLive' = FALSE /\ lastErr' = "none"
    /\ status' = AllNotLoaded /\ activeTurnHints' = NoHints
    /\ started' = AllAbsent /\ closedStarted' = NoneClosed
    /\ UNCHANGED <<daemonVars, fetchSeq, catalog, catalogSeq, startedNow,
                   hidden, snapshotting, dirty, requestVars, changed, snap,
                   lists, published, faults>>

\* The last subscriber left: the lifecycle's context ends.
StopLifecycle ==
    /\ pc # "stopped" /\ faults < MaxFaults
    /\ Disconnected("connection")
    /\ faults' = faults + 1
    /\ pc' = "stopped"

\* observeLoop publishes on every change, once the runtime has authority.
Publish ==
    /\ pc # "stopped" /\ changed
    /\ changed' = FALSE
    /\ published' = IF everLive THEN RowsUpdate
                    ELSE IF lastErr = "endpoint" THEN EndpointError
                    ELSE published
    /\ UNCHANGED <<daemonVars, pc, catalogVars, startedNow, activeTurnHints,
                   status, hidden, linkVars, dirty, requestVars, snap, lists,
                   faults>>

-----------------------------------------------------------------------------
(***************************************************************************)
(* Provider.List(archived = false) on its own short-lived app-server, and  *)
(* the turn hints of Dispatch and Stop.                                    *)
(***************************************************************************)
ListUnchanged ==
    UNCHANGED <<daemonVars, pc, startedNow, activeTurnHints, linkVars, dirty,
                requestVars, snap, published, faults>>

BeginList(c) ==
    /\ lists[c].pc = "idle"
    /\ fetchSeq' = fetchSeq + 1
    /\ lists' = [lists EXCEPT ![c].pc = "asked", ![c].seq = fetchSeq + 1]
    /\ UNCHANGED <<catalog, catalogSeq, started, closedStarted, status,
                   hidden, changed>>
    /\ ListUnchanged

AnswerList(c) ==
    /\ lists[c].pc = "asked"
    /\ lists' = [lists EXCEPT ![c].pc = "answered",
                              ![c].threads = NativeCatalog]
    /\ UNCHANGED <<catalogVars, status, hidden, changed>>
    /\ ListUnchanged

FailList(c) ==
    /\ lists[c].pc = "asked"
    /\ lists' = [lists EXCEPT ![c].pc = "done"]
    /\ UNCHANGED <<catalogVars, status, hidden, changed>>
    /\ ListUnchanged

\* syncObservedCatalog.
InstallList(c) ==
    LET call == lists[c] IN
    /\ call.pc = "answered"
    /\ InstallCatalog(call.seq, call.threads, started, closedStarted, hidden)
    /\ status' = StatusKept(call.seq, call.threads)
    /\ Kick
    /\ lists' = [lists EXCEPT ![c].pc = "done", ![c].threads = AllAbsent]
    /\ UNCHANGED fetchSeq
    /\ ListUnchanged

HintsOnly ==
    UNCHANGED <<daemonVars, pc, catalogVars, startedNow, status, hidden,
                linkVars, dirty, requestVars, changed, snap, lists,
                published, faults>>

RememberActiveTurn(t, turn) ==
    /\ activeTurnHints' = [activeTurnHints EXCEPT ![t] = turn]
    /\ HintsOnly

\* expected is NoTurn for an unconditional forget.
ForgetActiveTurn(t, expected) ==
    /\ expected = NoTurn \/ activeTurnHints[t] = expected
    /\ activeTurnHints' = [activeTurnHints EXCEPT ![t] = NoTurn]
    /\ HintsOnly

-----------------------------------------------------------------------------
RunStep ==
    \/ Connect \/ BeginSnapshot \/ SnapshotListed \/ SnapshotLoaded
    \/ SnapshotRead \/ RereadDirty \/ InstallSnapshot \/ SnapshotFails
    \/ ServeRequest \/ AwaitWake \/ BeginResync \/ InstallResync

ListStep(c) == BeginList(c) \/ AnswerList(c) \/ FailList(c) \/ InstallList(c)

HintStep ==
    \E t \in Threads :
        \/ \E turn \in Turns : RememberActiveTurn(t, turn)
        \/ \E turn \in Turns \cup {NoTurn} : ForgetActiveTurn(t, turn)

Init == DaemonInit /\ RuntimeInit

Next ==
    \/ DaemonEvent /\ UNCHANGED runtimeVars
    \/ HandleNotification
    \/ AnswerRequest
    \/ RunStep
    \/ ConnectFails \/ ConnectionLost
    \/ StartLifecycle \/ StopLifecycle
    \/ Publish
    \/ \E c \in ListCalls : ListStep(c)
    \/ HintStep

Spec == Init /\ [][Next]_vars

(***************************************************************************)
(* The goroutines keep running, the daemon answers and delivers, and an    *)
(* observed runtime is started; nothing forces a daemon event, a fault, a  *)
(* stop or a List.                                                         *)
(***************************************************************************)
Fairness ==
    /\ WF_vars(HandleNotification)
    /\ WF_vars(AnswerRequest)
    /\ WF_vars(RunStep)
    /\ WF_vars(StartLifecycle)
    /\ WF_vars(Publish)
    /\ \A c \in ListCalls : WF_vars(AnswerList(c) \/ InstallList(c))

FairSpec == Spec /\ Fairness

-----------------------------------------------------------------------------
(***************************************************************************)
(* Properties.                                                             *)
(***************************************************************************)

\* Only a live connection vouches for a status (disconnected and
\* startLifecycle drop every one, and no late notification, catalog or List
\* brings one back), and only a running snapshot has threads to read again.
StatusNeedsLive ==
    /\ \A t \in Threads : status[t] # NotLoaded => live
    /\ dirty # {} => snapshotting /\ ~live

\* visibleCatalogLocked: a thread is in at most one of the live-started
\* threads and the durable catalog, so it is one row.
OneRowPerThread ==
    \A t \in Threads : started[t] = Absent \/ catalog[t] = Absent

\* The runtime leaves it in one way only, whatever notifications, Lists and
\* lost connections come between: installSnapshot keeps the threads it read
\* live-started although a List overtook its catalog.  The next catalog that
\* is installed, by anyone, ends it.
TwoRowsOnlyByOvertaking ==
    [][~OneRowPerThread' =>
          \/ ~OneRowPerThread /\ catalogSeq' = catalogSeq
          \/ /\ pc = "install" /\ pc' = "serve"
             /\ snap.seq <= catalogSeq /\ UNCHANGED catalog]_vars

\* No internal thread is ever a row, whichever of the three sources
\* (notification, snapshot, catalog) mentioned it.
HiddenNeverVisible ==
    \A t \in HiddenThreads : ~Visible(t)

\* Every change a consumer can see is signalled: while no signal is pending,
\* the newest update handed out is what the runtime now holds.
PublishedIsCurrent ==
    pc # "stopped" /\ ~changed =>
        /\ everLive => published = RowsUpdate
        /\ ~everLive /\ lastErr = "endpoint" => published = EndpointError

\* With every notification handled, a live runtime shows the status the
\* daemon has, although its snapshot read each thread while notifications
\* kept arriving.
StatusIsCurrent ==
    live /\ wire = <<>> =>
        \A t \in Threads :
            /\ Visible(t)
            /\ dStore[t] \in {"unsaved", "listed"}
            => status[t] = dStatus[t]

\* The same beside concurrent Lists and unarchives, which may lose a status
\* (addStarted, StatusKept) or leave that of a torn-down thread behind: with
\* every notification handled, a loaded thread has the daemon's or none.
NoWrongStatus ==
    live /\ wire = <<>> =>
        \A t \in Loaded \ HiddenThreads : status[t] \in {dStatus[t], NotLoaded}

\* Nothing is left to handle or to fetch.
Quiescent ==
    /\ live /\ wire = <<>>
    /\ pc \in {"serve", "waiting"} /\ ~needCatalog
    /\ \A c \in ListCalls : lists[c].pc \in {"idle", "done"}

\* The rows of the daemon's own threads.
DaemonRows ==
    {[thread |-> t, name |-> dName[t], status |-> dStatus[t]] :
        t \in {u \in Threads \ HiddenThreads :
                u \in Loaded \/ dStore[u] = "listed"}}

Removed(t) == dStore[t] \in {"archived", "deleted"}

RowsAgree ==
    /\ DaemonRows \subseteq Rows
    /\ \A row \in Rows \ DaemonRows : Removed(row.thread)

\* At rest, every thread of the daemon is shown under its current name and
\* status, and no thread lingers that was closed before it was persisted.
QuiescentRows == Quiescent => RowsAgree

\* A thread the daemon has persisted or still has loaded does not blink:
\* while the connection is up, no catalog, however late, takes it off.
NoFlicker ==
    [][\A t \in Threads :
        /\ Visible(t) /\ live /\ live'
        /\ dStore[t] \in {"unsaved", "listed"}
        => Visible(t)']_vars

\* Once the daemon and the connection settle, the subscribers are shown the
\* daemon's rows for good, after whatever reconnects that takes.
Converges ==
    <>[](pc = "stopped" \/ (published = RowsUpdate /\ RowsAgree))

=============================================================================
