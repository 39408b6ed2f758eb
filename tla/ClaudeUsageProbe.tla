-------------------------- MODULE ClaudeUsageProbe --------------------------
(***************************************************************************)
(* The Claude usage probe: every agentsctl process on the machine (Agents) *)
(* learns the account's usage by running one short interactive claude      *)
(* session, addressed by a machine-global probe session ID, whose status   *)
(* line runs a collector process that writes usage.json.  Callers of       *)
(* Probe.Usage in one process share a refresh; processes take turns under  *)
(* refresh.lock; the identity in probe.json is rotated when Claude rejects *)
(* it.  Claude's session catalog keeps a row for every ID ever addressed,  *)
(* and Provider.List hides the rows the identity owns.                     *)
(***************************************************************************)
EXTENDS Integers, FiniteSets

CONSTANTS Agents,       \* agentsctl processes that share the probe directory
          Callers,      \* calls of Probe.Usage, numbered in the order a process makes them
          AgentOf,      \* the process a caller belongs to
          NoAgent,      \* the owner of a free lock or of an orphan
          TTL,          \* usageProbeTTL, in clock ticks
          Period,       \* length of the five-hour window, in clock ticks
          Limits,       \* the sets of windows a limit message may name
          MaxTime,      \* bound: the clock stops here
          MaxSpawn,     \* bound: claude processes ever started
          Mortal,       \* bound: processes that may be killed,
          MaxCrashes    \* and how often

ASSUME ProbeAssumption ==
    /\ NoAgent \notin Agents
    /\ Callers \subseteq Nat /\ AgentOf \in [Callers -> Agents]
    /\ Limits \subseteq (SUBSET {"five", "week"}) \ {{}}
    /\ TTL \in Nat \ {0} /\ Period \in Nat \ {0}
    /\ MaxTime \in Nat /\ MaxSpawn \in Nat /\ Mortal \subseteq Agents /\ MaxCrashes \in Nat

VARIABLES now,        \* wall clock
          identity,   \* probe.json
          usage,      \* usage.json
          lock,       \* owner of refresh.lock
          mem,        \* per process: snapshot, snapshotAt (hasSnapshot: the set is not empty)
          flight,     \* per process: refreshCh is not nil
          pc, ref,    \* per caller: where it is, and the locals of its Refresh
          out,        \* the fresh result of a call of Usage, in the step that returned it
          child,      \* claude processes, numbered in the order they started
          addressed,  \* session IDs claude was ever started with: its catalog rows
          crashes

vars == <<now, identity, usage, lock, mem, flight, pc, ref, out, child,
          addressed, crashes>>
disk == <<identity, usage>>

----------------------------------------------------------------------------
(* Windows and snapshots.  A reset of 0 is Go's zero time: none is known.  *)
Windows  == {"five", "week"}
Unknown  == [state |-> "unknown", reset |-> 0]
Window   == [state : {"unknown", "available", "exhausted"}, reset : 0..(MaxTime + Period)]
Snapshot == [at : 0..MaxTime, answered : BOOLEAN, w : [Windows -> Window]]

MutStaleAtTheTTL(t) == now - t <= TTL

SnapshotFresh(t) == now - t < TTL

(* A status line before any response has no rate_limits at all; after it    *)
(* both windows are available, the five-hour one with the current reset.   *)
Reading(answered) ==
    [w \in Windows |->
        IF ~answered THEN Unknown
        ELSE [state |-> "available",
              reset |-> IF w = "five" THEN ((now \div Period) + 1) * Period ELSE 0]]

ParseStatusLine(answered) == [at |-> now, answered |-> answered, w |-> Reading(answered)]

ExhaustedWindow(prev) ==
    [state |-> "exhausted", reset |-> IF prev.state = "unknown" THEN 0 ELSE prev.reset]

MutLimitForgotten(limit, prev) == [at |-> now, answered |-> TRUE, w |-> prev]

Exhausted(limit, prev) ==
    [at |-> now, answered |-> TRUE,
     w  |-> [w \in Windows |-> IF w \in limit THEN ExhaustedWindow(prev[w]) ELSE prev[w]]]

(* session.UsageWindow.At: a reading ends with the period it belongs to.    *)
At(win, t) ==
    IF win.state # "unknown" /\ win.reset # 0 /\ t >= win.reset THEN Unknown ELSE win

ToSessionUsage(snap, t) == [w \in Windows |-> At(snap.w[w], t)]

----------------------------------------------------------------------------
(* The probe's identity.                                                    *)
NewIdentity(id) == [cur |-> id, trusted |-> FALSE, retired |-> {}]
Owned == UNION {{i.cur} \cup i.retired : i \in identity}     \* AllSessionIDs
FreshID == Cardinality(Owned \cup addressed) + 1             \* newUUIDv4

LoadOrCreate == IF identity = {} THEN {NewIdentity(FreshID)} ELSE identity

MarkTrustAccepted == {[i EXCEPT !.trusted = TRUE] : i \in identity}

MutRotateForgets(rejected) ==
    {IF i.cur # rejected THEN i ELSE [i EXCEPT !.cur = FreshID] : i \in identity}

Rotate(rejected) ==
    {IF i.cur # rejected THEN i
     ELSE [cur |-> FreshID, trusted |-> i.trusted, retired |-> i.retired \cup {i.cur}]
        : i \in identity}

----------------------------------------------------------------------------
NoOut   == [how |-> "none"]
NoRef   == [n |-> 0]
Child0  == [st |-> "none"]
Started(id) == [st |-> "live", id |-> id, prompted |-> FALSE, answered |-> FALSE,
                text |-> {}]
Gone    == [st |-> "gone"]
NoWindows == [w \in Windows |-> Unknown]

Init ==
    /\ now = 0 /\ crashes = 0
    /\ identity = {} /\ usage = {} /\ lock = NoAgent
    /\ mem = [a \in Agents |-> {}]
    /\ flight = [a \in Agents |-> FALSE]
    /\ pc = [c \in Callers |-> "idle"]
    /\ ref = [c \in Callers |-> NoRef]
    /\ out = NoOut
    /\ child = [n \in 1..MaxSpawn |-> Child0]
    /\ addressed = {}

Goto(c, l) == pc' = [pc EXCEPT ![c] = l]

Silent == out' = NoOut

CachedFresh(a) == {m \in mem[a] : SnapshotFresh(m.at)}

Result(c, snap, t) ==
    [how |-> "fresh", at |-> snap.at, w |-> ToSessionUsage(snap, t), limit |-> IF ref[c].n = 0 THEN {} ELSE ref[c].limit]

Returns(c, snap, t) == out' = Result(c, snap, t) /\ Goto(c, "done")

(* Usage, up to the first look at the cache: usage.json is read only while *)
(* nothing is in memory.                                                    *)
Usage(c) ==
    LET a == AgentOf[c]
        loaded == IF mem[a] # {} THEN mem[a] ELSE {[snap |-> s, at |-> s.at] : s \in usage}
    IN  /\ pc[c] = "idle" /\ \A d \in Callers : d < c /\ AgentOf[d] = a => pc[d] # "idle"
        /\ mem' = [mem EXCEPT ![a] = loaded]
        /\ \/ \E m \in loaded : SnapshotFresh(m.at) /\ Returns(c, m.snap, now) /\ UNCHANGED ref
           \/ /\ \A m \in loaded : ~SnapshotFresh(m.at)
              /\ Goto(c, "joining")
              /\ ref' = [ref EXCEPT ![c] = [n |-> 0, t |-> now]]
              /\ Silent
        /\ UNCHANGED <<now, disk, lock, flight, child, addressed, crashes>>

MutEveryCallerLeads(c) ==
    /\ pc[c] = "joining"
    /\ Goto(c, "locking")
    /\ flight' = [flight EXCEPT ![AgentOf[c]] = TRUE]
    /\ ref' = [ref EXCEPT ![c] =
           [n |-> 0, t |-> @.t, retried |-> FALSE, sentAt |-> 0, id |-> 0,
            trusted |-> FALSE, limit |-> {}, val |-> {}, prev |-> NoWindows]]
    /\ UNCHANGED <<now, disk, lock, mem, child, addressed, crashes>> /\ Silent

(* refreshShared: wait for the refresh in flight, or lead a new one.        *)
RefreshShared(c) ==
    LET a == AgentOf[c] IN
    /\ pc[c] = "joining"
    /\ IF flight[a]
       THEN Goto(c, "waiting") /\ UNCHANGED <<flight, ref>>
       ELSE /\ Goto(c, "locking")
            /\ flight' = [flight EXCEPT ![a] = TRUE]
            /\ ref' = [ref EXCEPT ![c] =
                   [n |-> 0, t |-> @.t, retried |-> FALSE, sentAt |-> 0, id |-> 0,
                    trusted |-> FALSE, limit |-> {}, val |-> {},
                    prev |-> IF mem[a] = {} THEN NoWindows
                             ELSE (CHOOSE m \in mem[a] : TRUE).snap.w]]
    /\ UNCHANGED <<now, disk, lock, mem, child, addressed, crashes>> /\ Silent

(* Usage after a failed refresh: any snapshot still in memory, else an      *)
(* error; neither is a fresh result.                                        *)
FallBack(c) == Silent /\ Goto(c, "done")

(* A waiter wakes when the channel is closed, and uses only a fresh result. *)
Waiter(c) ==
    LET a == AgentOf[c] IN
    /\ pc[c] = "woken"
    /\ IF CachedFresh(a) # {}
       THEN \E m \in CachedFresh(a) : Returns(c, m.snap, ref[c].t)
       ELSE FallBack(c)
    /\ ref' = [ref EXCEPT ![c] = NoRef]
    /\ UNCHANGED <<now, disk, lock, mem, flight, child, addressed, crashes>>

(* ctx ends while the caller waits for the channel or polls for the lock.   *)
ContextEnds(c) ==
    /\ \/ pc[c] = "waiting" /\ FallBack(c) /\ ref' = [ref EXCEPT ![c] = NoRef]
       \/ pc[c] = "locking" /\ Goto(c, "finishing") /\ UNCHANGED ref /\ Silent
    /\ UNCHANGED <<now, disk, lock, mem, flight, child, addressed, crashes>>

----------------------------------------------------------------------------
(* The leader's Refresh, under refresh.lock.                                *)
Spawned == Cardinality({n \in 1..MaxSpawn : child[n].st # "none"})

(* Run, up to the settle delay: settings are written, claude is started.    *)
StartAttempt(c, ident, retry) ==
    LET n == Spawned + 1 IN
    /\ n <= MaxSpawn
    /\ child' = [child EXCEPT ![n] = Started(ident.cur)]
    /\ addressed' = addressed \cup {ident.cur}
    /\ ref' = [ref EXCEPT ![c].n = n, ![c].id = ident.cur, ![c].trusted = ident.trusted,
                          ![c].retried = retry]
    /\ Goto(c, "settling")

(* Refresh returns: what only its own steps read is gone with its frame.    *)
Leaves(c) ==
    /\ Goto(c, "finishing")
    /\ ref' = [ref EXCEPT ![c].id = 0, ![c].trusted = FALSE, ![c].retried = FALSE,
                          ![c].sentAt = 0, ![c].prev = NoWindows]

MutFailKeepsLock(c) == Leaves(c) /\ UNCHANGED lock

(* Every failure unlocks and reports the error to refreshShared; the claude *)
(* process it leaves behind is only told by the closing of its terminal.    *)
Fail(c) == Leaves(c) /\ lock' = NoAgent

TakeLock(c) ==
    /\ pc[c] = "locking" /\ lock = NoAgent
    /\ LET reusable == {s \in usage : SnapshotFresh(s.at)} IN
       IF reusable # {}
       THEN /\ Goto(c, "finishing")
            /\ ref' = [ref EXCEPT ![c].val = reusable]
            /\ UNCHANGED <<lock, identity, child, addressed>>
       ELSE \/ /\ lock' = AgentOf[c]
               /\ identity' = LoadOrCreate
               /\ \E i \in LoadOrCreate : StartAttempt(c, i, FALSE)
            \/ /\ identity' \in {identity, LoadOrCreate}
               /\ Fail(c)                              \* nothing was started
               /\ UNCHANGED <<child, addressed>>
    /\ UNCHANGED <<now, usage, mem, flight, crashes>> /\ Silent

Mine(c) == child[ref[c].n]
Rejected(c) == "conflict" \in Mine(c).text

Conflict(c) ==
    IF ref[c].retried THEN Fail(c) ELSE Goto(c, "rotating") /\ UNCHANGED <<lock, ref>>

(* After the settle delay (whose end by ctx is a failure of the next step): *)
(* the conflict check, then the trust dialog unless it was accepted before. *)
Settled(c) ==
    /\ pc[c] = "settling"
    /\ IF Rejected(c) THEN Conflict(c)
       ELSE Goto(c, IF ref[c].trusted THEN "sending" ELSE "trusting") /\ UNCHANGED <<lock, ref>>
    /\ UNCHANGED <<now, disk, mem, flight, child, addressed, crashes>> /\ Silent

Refuses(c) == Mine(c).st = "dead" /\ Rejected(c)

(* Its keys, and MarkTrustAccepted on the identity that is persisted by     *)
(* then.  A write error is a conflict if the output says so.                *)
PersistTrust(c) ==
    /\ pc[c] = "trusting"
    /\ \/ identity' = MarkTrustAccepted /\ Goto(c, "sending") /\ UNCHANGED <<lock, ref>>
       \/ Refuses(c) /\ Conflict(c) /\ UNCHANGED identity
       \/ Fail(c) /\ UNCHANGED identity
    /\ UNCHANGED <<now, usage, mem, flight, child, addressed, crashes>> /\ Silent

(* The prompt; a write error is a conflict here too.  The trust it was sent *)
(* under is not looked at again.                                            *)
SendPrompt(c) ==
    /\ pc[c] = "sending"
    /\ \/ /\ IF Refuses(c) THEN Conflict(c) ELSE Fail(c)
          /\ UNCHANGED child
       \/ /\ Goto(c, "polling")
          /\ ref' = [ref EXCEPT ![c].sentAt = now, ![c].trusted = FALSE]
          /\ child' = [child EXCEPT ![ref[c].n].prompted = TRUE]
          /\ UNCHANGED lock
    /\ UNCHANGED <<now, disk, mem, flight, addressed, crashes>> /\ Silent

Answer(c) == {s \in usage : s.at > ref[c].sentAt /\ s.answered}

(* waitForProbeOutcome: an answered snapshot newer than the prompt, else a  *)
(* limit message, else the timeout (or ctx); then detach ends the process.  *)
Poll(c) ==
    LET answer == Answer(c)
        limit  == Mine(c).text \cap Windows
    IN  /\ pc[c] = "polling"
        /\ \/ answer # {} /\ ref' = [ref EXCEPT ![c].val = answer] /\ Goto(c, "saving") /\ UNCHANGED lock
           \/ /\ answer = {} /\ limit # {}
              /\ ref' = [ref EXCEPT ![c].val = {Exhausted(limit, ref[c].prev)}, ![c].limit = limit]
              /\ Goto(c, "saving") /\ UNCHANGED lock
           \/ answer = {} /\ limit = {} /\ Fail(c)
        /\ child' = [child EXCEPT ![ref[c].n] = Gone]
        /\ UNCHANGED <<now, disk, mem, flight, addressed, crashes>> /\ Silent

(* Save, whose failure is not the refresh's, and the unlock.                *)
SaveSnapshot(c) ==
    /\ pc[c] = "saving"
    /\ usage' \in {ref[c].val, usage}
    /\ Leaves(c) /\ lock' = NoAgent
    /\ UNCHANGED <<now, identity, mem, flight, child, addressed, crashes>> /\ Silent

(* One rotation and one more attempt, with the identity Rotate returns; the *)
(* rotation may fail, or be persisted and the attempt not get started.      *)
Recover(c) ==
    /\ pc[c] = "rotating"
    /\ \/ /\ identity' = Rotate(ref[c].id)
          /\ \E i \in identity' : StartAttempt(c, i, TRUE)
          /\ UNCHANGED lock
       \/ /\ identity' \in {identity, Rotate(ref[c].id)}
          /\ Fail(c)
          /\ UNCHANGED <<child, addressed>>
    /\ UNCHANGED <<now, usage, mem, flight, crashes>> /\ Silent

(* refreshShared's end: install a success, stamped with the clock, forget   *)
(* the channel, wake the waiters; then Usage returns.                       *)
Finish(c) ==
    LET a == AgentOf[c]
        installed == {[snap |-> s, at |-> now] : s \in ref[c].val}
    IN  /\ pc[c] = "finishing"
        /\ flight' = [flight EXCEPT ![a] = FALSE]
        /\ mem' = [mem EXCEPT ![a] = IF installed # {} THEN installed ELSE @]
        /\ pc' = [d \in Callers |->
                    IF d = c THEN "done"
                    ELSE IF pc[d] = "waiting" /\ AgentOf[d] = a THEN "woken" ELSE pc[d]]
        /\ out' = IF installed = {} THEN NoOut
                  ELSE LET m == CHOOSE m \in installed : TRUE IN Result(c, m.snap, ref[c].t)
        /\ ref' = [ref EXCEPT ![c] = NoRef]
        /\ UNCHANGED <<now, disk, lock, child, addressed, crashes>>

----------------------------------------------------------------------------
(* claude, its status line's collector, the clock, crashes                  *)
Speak(n, text) ==
    child' = [child EXCEPT ![n].text = @ \cup text,
                           ![n].st = IF "conflict" \in text THEN "dead" ELSE @]

(* The environment acts while some call is still to be made or answered.    *)
Outstanding == \E c \in Callers : pc[c] # "done"

(* A session whose leader has left it may still answer and run its          *)
(* collector, until it dies of its terminal's end; nobody reads its output.  *)
Watched(n) == \E c \in Callers : ref[c].n = n

Claude(n) ==
    /\ Outstanding /\ child[n].st = "live"
    /\ \/ /\ Watched(n)
          /\ \/ ~child[n].prompted /\ Speak(n, {"conflict"})
             \/ child[n].prompted /\ ~child[n].answered /\ \E limit \in Limits : Speak(n, limit)
       \/ /\ child[n].prompted /\ ~child[n].answered /\ child[n].text = {}
          /\ child' = [child EXCEPT ![n].answered = TRUE]
       \/ ~Watched(n) /\ child' = [child EXCEPT ![n] = Gone]
    /\ UNCHANGED <<now, disk, lock, mem, flight, pc, ref, addressed, crashes>> /\ Silent

(* RunUsageCollector, at each of the status line's own ticks.               *)
Collector(n) ==
    /\ Outstanding /\ child[n].st = "live"
    /\ usage' = {ParseStatusLine(child[n].answered)}
    /\ UNCHANGED <<now, identity, lock, mem, flight, pc, ref, child, addressed, crashes>> /\ Silent

(* A tick is more than a minute: none passes between two steps that follow  *)
(* each other without a wait, or after a settle delay of a few seconds.     *)
Urgent(c) ==
    \/ pc[c] \in {"joining", "woken", "settling", "trusting", "sending", "saving", "rotating", "finishing"}
    \/ pc[c] = "polling" /\ Answer(c) # {}

Tick ==
    /\ Outstanding /\ \A c \in Callers : ~Urgent(c)
    /\ now < MaxTime /\ now' = now + 1
    /\ UNCHANGED <<disk, lock, mem, flight, pc, ref, child, addressed, crashes>> /\ Silent

(* A process dies in the middle of a refresh: its memory and its calls are  *)
(* gone, the kernel releases its lock, its claude process is an orphan.     *)
Crash(a) ==
    /\ crashes < MaxCrashes
    /\ lock = a
    /\ crashes' = crashes + 1
    /\ lock' = IF lock = a THEN NoAgent ELSE lock
    /\ mem' = [mem EXCEPT ![a] = {}]
    /\ flight' = [flight EXCEPT ![a] = FALSE]
    /\ LET mine == {c \in Callers : AgentOf[c] = a /\ pc[c] \notin {"idle", "done"}} IN
       /\ pc'  = [c \in Callers |-> IF c \in mine THEN "done" ELSE pc[c]]
       /\ ref' = [c \in Callers |-> IF c \in mine THEN NoRef ELSE ref[c]]
    /\ UNCHANGED <<now, disk, child, addressed>> /\ Silent

CallerStep(c) ==
    \/ Usage(c) \/ RefreshShared(c) \/ Waiter(c) \/ TakeLock(c) \/ Settled(c)
    \/ PersistTrust(c) \/ SendPrompt(c) \/ Poll(c) \/ SaveSnapshot(c) \/ Recover(c) \/ Finish(c)

Next ==
    \/ \E c \in Callers : CallerStep(c) \/ ContextEnds(c)
    \/ \E n \in 1..MaxSpawn : Claude(n) \/ Collector(n)
    \/ \E a \in Mortal : Crash(a)
    \/ Tick

(* The Go scheduler runs some started call that can move; every wait of a   *)
(* leader has a timeout.  Nothing is assumed of claude, of contexts, of new *)
(* calls, or of which call moves.                                           *)
Spec == Init /\ [][Next]_vars /\ WF_vars(\E c \in Callers : pc[c] # "idle" /\ CallerStep(c))

----------------------------------------------------------------------------
(* Types of the variables.                                                  *)
TypeOK ==
    /\ now \in 0..MaxTime /\ crashes \in 0..MaxCrashes
    /\ usage \subseteq Snapshot /\ Cardinality(usage) <= 1
    /\ Cardinality(identity) <= 1
    /\ \A i \in identity : i.cur \in 1..MaxSpawn + 1 /\ i.trusted \in BOOLEAN /\ i.retired \subseteq 1..MaxSpawn
    /\ lock \in Agents \cup {NoAgent}
    /\ flight \in [Agents -> BOOLEAN]
    /\ \A a \in Agents : mem[a] \subseteq [snap : Snapshot, at : 0..MaxTime]
    /\ pc \in [Callers -> {"idle", "joining", "waiting", "woken", "locking", "settling", "trusting",
                           "sending", "polling", "saving", "rotating", "finishing", "done"}]
    /\ addressed \subseteq 1..MaxSpawn + 1

(* Machine-wide, at most one caller is running a probe session, and its     *)
(* process holds refresh.lock and has a channel for the callers that wait:  *)
(* neither a second caller, a second process nor a crash starts another.    *)
OneProbe ==
    LET running == {c \in Callers : pc[c] \in {"settling", "trusting", "sending", "polling", "saving", "rotating"}}
    IN  /\ Cardinality(running) <= 1
        /\ \A c \in running : lock = AgentOf[c] /\ flight[AgentOf[c]]

(* Claude's catalog has a row for every ID it was ever started with, and    *)
(* each of them is in KnownSessionIDs: no probe row, current or rotated     *)
(* away, is listed among the user's sessions, at whatever moment List reads *)
(* the identity after the catalog and can read it (if not, it hides none).  *)
ProbeRowsHidden == addressed \subseteq Owned

(* A result that is not a fallback was observed less than two TTLs ago:     *)
(* another process's snapshot is reused within its TTL, and is then served  *)
(* from memory for one more; each time, at most TTL - 1 ticks pass.         *)
FreshIsBounded ==
    out.how = "fresh" => now - out.at <= 2 * (TTL - 1)

(* A limit that a refresh has just detected is what its call of Usage       *)
(* reports, for each window Claude named; only one whose carried-over reset *)
(* is already past is reported as unknown (exhaustedWindowSnapshot, At).    *)
LimitIsReported ==
    out.how = "fresh" => \A w \in out.limit :
        \/ out.w[w].state = "exhausted"
        \/ \E a \in Agents : \E m \in mem[a] :
              m.snap.w[w].state = "exhausted" /\ m.snap.w[w].reset \in 1..now

(* A call of Usage returns, however many others share its refresh and       *)
(* whatever happens to claude or to the process that holds the lock.        *)
UsageReturns == []<>(\A c \in Callers : pc[c] \in {"idle", "done"})

============================================================================
