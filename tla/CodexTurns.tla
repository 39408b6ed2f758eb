----------------------------- MODULE CodexTurns -----------------------------
(***************************************************************************)
(* What agentsctl does to a Codex thread through the shared daemon, each   *)
(* call on a connection of its own (dispatch.go, turn.go, provider.go):    *)
(* Dispatch, whose rename-only form starts a bootstrap turn it must also   *)
(* end, Stop, Archive, Open and Unarchive.  One thread and its turns,      *)
(* which other clients start and end as they like.                          *)
(*                                                                         *)
(* A request, the daemon's answer and what the call makes of it are one    *)
(* step: between its requests a call reads only what it recorded itself,   *)
(* and the hint, which ObserverForgets may drop at any time.                *)
(* The notifications of a connection are recorded when they are sent, for  *)
(* the same reason: what a call does with them later touches nothing else. *)
(***************************************************************************)
EXTENDS Naturals

CONSTANTS Dispatches, \* calls of Provider.Dispatch
          RenameOnly, \* those whose prompt is only `/rename <name>`
          Stops,      \* calls of Provider.Stop
          Archives,   \* callers of Provider.Archive
          MaxTurns,   \* how many turns the thread has
          MaxFaults   \* how many connections and requests fail or stay unanswered

ASSUME TurnsAssumption ==
    /\ RenameOnly \subseteq Dispatches
    /\ Dispatches \cap (Stops \cup Archives) = {} /\ Stops \cap Archives = {}
    /\ MaxTurns \in Nat /\ MaxFaults \in Nat

Calls == Dispatches \cup Stops \cup Archives
Turns == 1 .. MaxTurns   \* in the order they were accepted
NoTurn == 0

VARIABLES
    status,       \* the thread's native status, or "none" before thread/start
    archived,     \* it is in the native archive
    external,     \* a process that is not the daemon holds its writer lock
    fate,         \* what became of each turn
    begun,        \* the turns whose turn/started was sent
    stopping,     \* the active turn was asked to end
    materialized, \* the first user message is stored: turns can be listed
    hint,         \* activeTurnHints of the thread
    pc,           \* per call: where it is
    look,         \* per call: the request of readCurrentTurnState it is at
    mine,         \* per call: the turn it started, or resolved
    heard,        \* Stops that recorded a status notification
    lost,         \* calls whose connection ended
    silent,       \* Stops whose present request the daemon never answers
    failed,       \* the calls that report an error
    faults,
    asked,        \* history: the turns a Stop's turn/interrupt reached
    sight,        \* history: how many turns there were when a call looked
    implicit      \* history: an Archive shut down a turn from before it looked

daemon == <<status, archived, external, fate, begun, stopping, materialized>>
history == <<asked, sight, implicit>>
vars == <<daemon, hint, pc, look, mine, heard, lost, silent, failed, faults, history>>

----------------------------------------------------------------------------
(* The daemon and its other clients.                                        *)
Rest == {"idle", "systemError", "notLoaded"}
Over == {"interrupted", "ended"}
InProgress == {u \in Turns : fate[u] \in {"pending", "running"}}
Count == IF \E u \in Turns : fate[u] # "none"
         THEN CHOOSE u \in Turns : fate[u] # "none" /\ \A v \in Turns : fate[v] # "none" => v <= u
         ELSE 0

Idle == {c \in Calls : pc[c] \in {"idle", "done"}}

(* thread/status/changed goes to every connection.                          *)
Becomes(s) ==
    /\ status' = s
    /\ heard' = Stops \ Idle

Accept(u) ==
    /\ u = Count + 1 /\ u \in Turns
    /\ fate' = [fate EXCEPT ![u] = "pending"]
    /\ Becomes("active")

TurnBegins ==
    \E u \in InProgress :
        /\ fate[u] = "pending"
        /\ fate' = [fate EXCEPT ![u] = "running"]
        /\ begun' = begun \cup {u} /\ materialized' = TRUE
        /\ UNCHANGED <<status, archived, external, stopping, heard>>

TurnEnds ==
    \E u \in InProgress :
        /\ \/ stopping /\ fate' = [fate EXCEPT ![u] = "interrupted"] /\ Becomes("idle")
           \/ /\ fate[u] = "running" /\ fate' = [fate EXCEPT ![u] = "ended"]
              /\ \E s \in {"idle", "systemError"} : Becomes(s)
        /\ stopping' = FALSE
        /\ UNCHANGED <<archived, external, begun, materialized>>

TakesTurns == status \in Rest /\ ~archived /\ ~external

(* Another client starts a turn, which loads the thread.                    *)
OthersTurn ==
    /\ TakesTurns
    /\ \E u \in Turns : Accept(u)
    /\ UNCHANGED <<archived, external, begun, stopping, materialized>>

Unload ==
    /\ status \in Rest \ {"notLoaded"} /\ Becomes("notLoaded")
    /\ UNCHANGED <<archived, external, fate, begun, stopping, materialized>>

(* A process outside the daemon takes the writer lock, or leaves it.        *)
WriterMoves ==
    /\ status = "notLoaded" /\ external' = ~external
    /\ UNCHANGED <<status, archived, fate, begun, stopping, materialized, heard>>

Turnover == TurnBegins \/ TurnEnds
Daemon ==
    /\ Turnover \/ OthersTurn \/ Unload \/ WriterMoves
    /\ UNCHANGED <<hint, pc, look, mine, lost, silent, failed, faults, history>>

(* turn/interrupt names the turn exactly.                                   *)
Interrupted(u) == u \in InProgress /\ stopping' = TRUE

(* The Observer drops the hint: a notification, or its lifecycle.           *)
ObserverForgets ==
    /\ hint # NoTurn /\ hint' = NoTurn
    /\ UNCHANGED <<daemon, pc, look, mine, heard, lost, silent, failed, faults, history>>

----------------------------------------------------------------------------
(* Steps of the calls.                                                      *)
Goto(c, l) == pc' = [pc EXCEPT ![c] = l]
Fails(c) == failed' = failed \cup {c}
Return(c) == Goto(c, "done") /\ UNCHANGED failed
ReturnError(c) == Goto(c, "done") /\ Fails(c)

(* A request fails when the connection has ended; or it is refused, or the *)
(* context of the call ends the wait for its answer: the deadline of a     *)
(* cleanupStep, or the user's signal.  The daemon may have carried it out.  *)
Unanswered(c) == c \notin lost /\ faults < MaxFaults /\ faults' = faults + 1
Refused(c) == Unanswered(c) \/ (c \in lost /\ UNCHANGED faults)
Answered(c) == c \notin lost /\ UNCHANGED faults

(* turn/interrupt of a turn that is over is refused.                        *)
NotInterrupted(c) ==
    \/ mine[c] \notin InProgress /\ UNCHANGED faults
    \/ mine[c] \in InProgress /\ Refused(c)

(* Where more than one request is made on it, and before the last.  This   *)
(* or the user's signal is all that ends a request never answered.          *)
ConnectionEnds(c) ==
    /\ c \in Dispatches \cup Stops /\ c \notin lost
    /\ pc[c] \notin {"idle", "forget", "leave", "done"}
    /\ \/ c \in silent /\ UNCHANGED faults
       \/ c \notin silent /\ faults < MaxFaults /\ faults' = faults + 1
    /\ lost' = lost \cup {c} /\ silent' = silent \ {c}
    /\ UNCHANGED <<daemon, hint, pc, look, mine, heard, failed, history>>

----------------------------------------------------------------------------
(* readCurrentTurnState: thread/read, thread/turns/list when that says     *)
(* active, and thread/read again when the list shows no turn in progress.  *)
Looking == {"resolve", "confirm", "recheck"}
Looks(c, at) == pc[c] \in Looking /\ look[c] = at

(* What it returns, and what the call does with it.                         *)
AtRest == [kind |-> "rest"]
Runs(u) == [kind |-> "turn", turn |-> u]
Unmaterialized == [kind |-> "unmaterialized"]
LookFailed == [kind |-> "error"]

WriterRefuses == status = "notLoaded" /\ external

MutNotConfirmed(c, seen) == TRUE
(* confirmStoppedTurn and the check of cleanupBootstrapTurn                 *)
IsOver(c, seen) == seen.kind = "rest"

MutInterruptsReplacement(c, seen) == seen.kind = "turn" /\ (pc[c] = "resolve" \/ seen.turn # mine[c])
Resolves(c, seen) == pc[c] = "resolve" /\ seen.kind = "turn"

(* Every readCurrentTurnState begins with thread/read.                      *)
FreshLook(c) == [look EXCEPT ![c] = "read"]

Looked(c, seen) ==
    /\ look' = FreshLook(c)
    /\ sight' = IF pc[c] = "resolve" THEN [sight EXCEPT ![c] = Count] ELSE sight
    /\ CASE Resolves(c, seen) ->
              Goto(c, "interrupt") /\ mine' = [mine EXCEPT ![c] = seen.turn] /\ UNCHANGED <<failed, hint>>
         [] pc[c] = "resolve" /\ seen = Unmaterialized /\ hint # NoTurn ->
              Goto(c, "interrupt") /\ mine' = [mine EXCEPT ![c] = hint] /\ UNCHANGED <<failed, hint>>
         [] pc[c] = "resolve" /\ seen = AtRest /\ ~WriterRefuses ->
              Return(c) /\ hint' = NoTurn /\ UNCHANGED mine
         [] pc[c] = "confirm" /\ IsOver(c, seen) ->
              Return(c) /\ hint' = NoTurn /\ UNCHANGED mine
         [] pc[c] = "recheck" /\ IsOver(c, seen) ->
              Goto(c, "forget") /\ UNCHANGED <<failed, hint, mine>>
         [] pc[c] = "recheck" /\ ~IsOver(c, seen) ->
              Goto(c, "leave") /\ Fails(c) /\ UNCHANGED <<hint, mine>>
         [] OTHER -> ReturnError(c) /\ UNCHANGED <<hint, mine>>
    /\ UNCHANGED <<daemon, heard, lost, silent, asked, implicit>>

LookOn(c, at) ==
    /\ look' = [look EXCEPT ![c] = at]
    /\ UNCHANGED <<daemon, hint, pc, mine, heard, lost, silent, failed, history>>

ReadThread(c) ==
    /\ Looks(c, "read") /\ Answered(c)
    /\ IF status \in Rest THEN Looked(c, AtRest) ELSE LookOn(c, "list")

ListTurns(c) ==
    /\ Looks(c, "list") /\ Answered(c)
    /\ CASE ~materialized -> Looked(c, Unmaterialized)
         [] materialized /\ InProgress # {} -> \E u \in InProgress : Looked(c, Runs(u))
         [] OTHER -> LookOn(c, "reread")

ReadAgain(c) ==
    /\ Looks(c, "reread") /\ Answered(c)
    /\ Looked(c, IF status \in Rest THEN AtRest ELSE LookFailed)

LookRefused(c) == pc[c] \in Looking /\ Refused(c) /\ Looked(c, LookFailed)

Look(c) == ReadThread(c) \/ ListTurns(c) \/ ReadAgain(c) \/ LookRefused(c)

----------------------------------------------------------------------------
(* Dispatch.  One whose thread/start fails has done nothing.                *)
Sent(c, l) == Answered(c) /\ Goto(c, l) /\ UNCHANGED failed

ThreadStart(d) ==
    /\ pc[d] = "idle" /\ status = "none"
    /\ Sent(d, "turn") /\ Becomes("idle")
    /\ UNCHANGED <<archived, external, fate, begun, stopping, materialized>>
    /\ UNCHANGED <<hint, look, mine, lost, silent, history>>

(* A turn/start that failed may have been accepted all the same.            *)
TurnStart(d) ==
    /\ pc[d] = "turn"
    /\ \/ \E u \in Turns :
             /\ TakesTurns /\ Accept(u)
             /\ \/ Sent(d, "remember") /\ mine' = [mine EXCEPT ![d] = u]
                \/ Unanswered(d) /\ ReturnError(d) /\ UNCHANGED mine
       \/ /\ Refused(d) \/ (~TakesTurns /\ UNCHANGED faults)
          /\ ReturnError(d) /\ UNCHANGED <<mine, status, fate, heard>>
    /\ UNCHANGED <<archived, external, begun, stopping, materialized>>
    /\ UNCHANGED <<hint, look, lost, silent, history>>

RememberActiveTurn(d) ==
    /\ pc[d] = "remember" /\ hint' = mine[d]
    /\ Goto(d, IF d \in RenameOnly THEN "ready" ELSE "leave")
    /\ UNCHANGED <<daemon, look, mine, heard, lost, silent, failed, faults, history>>

(* waitStarted: turn/started, not the accepted response.                    *)
HasStarted(d) == mine[d] \in begun

MutWaitsForEver(d) == pc[d] \in {"ready", "name", "cleanup", "recheck"}
(* cleanupStep: after the commit point every wait has a deadline.           *)
HasDeadline(d) == pc[d] \in {"ready", "name", "cleanup", "wait", "recheck"}

WaitStarted(d) ==
    /\ pc[d] = "ready" /\ HasStarted(d)
    /\ Sent(d, "name")
    /\ UNCHANGED <<daemon, hint, look, mine, heard, lost, silent, history>>

SetThreadName(d) ==
    /\ pc[d] = "name"
    /\ \/ Sent(d, "cleanup")
       \/ Refused(d) /\ Goto(d, "cleanup") /\ Fails(d)
    /\ UNCHANGED <<daemon, hint, look, mine, heard, lost, silent, history>>

(* cleanupBootstrapTurn                                                     *)
InterruptBootstrap(d) ==
    /\ pc[d] = "cleanup"
    /\ \/ Interrupted(mine[d]) /\ Sent(d, "wait")
       \/ Interrupted(mine[d]) /\ Unanswered(d) /\ Goto(d, "recheck") /\ UNCHANGED failed
       \/ NotInterrupted(d) /\ Goto(d, "recheck") /\ UNCHANGED <<failed, stopping>>
    /\ UNCHANGED <<status, archived, external, fate, begun, materialized>>
    /\ UNCHANGED <<hint, look, mine, heard, lost, silent, history>>

(* waitCompleted: another end than the interruption is an error.            *)
CompletedInterrupted(d) == fate[mine[d]] = "interrupted"

WaitCompleted(d) ==
    /\ pc[d] = "wait" /\ fate[mine[d]] \in Over
    /\ \/ CompletedInterrupted(d) /\ Sent(d, "forget")
       \/ ~CompletedInterrupted(d) /\ Goto(d, "leave") /\ Fails(d) /\ UNCHANGED faults
    /\ UNCHANGED <<daemon, hint, look, mine, heard, lost, silent, history>>

(* The deadline of a step passes, or its connection has ended.              *)
GivesUp(d) ==
    /\ HasDeadline(d)
    /\ IF pc[d] \in {"ready", "name"}
         THEN Goto(d, "cleanup") /\ Fails(d)
         ELSE Goto(d, "leave") /\ Fails(d)
    /\ look' = FreshLook(d)
    /\ UNCHANGED <<daemon, hint, mine, heard, lost, silent, faults, history>>

ForgetActiveTurn(d) ==
    /\ pc[d] = "forget" /\ Goto(d, "leave")
    /\ hint' = IF hint = mine[d] THEN NoTurn ELSE hint
    /\ UNCHANGED <<daemon, look, mine, heard, lost, silent, failed, faults, history>>

(* thread/unsubscribe, whose failure is ignored, and the connection closes. *)
Leave(d) ==
    /\ pc[d] = "leave" /\ Goto(d, "done")
    /\ UNCHANGED <<daemon, hint, look, mine, heard, lost, silent, failed, faults, history>>

AfterCommit(d) ==
    \/ RememberActiveTurn(d) \/ WaitStarted(d) \/ SetThreadName(d)
    \/ InterruptBootstrap(d) \/ WaitCompleted(d) \/ GivesUp(d)
    \/ Look(d) \/ ForgetActiveTurn(d) \/ Leave(d)

Dispatch(d) == ThreadStart(d) \/ TurnStart(d) \/ AfterCommit(d)

----------------------------------------------------------------------------
(* Stop.                                                                    *)
(* Its requests have no deadline: a daemon that keeps the connection and   *)
(* never answers, whether it interrupts the turn or not, keeps the call.    *)
NeverAnswered(s) ==
    /\ pc[s] \in Looking \cup {"interrupt"} /\ s \notin silent
    /\ Unanswered(s) /\ silent' = silent \cup {s}
    /\ \/ UNCHANGED <<stopping, asked>>
       \/ /\ pc[s] = "interrupt" /\ Interrupted(mine[s])
          /\ asked' = [asked EXCEPT ![s] = @ \cup {mine[s]}]
    /\ UNCHANGED <<status, archived, external, fate, begun, materialized>>
    /\ UNCHANGED <<hint, pc, look, mine, heard, lost, failed, sight, implicit>>

StopConnects(s) ==
    /\ pc[s] = "idle" /\ status # "none" /\ Goto(s, "resolve")
    /\ UNCHANGED <<daemon, hint, look, mine, heard, lost, silent, failed, faults, history>>

InterruptTurn(s) ==
    /\ pc[s] = "interrupt"
    /\ \/ /\ Interrupted(mine[s]) /\ Sent(s, "inactive")
          /\ asked' = [asked EXCEPT ![s] = @ \cup {mine[s]}]
       \/ /\ Interrupted(mine[s]) /\ Unanswered(s) /\ Goto(s, "confirm")
          /\ asked' = [asked EXCEPT ![s] = @ \cup {mine[s]}] /\ UNCHANGED failed
       \/ NotInterrupted(s) /\ Goto(s, "confirm") /\ UNCHANGED <<failed, stopping, asked>>
    /\ UNCHANGED <<status, archived, external, fate, begun, materialized>>
    /\ UNCHANGED <<hint, look, mine, heard, lost, silent, sight, implicit>>

MutIdleOnly(s) == s \in heard /\ status = "idle"
(* waitInactive                                                             *)
HeardInactive(s) == s \in heard /\ status # "active"

WaitInactive(s) ==
    /\ pc[s] = "inactive"
    /\ \/ HeardInactive(s) /\ Sent(s, "confirm")
       \/ s \in lost /\ ReturnError(s) /\ UNCHANGED faults
    /\ UNCHANGED <<daemon, hint, look, mine, heard, lost, silent, history>>

Stop(s) == s \notin silent /\ (Look(s) \/ InterruptTurn(s) \/ WaitInactive(s))

----------------------------------------------------------------------------
(* Archive, Unarchive and Open.                                             *)
MutArchivable == ~WriterRefuses
(* archivable                                                               *)
Archivable == status \in Rest /\ ~WriterRefuses

Preflight(a) ==
    /\ pc[a] = "idle" /\ status # "none" /\ Archivable
    /\ Goto(a, "archive") /\ sight' = [sight EXCEPT ![a] = Count]
    /\ UNCHANGED <<daemon, hint, look, mine, heard, lost, silent, failed, faults, asked, implicit>>

(* thread/archive shuts a loaded thread down, with any turn of it.          *)
ThreadArchive(a) ==
    /\ pc[a] = "archive" /\ Goto(a, "idle")
    /\ sight' = [sight EXCEPT ![a] = 0]
    /\ \/ /\ archived' = TRUE /\ stopping' = FALSE
          /\ fate' = [u \in Turns |-> IF u \in InProgress THEN "ended" ELSE fate[u]]
          /\ implicit' = (implicit \/ \E u \in InProgress : u <= sight[a])
          /\ Becomes("notLoaded")
       \/ UNCHANGED <<archived, stopping, fate, implicit, status, heard>>   \* refused
    /\ UNCHANGED <<external, begun, materialized, hint, look, mine, lost, silent, failed, faults, asked>>

Archive(a) == Preflight(a) \/ ThreadArchive(a)

Unarchive ==
    /\ archived /\ archived' = FALSE
    /\ UNCHANGED <<status, external, fate, begun, stopping, materialized>>
    /\ UNCHANGED <<hint, pc, look, mine, heard, lost, silent, failed, faults, history>>

(* checkOpenable, then the TUI resumes the thread through the daemon, which*)
(* loads it; what may come between changes nothing that is modelled here.  *)
Open ==
    /\ status = "notLoaded" /\ ~WriterRefuses /\ ~archived
    /\ Becomes("idle")
    /\ UNCHANGED <<archived, external, fate, begun, stopping, materialized>>
    /\ UNCHANGED <<hint, pc, look, mine, lost, silent, failed, faults, history>>

----------------------------------------------------------------------------
(* The thread is new, or has been used before.                              *)
Init ==
    /\ \/ status = "none" /\ materialized = FALSE /\ external = FALSE
       \/ status = "notLoaded" /\ materialized = TRUE /\ external \in BOOLEAN
    /\ archived = FALSE /\ fate = [u \in Turns |-> "none"]
    /\ begun = {} /\ stopping = FALSE
    /\ hint = NoTurn
    /\ pc = [c \in Calls |-> "idle"] /\ look = [c \in Calls |-> "read"]
    /\ mine = [c \in Calls |-> NoTurn]
    /\ heard = {} /\ lost = {} /\ silent = {} /\ faults = 0
    /\ failed = {}
    /\ asked = [s \in Stops |-> {}]
    /\ sight = [c \in Calls |-> 0]
    /\ implicit = FALSE

DispatchStep == \E d \in Dispatches : Dispatch(d)
StopStep == \E s \in Stops : Stop(s)

Next ==
    \/ Daemon \/ ObserverForgets \/ Unarchive
    \/ \E c \in Calls : ConnectionEnds(c)
    \/ \E s \in Stops : StopConnects(s) \/ NeverAnswered(s)
    \/ DispatchStep \/ StopStep
    \/ \E a \in Archives : Archive(a)
    \/ Open

(* While the goroutine or the timer of some call can go on, one of them    *)
(* does.  Nothing is assumed of the daemon: it may never answer a Stop (a   *)
(* Dispatch gives up by itself), and never start or end a turn.             *)
Fairness ==
    WF_vars(\/ \E d \in Dispatches : AfterCommit(d)
            \/ \E s \in Stops : Stop(s))

Spec == Init /\ [][Next]_vars /\ Fairness

----------------------------------------------------------------------------
(* The types of the variables.                                              *)
TypeOK ==
    /\ status \in Rest \cup {"none", "active"}
    /\ archived \in BOOLEAN /\ external \in BOOLEAN
    /\ fate \in [Turns -> Over \cup {"none", "pending", "running"}]
    /\ begun \subseteq Turns
    /\ stopping \in BOOLEAN /\ materialized \in BOOLEAN
    /\ hint \in Turns \cup {NoTurn}
    /\ pc \in [Calls -> Looking \cup
            {"idle", "turn", "remember", "ready", "name", "cleanup", "wait", "forget",
             "leave", "interrupt", "inactive", "archive", "done"}]
    /\ look \in [Calls -> {"read", "list", "reread"}]
    /\ \A c \in Calls : pc[c] \notin Looking => look[c] = "read"
    /\ mine \in [Calls -> Turns \cup {NoTurn}]
    /\ heard \subseteq Stops /\ lost \subseteq Calls /\ silent \subseteq Stops \ lost
    /\ failed \subseteq Calls
    /\ faults \in 0 .. MaxFaults
    /\ asked \in [Stops -> SUBSET Turns]
    /\ sight \in [Calls -> Turns \cup {0}]
    /\ implicit \in BOOLEAN

Succeeded(c) == pc[c] = "done" /\ c \notin failed

(* A Stop interrupts one turn, the one it resolved: never the replacement  *)
(* another client started after it looked, whatever the races between its  *)
(* requests and with a hint from before (Stop, confirmStoppedTurn).         *)
StopsWhatItSaw ==
    \A s \in Stops :
        /\ \A u, v \in asked[s] : u = v
        /\ \A u \in asked[s] : u <= sight[s]

(* A Stop that succeeded ended its turn: also when turn/interrupt failed,  *)
(* was lost, or raced the turn's own end (reconcileStopRace).               *)
StoppedIsOver ==
    \A s \in Stops : Succeeded(s) /\ mine[s] # NoTurn => fate[mine[s]] \in Over

(* Archive is no implicit Stop: a turn it shuts down was accepted after    *)
(* the daemon told it the thread was at rest (archivable).                  *)
ArchiveOnlyRaces == ~implicit

(* Past its commit point a Dispatch returns although the daemon never      *)
(* answers again, or the bootstrap turn never starts or ends (cleanupStep). *)
(* Neither its commit nor its return is ever undone.                        *)
CommittedReturns ==
    []<>(\A d \in Dispatches : mine[d] # NoTurn => pc[d] = "done")

(* A Stop returns once the thread stays inactive, in whatever way its turn *)
(* ended (waitInactive), unless the daemon keeps its connection and never   *)
(* answers the request it is at (call: no request of a Stop has a deadline).*)
StopsReturn ==
    <>[](status # "active") =>
        []<>(\A s \in Stops : pc[s] \in {"idle", "done"} \/ s \in silent)
=============================================================================
