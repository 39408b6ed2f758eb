---------------------------- MODULE ClaudeAttach ----------------------------
(***************************************************************************)
(* What agentsctl does to a Claude session through `claude attach`: Open,  *)
(* which hands it the user's terminal, and Rename, which types the CLI's   *)
(* own /rename into a transient client and lets the native catalog decide  *)
(* whether it took (provider.go, rename_transport_unix.go, open_unix.go,   *)
(* attach_unix.go).  One session, any number of calls of both at a time.   *)
(*                                                                         *)
(* Claude's side is external.  A client attaches some time after it was    *)
(* started, which wakes a session without a worker, whose composer takes a *)
(* command only once it is live; it reads the pty when it likes; one that  *)
(* is asked to leave may ignore Ctrl-Z, SIGHUP and a closed pty, never     *)
(* SIGTERM or a kill, but it may take its time.                             *)
(***************************************************************************)
EXTENDS Sequences

CONSTANTS Renames,    \* calls of Provider.Rename
          Opens,      \* calls of Provider.Open
          Name,       \* the name a Rename asks for
          NoName,     \* a session without a native name
          Others,     \* the names it is given in another way
          Cancelled,  \* calls whose context may end
          MayHang     \* Renames a `claude agents` of which may never return

ASSUME AttachAssumption ==
    /\ Renames \cap Opens = {}
    /\ \A r \in Renames : Name[r] # NoName
    /\ Cancelled \subseteq Renames \cup Opens
    /\ MayHang \subseteq Renames

Calls == Renames \cup Opens

VARIABLES worker,    \* the session's process: "none", "starting" or "live"
          input,     \* commands its composer has not carried out yet
          name,      \* its name in `claude agents`
          pty,       \* the Renames whose command their client has not read yet
          legacy,    \* localstate has a name from before native renames
          pc,        \* per call: where it is
          client,    \* per call: its `claude attach`
          leave,     \* per call: what detachClaudeClient has tried
          named,     \* per Rename: what confirmRenamed returned
          over,      \* the calls whose context ended
          hung,      \* the Renames whose `claude agents` does not return
          early,     \* history: the commands the early-input capture got
          overtaken, \* history: Renames whose worker, reported live, ended
                     \* before their client had attached to it
          borne      \* history: Renames during which the session had their name

claude == <<worker, input, name, pty, early, overtaken, borne>>
waits == <<over, hung>>
vars == <<claude, legacy, pc, client, leave, named, waits>>

----------------------------------------------------------------------------
(* Claude.                                                                  *)
Live == worker = "live"

Woken == IF worker = "none" THEN "starting" ELSE worker

There(c) == client[c] \in {"starting", "attached"}

Mounted ==
    /\ worker = "starting" /\ worker' = "live"
    /\ UNCHANGED <<input, name, pty, early, overtaken, borne, client>>

(* Anyone else attaches to it, or respawns it.                              *)
Respawned ==
    /\ worker = "none" /\ worker' = "starting"
    /\ UNCHANGED <<input, name, pty, early, overtaken, borne, client>>

Attaches(c) ==
    /\ client[c] = "starting" /\ client' = [client EXCEPT ![c] = "attached"]
    /\ worker' = Woken
    /\ UNCHANGED <<input, name, pty, early, overtaken, borne>>

(* The client reads its pty, and the worker takes what it sends: as a      *)
(* command, or into the early-input capture.                                *)
Delivered(r) ==
    /\ r \in pty /\ client[r] = "attached" /\ pty' = pty \ {r}
    /\ input' = IF Live THEN Append(input, Name[r]) ELSE input
    /\ early' = IF Live THEN early ELSE early \cup {r}
    /\ UNCHANGED <<worker, name, overtaken, borne, client>>

Running(r) == pc[r] \notin {"idle", "done"}

Applies ==
    /\ Live /\ input # <<>>
    /\ name' = Head(input) /\ input' = Tail(input)
    /\ borne' = borne \cup {r \in Renames : Running(r) /\ Name[r] = name'}
    /\ UNCHANGED <<worker, pty, early, overtaken, client>>

(* Its user, or another program, renames it.                                *)
RenamedElsewhere ==
    /\ Live /\ name' \in Others
    /\ borne' = borne \cup {r \in Renames : Running(r) /\ Name[r] = name'}
    /\ UNCHANGED <<worker, input, pty, early, overtaken, client>>

(* `claude stop`, or the worker ends: its clients end with it, those that  *)
(* have not attached yet do not.                                            *)
Ends ==
    /\ worker # "none" /\ worker' = "none" /\ input' = <<>>
    /\ client' = [c \in Calls |-> IF client[c] = "attached" THEN "gone" ELSE client[c]]
    /\ pty' = {r \in pty : client[r] # "attached"}
    /\ overtaken' = overtaken \cup {r \in Renames : client[r] = "starting" /\ (pc[r] = "write" \/ r \in pty)}
    /\ UNCHANGED <<name, early, borne>>

(* A client leaves, told to or of its own.                                  *)
Leaves(c) ==
    /\ There(c) /\ client' = [client EXCEPT ![c] = "gone"]
    /\ pty' = pty \ {c}
    /\ UNCHANGED <<worker, input, name, early, overtaken, borne>>

Claude ==
    /\ \/ Mounted \/ Respawned \/ Applies \/ RenamedElsewhere \/ Ends
       \/ \E c \in Calls : Attaches(c) \/ Leaves(c)
       \/ \E r \in Renames : Delivered(r)
    /\ UNCHANGED <<legacy, pc, leave, named, waits>>

----------------------------------------------------------------------------
(* The context of a call ends: exec kills what it started for it, also when*)
(* the call has returned and left its client behind.                        *)
ContextEnds(c) ==
    /\ c \in Cancelled \ over
    /\ pc[c] # "idle" /\ (pc[c] = "done" => There(c))
    /\ over' = over \cup {c}
    /\ UNCHANGED <<claude, legacy, pc, client, leave, named, hung>>

(* detachClaudeClient: Ctrl-Z, SIGHUP and SIGTERM, each with a wait, which *)
(* the context ends too.                                                    *)
Leaving == {"ctrl-z", "hup", "term"}

Harder(step) == CASE step = "ctrl-z" -> "hup" [] step = "hup" -> "term" [] step = "term" -> "gave up"

Waited(c) ==
    IF client[c] = "gone" THEN "left" ELSE IF c \in over THEN "gave up" ELSE Harder(leave[c])

DetachStep(c) ==
    /\ leave[c] \in Leaving
    /\ leave' = [leave EXCEPT ![c] = Waited(c)]
    /\ UNCHANGED <<claude, legacy, pc, client, named, waits>>

Detached(c) == leave[c] \notin Leaving

----------------------------------------------------------------------------
(* Rename.  Its name was checked; a refused one changes nothing.            *)
StartRename(r) ==
    /\ pc[r] = "idle"
    /\ borne' = IF name = Name[r] THEN borne \cup {r} ELSE borne
    /\ \/ /\ pc' = [pc EXCEPT ![r] = "ready"]
          /\ client' = [client EXCEPT ![r] = "starting"]
       \/ /\ pc' = [pc EXCEPT ![r] = "confirm"]       \* it could not be started
          /\ UNCHANGED client
    /\ UNCHANGED <<worker, input, name, pty, early, overtaken, legacy, leave, named, waits>>

(* Run has no deadline, and the poll looks at its own between two runs     *)
(* only: a `claude agents` that never returns holds the poll until the     *)
(* context ends, which fails it.                                            *)
Polls(r) == pc[r] = "ready" \/ (pc[r] = "confirm" /\ named[r] = "asking")

AgentsHangs(r) ==
    /\ Polls(r) /\ r \in MayHang \ hung
    /\ hung' = hung \cup {r}
    /\ UNCHANGED <<claude, legacy, pc, client, leave, named, over>>

PollAnswered(r) == r \notin hung \cup over
PollFails(r) == r \in hung => r \in over

MutTypesAtOnce == TRUE
(* waitSessionLive's check of the catalog's row.                            *)
StatusReported == Live

SessionReady(r) ==
    /\ pc[r] = "ready" /\ PollAnswered(r) /\ StatusReported
    /\ pc' = [pc EXCEPT ![r] = "write"]
    /\ UNCHANGED <<claude, legacy, client, leave, named, waits>>

(* Send hands its client over to cleanup, which starts at once.             *)
CleanupBegins(r) == [leave EXCEPT ![r] = "ctrl-z"]

(* The poll's time is up: not live, or `claude agents` kept failing.        *)
NotReady(r) ==
    /\ pc[r] = "ready" /\ PollFails(r)
    /\ pc' = [pc EXCEPT ![r] = "confirm"]
    /\ leave' = CleanupBegins(r)
    /\ UNCHANGED <<claude, legacy, client, named, waits>>

(* The command is written to the pty, which only queues it.  With a client *)
(* that is gone it goes nowhere, or the write fails and there is no         *)
(* cleanup.  Send's error only words that of the Rename.                    *)
WriteCommand(r) ==
    /\ pc[r] = "write"
    /\ pc' = [pc EXCEPT ![r] = "confirm"]
    /\ \/ /\ leave' = CleanupBegins(r)
          /\ pty' = IF There(r) THEN pty \cup {r} ELSE pty
       \/ client[r] = "gone" /\ UNCHANGED <<leave, pty>>
    /\ UNCHANGED <<worker, input, name, early, overtaken, borne, legacy, client, named, waits>>

MutTrustsSend(r) == name = Name[r] \/ leave[r] # "no"
(* confirmRenamed's check of the catalog's row.                             *)
NameReported(r) == name = Name[r]

Confirmed(r) ==
    /\ pc[r] = "confirm" /\ named[r] = "asking" /\ PollAnswered(r) /\ NameReported(r)
    /\ named' = [named EXCEPT ![r] = "yes"]
    /\ UNCHANGED <<claude, legacy, pc, client, leave, waits>>

NotConfirmed(r) ==
    /\ pc[r] = "confirm" /\ named[r] = "asking" /\ PollFails(r)
    /\ named' = [named EXCEPT ![r] = "no"]
    /\ UNCHANGED <<claude, legacy, pc, client, leave, waits>>

MutReturnsAtOnce(r) == named[r] # "asking"
MutWaitsForExit(r) == named[r] # "asking" /\ leave[r] \in {"no", "left"}
(* cleanupWG.Wait()                                                         *)
BothEnded(r) == named[r] # "asking" /\ Detached(r)

SucceededNatively(r) == named[r] = "yes"

(* Confirmed: ClearLegacyClaudeName, whose save may fail.                   *)
ReturnRename(r) ==
    /\ pc[r] = "confirm" /\ BothEnded(r)
    /\ pc' = [pc EXCEPT ![r] = "done"]
    /\ \/ SucceededNatively(r) /\ legacy' = FALSE
       \/ UNCHANGED legacy
    /\ UNCHANGED <<claude, client, leave, named, waits>>

RenameStep(r) ==
    \/ SessionReady(r) \/ NotReady(r) \/ WriteCommand(r)
    \/ Confirmed(r) \/ NotConfirmed(r) \/ ReturnRename(r)

----------------------------------------------------------------------------
(* Open.                                                                    *)
StartOpen(o) ==
    /\ pc[o] = "idle"
    /\ pc' = [pc EXCEPT ![o] = "open"]
    /\ client' = [client EXCEPT ![o] = "starting"]
    /\ UNCHANGED <<claude, legacy, leave, named, waits>>

DetachKey(o) ==
    /\ pc[o] = "open" /\ leave[o] = "no" /\ There(o)
    /\ leave' = [leave EXCEPT ![o] = "ctrl-z"]
    /\ UNCHANGED <<claude, legacy, pc, client, named, waits>>

(* The user's terminal cannot be set, polled or read: the pty is closed    *)
(* under the client, which is a SIGHUP to it, and nothing more.             *)
TerminalFails(o) ==
    /\ pc[o] = "open" /\ leave[o] = "no"
    /\ leave' = [leave EXCEPT ![o] = "hung up"]
    /\ UNCHANGED <<claude, legacy, pc, client, named, waits>>

ReturnOpen(o) ==
    /\ pc[o] = "open"
    /\ \/ client[o] = "gone"
       \/ leave[o] = "no" /\ o \in over
       \/ leave[o] # "no" /\ Detached(o)
    /\ pc' = [pc EXCEPT ![o] = "done"]
    /\ UNCHANGED <<claude, legacy, client, leave, named, waits>>

----------------------------------------------------------------------------
Init ==
    /\ worker \in {"none", "live"} /\ input = <<>>
    /\ name = NoName /\ pty = {}
    /\ legacy = TRUE
    /\ pc = [c \in Calls |-> "idle"]
    /\ client = [c \in Calls |-> "none"]
    /\ leave = [c \in Calls |-> "no"]
    /\ named = [r \in Renames |-> "asking"]
    /\ over = {} /\ hung = {}
    /\ early = {} /\ overtaken = {} /\ borne = {}

CallStep ==
    \/ \E r \in Renames : RenameStep(r)
    \/ \E o \in Opens : ReturnOpen(o)
    \/ \E c \in Calls : DetachStep(c)

Next ==
    \/ Claude \/ CallStep
    \/ \E r \in Renames : StartRename(r) \/ AgentsHangs(r)
    \/ \E o \in Opens : StartOpen(o) \/ DetachKey(o) \/ TerminalFails(o)
    \/ \E c \in Calls : ContextEnds(c)

(* While a timer or a goroutine can go on, or a client that was sent       *)
(* SIGTERM, or was killed, is left to end, one of them does.  A poll ends  *)
(* unless its `claude agents` hangs; a client whose pty was only closed    *)
(* need not end.                                                            *)
Told(c) == leave[c] \in {"term", "gave up"} \/ c \in over
Exits == \E c \in Calls : Told(c) /\ Leaves(c) /\ UNCHANGED <<legacy, pc, leave, named, waits>>
Fairness == WF_vars(CallStep \/ Exits)

Spec == Init /\ [][Next]_vars /\ Fairness
----------------------------------------------------------------------------
Names == {Name[r] : r \in Renames}

(* The types of the variables.                                              *)
TypeOK ==
    /\ worker \in {"none", "starting", "live"}
    /\ input \in Seq(Names)
    /\ name \in {NoName} \cup Names \cup Others
    /\ pty \subseteq Renames
    /\ legacy \in BOOLEAN
    /\ pc \in [Calls -> {"idle", "ready", "write", "confirm", "open", "done"}]
    /\ client \in [Calls -> {"none", "starting", "attached", "gone"}]
    /\ leave \in [Calls -> Leaving \cup {"no", "left", "gave up", "hung up"}]
    /\ named \in [Renames -> {"asking", "yes", "no"}]
    /\ over \subseteq Cancelled /\ hung \subseteq MayHang
    /\ early \subseteq Renames /\ overtaken \subseteq Renames /\ borne \subseteq Renames

(* A Rename's command ends in the early-input capture, where it is lost, in*)
(* one case only: the worker the catalog reported live ended before the    *)
(* client had attached to it, so that the client woke another.  Whoever    *)
(* stops and respawns the worker before or after that, and whenever the    *)
(* client reads what was queued for it, the command does not reach a       *)
(* composer that is not mounted (waitSessionLive, sendClaudeRename).        *)
NotIntoEarlyCapture == early \subseteq overtaken

(* A Rename that reports success was right: the session carried that name  *)
(* at some moment of the call, whatever Send said and whoever else renamed *)
(* it meanwhile (confirmRenamed is the only judge).                         *)
ReportedNameWasTrue ==
    \A r \in Renames : pc[r] = "done" /\ named[r] = "yes" => r \in borne

(* No call that returned leaves its client behind the user's back unless   *)
(* the escalation to SIGTERM ran out, its context ended, or the terminal   *)
(* failed under an Open, which only closes the pty.                         *)
NoClientLeft ==
    \A c \in Calls : pc[c] = "done" /\ There(c) => leave[c] \in {"gave up", "hung up"} \/ c \in over

(* Every Rename returns, and every Open the user has left, and no client   *)
(* outlives its call for ever, even one that ignores Ctrl-Z and SIGHUP;    *)
(* except that a `claude agents` that hangs keeps its Rename, with its     *)
(* client when it was waiting for the session to become live, and that     *)
(* nothing ends a client whose pty was only closed.                         *)
Ended(c) ==
    \/ pc[c] = "idle"
    \/ pc[c] = "open" /\ leave[c] = "no" /\ There(c) /\ c \notin over
    \/ pc[c] = "done" /\ (There(c) => leave[c] = "hung up" /\ c \notin over)
    \/ c \in hung \ over /\ (pc[c] = "confirm" => ~There(c))

CallsEnd == []<>(\A c \in Calls : Ended(c))
=============================================================================
