----------------------------- MODULE CodexDaemon -----------------------------
(***************************************************************************)
(* The shared Codex app-server daemon, as internal/provider/codex uses it: *)
(* the native thread store thread/list reads, the threads it has loaded,   *)
(* the broadcast notifications it sends on the observer's connection and   *)
(* its answers to thread/list, thread/loaded/list and thread/read.  It is  *)
(* not part of the repository; what it may do is taken from what runtime.go*)
(* relies on and from the daemon the tests fake (fakedaemon_test.go).      *)
(***************************************************************************)
EXTENDS Naturals, Sequences

CONSTANTS
    Threads,        \* thread IDs
    HiddenThreads,  \* those that are internal title-generation threads
    Names,          \* thread names
    Absent,         \* "no such entry" in a partial map from threads
    Kinds,          \* the kinds of daemon event a run explores
    MaxEvents       \* how many daemon events a run explores

EventKinds ==
    {"start", "persist", "status", "close", "resume",
     "archive", "unarchive", "rename"}

ASSUME DaemonAssumption ==
    /\ HiddenThreads \subseteq Threads
    /\ Absent \notin Names
    /\ Names # {}
    /\ Kinds \subseteq EventKinds
    /\ MaxEvents \in Nat

VARIABLES
    dStore,    \* where each thread is in the native store
    dStatus,   \* each thread's native ThreadStatus
    dName,     \* each thread's native name
    wire,      \* notifications sent and not yet handled, in order
    reply,     \* the answer to the connection's one pending request
    connected, \* the observer's connection is up
    events     \* daemon events so far (bounded by MaxEvents)

daemonVars == <<dStore, dStatus, dName, wire, reply, connected, events>>

-----------------------------------------------------------------------------
NotLoaded == "notLoaded"
LoadedStatus == {"idle", "active", "systemError"}
Status == LoadedStatus \cup {NotLoaded}

\* unsaved: started, its rollout not persisted yet, so thread/list does not
\* list it.  A thread that is neither listed nor loaded cannot be read.
StoreState ==
    {"absent", "unsaved", "listed", "archived", "deleted", "gone"}

Loaded == {t \in Threads : dStatus[t] # NotLoaded}
ListedByDaemon == {t \in Threads : dStore[t] = "listed"}

NoReply == [kind |-> "none"]

(***************************************************************************)
(* A reply overtakes no notification: it carries in after the number of    *)
(* unhandled notifications the daemon sent before it.                      *)
(***************************************************************************)
Reply ==
    [kind : {"list"}, after : Nat, names : [Threads -> Names \cup {Absent}]]
    \cup [kind : {"loaded"}, after : Nat, ids : SUBSET Threads]
    \cup [kind : {"read"}, after : Nat, id : Threads, name : Names,
          status : Status]
    \cup [kind : {"error"}, after : Nat]

Notification ==
    [method : {"started"}, thread : Threads, name : Names, status : Status]
    \cup [method : {"status"}, thread : Threads, status : Status]
    \cup [method : {"name"}, thread : Threads, name : Names]
    \cup [method : {"closed", "archived", "deleted", "unarchived"},
          thread : Threads]

DaemonTypeOK ==
    /\ dStore \in [Threads -> StoreState]
    /\ dStatus \in [Threads -> Status]
    /\ dName \in [Threads -> Names]
    /\ wire \in Seq(Notification)
    /\ reply \in Reply \cup {NoReply}
    /\ connected \in BOOLEAN
    /\ events \in Nat

\* The daemon may already have history, some of it loaded, when agentsctl
\* starts.
DaemonInit ==
    /\ dStore \in [Threads -> {"absent", "listed", "archived"}]
    /\ dStatus \in [Threads -> {NotLoaded, "idle"}]
    /\ \A t \in Threads : dStatus[t] # NotLoaded => dStore[t] = "listed"
    /\ \E n \in Names : dName = [t \in Threads |-> n]
    /\ wire = <<>>
    /\ reply = NoReply
    /\ connected = FALSE
    /\ events = 0

-----------------------------------------------------------------------------
(* Daemon events.  Each broadcasts its notification on every open          *)
(* connection, in order.                                                   *)

Event(kind) ==
    /\ kind \in Kinds
    /\ events < MaxEvents
    /\ events' = events + 1
    /\ UNCHANGED <<reply, connected>>

Broadcast(n) == wire' = IF connected THEN Append(wire, n) ELSE wire

StartThread(t) ==
    /\ Event("start")
    /\ dStore[t] = "absent"
    /\ dStore' = [dStore EXCEPT ![t] = "unsaved"]
    /\ dStatus' = [dStatus EXCEPT ![t] = "idle"]
    /\ Broadcast([method |-> "started", thread |-> t, name |-> dName[t],
                  status |-> "idle"])
    /\ UNCHANGED dName

\* The rollout is persisted: thread/list lists the thread.  No notification
\* announces it.
PersistThread(t) ==
    /\ Event("persist")
    /\ dStore[t] = "unsaved"
    /\ dStore' = [dStore EXCEPT ![t] = "listed"]
    /\ UNCHANGED <<dStatus, dName, wire>>

ChangeStatus(t) ==
    /\ Event("status")
    /\ t \in Loaded
    /\ \E s \in LoadedStatus \ {dStatus[t]} :
        /\ dStatus' = [dStatus EXCEPT ![t] = s]
        /\ Broadcast([method |-> "status", thread |-> t, status |-> s])
    /\ UNCHANGED <<dStore, dName>>

\* Unloading a thread whose rollout was never persisted loses it.
CloseThread(t) ==
    /\ Event("close")
    /\ t \in Loaded
    /\ dStatus' = [dStatus EXCEPT ![t] = NotLoaded]
    /\ dStore' = [dStore EXCEPT ![t] = IF @ = "unsaved" THEN "gone" ELSE @]
    /\ Broadcast([method |-> "closed", thread |-> t])
    /\ UNCHANGED dName

ResumeThread(t) ==
    /\ Event("resume")
    /\ dStore[t] = "listed"
    /\ t \notin Loaded
    /\ dStatus' = [dStatus EXCEPT ![t] = "idle"]
    /\ Broadcast([method |-> "status", thread |-> t, status |-> "idle"])
    /\ UNCHANGED <<dStore, dName>>

\* Archiving (or deleting) tears a loaded thread down; no thread/closed.
RemoveThread(t) ==
    /\ Event("archive")
    /\ dStore[t] = "listed"
    /\ dStatus' = [dStatus EXCEPT ![t] = NotLoaded]
    /\ \/ /\ dStore' = [dStore EXCEPT ![t] = "archived"]
          /\ Broadcast([method |-> "archived", thread |-> t])
       \/ /\ dStore' = [dStore EXCEPT ![t] = "deleted"]
          /\ Broadcast([method |-> "deleted", thread |-> t])
    /\ UNCHANGED dName

\* Unarchiving loads nothing.
UnarchiveThread(t) ==
    /\ Event("unarchive")
    /\ dStore[t] = "archived"
    /\ dStore' = [dStore EXCEPT ![t] = "listed"]
    /\ Broadcast([method |-> "unarchived", thread |-> t])
    /\ UNCHANGED <<dStatus, dName>>

\* thread/name/set fails until the thread is persisted.
RenameThread(t) ==
    /\ Event("rename")
    /\ dStore[t] = "listed"
    /\ \E n \in Names \ {dName[t]} :
        /\ dName' = [dName EXCEPT ![t] = n]
        /\ Broadcast([method |-> "name", thread |-> t, name |-> n])
    /\ UNCHANGED <<dStore, dStatus>>

DaemonEvent ==
    \E t \in Threads :
        \/ StartThread(t) \/ PersistThread(t) \/ ChangeStatus(t)
        \/ CloseThread(t) \/ ResumeThread(t) \/ RemoveThread(t)
        \/ UnarchiveThread(t) \/ RenameThread(t)

-----------------------------------------------------------------------------
(* What the daemon answers.                                                *)

\* Both the daemon and the short-lived app-server of Provider.List read the
\* same store.
NativeCatalog ==
    [t \in Threads |-> IF dStore[t] = "listed" THEN dName[t] ELSE Absent]

ListReply == [kind |-> "list", after |-> Len(wire), names |-> NativeCatalog]

LoadedReply == [kind |-> "loaded", after |-> Len(wire), ids |-> Loaded]

ReadReply(t) ==
    IF dStore[t] \in {"unsaved", "listed"}
    THEN [kind |-> "read", after |-> Len(wire), id |-> t, name |-> dName[t],
          status |-> dStatus[t]]
    ELSE [kind |-> "error", after |-> Len(wire)]

=============================================================================
