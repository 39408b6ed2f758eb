------------------------- MODULE CodexRuntimeProofs -------------------------
(***************************************************************************)
(* What holds of codexRuntime for every set of threads, any number of      *)
(* events, faults and List calls.                                          *)
(***************************************************************************)
EXTENDS CodexRuntime, TLAPS

-----------------------------------------------------------------------------
(* Lemmas about messages and rows.                                         *)

\* The fields a handler reads are typed by the notification's method.
LEMMA NotificationFields ==
    ASSUME NEW n \in Notification
    PROVE  /\ n.thread \in Threads
           /\ n.method \in {"started", "status"} => n.status \in Status
           /\ n.method \in {"started", "name"} => n.name \in Names
    BY DEF Notification

\* Handling the head of the wire leaves a well-formed wire.
LEMMA WireHead ==
    ASSUME wire \in Seq(Notification), wire # <<>>
    PROVE  Head(wire) \in Notification /\ Tail(wire) \in Seq(Notification)
    OBVIOUS

\* What thread/list answers maps each thread to a name or Absent.
LEMMA NativeCatalogType ==
    ASSUME DaemonTypeOK
    PROVE  NativeCatalog \in [Threads -> Entry]
    BY DEF DaemonTypeOK, NativeCatalog, Entry

\* Every visible row names a thread, its name and a status.
LEMMA RowsType ==
    ASSUME TypeOK
    PROVE  RowsUpdate \in Update
<1>1. Rows \in SUBSET RowType
    BY DEF Rows, RowType, TypeOK, RuntimeTypeOK, Entry, Status
<1>2. (IF live THEN "none" ELSE lastErr) \in Errors
    BY DEF TypeOK, RuntimeTypeOK, Errors
<1>. QED BY <1>1, <1>2 DEF RowsUpdate, Update

\* The locals a snapshot starts with are typed.
LEMMA EmptySnapType == EmptySnap \in SnapType
    BY DEF EmptySnap, SnapType, AllAbsent, AllNotLoaded, Entry, Status

-----------------------------------------------------------------------------
(* Type correctness.                                                       *)

\* The initial state is typed.
LEMMA InitType == Init => TypeOK
<1>. SUFFICES ASSUME Init PROVE TypeOK
    OBVIOUS
<1>1. DaemonTypeOK
  <2>. USE DEF Init, DaemonInit
  <2>1. /\ dStore \in [Threads -> StoreState]
        /\ dStatus \in [Threads -> Status]
      BY DEF StoreState, Status, LoadedStatus
  <2>2. dName \in [Threads -> Names]
      OBVIOUS
  <2>3. wire \in Seq(Notification)
      OBVIOUS
  <2>4. reply \in Reply \cup {NoReply}
      OBVIOUS
  <2>. QED BY <2>1, <2>2, <2>3, <2>4 DEF DaemonTypeOK
<1>2. RuntimeTypeOK
    BY EmptySnapType
    DEF Init, RuntimeInit, RuntimeTypeOK, RunStates, AllAbsent, AllNotLoaded,
        NoHints, NoneClosed, Entry, Status, Errors, ListState, Update
<1>. QED BY <1>1, <1>2 DEF TypeOK

\* What the daemon does by itself keeps everything typed.
LEMMA DaemonEventType ==
    ASSUME TypeOK, DaemonEvent, UNCHANGED runtimeVars
    PROVE  TypeOK'
<1>1. RuntimeTypeOK'
    BY DEF TypeOK, RuntimeTypeOK, runtimeVars, catalogVars, linkVars,
           requestVars, Update, RowType
<1>2. ASSUME NEW n \in Notification, Broadcast(n)
      PROVE  wire' \in Seq(Notification)
    BY <1>2 DEF Broadcast, TypeOK, DaemonTypeOK
<1>. PICK t \in Threads :
        \/ StartThread(t) \/ PersistThread(t) \/ ChangeStatus(t)
        \/ CloseThread(t) \/ ResumeThread(t) \/ RemoveThread(t)
        \/ UnarchiveThread(t) \/ RenameThread(t)
    BY DEF DaemonEvent
<1>. USE DEF TypeOK, DaemonTypeOK, Event, StoreState, Status, LoadedStatus,
             NotLoaded
<1>3. CASE StartThread(t)
  <2>1. [method |-> "started", thread |-> t, name |-> dName[t],
         status |-> "idle"] \in Notification
      BY DEF Notification
  <2>. QED BY <1>2, <1>1, <1>3, <2>1 DEF StartThread
<1>4. CASE PersistThread(t)
    BY <1>1, <1>4 DEF PersistThread
<1>5. CASE ChangeStatus(t)
  <2>. PICK s \in LoadedStatus :
          /\ dStatus' = [dStatus EXCEPT ![t] = s]
          /\ Broadcast([method |-> "status", thread |-> t, status |-> s])
      BY <1>5 DEF ChangeStatus
  <2>1. [method |-> "status", thread |-> t, status |-> s] \in Notification
      BY DEF Notification
  <2>. QED BY <1>2, <1>1, <1>5, <2>1 DEF ChangeStatus
<1>6. CASE CloseThread(t)
  <2>1. [method |-> "closed", thread |-> t] \in Notification
      BY DEF Notification
  <2>. QED BY <1>2, <1>1, <1>6, <2>1 DEF CloseThread
<1>7. CASE ResumeThread(t)
  <2>1. [method |-> "status", thread |-> t, status |-> "idle"]
            \in Notification
      BY DEF Notification
  <2>. QED BY <1>2, <1>1, <1>7, <2>1 DEF ResumeThread
<1>8. CASE RemoveThread(t)
  <2>1. /\ [method |-> "archived", thread |-> t] \in Notification
        /\ [method |-> "deleted", thread |-> t] \in Notification
      BY DEF Notification
  <2>. QED BY <1>2, <1>1, <1>8, <2>1 DEF RemoveThread
<1>9. CASE UnarchiveThread(t)
  <2>1. [method |-> "unarchived", thread |-> t] \in Notification
      BY DEF Notification
  <2>. QED BY <1>2, <1>1, <1>9, <2>1 DEF UnarchiveThread
<1>10. CASE RenameThread(t)
  <2>. PICK n \in Names :
          /\ dName' = [dName EXCEPT ![t] = n]
          /\ Broadcast([method |-> "name", thread |-> t, name |-> n])
      BY <1>10 DEF RenameThread
  <2>1. [method |-> "name", thread |-> t, name |-> n] \in Notification
      BY DEF Notification
  <2>. QED BY <1>2, <1>1, <1>10, <2>1 DEF RenameThread
<1>. QED BY <1>3, <1>4, <1>5, <1>6, <1>7, <1>8, <1>9, <1>10


\* setStatus keeps the hints, the dirty threads and the status cache typed.
LEMMA SetStatusType ==
    ASSUME TypeOK, NEW t \in Threads, NEW s \in Status, SetStatus(t, s)
    PROVE  /\ activeTurnHints' \in [Threads -> Turns \cup {NoTurn}]
           /\ dirty' \in SUBSET Threads
           /\ status' \in [Threads -> Status]
    BY DEF TypeOK, RuntimeTypeOK, SetStatus, HintsAfter, DirtyAfter

\* A reply stays a reply when one of the notifications before it is handled.
LEMMA ReplyAfter ==
    ASSUME NEW r \in Reply, r.after # 0
    PROVE  [r EXCEPT !.after = @ - 1] \in Reply
<1>1. CASE r \in [kind : {"list"}, after : Nat,
                  names : [Threads -> Names \cup {Absent}]]
    BY <1>1 DEF Reply
<1>2. CASE r \in [kind : {"loaded"}, after : Nat, ids : SUBSET Threads]
    BY <1>2 DEF Reply
<1>3. CASE r \in [kind : {"read"}, after : Nat, id : Threads, name : Names,
                  status : Status]
    BY <1>3 DEF Reply
<1>4. CASE r \in [kind : {"error"}, after : Nat]
    BY <1>4 DEF Reply
<1>. QED BY <1>1, <1>2, <1>3, <1>4 DEF Reply

\* What a handler of the reader may change keeps its type.
HandledType ==
    /\ catalog' \in [Threads -> Entry]
    /\ started' \in [Threads -> Entry]
    /\ startedNow' \in SUBSET Threads
    /\ closedStarted' \in [Threads -> Nat \cup {NotClosed}]
    /\ activeTurnHints' \in [Threads -> Turns \cup {NoTurn}]
    /\ status' \in [Threads -> Status]
    /\ hidden' \in SUBSET Threads
    /\ dirty' \in SUBSET Threads
    /\ needCatalog' \in BOOLEAN /\ wake' \in BOOLEAN
    /\ changed' \in BOOLEAN

\* Each notification handler keeps what it writes typed.
LEMMA HandlerType ==
    ASSUME TypeOK, NEW n \in Notification,
           \/ HandleStatusChanged(n) \/ HandleClosed(n)
           \/ HandleHiddenStarted(n) \/ HandleStarted(n)
           \/ HandleNameUpdated(n) \/ HandleRemoved(n) \/ HandleUnarchived(n)
    PROVE  HandledType
<1>1. /\ n.thread \in Threads
      /\ n.method \in {"started", "status"} => n.status \in Status
      /\ n.method \in {"started", "name"} => n.name \in Names
    BY NotificationFields
<1>. DEFINE t == n.thread
<1>. USE DEF RequestCatalog, Kick, requestVars
<1>2. CASE HandleStatusChanged(n)
  <2>1. SetStatus(t, n.status) /\ n.status \in Status
      BY <1>1, <1>2 DEF HandleStatusChanged
  <2>. QED BY <1>1, <1>2, <2>1, SetStatusType
           DEF HandleStatusChanged, HandledType, TypeOK, RuntimeTypeOK, Observes
<1>3. CASE HandleClosed(n)
  <2>1. SetStatus(t, NotLoaded) /\ NotLoaded \in Status
      BY <1>3 DEF HandleClosed, Status
  <2>. QED BY <1>1, <1>3, <2>1, SetStatusType
           DEF HandleClosed, HandledType, TypeOK, RuntimeTypeOK, Observes
<1>4. CASE HandleHiddenStarted(n)
    BY <1>1, <1>4 DEF HandleHiddenStarted, HandledType, TypeOK, RuntimeTypeOK
<1>5. CASE HandleStarted(n)
  <2>1. n.status \in Status /\ n.name \in Entry
      BY <1>1, <1>5 DEF HandleStarted, Entry
  <2>2. CASE (live \/ snapshotting) /\ catalog[t] = Absent
      BY <1>1, <1>5, <2>1, <2>2, SetStatusType
      DEF HandleStarted, HandledType, TypeOK, RuntimeTypeOK
  <2>3. CASE ~((live \/ snapshotting) /\ catalog[t] = Absent)
      BY <1>1, <1>5, <2>1, <2>3
      DEF HandleStarted, HandledType, TypeOK, RuntimeTypeOK
  <2>. QED BY <2>2, <2>3
<1>6. CASE HandleNameUpdated(n)
  <2>1. n.name \in Entry
      BY <1>1, <1>6 DEF HandleNameUpdated, Entry
  <2>. QED BY <1>1, <1>6, <2>1
           DEF HandleNameUpdated, HandledType, TypeOK, RuntimeTypeOK, Visible
<1>7. CASE HandleRemoved(n)
    BY <1>1, <1>7 DEF HandleRemoved, HandledType, TypeOK, RuntimeTypeOK, Entry
<1>8. CASE HandleUnarchived(n)
    BY <1>1, <1>8 DEF HandleUnarchived, HandledType, TypeOK, RuntimeTypeOK
<1>. QED BY <1>2, <1>3, <1>4, <1>5, <1>6, <1>7, <1>8

\* Handling the head of the wire keeps everything typed.
LEMMA HandleNotificationType ==
    ASSUME TypeOK, HandleNotification
    PROVE  TypeOK'
<1>1. Head(wire) \in Notification /\ Tail(wire) \in Seq(Notification)
    BY WireHead DEF HandleNotification, TypeOK, DaemonTypeOK
<1>2. HandledType
    BY <1>1, HandlerType DEF HandleNotification
<1>3. reply' \in Reply \cup {NoReply}
    BY ReplyAfter DEF HandleNotification, TypeOK, DaemonTypeOK
<1>4. DaemonTypeOK'
    BY <1>1, <1>3 DEF HandleNotification, TypeOK, DaemonTypeOK
<1>5. RuntimeTypeOK'
    BY <1>2 DEF HandleNotification, HandledType, TypeOK, RuntimeTypeOK,
                linkVars, Update, RowType
<1>. QED BY <1>4, <1>5 DEF TypeOK

\* installCatalogLocked keeps what it writes typed.
LEMMA InstallCatalogType ==
    ASSUME TypeOK, NEW seq \in Nat, NEW threads \in [Threads -> Entry],
           NEW starting \in [Threads -> Entry],
           NEW closed \in [Threads -> Nat \cup {NotClosed}],
           NEW known \in SUBSET Threads,
           InstallCatalog(seq, threads, starting, closed, known)
    PROVE  /\ catalog' \in [Threads -> Entry]
           /\ catalogSeq' \in Nat
           /\ started' \in [Threads -> Entry]
           /\ closedStarted' \in [Threads -> Nat \cup {NotClosed}]
           /\ hidden' \in SUBSET Threads
<1>. USE DEF TypeOK, RuntimeTypeOK
<1>1. CASE seq > catalogSeq
  <2>1. WithoutHidden(threads) \in [Threads -> Entry]
      BY DEF WithoutHidden, Entry
  <2>2. started' \in [Threads -> Entry]
      BY <1>1 DEF InstallCatalog, Entry
  <2>3. closedStarted' \in [Threads -> Nat \cup {NotClosed}]
      BY <1>1 DEF InstallCatalog
  <2>4. /\ catalog' = WithoutHidden(threads)
        /\ catalogSeq' = seq
        /\ hidden' \in SUBSET Threads
      BY <1>1, DaemonAssumption DEF InstallCatalog, DaemonAssumption
  <2>. QED BY <2>1, <2>2, <2>3, <2>4
<1>2. CASE ~(seq > catalogSeq)
    BY <1>2 DEF InstallCatalog
<1>. QED BY <1>1, <1>2

\* The statuses a catalog leaves in place are typed.
LEMMA StatusKeptType ==
    ASSUME TypeOK, NEW seq, NEW threads
    PROVE  StatusKept(seq, threads) \in [Threads -> Status]
    BY DEF StatusKept, TypeOK, RuntimeTypeOK, Status

\* Dropping the connection keeps everything typed.
LEMMA DisconnectedType ==
    ASSUME TypeOK, NEW err \in Errors, Disconnected(err),
           faults' \in Nat, pc' \in RunStates
    PROVE  TypeOK'
<1>1. DaemonTypeOK'
  <2>1. wire' \in Seq(Notification)
      BY DEF Disconnected
  <2>. QED BY <2>1 DEF Disconnected, TypeOK, DaemonTypeOK
<1>2. /\ status' \in [Threads -> Status]
      /\ activeTurnHints' \in [Threads -> Turns \cup {NoTurn}]
    BY DEF Disconnected, AllNotLoaded, NoHints, Status
<1>3. RuntimeTypeOK'
    BY <1>2, EmptySnapType
    DEF Disconnected, TypeOK, RuntimeTypeOK, catalogVars, requestVars,
        Update, RowType
<1>. QED BY <1>1, <1>3 DEF TypeOK

\* The fields of the running snapshot, one by one.
LEMMA SnapFields ==
    ASSUME snap \in SnapType
    PROVE  /\ snap.seq \in Nat /\ snap.round \in Nat
           /\ snap.threads \in [Threads -> Entry]
           /\ snap.loaded \in [Threads -> Entry]
           /\ snap.status \in [Threads -> Status]
           /\ snap.todo \in SUBSET Threads /\ snap.hidden \in SUBSET Threads
    BY DEF SnapType

\* The running snapshot stays typed under each update its steps make.
LEMMA SnapUpdates ==
    ASSUME NEW s \in SnapType, NEW q \in Nat, NEW d \in SUBSET Threads
    PROVE  /\ [s EXCEPT !.seq = q] \in SnapType
           /\ [s EXCEPT !.todo = d, !.round = q] \in SnapType
    BY DEF SnapType

\* The fields of a reply, one by one.
LEMMA ReplyFields ==
    ASSUME DaemonTypeOK
    PROVE  /\ reply.kind = "list" => reply.names \in [Threads -> Entry]
           /\ reply.kind = "loaded" => reply.ids \in SUBSET Threads
           /\ reply.kind = "read" => /\ reply.id \in Threads
                                     /\ reply.name \in Names
                                     /\ reply.status \in Status
    BY DEF DaemonTypeOK, Reply, NoReply, Entry

\* An answered request leaves a well-formed reply.
LEMMA AnswerRequestType ==
    ASSUME TypeOK, AnswerRequest
    PROVE  TypeOK'
<1>1. RuntimeTypeOK'
    BY DEF AnswerRequest, runtimeVars, catalogVars, requestVars, linkVars,
           TypeOK, RuntimeTypeOK, Update, RowType
<1>2. Len(wire) \in Nat
    BY DEF TypeOK, DaemonTypeOK
<1>3. ListReply \in Reply
    BY <1>2, NativeCatalogType DEF ListReply, Reply, Entry, TypeOK
<1>4. LoadedReply \in Reply
    BY <1>2 DEF LoadedReply, Reply, Loaded
<1>5. ASSUME NEW t \in Threads PROVE ReadReply(t) \in Reply
    BY <1>2 DEF ReadReply, Reply, TypeOK, DaemonTypeOK
<1>6. reply' \in Reply
    BY <1>3, <1>4, <1>5, SnapFields DEF AnswerRequest, TypeOK, RuntimeTypeOK
<1>. QED BY <1>1, <1>6 DEF AnswerRequest, TypeOK, DaemonTypeOK

\* The run goroutine's steps.
LEMMA RunStepType ==
    ASSUME TypeOK, RunStep
    PROVE  TypeOK'
<1>. USE DEF TypeOK, RuntimeTypeOK, DaemonTypeOK, catalogVars, requestVars,
             linkVars, daemonVars, Update, RowType, RunStates
<1>0. snap' \in SnapType /\ DaemonTypeOK' /\ RuntimeTypeOK' => TypeOK'
    OBVIOUS
<1>1. CASE Connect
    BY <1>1 DEF Connect
<1>2. CASE BeginSnapshot
  <2>1. fetchSeq + 1 \in Nat
      OBVIOUS
  <2>2. snap' \in SnapType
      BY <1>2, <2>1, EmptySnapType, SnapUpdates DEF BeginSnapshot
  <2>3. PICK q \in Nat : q = fetchSeq + 1
      BY <2>1
  <2>. QED BY <1>2, <2>2, <2>3 DEF BeginSnapshot
<1>3. CASE SnapshotListed
  <2>1. snap' \in SnapType
      BY <1>3, ReplyFields DEF SnapshotListed, Received, SnapType
  <2>. QED BY <1>3, <2>1 DEF SnapshotListed, SnapshotStep
<1>4. CASE SnapshotLoaded
  <2>1. snap' \in SnapType
      BY <1>4, ReplyFields DEF SnapshotLoaded, Received, SnapType
  <2>. QED BY <1>4, <2>1 DEF SnapshotLoaded, SnapshotStep, AfterReads
<1>5. CASE SnapshotRead
  <2>1. reply.id \in Threads /\ reply.name \in Entry /\ reply.status \in Status
      BY <1>5, ReplyFields DEF SnapshotRead, Received, Entry
  <2>2. snap' \in SnapType
    <3>. DEFINE todo == snap.todo \ {reply.id}
                hid == IF reply.id \in HiddenThreads
                       THEN snap.hidden \cup {reply.id} ELSE snap.hidden
    <3>1. PICK s \in Status, n \in Entry :
              snap' = [snap EXCEPT !.todo = todo, !.hidden = hid,
                                   !.status[reply.id] = s,
                                   !.loaded[reply.id] = n]
        BY <1>5, <2>1 DEF SnapshotRead, Entry, Status
    <3>2. todo \in SUBSET Threads /\ hid \in SUBSET Threads
        BY <2>1, SnapFields
    <3>. HIDE DEF todo, hid
    <3>. QED BY <2>1, <3>1, <3>2 DEF SnapType
  <2>3. pc' \in RunStates
      BY <1>5 DEF SnapshotRead, SnapshotStep, AfterReads
  <2>. QED BY <1>5, <2>2, <2>3 DEF SnapshotRead, SnapshotStep
<1>6. CASE RereadDirty
  <2>1. snap' \in SnapType
    <3>1. snap.round + 1 \in Nat
        BY SnapFields
    <3>. QED BY <1>6, <3>1, SnapUpdates DEF RereadDirty
  <2>. QED BY <1>6, <2>1 DEF RereadDirty
<1>7. CASE InstallSnapshot
  <2>. DEFINE known == hidden \cup snap.hidden
  <2>1. known \in SUBSET Threads /\ snap.seq \in Nat
        /\ snap.threads \in [Threads -> Entry]
      BY SnapFields
  <2>2. SnapshotStarted(known) \in [Threads -> Entry]
    <3>1. ASSUME NEW t \in Threads
          PROVE  snap.loaded[t] \in Entry /\ started[t] \in Entry
        BY SnapFields
    <3>. QED BY <3>1 DEF SnapshotStarted, Entry
  <2>3. NoneClosed \in [Threads -> Nat \cup {NotClosed}]
      BY DEF NoneClosed
  <2>4. InstallCatalog(snap.seq, snap.threads, SnapshotStarted(known),
                       NoneClosed, known)
      BY <1>7 DEF InstallSnapshot
  <2>. HIDE DEF known
  <2>5. /\ catalog' \in [Threads -> Entry]
        /\ catalogSeq' \in Nat
        /\ started' \in [Threads -> Entry]
        /\ closedStarted' \in [Threads -> Nat \cup {NotClosed}]
        /\ hidden' \in SUBSET Threads
      BY <2>1, <2>2, <2>3, <2>4, InstallCatalogType
  <2>6. status' \in [Threads -> Status]
      BY <1>7, SnapFields DEF InstallSnapshot, Status
  <2>. QED BY <1>7, <2>5, <2>6, EmptySnapType
           DEF InstallSnapshot, Kick, Errors
<1>8. CASE SnapshotFails
    BY <1>8, DisconnectedType DEF SnapshotFails, Errors
<1>9. CASE ServeRequest
  <2>1. pc' \in RunStates /\ needCatalog' \in BOOLEAN
      BY <1>9 DEF ServeRequest
  <2>. QED BY <1>9, <2>1 DEF ServeRequest
<1>10. CASE AwaitWake
    BY <1>10 DEF AwaitWake
<1>11. CASE BeginResync
  <2>1. snap' \in SnapType
    <3>1. fetchSeq + 1 \in Nat
        OBVIOUS
    <3>. QED BY <1>11, <3>1, EmptySnapType, SnapUpdates DEF BeginResync
  <2>. QED BY <1>11, <2>1 DEF BeginResync
<1>12. CASE InstallResync
  <2>1. snap.seq \in Nat /\ reply.names \in [Threads -> Entry]
      BY <1>12, ReplyFields, SnapFields DEF InstallResync, Received
  <2>2. InstallCatalog(snap.seq, reply.names, started, closedStarted, hidden)
      BY <1>12 DEF InstallResync
  <2>3. /\ catalog' \in [Threads -> Entry]
        /\ catalogSeq' \in Nat
        /\ started' \in [Threads -> Entry]
        /\ closedStarted' \in [Threads -> Nat \cup {NotClosed}]
        /\ hidden' \in SUBSET Threads
      BY <2>1, <2>2, InstallCatalogType
  <2>4. status' \in [Threads -> Status]
      BY <1>12, StatusKeptType DEF InstallResync
  <2>. QED BY <1>12, <2>1, <2>3, <2>4, EmptySnapType DEF InstallResync
<1>. QED BY <1>1, <1>2, <1>3, <1>4, <1>5, <1>6, <1>7, <1>8, <1>9, <1>10,
            <1>11, <1>12 DEF RunStep

\* Connection failures, lifecycles and the publisher.
LEMMA LifecycleType ==
    ASSUME TypeOK,
           \/ ConnectFails \/ ConnectionLost \/ StartLifecycle
           \/ StopLifecycle \/ Publish
    PROVE  TypeOK'
<1>1. faults \in Nat /\ pc \in RunStates
    BY DEF TypeOK, RuntimeTypeOK
<1>2. CASE ConnectFails
    BY <1>1, <1>2, DisconnectedType DEF ConnectFails, Errors
<1>3. CASE ConnectionLost
    BY <1>1, <1>3, DisconnectedType DEF ConnectionLost, Errors, RunStates
<1>4. CASE StopLifecycle
    BY <1>1, <1>4, DisconnectedType DEF StopLifecycle, Errors, RunStates
<1>5. CASE StartLifecycle
    BY <1>5 DEF StartLifecycle, TypeOK, RuntimeTypeOK, DaemonTypeOK,
                daemonVars, requestVars, Update, RowType, RunStates, Errors,
                AllNotLoaded, NoHints, AllAbsent, NoneClosed, Status, Entry
<1>6. CASE Publish
  <2>1. published' \in Update
      BY <1>6, RowsType DEF Publish, TypeOK, RuntimeTypeOK, Update
  <2>. QED BY <1>6, <2>1 DEF Publish, TypeOK, RuntimeTypeOK, DaemonTypeOK,
                daemonVars, catalogVars, requestVars, linkVars
<1>. QED BY <1>2, <1>3, <1>4, <1>5, <1>6

\* What a List's steps make of its locals.
LEMMA ListUpdates ==
    ASSUME lists \in [ListCalls -> ListState], NEW c \in ListCalls,
           NEW p \in {"asked", "answered", "done"}, NEW q \in Nat,
           NEW m \in [Threads -> Entry]
    PROVE  /\ [lists EXCEPT ![c].pc = p] \in [ListCalls -> ListState]
           /\ [lists EXCEPT ![c].pc = p, ![c].seq = q] \in [ListCalls -> ListState]
           /\ [lists EXCEPT ![c].pc = p, ![c].threads = m]
                  \in [ListCalls -> ListState]
<1>1. /\ [lists[c] EXCEPT !.pc = p] \in ListState
      /\ [lists[c] EXCEPT !.pc = p, !.seq = q] \in ListState
      /\ [lists[c] EXCEPT !.pc = p, !.threads = m] \in ListState
    BY DEF ListState
<1>. QED BY <1>1

\* The steps of Provider.List keep everything typed.
LEMMA ListStepType ==
    ASSUME TypeOK, NEW c \in ListCalls, ListStep(c)
    PROVE  TypeOK'
<1>. USE DEF TypeOK, RuntimeTypeOK, DaemonTypeOK, ListUnchanged, daemonVars,
             catalogVars, requestVars, linkVars, Update, RowType
<1>1. CASE BeginList(c)
  <2>1. fetchSeq + 1 \in Nat
      OBVIOUS
  <2>2. lists' \in [ListCalls -> ListState]
      BY <1>1, <2>1, ListUpdates DEF BeginList
  <2>. QED BY <1>1, <2>1, <2>2 DEF BeginList
<1>2. CASE AnswerList(c)
  <2>1. NativeCatalog \in [Threads -> Entry]
      BY NativeCatalogType
  <2>2. lists' \in [ListCalls -> ListState]
      BY <1>2, <2>1, ListUpdates DEF AnswerList
  <2>. QED BY <1>2, <2>2 DEF AnswerList
<1>3. CASE FailList(c)
  <2>1. lists' \in [ListCalls -> ListState]
      BY <1>3, ListUpdates DEF FailList
  <2>. QED BY <1>3, <2>1 DEF FailList
<1>4. CASE InstallList(c)
  <2>1. /\ lists[c].seq \in Nat
        /\ lists[c].threads \in [Threads -> Entry]
      BY DEF ListState
  <2>2. InstallCatalog(lists[c].seq, lists[c].threads, started,
                       closedStarted, hidden)
      BY <1>4 DEF InstallList
  <2>3. /\ catalog' \in [Threads -> Entry]
        /\ catalogSeq' \in Nat
        /\ started' \in [Threads -> Entry]
        /\ closedStarted' \in [Threads -> Nat \cup {NotClosed}]
        /\ hidden' \in SUBSET Threads
      BY <2>1, <2>2, InstallCatalogType
  <2>4. status' \in [Threads -> Status]
      BY <1>4, StatusKeptType DEF InstallList
  <2>5. lists' \in [ListCalls -> ListState]
    <3>1. AllAbsent \in [Threads -> Entry]
        BY DEF AllAbsent, Entry
    <3>. QED BY <1>4, <3>1, ListUpdates DEF InstallList
  <2>. QED BY <1>4, <2>3, <2>4, <2>5 DEF InstallList, Kick
<1>. QED BY <1>1, <1>2, <1>3, <1>4 DEF ListStep

\* The turn hints' steps keep everything typed.
LEMMA HintStepType ==
    ASSUME TypeOK, HintStep
    PROVE  TypeOK'
<1>1. activeTurnHints' \in [Threads -> Turns \cup {NoTurn}] /\ HintsOnly
    BY DEF HintStep, RememberActiveTurn, ForgetActiveTurn, TypeOK,
           RuntimeTypeOK
<1>. QED BY <1>1 DEF HintsOnly, TypeOK, RuntimeTypeOK, DaemonTypeOK,
            daemonVars, catalogVars, requestVars, linkVars, Update, RowType

\* Every step keeps every variable in its type.
LEMMA NextType == TypeOK /\ [Next]_vars => TypeOK'
<1>. SUFFICES ASSUME TypeOK, [Next]_vars PROVE TypeOK'
    OBVIOUS
<1>1. CASE UNCHANGED vars
    BY <1>1 DEF vars, daemonVars, runtimeVars, catalogVars, requestVars,
                linkVars, TypeOK, DaemonTypeOK, RuntimeTypeOK, Update,
                RowType
<1>2. CASE Next
    BY <1>2, DaemonEventType, HandleNotificationType, AnswerRequestType,
       RunStepType, LifecycleType, ListStepType, HintStepType DEF Next
<1>. QED BY <1>1, <1>2

\* The variables keep their types in every behaviour: the daemon's wire and
\* replies, and the state codexRuntime keeps of them.
THEOREM TypeCorrect == Spec => []TypeOK
    BY InitType, NextType, PTL DEF Spec

-----------------------------------------------------------------------------
(***************************************************************************)
(* The inductive invariant.  Three of the safety properties are not        *)
(* inductive as they stand: where the run goroutine is must say whether a  *)
(* snapshot is running, installed or impossible, and a hidden thread must  *)
(* be kept out of the unfinished snapshot as well.                         *)
(***************************************************************************)

\* Where the run goroutine is decides what the flags say.
Phase ==
    /\ snapshotting <=> pc \in SnapshotStates
    /\ live <=> pc \in ServeStates
    /\ connected <=> pc \notin {"stopped", "backoff"}

HiddenOut ==
    \A t \in HiddenThreads :
        started[t] = Absent /\ catalog[t] = Absent /\ snap.loaded[t] = Absent

\* Phase holds before the first lifecycle.
LEMMA PhaseInit == Init => Phase
    BY DEF Init, DaemonInit, RuntimeInit, Phase, SnapshotStates, ServeStates

\* A daemon event neither opens nor closes the connection.
LEMMA DaemonEventFrame ==
    ASSUME DaemonEvent
    PROVE  UNCHANGED connected
    BY DEF DaemonEvent, Event, StartThread, PersistThread, ChangeStatus,
           CloseThread, ResumeThread, RemoveThread, UnarchiveThread,
           RenameThread

\* connect, disconnected and the snapshot's end move the flags together with
\* the goroutine.
LEMMA PhaseStep == Phase /\ TypeOK /\ [Next]_vars => Phase'
<1>. SUFFICES ASSUME Phase, TypeOK, [Next]_vars PROVE Phase'
    OBVIOUS
<1>. USE DEF Phase, SnapshotStates, ServeStates, linkVars, daemonVars
<1>1. CASE UNCHANGED vars
    BY <1>1 DEF vars, runtimeVars
<1>2. CASE DaemonEvent /\ UNCHANGED runtimeVars
    BY <1>2, DaemonEventFrame DEF runtimeVars
<1>3. CASE HandleNotification
    BY <1>3 DEF HandleNotification
<1>4. CASE AnswerRequest
    BY <1>4 DEF AnswerRequest, runtimeVars
<1>5. CASE RunStep
  <2>1. CASE Connect
      BY <2>1 DEF Connect
  <2>2. CASE BeginSnapshot
      BY <2>2 DEF BeginSnapshot
  <2>3. CASE SnapshotListed
      BY <2>3 DEF SnapshotListed, SnapshotStep
  <2>4. CASE SnapshotLoaded
      BY <2>4 DEF SnapshotLoaded, SnapshotStep, AfterReads
  <2>5. CASE SnapshotRead
      BY <2>5 DEF SnapshotRead, SnapshotStep, AfterReads
  <2>6. CASE RereadDirty
      BY <2>6 DEF RereadDirty
  <2>7. CASE InstallSnapshot
      BY <2>7 DEF InstallSnapshot
  <2>8. CASE SnapshotFails
      BY <2>8 DEF SnapshotFails, Disconnected
  <2>9. CASE ServeRequest
      BY <2>9 DEF ServeRequest
  <2>10. CASE AwaitWake
      BY <2>10 DEF AwaitWake
  <2>11. CASE BeginResync
      BY <2>11 DEF BeginResync
  <2>12. CASE InstallResync
      BY <2>12 DEF InstallResync
  <2>. QED BY <1>5, <2>1, <2>2, <2>3, <2>4, <2>5, <2>6, <2>7, <2>8, <2>9,
              <2>10, <2>11, <2>12 DEF RunStep
<1>6. CASE ConnectFails \/ ConnectionLost \/ StopLifecycle
    BY <1>6 DEF ConnectFails, ConnectionLost, StopLifecycle, Disconnected
<1>7. CASE StartLifecycle
    BY <1>7 DEF StartLifecycle
<1>8. CASE Publish
    BY <1>8 DEF Publish
<1>9. ASSUME NEW c \in ListCalls, ListStep(c) PROVE Phase'
    BY <1>9 DEF ListStep, BeginList, AnswerList, FailList, InstallList,
                ListUnchanged
<1>10. CASE HintStep
    BY <1>10 DEF HintStep, RememberActiveTurn, ForgetActiveTurn, HintsOnly
<1>. QED BY <1>1, <1>2, <1>3, <1>4, <1>5, <1>6, <1>7, <1>8, <1>9, <1>10
         DEF Next

\* Dropping a status is always allowed.
LEMMA StatusKeptDrops ==
    ASSUME TypeOK, NEW seq, NEW threads, NEW t \in Threads,
           StatusKept(seq, threads)[t] # NotLoaded
    PROVE  status[t] # NotLoaded
    BY DEF StatusKept

\* No status is known initially.
LEMMA StatusNeedsLiveInit == Init => StatusNeedsLive
    BY DEF Init, RuntimeInit, StatusNeedsLive, AllNotLoaded

\* The reader writes a status on a live connection only, and marks a thread
\* dirty during a snapshot only.
LEMMA SetStatusNeedsLive ==
    ASSUME TypeOK, Phase, StatusNeedsLive, NEW t \in Threads, NEW s,
           SetStatus(t, s), UNCHANGED linkVars
    PROVE  StatusNeedsLive'
    BY DEF SetStatus, Observes, DirtyAfter, StatusNeedsLive, linkVars, Phase,
           SnapshotStates, ServeStates, TypeOK, RuntimeTypeOK

\* No handler stores a status outside a live or running snapshot.
LEMMA StatusNeedsLiveHandled ==
    ASSUME TypeOK, Phase, StatusNeedsLive, HandleNotification
    PROVE  StatusNeedsLive'
<1>. DEFINE n == Head(wire)
<1>1. UNCHANGED linkVars /\ n.thread \in Threads
    BY WireHead, NotificationFields
    DEF HandleNotification, TypeOK, DaemonTypeOK
<1>. HIDE DEF n
<1>2. ASSUME UNCHANGED <<dirty, status>> PROVE StatusNeedsLive'
    BY <1>1, <1>2 DEF StatusNeedsLive, linkVars
<1>3. CASE HandleStatusChanged(n)
    BY <1>1, <1>3, SetStatusNeedsLive DEF HandleStatusChanged
<1>4. CASE HandleClosed(n)
    BY <1>1, <1>4, SetStatusNeedsLive DEF HandleClosed
<1>5. CASE HandleStarted(n)
    BY <1>1, <1>2, <1>5, SetStatusNeedsLive DEF HandleStarted
<1>6. CASE HandleHiddenStarted(n) \/ HandleNameUpdated(n)
           \/ HandleRemoved(n) \/ HandleUnarchived(n)
    BY <1>2, <1>6 DEF HandleHiddenStarted, HandleNameUpdated, HandleRemoved,
                      HandleUnarchived
<1>. QED BY <1>3, <1>4, <1>5, <1>6 DEF HandleNotification, n

\* Every step keeps statuses to live connections and running snapshots.
LEMMA StatusNeedsLiveStep ==
    TypeOK /\ Phase /\ StatusNeedsLive /\ [Next]_vars => StatusNeedsLive'
<1>. SUFFICES ASSUME TypeOK, Phase, StatusNeedsLive, [Next]_vars
              PROVE  StatusNeedsLive'
    OBVIOUS
<1>. USE DEF StatusNeedsLive, linkVars
<1>1. CASE UNCHANGED <<status, dirty, live, snapshotting>>
    BY <1>1
<1>2. CASE HandleNotification
    BY <1>2, StatusNeedsLiveHandled
<1>3. CASE RunStep
  <2>1. CASE BeginSnapshot
      BY <2>1 DEF BeginSnapshot, Phase, SnapshotStates, ServeStates
  <2>2. CASE RereadDirty
      BY <2>2 DEF RereadDirty
  <2>3. CASE InstallSnapshot
      BY <2>3 DEF InstallSnapshot
  <2>4. CASE InstallResync
      BY <2>4, StatusKeptDrops DEF InstallResync
  <2>5. CASE SnapshotFails
      BY <2>5 DEF SnapshotFails, Disconnected, AllNotLoaded
  <2>6. CASE Connect \/ SnapshotListed \/ SnapshotLoaded \/ SnapshotRead
             \/ ServeRequest \/ AwaitWake \/ BeginResync
      BY <1>1, <2>6 DEF Connect, SnapshotListed, SnapshotLoaded,
         SnapshotRead, SnapshotStep, ServeRequest, AwaitWake, BeginResync
  <2>. QED BY <1>3, <2>1, <2>2, <2>3, <2>4, <2>5, <2>6 DEF RunStep
<1>4. CASE ConnectFails \/ ConnectionLost \/ StopLifecycle
    BY <1>4 DEF ConnectFails, ConnectionLost, StopLifecycle, Disconnected,
                AllNotLoaded
<1>5. CASE StartLifecycle
    BY <1>5 DEF StartLifecycle, Phase, SnapshotStates, ServeStates,
                AllNotLoaded
<1>6. ASSUME NEW c \in ListCalls, ListStep(c) PROVE StatusNeedsLive'
  <2>1. CASE InstallList(c)
      BY <2>1, StatusKeptDrops DEF InstallList, ListUnchanged
  <2>2. CASE BeginList(c) \/ AnswerList(c) \/ FailList(c)
      BY <1>1, <2>2 DEF BeginList, AnswerList, FailList, ListUnchanged
  <2>. QED BY <1>6, <2>1, <2>2 DEF ListStep
<1>7. CASE \/ UNCHANGED vars
           \/ DaemonEvent /\ UNCHANGED runtimeVars
           \/ AnswerRequest \/ Publish \/ HintStep
    BY <1>1, <1>7 DEF vars, runtimeVars, AnswerRequest, Publish, HintStep,
       RememberActiveTurn, ForgetActiveTurn, HintsOnly
<1>. QED BY <1>2, <1>3, <1>4, <1>5, <1>6, <1>7 DEF Next

\* No late notification, catalog or List brings back a status of a
\* connection that is not live, and only a running snapshot has threads to
\* read again.
THEOREM StatusNeedsLiveAlways == Spec => []StatusNeedsLive
    BY InitType, NextType, PhaseInit, PhaseStep, StatusNeedsLiveInit,
       StatusNeedsLiveStep, PTL DEF Spec

-----------------------------------------------------------------------------
(* Hidden threads.                                                         *)

\* No thread is visible initially.
LEMMA HiddenInit == Init => HiddenOut
<1>1. EmptySnap.loaded = AllAbsent
    BY DEF EmptySnap
<1>2. \A t \in HiddenThreads : AllAbsent[t] = Absent
    BY DaemonAssumption DEF DaemonAssumption, AllAbsent
<1>. QED BY <1>1, <1>2 DEF Init, RuntimeInit, HiddenOut

\* Whatever a catalog lists, no hidden thread enters through it.
LEMMA InstallCatalogHides ==
    ASSUME TypeOK, HiddenOut, NEW seq, NEW threads, NEW starting, NEW closed,
           NEW known, InstallCatalog(seq, threads, starting, closed, known),
           \A t \in HiddenThreads : starting[t] = Absent
    PROVE  \A t \in HiddenThreads :
               started'[t] = Absent /\ catalog'[t] = Absent
<1>. USE DaemonAssumption DEF DaemonAssumption
<1>1. CASE seq > catalogSeq
    BY <1>1 DEF InstallCatalog, WithoutHidden
<1>2. CASE ~(seq > catalogSeq)
    BY <1>2 DEF InstallCatalog, HiddenOut
<1>. QED BY <1>1, <1>2

\* No notification brings a hidden thread in.
LEMMA HiddenHandled ==
    ASSUME TypeOK, HiddenOut, HandleNotification
    PROVE  HiddenOut'
<1>. DEFINE n == Head(wire)
<1>1. snap' = snap /\ n.thread \in Threads
    BY WireHead, NotificationFields
    DEF HandleNotification, TypeOK, DaemonTypeOK
<1>. HIDE DEF n
<1>. USE DaemonAssumption
     DEF HiddenOut, TypeOK, RuntimeTypeOK, DaemonAssumption
<1>2. CASE HandleStarted(n)
    BY <1>1, <1>2 DEF HandleStarted
<1>3. CASE HandleNameUpdated(n)
  <2>1. ASSUME NEW map, NEW t \in Threads, map[t] = Absent,
               NEW u \in Threads,
               NEW new, new = IF map[u] = Absent THEN map
                              ELSE [map EXCEPT ![u] = n.name]
        PROVE  new[t] = Absent
      BY <2>1
  <2>2. ASSUME NEW t \in HiddenThreads
        PROVE  started'[t] = Absent /\ catalog'[t] = Absent
      BY <1>1, <1>3, <2>1 DEF HandleNameUpdated
  <2>. QED BY <1>1, <2>2
<1>4. CASE HandleRemoved(n)
    BY <1>1, <1>4 DEF HandleRemoved
<1>5. CASE HandleStatusChanged(n) \/ HandleClosed(n)
           \/ HandleHiddenStarted(n) \/ HandleUnarchived(n)
    BY <1>1, <1>5 DEF HandleStatusChanged, HandleClosed, HandleHiddenStarted,
                      HandleUnarchived
<1>. QED BY <1>2, <1>3, <1>4, <1>5 DEF HandleNotification, n

\* Every step keeps hidden threads out.
LEMMA HiddenStep == TypeOK /\ HiddenOut /\ [Next]_vars => HiddenOut'
<1>. SUFFICES ASSUME TypeOK, HiddenOut, [Next]_vars PROVE HiddenOut'
    OBVIOUS
<1>. USE DaemonAssumption DEF HiddenOut, catalogVars, DaemonAssumption
<1>1. CASE UNCHANGED <<started, catalog, snap>>
    BY <1>1
<1>2. CASE HandleNotification
    BY <1>2, HiddenHandled
<1>3. \A t \in Threads : EmptySnap.loaded[t] = Absent
    BY DEF EmptySnap, AllAbsent
<1>4. ASSUME NEW err, Disconnected(err) PROVE HiddenOut'
    BY <1>3, <1>4 DEF Disconnected
<1>5. CASE RunStep
  <2>1. CASE BeginSnapshot \/ BeginResync
    <3>1. snap'.loaded = EmptySnap.loaded /\ UNCHANGED <<started, catalog>>
        BY <2>1 DEF BeginSnapshot, BeginResync, EmptySnap
    <3>. QED BY <1>3, <3>1
  <2>2. CASE SnapshotListed \/ SnapshotLoaded \/ RereadDirty
    <3>1. UNCHANGED <<started, catalog>>
        BY <2>2 DEF SnapshotListed, SnapshotLoaded, RereadDirty, SnapshotStep
    <3>2. snap'.loaded = snap.loaded
        BY <2>2 DEF SnapshotListed, SnapshotLoaded, RereadDirty, SnapType,
                    TypeOK, RuntimeTypeOK
    <3>. QED BY <3>1, <3>2
  <2>3. CASE SnapshotRead
    <3>1. reply.id \in Threads
        BY <2>3, ReplyFields DEF SnapshotRead, Received, TypeOK
    <3>2. PICK v : /\ snap'.loaded = [snap.loaded EXCEPT ![reply.id] = v]
                   /\ reply.id \in HiddenThreads => v = Absent
        BY <2>3 DEF SnapshotRead, SnapType, TypeOK, RuntimeTypeOK
    <3>3. snap.loaded \in [Threads -> Entry]
        BY SnapFields DEF TypeOK, RuntimeTypeOK
    <3>4. UNCHANGED <<started, catalog>>
        BY <2>3 DEF SnapshotRead, SnapshotStep
    <3>. QED BY <3>1, <3>2, <3>3, <3>4
  <2>4. CASE InstallSnapshot
    <3>. DEFINE known == hidden \cup snap.hidden
    <3>1. InstallCatalog(snap.seq, snap.threads, SnapshotStarted(known),
                         NoneClosed, known)
        BY <2>4 DEF InstallSnapshot
    <3>2. \A t \in HiddenThreads : SnapshotStarted(known)[t] = Absent
        BY DEF SnapshotStarted
    <3>. HIDE DEF known
    <3>3. snap' = EmptySnap
        BY <2>4 DEF InstallSnapshot
    <3>. QED BY <1>3, <3>1, <3>2, <3>3, InstallCatalogHides
  <2>5. CASE InstallResync
    <3>1. InstallCatalog(snap.seq, reply.names, started, closedStarted,
                         hidden)
          /\ snap' = EmptySnap
        BY <2>5 DEF InstallResync
    <3>. QED BY <1>3, <3>1, InstallCatalogHides
  <2>6. CASE SnapshotFails
      BY <1>4, <2>6 DEF SnapshotFails
  <2>7. CASE Connect \/ ServeRequest \/ AwaitWake
      BY <1>1, <2>7 DEF Connect, ServeRequest, AwaitWake
  <2>. QED BY <1>5, <2>1, <2>2, <2>3, <2>4, <2>5, <2>6, <2>7 DEF RunStep
<1>6. CASE ConnectFails \/ ConnectionLost \/ StopLifecycle
    BY <1>4, <1>6 DEF ConnectFails, ConnectionLost, StopLifecycle
<1>7. CASE StartLifecycle
    BY <1>7 DEF StartLifecycle, AllAbsent
<1>8. ASSUME NEW c \in ListCalls, ListStep(c) PROVE HiddenOut'
  <2>1. CASE InstallList(c)
    <3>1. InstallCatalog(lists[c].seq, lists[c].threads, started,
                         closedStarted, hidden)
          /\ UNCHANGED snap
        BY <2>1 DEF InstallList, ListUnchanged
    <3>. QED BY <3>1, InstallCatalogHides
  <2>2. CASE BeginList(c) \/ AnswerList(c) \/ FailList(c)
      BY <1>1, <2>2 DEF BeginList, AnswerList, FailList, ListUnchanged
  <2>. QED BY <1>8, <2>1, <2>2 DEF ListStep
<1>9. CASE \/ UNCHANGED vars
           \/ DaemonEvent /\ UNCHANGED runtimeVars
           \/ AnswerRequest \/ Publish \/ HintStep
    BY <1>1, <1>9 DEF vars, runtimeVars, AnswerRequest, Publish, HintStep,
       RememberActiveTurn, ForgetActiveTurn, HintsOnly
<1>. QED BY <1>2, <1>5, <1>6, <1>7, <1>8, <1>9 DEF Next

\* No internal title-generation thread is ever a row: not by its
\* notification, its snapshot read, a catalog or a List.
THEOREM HiddenNeverVisibleAlways == Spec => []HiddenNeverVisible
<1>1. HiddenOut => HiddenNeverVisible
    BY DEF HiddenOut, HiddenNeverVisible, Visible
<1>. QED BY <1>1, InitType, NextType, HiddenInit, HiddenStep, PTL DEF Spec

-----------------------------------------------------------------------------
(* What the subscribers were handed last.                                  *)

\* Rows and warning depend on these four variables and no others.
LEMMA RowsFrame ==
    ASSUME UNCHANGED <<started, catalog, status, live, lastErr>>
    PROVE  RowsUpdate' = RowsUpdate
    BY DEF RowsUpdate, Rows

\* Nobody is subscribed initially.
LEMMA PublishedInit == Init => PublishedIsCurrent
    BY DEF Init, RuntimeInit, PublishedIsCurrent

\* A step that leaves the rows alone, or signals, keeps the updates current.
LEMMA PublishedKept ==
    ASSUME TypeOK, PublishedIsCurrent, pc # "stopped", UNCHANGED published,
           \/ changed' = TRUE
           \/ UNCHANGED <<started, catalog, status, live, everLive, lastErr,
                          changed>>
    PROVE  PublishedIsCurrent'
<1>1. CASE changed' = TRUE
    BY <1>1 DEF PublishedIsCurrent
<1>2. CASE UNCHANGED <<started, catalog, status, live, everLive, lastErr,
                       changed>>
    BY <1>2, RowsFrame DEF PublishedIsCurrent
<1>. QED BY <1>1, <1>2

\* Before the lifecycle nothing arrives and nothing is installed but by a
\* List call, and nobody is subscribed.
LEMMA PublishedStopped ==
    ASSUME pc' = "stopped"
    PROVE  PublishedIsCurrent'
    BY DEF PublishedIsCurrent

\* A handler that changes a row signals the publisher.
LEMMA PublishedHandled ==
    ASSUME TypeOK, PublishedIsCurrent, pc # "stopped", HandleNotification
    PROVE  PublishedIsCurrent'
<1>. DEFINE n == Head(wire)
<1>1. /\ UNCHANGED <<linkVars, published, pc>>
      /\ n.thread \in Threads /\ n \in Notification
    BY WireHead, NotificationFields
    DEF HandleNotification, TypeOK, DaemonTypeOK
<1>. HIDE DEF n
<1>2. changed \in BOOLEAN /\ started \in [Threads -> Entry]
      /\ catalog \in [Threads -> Entry]
    BY DEF TypeOK, RuntimeTypeOK
<1>. USE DEF linkVars
<1>3. CASE HandleStatusChanged(n)
    BY <1>1, <1>2, <1>3, PublishedKept DEF HandleStatusChanged, SetStatus
<1>4. CASE HandleClosed(n)
    BY <1>1, <1>2, <1>4, PublishedKept DEF HandleClosed, SetStatus
<1>5. CASE HandleHiddenStarted(n)
    BY <1>1, <1>5, PublishedKept DEF HandleHiddenStarted
<1>6. CASE HandleStarted(n)
    BY <1>1, <1>6, PublishedKept DEF HandleStarted, Kick
<1>7. CASE HandleNameUpdated(n)
    BY <1>1, <1>2, <1>7, PublishedKept DEF HandleNameUpdated, Visible
<1>8. CASE HandleRemoved(n)
  <2>1. started[n.thread] = Absent => started' = started
      BY <1>1, <1>2, <1>8 DEF HandleRemoved
  <2>. QED BY <1>1, <1>2, <1>8, <2>1, PublishedKept DEF HandleRemoved
<1>9. CASE HandleUnarchived(n)
    BY <1>1, <1>9, PublishedKept DEF HandleUnarchived
<1>. QED BY <1>3, <1>4, <1>5, <1>6, <1>7, <1>8, <1>9
         DEF HandleNotification, n

\* A catalog that is not the newest changes no status.
LEMMA StaleCatalog ==
    ASSUME TypeOK, NEW seq, NEW threads, ~(seq > catalogSeq)
    PROVE  StatusKept(seq, threads) = status
    BY DEF StatusKept, TypeOK, RuntimeTypeOK

\* disconnected signals only what a consumer can see: with no connection the
\* statuses are unknown, so a second failure for the same reason is silent.
LEMMA PublishedDisconnected ==
    ASSUME TypeOK, PublishedIsCurrent, pc # "stopped", NEW err,
           Disconnected(err)
    PROVE  PublishedIsCurrent'
<1>1. changed \in BOOLEAN /\ live \in BOOLEAN
    BY DEF TypeOK, RuntimeTypeOK
<1>2. CASE changed \/ live \/ lastErr # err
    BY <1>1, <1>2 DEF Disconnected, PublishedIsCurrent
<1>3. CASE ~(changed \/ live \/ lastErr # err)
  <2>1. /\ ~live /\ ~live' /\ ~changed
        /\ UNCHANGED <<started, catalog, lastErr, everLive, published>>
      BY <1>1, <1>3 DEF Disconnected, catalogVars
  <2>2. RowsUpdate' = RowsUpdate
      BY <2>1 DEF RowsUpdate, Rows
  <2>. QED BY <2>1, <2>2 DEF PublishedIsCurrent
<1>. QED BY <1>2, <1>3

\* Every step of the run goroutine that changes a row signals the publisher.
LEMMA PublishedRunStep ==
    ASSUME TypeOK, PublishedIsCurrent, pc # "stopped", RunStep
    PROVE  PublishedIsCurrent'
<1>. USE DEF catalogVars, linkVars
<1>1. changed \in BOOLEAN
    BY DEF TypeOK, RuntimeTypeOK
<1>2. CASE InstallSnapshot
    BY <1>2, PublishedKept DEF InstallSnapshot, Kick
<1>3. CASE InstallResync
  <2>1. CASE snap.seq > catalogSeq
      BY <1>1, <1>3, <2>1, PublishedKept DEF InstallResync
  <2>2. CASE ~(snap.seq > catalogSeq)
    <3>1. UNCHANGED <<started, catalog, status, changed>>
        BY <1>1, <1>3, <2>2, StaleCatalog DEF InstallResync, InstallCatalog
    <3>. QED BY <1>3, <3>1, PublishedKept DEF InstallResync
  <2>. QED BY <2>1, <2>2
<1>4. CASE SnapshotFails
    BY <1>4, PublishedDisconnected DEF SnapshotFails
<1>5. CASE BeginSnapshot
    BY <1>5, PublishedKept DEF BeginSnapshot
<1>6. CASE Connect \/ RereadDirty \/ ServeRequest \/ AwaitWake \/ BeginResync
    BY <1>6, PublishedKept DEF Connect, RereadDirty, ServeRequest, AwaitWake,
                               BeginResync
<1>7. CASE SnapshotListed \/ SnapshotLoaded \/ SnapshotRead
    BY <1>7, PublishedKept DEF SnapshotListed, SnapshotLoaded, SnapshotRead,
                               SnapshotStep
<1>. QED BY <1>2, <1>3, <1>4, <1>5, <1>6, <1>7 DEF RunStep

\* Every step that changes a row signals the publisher or publishes it.
LEMMA PublishedStep ==
    TypeOK /\ Phase /\ PublishedIsCurrent /\ [Next]_vars => PublishedIsCurrent'
<1>. SUFFICES ASSUME TypeOK, Phase, PublishedIsCurrent, [Next]_vars,
                     pc' # "stopped"
              PROVE  PublishedIsCurrent'
    BY PublishedStopped
<1>. USE DEF catalogVars, linkVars
<1>1. CASE StartLifecycle
    BY <1>1 DEF StartLifecycle, PublishedIsCurrent
<1>2. CASE HandleNotification
  <2>1. pc # "stopped"
      BY <1>2 DEF HandleNotification
  <2>. QED BY <1>2, <2>1, PublishedHandled
<1>3. CASE RunStep
  <2>1. pc # "stopped"
      BY <1>3 DEF RunStep, Connect, BeginSnapshot, SnapshotListed,
         SnapshotLoaded, SnapshotRead, RereadDirty, InstallSnapshot,
         SnapshotFails, ServeRequest, AwaitWake, BeginResync, InstallResync
  <2>. QED BY <1>3, <2>1, PublishedRunStep
<1>4. CASE ConnectFails \/ ConnectionLost \/ StopLifecycle
  <2>1. pc # "stopped"
      BY <1>4 DEF ConnectFails, ConnectionLost, StopLifecycle, Phase
  <2>. QED BY <1>4, <2>1, PublishedDisconnected
           DEF ConnectFails, ConnectionLost, StopLifecycle
<1>5. CASE Publish
  <2>1. UNCHANGED <<started, catalog, status, live, lastErr, everLive>>
      BY <1>5 DEF Publish
  <2>. QED BY <1>5, <2>1, RowsFrame DEF Publish, PublishedIsCurrent
<1>6. ASSUME NEW c \in ListCalls, ListStep(c) PROVE PublishedIsCurrent'
  <2>1. pc # "stopped" /\ UNCHANGED published
      BY <1>6 DEF ListStep, BeginList, AnswerList, FailList, InstallList,
                  ListUnchanged
  <2>. QED BY <1>6, <2>1, PublishedKept
           DEF ListStep, BeginList, AnswerList, FailList, InstallList,
               ListUnchanged, Kick
<1>7. CASE \/ UNCHANGED vars
           \/ DaemonEvent /\ UNCHANGED runtimeVars
           \/ AnswerRequest \/ HintStep
  <2>1. pc # "stopped" /\ UNCHANGED <<started, catalog, status, live,
                                      everLive, lastErr, changed, published>>
      BY <1>7 DEF vars, runtimeVars, AnswerRequest, HintStep,
         RememberActiveTurn, ForgetActiveTurn, HintsOnly
  <2>. QED BY <2>1, PublishedKept
<1>. QED BY <1>1, <1>2, <1>3, <1>4, <1>5, <1>6, <1>7 DEF Next

\* Every change a consumer can see is signalled, whichever of the three
\* actors made it: with no signal pending, the newest update handed to the
\* subscribers is what the runtime holds.
THEOREM PublishedIsCurrentAlways == Spec => []PublishedIsCurrent
    BY InitType, NextType, PhaseInit, PhaseStep, PublishedInit,
       PublishedStep, PTL DEF Spec

-----------------------------------------------------------------------------
(***************************************************************************)
(* One row per thread, as long as Provider.List runs on no second fetch.   *)
(***************************************************************************)

\* The runtime's own fetches install in the order they began.
FetchOrder ==
    /\ catalogSeq <= fetchSeq
    /\ pc \in SnapshotStates \cup {"resync"} =>
            catalogSeq < snap.seq /\ snap.seq <= fetchSeq

\* Catalog fetches are ordered initially.
LEMMA FetchOrderInit == Init => FetchOrder
    BY DEF Init, RuntimeInit, FetchOrder, SnapshotStates

\* Without List calls, a fetch is newer than the installed catalog.
LEMMA FetchOrderStep ==
    ASSUME ListCalls = {}
    PROVE  TypeOK /\ FetchOrder /\ [Next]_vars => FetchOrder'
<1>. SUFFICES ASSUME TypeOK, FetchOrder, [Next]_vars PROVE FetchOrder'
    OBVIOUS
<1>1. fetchSeq \in Nat /\ catalogSeq \in Nat /\ snap.seq \in Nat
    BY SnapFields DEF TypeOK, RuntimeTypeOK
<1>. USE DEF FetchOrder, SnapshotStates, catalogVars
<1>2. CASE UNCHANGED <<pc, catalogSeq, fetchSeq, snap>>
    BY <1>2
<1>3. CASE UNCHANGED <<catalogSeq, fetchSeq>>
           /\ pc' \notin SnapshotStates \cup {"resync"}
    BY <1>3
<1>4. CASE UNCHANGED <<catalogSeq, fetchSeq>> /\ snap'.seq = snap.seq
           /\ pc \in SnapshotStates \cup {"resync"}
    BY <1>4
<1>5. CASE RunStep
  <2>1. CASE BeginSnapshot \/ BeginResync
    <3>1. /\ catalogSeq' = catalogSeq /\ fetchSeq' = fetchSeq + 1
          /\ snap' = [EmptySnap EXCEPT !.seq = fetchSeq + 1]
        BY <2>1 DEF BeginSnapshot, BeginResync
    <3>2. snap'.seq = fetchSeq + 1
        BY <3>1 DEF EmptySnap
    <3>. QED BY <1>1, <3>1, <3>2
  <2>2. CASE SnapshotListed \/ SnapshotLoaded \/ SnapshotRead \/ RereadDirty
    <3>1. snap'.seq = snap.seq
        BY <2>2 DEF SnapshotListed, SnapshotLoaded, SnapshotRead,
                    RereadDirty, SnapType, TypeOK, RuntimeTypeOK
    <3>. QED BY <1>4, <2>2, <3>1 DEF SnapshotListed, SnapshotLoaded,
             SnapshotRead, RereadDirty, SnapshotStep
  <2>3. CASE InstallSnapshot \/ InstallResync
    <3>1. pc' = "serve" /\ fetchSeq' = fetchSeq /\ snap.seq <= fetchSeq
        BY <2>3 DEF InstallSnapshot, InstallResync
    <3>2. catalogSeq' = catalogSeq \/ catalogSeq' = snap.seq
        BY <2>3 DEF InstallSnapshot, InstallResync, InstallCatalog
    <3>. QED BY <1>1, <3>1, <3>2
  <2>4. CASE SnapshotFails
      BY <1>3, <2>4 DEF SnapshotFails, Disconnected
  <2>5. CASE Connect \/ ServeRequest \/ AwaitWake
      BY <1>3, <2>5 DEF Connect, ServeRequest, AwaitWake
  <2>. QED BY <1>5, <2>1, <2>2, <2>3, <2>4, <2>5 DEF RunStep
<1>6. CASE ConnectFails \/ ConnectionLost \/ StopLifecycle
    BY <1>2, <1>3, <1>6
    DEF ConnectFails, ConnectionLost, StopLifecycle, Disconnected
<1>7. CASE StartLifecycle
    BY <1>3, <1>7 DEF StartLifecycle
<1>8. CASE \/ UNCHANGED vars
           \/ DaemonEvent /\ UNCHANGED runtimeVars
           \/ HandleNotification \/ AnswerRequest \/ Publish \/ HintStep
    BY <1>2, <1>8 DEF vars, runtimeVars, HandleNotification, AnswerRequest,
       Publish, HintStep, RememberActiveTurn, ForgetActiveTurn, HintsOnly
<1>. QED BY <1>5, <1>6, <1>7, <1>8 DEF Next

\* An installed catalog takes what it lists out of the live-started threads.
LEMMA InstallCatalogOneRow ==
    ASSUME TypeOK, NEW seq \in Nat, NEW threads, NEW starting, NEW closed,
           NEW known, InstallCatalog(seq, threads, starting, closed, known),
           seq > catalogSeq
    PROVE  OneRowPerThread'
<1>. SUFFICES ASSUME NEW t \in Threads, catalog'[t] # Absent
              PROVE  started'[t] = Absent
    BY DEF OneRowPerThread
<1>1. WithoutHidden(threads)[t] # Absent
    BY DEF InstallCatalog
<1>2. t \in Settled(seq, threads, closed)
    BY <1>1 DEF Settled
<1>. QED BY <1>2 DEF InstallCatalog

\* A handler never lists a thread twice.
LEMMA OneRowHandled ==
    ASSUME TypeOK, OneRowPerThread, HandleNotification
    PROVE  OneRowPerThread'
<1>. DEFINE n == Head(wire)
<1>1. n.thread \in Threads
    BY WireHead, NotificationFields
    DEF HandleNotification, TypeOK, DaemonTypeOK
<1>. HIDE DEF n
<1>. USE DEF OneRowPerThread, TypeOK, RuntimeTypeOK
<1>2. CASE HandleStarted(n)
    BY <1>1, <1>2 DEF HandleStarted
<1>3. CASE HandleNameUpdated(n)
  <2>1. ASSUME NEW map, NEW t \in Threads, map[t] = Absent,
               NEW u \in Threads,
               NEW new, new = IF map[u] = Absent THEN map
                              ELSE [map EXCEPT ![u] = n.name]
        PROVE  new[t] = Absent
      BY <2>1
  <2>. QED BY <1>1, <1>3, <2>1 DEF HandleNameUpdated
<1>4. CASE HandleRemoved(n)
    BY <1>1, <1>4 DEF HandleRemoved
<1>5. CASE HandleStatusChanged(n) \/ HandleClosed(n)
           \/ HandleHiddenStarted(n) \/ HandleUnarchived(n)
    BY <1>5 DEF HandleStatusChanged, HandleClosed, HandleHiddenStarted,
                HandleUnarchived
<1>. QED BY <1>2, <1>3, <1>4, <1>5 DEF HandleNotification, n

\* What a step that begins with no thread listed twice, or that installs a
\* catalog, can do.
OvertakenInstall ==
    /\ pc = "install" /\ pc' = "serve"
    /\ snap.seq <= catalogSeq /\ UNCHANGED catalog

LEMMA TwoRowsStep ==
    ASSUME TypeOK, [Next]_vars
    PROVE  \/ OneRowPerThread'
           \/ ~OneRowPerThread /\ catalogSeq' = catalogSeq
           \/ OvertakenInstall
<1>1. CASE UNCHANGED <<started, catalog, catalogSeq>>
    BY <1>1 DEF OneRowPerThread
<1>2. CASE HandleNotification
    BY <1>2, OneRowHandled DEF HandleNotification
<1>3. snap.seq \in Nat /\ catalogSeq \in Nat
    BY SnapFields DEF TypeOK, RuntimeTypeOK
<1>4. CASE InstallSnapshot
  <2>1. PICK known : InstallCatalog(snap.seq, snap.threads,
                         SnapshotStarted(known), NoneClosed, known)
      BY <1>4 DEF InstallSnapshot
  <2>2. CASE snap.seq > catalogSeq
      BY <1>3, <2>1, <2>2, InstallCatalogOneRow
  <2>3. CASE ~(snap.seq > catalogSeq)
      BY <1>3, <1>4, <2>1, <2>3
      DEF InstallSnapshot, InstallCatalog, OvertakenInstall
  <2>. QED BY <2>2, <2>3
<1>5. ASSUME NEW seq \in Nat, NEW threads,
             InstallCatalog(seq, threads, started, closedStarted, hidden)
      PROVE  \/ OneRowPerThread'
             \/ UNCHANGED <<started, catalog, catalogSeq>>
  <2>1. CASE seq > catalogSeq
      BY <1>5, <2>1, InstallCatalogOneRow
  <2>. QED BY <1>5, <2>1 DEF InstallCatalog
<1>6. CASE InstallResync
  <2>1. InstallCatalog(snap.seq, reply.names, started, closedStarted, hidden)
      BY <1>6 DEF InstallResync
  <2>. QED BY <1>1, <1>3, <1>5, <2>1
<1>7. CASE StartLifecycle
    BY <1>7 DEF StartLifecycle, OneRowPerThread, AllAbsent
<1>8. CASE RunStep /\ ~InstallSnapshot /\ ~InstallResync
    BY <1>1, <1>8 DEF RunStep, Connect, BeginSnapshot, SnapshotListed,
       SnapshotLoaded, SnapshotRead, SnapshotStep, RereadDirty,
       SnapshotFails, Disconnected, ServeRequest, AwaitWake, BeginResync,
       catalogVars
<1>9. CASE ConnectFails \/ ConnectionLost \/ StopLifecycle
    BY <1>1, <1>9 DEF ConnectFails, ConnectionLost, StopLifecycle,
       Disconnected, catalogVars
<1>10. CASE \E c \in ListCalls : ListStep(c)
  <2>1. PICK c \in ListCalls : ListStep(c)
      BY <1>10
  <2>2. CASE InstallList(c)
    <3>1. lists[c].seq \in Nat
        BY DEF TypeOK, RuntimeTypeOK, ListState
    <3>2. InstallCatalog(lists[c].seq, lists[c].threads, started,
                         closedStarted, hidden)
        BY <2>2 DEF InstallList
    <3>. QED BY <1>1, <1>5, <3>1, <3>2
  <2>. QED BY <1>1, <2>1, <2>2 DEF ListStep, BeginList, AnswerList, FailList,
           catalogVars
<1>11. CASE \/ UNCHANGED vars
            \/ DaemonEvent /\ UNCHANGED runtimeVars
            \/ AnswerRequest \/ Publish \/ HintStep
    BY <1>1, <1>11 DEF vars, runtimeVars, AnswerRequest, Publish, HintStep,
       RememberActiveTurn, ForgetActiveTurn, HintsOnly, catalogVars
<1>. QED BY <1>2, <1>4, <1>6, <1>7, <1>8, <1>9, <1>10, <1>11 DEF Next

\* visibleCatalogLocked's promise, a thread is in at most one of the two
\* sets, is broken by one step only, the installation of a snapshot that a
\* List overtook, and the next catalog that is installed restores it.
THEOREM TwoRowsOnlyByOvertakingAlways == Spec => TwoRowsOnlyByOvertaking
<1>1. TypeOK /\ [Next]_vars
          => [~OneRowPerThread' =>
                \/ ~OneRowPerThread /\ catalogSeq' = catalogSeq
                \/ /\ pc = "install" /\ pc' = "serve"
                   /\ snap.seq <= catalogSeq /\ UNCHANGED catalog]_vars
    BY TwoRowsStep DEF OvertakenInstall
<1>. QED BY <1>1, InitType, NextType, PTL DEF Spec, TwoRowsOnlyByOvertaking

\* Without List calls, no snapshot is overtaken, so no step lists a thread
\* twice.
LEMMA OneRowStep ==
    ASSUME ListCalls = {}
    PROVE  TypeOK /\ FetchOrder /\ OneRowPerThread /\ [Next]_vars
               => OneRowPerThread'
<1>1. TypeOK /\ FetchOrder => ~OvertakenInstall
    BY SnapFields DEF TypeOK, RuntimeTypeOK, FetchOrder, SnapshotStates,
                      OvertakenInstall
<1>. QED BY <1>1, TwoRowsStep

-----------------------------------------------------------------------------
(***************************************************************************)
(* The status a live runtime shows, and the rows it keeps, as long as no   *)
(* Provider.List installs a catalog of its own fetch and no thread is      *)
(* unarchived.  Both do break them: a List's fetch is not ordered with the *)
(* notifications, and an archived thread is unloaded without a word.       *)
(***************************************************************************)
Undisturbed == ListCalls = {} /\ "unarchive" \notin Kinds

\* What a notification says of a thread's status.
Tells(n, t) == n.thread = t /\ n.method \in {"started", "status", "closed"}
Told(n) == IF n.method = "closed" THEN NotLoaded ELSE n.status

\* After its first k notifications, w says nothing of t's status.
Quiet(w, t, k) == \A i \in 1 .. Len(w) : i > k => ~Tells(w[i], t)

\* The last thing w says of t's status is s, if it says any.
LastTold(w, t, s) ==
    \A i \in 1 .. Len(w) : Tells(w[i], t) /\ Quiet(w, t, i) => Told(w[i]) = s

\* The threads whose rows the daemon has to answer for.
Kept == {t \in Threads \ HiddenThreads : ~Removed(t)}

\* Broadcasting one more notification.
LEMMA QuietAppend ==
    ASSUME NEW w \in Seq(Notification), NEW n \in Notification, NEW t,
           NEW k \in Nat, k <= Len(w)
    PROVE  Quiet(Append(w, n), t, k) <=> Quiet(w, t, k) /\ ~Tells(n, t)
<1>1. Len(Append(w, n)) = Len(w) + 1 /\ Append(w, n)[Len(w) + 1] = n
      /\ \A i \in 1 .. Len(w) : Append(w, n)[i] = w[i]
    OBVIOUS
<1>. QED BY <1>1 DEF Quiet

\* Handling the oldest notification.
LEMMA QuietTail ==
    ASSUME NEW w \in Seq(Notification), w # <<>>, NEW t, NEW k \in Nat
    PROVE  /\ Quiet(Tail(w), t, k) <=> Quiet(w, t, k + 1)
           /\ Quiet(w, t, 0) <=> Quiet(Tail(w), t, 0) /\ ~Tells(Head(w), t)
<1>1. /\ Len(w) \in Nat /\ Len(w) >= 1 /\ Len(Tail(w)) = Len(w) - 1
      /\ \A i \in 1 .. Len(w) - 1 : Tail(w)[i] = w[i + 1]
      /\ Head(w) = w[1]
    OBVIOUS
<1>2. ASSUME NEW j \in Nat, Quiet(Tail(w), t, j)
      PROVE  Quiet(w, t, j + 1)
  <2>. SUFFICES ASSUME NEW i \in 1 .. Len(w), i > j + 1 PROVE ~Tells(w[i], t)
      BY DEF Quiet
  <2>1. i - 1 \in 1 .. Len(w) - 1 /\ i - 1 > j /\ w[i] = Tail(w)[i - 1]
      BY <1>1
  <2>. QED BY <1>1, <1>2, <2>1 DEF Quiet
<1>3. ASSUME NEW j \in Nat, Quiet(w, t, j + 1)
      PROVE  Quiet(Tail(w), t, j)
    BY <1>1, <1>3 DEF Quiet
<1>4. Quiet(w, t, 0) <=> Quiet(w, t, 1) /\ ~Tells(Head(w), t)
    BY <1>1 DEF Quiet
<1>. QED BY <1>2, <1>3, <1>4

LEMMA LastToldAppend ==
    ASSUME NEW w \in Seq(Notification), NEW n \in Notification, NEW t,
           NEW s, NEW new, LastTold(w, t, s),
           new = IF Tells(n, t) THEN Told(n) ELSE s
    PROVE  LastTold(Append(w, n), t, new)
<1>1. Len(Append(w, n)) = Len(w) + 1 /\ Append(w, n)[Len(w) + 1] = n
      /\ \A i \in 1 .. Len(w) : Append(w, n)[i] = w[i]
    OBVIOUS
<1>. SUFFICES ASSUME NEW i \in 1 .. Len(w) + 1, Tells(Append(w, n)[i], t),
                     Quiet(Append(w, n), t, i)
              PROVE  Told(Append(w, n)[i]) = new
    BY <1>1 DEF LastTold
<1>2. CASE i = Len(w) + 1
    BY <1>1, <1>2
<1>3. CASE i \in 1 .. Len(w)
  <2>1. Quiet(w, t, i) /\ ~Tells(n, t)
      BY <1>3, QuietAppend
  <2>. QED BY <1>1, <1>3, <2>1 DEF LastTold
<1>. QED BY <1>2, <1>3

LEMMA LastToldTail ==
    ASSUME NEW w \in Seq(Notification), w # <<>>, NEW t, NEW s,
           LastTold(w, t, s)
    PROVE  /\ LastTold(Tail(w), t, s)
           /\ Tells(Head(w), t) /\ Quiet(Tail(w), t, 0) => Told(Head(w)) = s
<1>1. /\ Len(w) \in Nat /\ Len(w) >= 1 /\ Len(Tail(w)) = Len(w) - 1
      /\ \A i \in 1 .. Len(w) - 1 : Tail(w)[i] = w[i + 1]
      /\ Head(w) = w[1]
    OBVIOUS
<1>2. ASSUME NEW i \in 1 .. Len(w) - 1, Tells(Tail(w)[i], t),
             Quiet(Tail(w), t, i)
      PROVE  Told(Tail(w)[i]) = s
  <2>1. i + 1 \in 1 .. Len(w) /\ Tail(w)[i] = w[i + 1] /\ i \in Nat
      BY <1>1
  <2>2. Quiet(w, t, i + 1)
      BY <1>2, <2>1, QuietTail
  <2>. QED BY <1>2, <2>1, <2>2 DEF LastTold
<1>3. Quiet(Tail(w), t, 0) => Quiet(w, t, 1)
    BY QuietTail
<1>4. 1 \in 1 .. Len(w)
    BY <1>1
<1>. QED BY <1>1, <1>2, <1>3, <1>4 DEF LastTold

\* The daemon unloads what it removes or loses.
LoadedKept ==
    \A t \in Threads :
        /\ dStatus[t] # NotLoaded => dStore[t] \in {"unsaved", "listed"}
        /\ dStore[t] = "unsaved" => dStatus[t] # NotLoaded

\* Nothing is under way outside a connection, and what is under way is what
\* the daemon last did.
WireTruth ==
    /\ ~connected => wire = <<>> /\ reply = NoReply
    /\ \A t \in Kept : LastTold(wire, t, dStatus[t])
    /\ \A i \in 1 .. Len(wire) :
        /\ wire[i].method \in {"archived", "deleted"}
               => Removed(wire[i].thread)
        /\ wire[i].method = "closed"
               => dStore[wire[i].thread] \notin {"absent", "unsaved"}

ClosedTold ==
    \A t \in Threads :
        closedStarted[t] # NotClosed => dStore[t] \notin {"absent", "unsaved"}

\* The one outstanding reply answers what the run goroutine waits for.
Replies ==
    /\ reply.kind = "list" => pc \in {"listing", "resync"}
    /\ reply.kind = "loaded" => pc = "loading"
    /\ reply.kind \in {"read", "error"} => pc = "reading"
    /\ reply.kind = "read" => reply.id \in snap.todo
    /\ reply # NoReply => reply.after <= Len(wire)
    /\ pc = "install" => snap.todo = {}
    /\ pc \in {"listing", "loading"} => snap.status = AllNotLoaded

\* Only a thread that has been persisted gets into a catalog.
Catalogued ==
    \A t \in Threads :
        \/ catalog[t] # Absent
        \/ snap.threads[t] # Absent
        \/ reply.kind = "list" /\ reply.names[t] # Absent
        => dStore[t] \in {"listed", "archived", "deleted"}

\* A thread is announced before any catalog lists it.
StartedFirst ==
    \A i \in 1 .. Len(wire) :
        wire[i].method = "started" =>
            LET t == wire[i].thread IN
            /\ catalog[t] = Absent /\ snap.threads[t] = Absent
            /\ reply.kind = "list" /\ reply.names[t] # Absent
                   => i <= reply.after

HiddenKnown == hidden \subseteq HiddenThreads /\ snap.hidden \subseteq HiddenThreads

\* A re-read that is answered lists what is listed and was listed before, or
\* was closed before the re-read began.
ResyncLists ==
    pc = "resync" /\ reply.kind = "list" =>
        \A t \in Threads \ HiddenThreads :
            /\ dStore[t] = "listed"
            /\ \/ catalog[t] # Absent
               \/ closedStarted[t] # NotClosed /\ snap.seq > closedStarted[t]
            => reply.names[t] # Absent

\* What a snapshot has read of a thread is its status, unless a notification
\* about it is still to come or it is to be read again.
SnapshotReads ==
    /\ reply.kind = "loaded" =>
        \A t \in Kept : t \notin reply.ids =>
            t \in dirty \/ (Quiet(wire, t, reply.after) => dStatus[t] = NotLoaded)
    /\ reply.kind = "read" /\ reply.id \in Kept =>
        \/ reply.id \in dirty
        \/ Quiet(wire, reply.id, reply.after) => reply.status = dStatus[reply.id]
    /\ pc \in {"reading", "install"} =>
        \A t \in Kept :
            \/ t \in snap.todo \cup dirty
            \/ Quiet(wire, t, 0) => snap.status[t] = dStatus[t]

\* A live runtime's status is the daemon's, unless a notification is to come.
StatusFollows ==
    live => \A t \in Kept : Quiet(wire, t, 0) => status[t] = dStatus[t]

Tracking ==
    /\ LoadedKept /\ WireTruth /\ ClosedTold /\ Replies /\ Catalogued
    /\ StartedFirst /\ HiddenKnown /\ ResyncLists /\ SnapshotReads
    /\ StatusFollows

\* What a reader of the notification may rely on.
Truthful(n) ==
    /\ \A t \in Threads :
        /\ Tells(n, t) => dStatus'[t] = Told(n)
        /\ ~Tells(n, t) => dStatus'[t] = dStatus[t] \/ Removed(t)'
    /\ n.method = "started" => dStore[n.thread] = "absent"
    /\ n.method \in {"archived", "deleted"} => Removed(n.thread)'
    /\ n.method = "closed" => dStore'[n.thread] \notin {"absent", "unsaved"}

StoreMoves ==
    \A t \in Threads :
        <<dStore[t], dStore'[t]>> \in
            {<<v, v>> : v \in StoreState} \cup
            {<<"absent", "unsaved">>, <<"unsaved", "listed">>,
             <<"unsaved", "gone">>, <<"listed", "archived">>,
             <<"listed", "deleted">>}

\* What the daemon may do, and that it says so.
LEMMA DaemonEventIs ==
    ASSUME TypeOK, LoadedKept, DaemonEvent, "unarchive" \notin Kinds
    PROVE  /\ UNCHANGED <<reply, connected>>
           /\ StoreMoves /\ LoadedKept'
           /\ \/ UNCHANGED <<wire, dStatus>>
              \/ \E n \in Notification :
                    /\ wire' = IF connected THEN Append(wire, n) ELSE wire
                    /\ Truthful(n)
<1>. PICK t \in Threads :
        \/ StartThread(t) \/ PersistThread(t) \/ ChangeStatus(t)
        \/ CloseThread(t) \/ ResumeThread(t) \/ RemoveThread(t)
        \/ UnarchiveThread(t) \/ RenameThread(t)
    BY DEF DaemonEvent
<1>1. /\ dStore \in [Threads -> StoreState]
      /\ dStatus \in [Threads -> Status] /\ dName \in [Threads -> Names]
    BY DEF TypeOK, DaemonTypeOK
<1>. DEFINE Goal ==
        /\ UNCHANGED <<reply, connected>>
        /\ StoreMoves /\ LoadedKept'
        /\ \/ UNCHANGED <<wire, dStatus>>
           \/ \E n \in Notification :
                 /\ wire' = IF connected THEN Append(wire, n) ELSE wire
                 /\ Truthful(n)
<1>. SUFFICES Goal
    OBVIOUS
<1>2. ASSUME NEW n \in Notification, Broadcast(n), Truthful(n),
             UNCHANGED <<reply, connected>>, StoreMoves, LoadedKept'
      PROVE  Goal
    BY <1>2 DEF Broadcast
<1>. USE <1>1 DEF Event, LoadedKept, Tells, Told, Removed, StoreState, Status,
                  LoadedStatus, NotLoaded, Loaded
<1>. HIDE DEF Goal
<1>3. CASE StartThread(t)
  <2>. PICK nm \in Names : nm = dName[t]
      OBVIOUS
  <2>. DEFINE n == [method |-> "started", thread |-> t, name |-> nm,
                    status |-> "idle"]
  <2>1. n \in Notification
      BY DEF Notification
  <2>2. StoreMoves /\ LoadedKept' /\ Truthful(n)
      BY <1>3 DEF StartThread, StoreMoves, Truthful
  <2>3. Broadcast(n) /\ UNCHANGED <<reply, connected>>
      BY <1>3 DEF StartThread
  <2>. HIDE DEF n, LoadedKept
  <2>. QED BY <1>2, <2>1, <2>2, <2>3
<1>4. CASE PersistThread(t)
    BY <1>4 DEF PersistThread, StoreMoves, Goal
<1>5. CASE ChangeStatus(t)
  <2>. PICK s \in LoadedStatus :
          /\ dStatus' = [dStatus EXCEPT ![t] = s]
          /\ Broadcast([method |-> "status", thread |-> t, status |-> s])
      BY <1>5 DEF ChangeStatus
  <2>. DEFINE n == [method |-> "status", thread |-> t, status |-> s]
  <2>1. n \in Notification
      BY DEF Notification
  <2>2. StoreMoves /\ LoadedKept' /\ Truthful(n)
      BY <1>5 DEF ChangeStatus, StoreMoves, Truthful
  <2>3. Broadcast(n) /\ UNCHANGED <<reply, connected>>
      BY <1>5 DEF ChangeStatus
  <2>. HIDE DEF n, LoadedKept
  <2>. QED BY <1>2, <2>1, <2>2, <2>3
<1>6. CASE CloseThread(t)
  <2>. DEFINE n == [method |-> "closed", thread |-> t]
  <2>1. n \in Notification
      BY DEF Notification
  <2>2. StoreMoves /\ LoadedKept' /\ Truthful(n)
      BY <1>6 DEF CloseThread, StoreMoves, Truthful
  <2>3. Broadcast(n) /\ UNCHANGED <<reply, connected>>
      BY <1>6 DEF CloseThread
  <2>. HIDE DEF n, LoadedKept
  <2>. QED BY <1>2, <2>1, <2>2, <2>3
<1>7. CASE ResumeThread(t)
  <2>. DEFINE n == [method |-> "status", thread |-> t, status |-> "idle"]
  <2>1. n \in Notification
      BY DEF Notification
  <2>2. StoreMoves /\ LoadedKept' /\ Truthful(n)
      BY <1>7 DEF ResumeThread, StoreMoves, Truthful
  <2>3. Broadcast(n) /\ UNCHANGED <<reply, connected>>
      BY <1>7 DEF ResumeThread
  <2>. HIDE DEF n, LoadedKept
  <2>. QED BY <1>2, <2>1, <2>2, <2>3
<1>8. CASE RemoveThread(t)
  <2>. PICK m \in {"archived", "deleted"} :
          /\ dStore' = [dStore EXCEPT ![t] = m]
          /\ Broadcast([method |-> m, thread |-> t])
      BY <1>8 DEF RemoveThread
  <2>. DEFINE n == [method |-> m, thread |-> t]
  <2>1. n \in Notification
      BY DEF Notification
  <2>2. StoreMoves /\ LoadedKept' /\ Truthful(n)
      BY <1>8 DEF RemoveThread, StoreMoves, Truthful
  <2>3. Broadcast(n) /\ UNCHANGED <<reply, connected>>
      BY <1>8 DEF RemoveThread
  <2>. HIDE DEF n, LoadedKept
  <2>. QED BY <1>2, <2>1, <2>2, <2>3
<1>9. CASE UnarchiveThread(t)
    BY <1>9 DEF UnarchiveThread
<1>10. CASE RenameThread(t)
  <2>. PICK nm \in Names :
          /\ dName' = [dName EXCEPT ![t] = nm]
          /\ Broadcast([method |-> "name", thread |-> t, name |-> nm])
      BY <1>10 DEF RenameThread
  <2>. DEFINE n == [method |-> "name", thread |-> t, name |-> nm]
  <2>1. n \in Notification
      BY DEF Notification
  <2>2. StoreMoves /\ LoadedKept' /\ Truthful(n)
      BY <1>10 DEF RenameThread, StoreMoves, Truthful
  <2>3. Broadcast(n) /\ UNCHANGED <<reply, connected>>
      BY <1>10 DEF RenameThread
  <2>. HIDE DEF n, LoadedKept
  <2>. QED BY <1>2, <2>1, <2>2, <2>3
<1>. QED BY <1>3, <1>4, <1>5, <1>6, <1>7, <1>8, <1>9, <1>10
\* What the runtime's own steps leave alone.
LEMMA TypedFields ==
    ASSUME TypeOK
    PROVE  /\ dStore \in [Threads -> StoreState]
           /\ dStatus \in [Threads -> Status]
           /\ wire \in Seq(Notification) /\ Len(wire) \in Nat
           /\ \A i \in 1 .. Len(wire) : wire[i].thread \in Threads
           /\ reply \in Reply \cup {NoReply}
           /\ reply # NoReply => reply.after \in Nat
           /\ reply # NoReply <=> reply.kind \in {"list", "loaded", "read", "error"}
           /\ HiddenThreads \subseteq Threads
<1>1. ASSUME NEW r \in Reply
      PROVE  r.after \in Nat /\ r.kind \in {"list", "loaded", "read", "error"}
    BY DEF Reply
<1>2. NoReply.kind = "none"
    BY DEF NoReply
<1>3. \A i \in 1 .. Len(wire) : wire[i].thread \in Threads
    BY NotificationFields DEF TypeOK, DaemonTypeOK
<1>. QED BY <1>1, <1>2, <1>3, DaemonAssumption DEF TypeOK, DaemonTypeOK, DaemonAssumption

\* Whatever the daemon does, the runtime's knowledge stays true of it once
\* the notification it sent is handled.
LEMMA TrackingDaemon ==
    ASSUME TypeOK, Phase, Tracking, DaemonEvent, UNCHANGED runtimeVars,
           "unarchive" \notin Kinds
    PROVE  Tracking'
<1>. USE TypedFields
<1>1. /\ UNCHANGED <<reply, connected>> /\ StoreMoves /\ LoadedKept'
      /\ \/ UNCHANGED <<wire, dStatus>>
         \/ \E n \in Notification :
               /\ wire' = IF connected THEN Append(wire, n) ELSE wire
               /\ Truthful(n)
    BY DaemonEventIs DEF Tracking
<1>2. /\ Kept' \subseteq Kept /\ \A t \in Threads : Removed(t) => Removed(t)'
      /\ \A t \in Threads :
           /\ dStore'[t] = "listed" => dStore[t] \in {"unsaved", "listed"}
           /\ dStore[t] \in {"listed", "archived", "deleted"}
                => dStore'[t] \in {"listed", "archived", "deleted"}
           /\ dStore[t] \notin {"absent", "unsaved"}
                => dStore'[t] \notin {"absent", "unsaved"}
    BY <1>1 DEF StoreMoves, Kept, Removed
<1>3. UNCHANGED <<pc, catalog, closedStarted, status, hidden, live, dirty, snap>>
    BY DEF runtimeVars, catalogVars, linkVars
<1>4. ASSUME NEW t \in Kept'
      PROVE  /\ LastTold(wire', t, dStatus'[t])
             /\ connected => \A k \in 0 .. Len(wire) : Quiet(wire', t, k)
                    => Quiet(wire, t, k) /\ dStatus'[t] = dStatus[t]
  <2>1. t \in Kept /\ t \in Threads /\ ~Removed(t)' /\ LastTold(wire, t, dStatus[t])
      BY <1>2 DEF Kept, Tracking, WireTruth
  <2>2. CASE UNCHANGED <<wire, dStatus>>
      BY <2>1, <2>2
  <2>3. ASSUME NEW n \in Notification, Truthful(n),
               wire' = IF connected THEN Append(wire, n) ELSE wire
        PROVE  /\ LastTold(wire', t, dStatus'[t])
               /\ connected => \A k \in 0 .. Len(wire) : Quiet(wire', t, k)
                      => Quiet(wire, t, k) /\ dStatus'[t] = dStatus[t]
    <3>1. dStatus'[t] = IF Tells(n, t) THEN Told(n) ELSE dStatus[t]
        BY <2>1, <2>3 DEF Truthful
    <3>2. CASE ~connected
      <4>1. wire' = <<>>
          BY <2>3, <3>2 DEF Tracking, WireTruth
      <4>. QED BY <3>2, <4>1 DEF LastTold
    <3>3. CASE connected
      <4>1. wire' = Append(wire, n)
          BY <2>3, <3>3
      <4>2. LastTold(wire', t, dStatus'[t])
        <5>. DEFINE s == dStatus[t]
                    new == dStatus'[t]
        <5>1. LastTold(wire, t, s) /\ new = IF Tells(n, t) THEN Told(n) ELSE s
            BY <2>1, <3>1
        <5>. HIDE DEF s, new
        <5>2. LastTold(Append(wire, n), t, new)
            BY <5>1, LastToldAppend
        <5>. QED BY <4>1, <5>2 DEF new
      <4>3. ASSUME NEW k \in 0 .. Len(wire), Quiet(wire', t, k)
            PROVE  Quiet(wire, t, k) /\ dStatus'[t] = dStatus[t]
        <5>1. Quiet(Append(wire, n), t, k) /\ k \in Nat /\ k <= Len(wire)
            BY <4>1, <4>3
        <5>2. Quiet(wire, t, k) /\ ~Tells(n, t)
            BY <5>1, QuietAppend
        <5>. QED BY <3>1, <5>2
      <4>. QED BY <4>2, <4>3
    <3>. QED BY <3>2, <3>3
  <2>. QED BY <1>1, <2>2, <2>3
<1>. DEFINE Said ==
      \A i \in 1 .. Len(wire') :
          /\ i \in 1 .. Len(wire) => wire'[i] = wire[i]
          /\ i \notin 1 .. Len(wire) =>
               /\ wire'[i].thread \in Threads
               /\ wire'[i].method = "started" => dStore[wire'[i].thread] = "absent"
               /\ wire'[i].method \in {"archived", "deleted"} => dStore'[wire'[i].thread] \in {"archived", "deleted"}
               /\ wire'[i].method = "closed" => dStore'[wire'[i].thread] \notin {"absent", "unsaved"}
<1>5. Said
  <2>1. CASE UNCHANGED wire
      BY <2>1
  <2>2. ASSUME NEW n \in Notification, Truthful(n), wire' = Append(wire, n)
        PROVE  Said
    <3>1. /\ Len(wire') = Len(wire) + 1 /\ wire'[Len(wire) + 1] = n
          /\ \A i \in 1 .. Len(wire) : wire'[i] = wire[i]
        BY <2>2
    <3>. QED BY <2>2, <3>1, NotificationFields DEF Truthful, Removed
  <2>. QED BY <1>1, <2>1, <2>2
<1>6. Len(wire') \in Nat /\ Len(wire) <= Len(wire')
    BY <1>1
<1>7. WireTruth'
  <2>1. ~connected' => wire' = <<>> /\ reply' = NoReply
      BY <1>1 DEF Tracking, WireTruth
  <2>2. ASSUME NEW i \in 1 .. Len(wire')
        PROVE  /\ wire'[i].method \in {"archived", "deleted"} => dStore'[wire'[i].thread] \in {"archived", "deleted"}
               /\ wire'[i].method = "closed" => dStore'[wire'[i].thread] \notin {"absent", "unsaved"}
      BY <1>2, <1>5 DEF Tracking, WireTruth, Removed
  <2>. QED BY <1>4, <2>1, <2>2 DEF WireTruth, Removed
<1>8. ClosedTold' /\ Replies' /\ Catalogued' /\ HiddenKnown'
    BY <1>1, <1>2, <1>3, <1>6
    DEF Tracking, ClosedTold, Replies, Catalogued, HiddenKnown
<1>9. StartedFirst'
    BY <1>1, <1>3, <1>5 DEF Tracking, StartedFirst, Catalogued
<1>10. ResyncLists'
    BY <1>1, <1>2, <1>3 DEF Tracking, ResyncLists, Catalogued, ClosedTold
<1>11. SnapshotReads'
  <2>1. reply.kind \in {"loaded", "read"} => reply.after \in 0 .. Len(wire) /\ connected
      BY DEF Tracking, Replies, WireTruth
  <2>2. pc \in {"reading", "install"} => connected
      BY DEF Phase
  <2>. QED BY <1>1, <1>2, <1>3, <1>4, <2>1, <2>2 DEF Tracking, SnapshotReads
<1>12. StatusFollows'
  <2>1. live => connected
      BY DEF Phase, ServeStates
  <2>. QED BY <1>2, <1>3, <1>4, <2>1 DEF Tracking, StatusFollows
<1>. QED BY <1>1, <1>7, <1>8, <1>9, <1>10, <1>11, <1>12 DEF Tracking
\* What handling a notification does, in terms of what it tells.
LEMMA HandledIs ==
    ASSUME TypeOK, Phase, Tracking, HandleNotification
    PROVE  /\ wire # <<>> /\ wire' = Tail(wire) /\ Head(wire) \in Notification
           /\ UNCHANGED <<dStore, dStatus, dName, connected, pc, fetchSeq,
                          catalogSeq, live, snapshotting, snap>>
           /\ reply' = IF reply = NoReply \/ reply.after = 0 THEN reply
                       ELSE [reply EXCEPT !.after = @ - 1]
           /\ \A t \in Threads : catalog'[t] = Absent <=> catalog[t] = Absent
           /\ hidden' \subseteq HiddenThreads
           /\ dirty \subseteq dirty'
           /\ snapshotting =>
                \A t \in Threads \ HiddenThreads :
                    Tells(Head(wire), t) => t \in dirty'
           /\ live =>
                \A t \in Threads \ HiddenThreads :
                    status'[t] = IF Tells(Head(wire), t) THEN Told(Head(wire))
                                 ELSE status[t]
           /\ \A t \in Threads :
                \/ closedStarted'[t] \in {closedStarted[t], NotClosed}
                \/ /\ Head(wire).method = "closed" /\ Head(wire).thread = t
                   /\ closedStarted'[t] = fetchSeq
<1>. DEFINE n == Head(wire)
<1>1. /\ wire # <<>> /\ wire' = Tail(wire) /\ n \in Notification
      /\ UNCHANGED <<dStore, dStatus, dName, connected, pc, fetchSeq,
                     catalogSeq, live, snapshotting, snap>>
      /\ reply' = IF reply = NoReply \/ reply.after = 0 THEN reply
                  ELSE [reply EXCEPT !.after = @ - 1]
    BY WireHead DEF HandleNotification, TypeOK, DaemonTypeOK, linkVars
<1>2. n.method = "started" => catalog[n.thread] = Absent
  <2>1. 1 \in 1 .. Len(wire) /\ wire[1] = n
      BY <1>1, TypedFields
  <2>. QED BY <2>1 DEF Tracking, StartedFirst
<1>3. /\ n.thread \in Threads
      /\ n.method \in {"started", "status"} => n.status \in Status
      /\ n.method \in {"started", "name"} => n.name \in Names
    BY <1>1, NotificationFields
<1>4. \/ HandleStatusChanged(n) \/ HandleClosed(n)
      \/ HandleHiddenStarted(n) \/ HandleStarted(n)
      \/ HandleNameUpdated(n) \/ HandleRemoved(n) \/ HandleUnarchived(n)
    BY DEF HandleNotification
<1>5. /\ hidden \subseteq HiddenThreads /\ HiddenThreads \subseteq Threads
      /\ live => ~snapshotting
      /\ live \in BOOLEAN /\ snapshotting \in BOOLEAN
      /\ dirty \subseteq Threads /\ status \in [Threads -> Status]
      /\ catalog \in [Threads -> Entry]
      /\ closedStarted \in [Threads -> Nat \cup {NotClosed}]
    BY TypedFields DEF Tracking, HiddenKnown, Phase, SnapshotStates,
       ServeStates, TypeOK, RuntimeTypeOK
<1>. HIDE DEF n
<1>6. ASSUME NEW s, SetStatus(n.thread, s), Tells(n, n.thread), Told(n) = s
      PROVE  /\ dirty \subseteq dirty'
             /\ snapshotting =>
                  \A t \in Threads \ HiddenThreads : Tells(n, t) => t \in dirty'
             /\ live =>
                  \A t \in Threads \ HiddenThreads :
                      status'[t] = IF Tells(n, t) THEN Told(n) ELSE status[t]
    BY <1>3, <1>5, <1>6 DEF SetStatus, DirtyAfter, Observes, Tells
<1>7. ASSUME UNCHANGED <<dirty, status>>, \A t \in Threads \ HiddenThreads : ~Tells(n, t)
      PROVE  /\ dirty \subseteq dirty'
             /\ snapshotting =>
                  \A t \in Threads \ HiddenThreads : Tells(n, t) => t \in dirty'
             /\ live =>
                  \A t \in Threads \ HiddenThreads :
                      status'[t] = IF Tells(n, t) THEN Told(n) ELSE status[t]
    BY <1>7
<1>8. /\ \A t \in Threads : catalog'[t] = Absent <=> catalog[t] = Absent
      /\ hidden' \subseteq HiddenThreads
      /\ \A t \in Threads :
            \/ closedStarted'[t] \in {closedStarted[t], NotClosed}
            \/ n.method = "closed" /\ n.thread = t /\ closedStarted'[t] = fetchSeq
    BY <1>3, <1>4, <1>5, DaemonAssumption
    DEF HandleStatusChanged, HandleClosed, HandleHiddenStarted, HandleStarted,
        HandleNameUpdated, HandleRemoved, HandleUnarchived, Entry,
        DaemonAssumption
<1>9. /\ dirty \subseteq dirty'
      /\ snapshotting =>
           \A t \in Threads \ HiddenThreads : Tells(n, t) => t \in dirty'
      /\ live =>
           \A t \in Threads \ HiddenThreads :
               status'[t] = IF Tells(n, t) THEN Told(n) ELSE status[t]
  <2>1. CASE HandleStatusChanged(n)
    <3>1. SetStatus(n.thread, n.status) /\ n.method = "status"
        BY <2>1 DEF HandleStatusChanged
    <3>. QED BY <1>6, <3>1 DEF Tells, Told
  <2>2. CASE HandleClosed(n)
    <3>1. SetStatus(n.thread, NotLoaded) /\ n.method = "closed"
        BY <2>2 DEF HandleClosed
    <3>. QED BY <1>6, <3>1 DEF Tells, Told
  <2>3. CASE HandleHiddenStarted(n)
    <3>1. UNCHANGED <<dirty, status>> /\ n.thread \in HiddenThreads
        BY <2>3 DEF HandleHiddenStarted
    <3>. QED BY <1>7, <3>1 DEF Tells
  <2>4. CASE HandleStarted(n) /\ (live \/ snapshotting)
    <3>1. SetStatus(n.thread, n.status) /\ n.method = "started"
        BY <1>2, <2>4 DEF HandleStarted
    <3>. QED BY <1>6, <3>1 DEF Tells, Told
  <2>5. CASE HandleStarted(n) /\ ~(live \/ snapshotting)
      BY <2>5 DEF HandleStarted
  <2>6. CASE HandleNameUpdated(n) \/ HandleRemoved(n) \/ HandleUnarchived(n)
      BY <1>7, <2>6 DEF HandleNameUpdated, HandleRemoved, HandleUnarchived, Tells
  <2>. QED BY <1>4, <2>1, <2>2, <2>3, <2>4, <2>5, <2>6
<1>. QED BY <1>1, <1>8, <1>9 DEF n

\* The reply moves up with the wire.
LEMMA HandledReply ==
    ASSUME TypeOK, HandleNotification
    PROVE  /\ reply' = NoReply <=> reply = NoReply
           /\ reply'.kind = reply.kind
           /\ reply.kind = "list" => reply'.names = reply.names
           /\ reply.kind = "loaded" => reply'.ids = reply.ids
           /\ reply.kind = "read" =>
                /\ reply'.id = reply.id /\ reply'.name = reply.name
                /\ reply'.status = reply.status
           /\ reply # NoReply =>
                reply'.after = IF reply.after = 0 THEN 0 ELSE reply.after - 1
<1>. USE TypedFields
<1>1. reply' = IF reply = NoReply \/ reply.after = 0 THEN reply
               ELSE [reply EXCEPT !.after = @ - 1]
    BY DEF HandleNotification
<1>2. CASE reply = NoReply \/ reply.after = 0
    BY <1>1, <1>2
<1>3. CASE ~(reply = NoReply \/ reply.after = 0)
  <2>1. reply \in Reply /\ reply' = [reply EXCEPT !.after = @ - 1]
      BY <1>1, <1>3
  <2>2. reply' \in Reply
      BY <1>3, <2>1, ReplyAfter
  <2>. QED BY <1>3, <2>1, <2>2 DEF Reply, NoReply
<1>. QED BY <1>2, <1>3

\* Handling a notification leaves the rest of the wire as truthful, and the
\* thread it was about either up to date or to be read again.
LEMMA TrackingHandled ==
    ASSUME TypeOK, Phase, FetchOrder, Tracking, HandleNotification
    PROVE  Tracking'
<1>. USE TypedFields
<1>. DEFINE n == Head(wire)
<1>1. /\ wire # <<>> /\ wire' = Tail(wire) /\ n \in Notification
      /\ UNCHANGED <<dStore, dStatus, dName, connected, pc, fetchSeq,
                     catalogSeq, live, snapshotting, snap>>
    BY HandledIs
<1>2. /\ \A t \in Threads : catalog'[t] = Absent <=> catalog[t] = Absent
      /\ hidden' \subseteq HiddenThreads
      /\ dirty \subseteq dirty'
      /\ snapshotting =>
           \A t \in Threads \ HiddenThreads : Tells(n, t) => t \in dirty'
      /\ live =>
           \A t \in Threads \ HiddenThreads :
               status'[t] = IF Tells(n, t) THEN Told(n) ELSE status[t]
      /\ \A t \in Threads :
            \/ closedStarted'[t] \in {closedStarted[t], NotClosed}
            \/ n.method = "closed" /\ n.thread = t /\ closedStarted'[t] = fetchSeq
    BY HandledIs
<1>4. /\ reply' = NoReply <=> reply = NoReply
      /\ reply'.kind = reply.kind
      /\ reply.kind = "list" => reply'.names = reply.names
      /\ reply.kind = "loaded" => reply'.ids = reply.ids
      /\ reply.kind = "read" => reply'.id = reply.id /\ reply'.status = reply.status
      /\ reply # NoReply =>
            reply'.after = IF reply.after = 0 THEN 0 ELSE reply.after - 1
    BY HandledReply
<1>. HIDE DEF n
<1>5. /\ Len(wire') = Len(wire) - 1 /\ Len(wire) >= 1 /\ n = wire[1]
      /\ \A i \in 1 .. Len(wire') : wire'[i] = wire[i + 1] /\ i + 1 \in 1 .. Len(wire)
    BY <1>1 DEF n
<1>6. Kept' = Kept /\ Kept \subseteq Threads \ HiddenThreads
    BY <1>1 DEF Kept, Removed
<1>7. \A t \in Kept :
        /\ LastTold(wire', t, dStatus[t])
        /\ Tells(n, t) /\ Quiet(wire', t, 0) => Told(n) = dStatus[t]
    BY <1>1, LastToldTail DEF Tracking, WireTruth, n
<1>8. \A t : /\ \A k \in Nat : Quiet(wire', t, k) <=> Quiet(wire, t, k + 1)
             /\ Quiet(wire, t, 0) <=> Quiet(wire', t, 0) /\ ~Tells(n, t)
    BY <1>1, QuietTail DEF n
<1>9. ASSUME NEW t, reply # NoReply, Quiet(wire', t, reply'.after)
      PROVE  Quiet(wire, t, reply.after) \/ Tells(n, t)
  <2>1. CASE reply.after = 0
      BY <1>4, <1>8, <1>9, <2>1
  <2>2. CASE reply.after # 0
    <3>1. reply.after - 1 \in Nat /\ reply'.after = reply.after - 1
        BY <1>4, <1>9, <2>2
    <3>. QED BY <1>8, <1>9, <3>1
  <2>. QED BY <2>1, <2>2
<1>10. WireTruth'
    BY <1>1, <1>4, <1>5, <1>6, <1>7 DEF Tracking, WireTruth, Removed
<1>11. ClosedTold'
    BY <1>1, <1>2, <1>5 DEF Tracking, ClosedTold, WireTruth
<1>12. Replies'
    BY <1>1, <1>4, <1>5 DEF Tracking, Replies
<1>13. Catalogued' /\ HiddenKnown' /\ LoadedKept'
    BY <1>1, <1>2, <1>4 DEF Tracking, Catalogued, HiddenKnown, LoadedKept
<1>14. StartedFirst'
  <2>. SUFFICES ASSUME NEW i \in 1 .. Len(wire'), wire'[i].method = "started"
                PROVE  /\ catalog'[wire'[i].thread] = Absent
                       /\ snap'.threads[wire'[i].thread] = Absent
                       /\ reply'.kind = "list" /\ reply'.names[wire'[i].thread] # Absent
                            => i <= reply'.after
      BY DEF StartedFirst
  <2>1. wire'[i] = wire[i + 1] /\ i + 1 \in 1 .. Len(wire)
      BY <1>5
  <2>2. /\ catalog[wire[i + 1].thread] = Absent /\ snap.threads[wire[i + 1].thread] = Absent
        /\ reply.kind = "list" /\ reply.names[wire[i + 1].thread] # Absent => i + 1 <= reply.after
      BY <2>1 DEF Tracking, StartedFirst
  <2>. QED BY <1>1, <1>2, <1>4, <2>1, <2>2
<1>15. ResyncLists'
  <2>1. pc = "resync" => snap.seq <= fetchSeq
      BY DEF FetchOrder
  <2>2. snap.seq \in Nat /\ fetchSeq \in Nat
      BY SnapFields DEF TypeOK, RuntimeTypeOK
  <2>. QED BY <1>1, <1>2, <1>4, <2>1, <2>2 DEF Tracking, ResyncLists
<1>16. SnapshotReads'
  <2>1. pc \in {"loading", "reading", "install"} => snapshotting
      BY DEF Phase, SnapshotStates
  <2>2. /\ reply.kind = "loaded" => pc = "loading"
        /\ reply.kind = "read" => pc = "reading"
      BY DEF Tracking, Replies
  <2>3. reply'.kind = "loaded" =>
           \A t \in Kept : t \notin reply.ids =>
             t \in dirty' \/ (Quiet(wire', t, reply'.after) => dStatus[t] = NotLoaded)
      BY <1>2, <1>4, <1>6, <1>9, <2>1, <2>2 DEF Tracking, SnapshotReads
  <2>4. reply'.kind = "read" /\ reply.id \in Kept =>
          \/ reply.id \in dirty'
          \/ Quiet(wire', reply.id, reply'.after) => reply.status = dStatus[reply.id]
      BY <1>2, <1>4, <1>6, <1>9, <2>1, <2>2 DEF Tracking, SnapshotReads
  <2>5. pc \in {"reading", "install"} =>
          \A t \in Kept :
            \/ t \in snap.todo \cup dirty'
            \/ Quiet(wire', t, 0) => snap.status[t] = dStatus[t]
      BY <1>2, <1>6, <1>8, <2>1 DEF Tracking, SnapshotReads
  <2>. QED BY <1>1, <1>4, <1>6, <2>3, <2>4, <2>5 DEF SnapshotReads
<1>17. StatusFollows'
    BY <1>1, <1>2, <1>6, <1>7, <1>8 DEF Tracking, StatusFollows
<1>. QED BY <1>10, <1>11, <1>12, <1>13, <1>14, <1>15, <1>16, <1>17 DEF Tracking
\* Steps that touch nothing of what is tracked.
LEMMA TrackingFrame ==
    ASSUME Tracking,
           UNCHANGED <<dStore, dStatus, dName, wire, reply, connected, pc,
                       catalog, closedStarted, status, hidden, live, dirty,
                       snap>>
    PROVE  Tracking'
<1>1. Kept' = Kept
    BY DEF Kept, Removed
<1>. QED BY <1>1
    DEF Tracking, LoadedKept, WireTruth, ClosedTold, Replies, Catalogued,
        StartedFirst, HiddenKnown, ResyncLists, SnapshotReads, StatusFollows,
        Removed

\* A local step of the run goroutine has nothing outstanding.
LEMMA NothingAsked ==
    ASSUME TypeOK, Tracking,
           \/ pc \in {"stopped", "backoff", "dialed", "install", "serve",
                      "waiting", "gap"}
           \/ ~connected
    PROVE  reply = NoReply
    BY TypedFields DEF Tracking, Replies, WireTruth

\* An answer is true when it is given.
LEMMA TrackingAnswer ==
    ASSUME TypeOK, Phase, Tracking, AnswerRequest
    PROVE  Tracking'
<1>. USE TypedFields
<1>1. /\ UNCHANGED <<dStore, dStatus, dName, wire, connected, pc, catalog,
                     closedStarted, status, hidden, live, dirty, snap>>
      /\ reply = NoReply /\ Kept' = Kept
    BY DEF AnswerRequest, runtimeVars, catalogVars, linkVars, Kept, Removed
<1>2. reply.kind = "none"
    BY <1>1 DEF NoReply
<1>3. connected
    BY DEF AnswerRequest, Phase
<1>4. /\ LoadedKept' /\ WireTruth' /\ ClosedTold' /\ HiddenKnown'
      /\ StatusFollows'
    BY <1>1, <1>3 DEF Tracking, LoadedKept, WireTruth, ClosedTold,
       HiddenKnown, StatusFollows, Removed
<1>5. CASE pc \in {"listing", "resync"} /\ reply' = ListReply
  <2>1. /\ reply'.kind = "list" /\ reply'.after = Len(wire)
        /\ \A t \in Threads : reply'.names[t] # Absent <=> dStore[t] = "listed"
        /\ reply' # NoReply
      BY <1>5, DaemonAssumption
      DEF ListReply, NativeCatalog, TypeOK, DaemonTypeOK, NoReply,
          DaemonAssumption
  <2>2. Replies' /\ Catalogued' /\ StartedFirst' /\ ResyncLists' /\ SnapshotReads'
      BY <1>1, <1>5, <2>1 DEF Tracking, Replies, Catalogued, StartedFirst,
         ResyncLists, SnapshotReads
  <2>. QED BY <1>4, <2>2 DEF Tracking
<1>6. CASE pc = "loading" /\ reply' = LoadedReply
  <2>1. /\ reply'.kind = "loaded" /\ reply'.after = Len(wire)
        /\ reply'.ids = Loaded
      BY <1>6 DEF LoadedReply
  <2>2. SnapshotReads'
      BY <1>1, <1>6, <2>1 DEF Tracking, SnapshotReads, Kept, Loaded
  <2>3. Replies' /\ Catalogued' /\ StartedFirst' /\ ResyncLists'
      BY <1>1, <1>6, <2>1 DEF Tracking, Replies, Catalogued, StartedFirst,
         ResyncLists
  <2>. QED BY <1>4, <2>2, <2>3 DEF Tracking
<1>7. ASSUME NEW t \in snap.todo, pc = "reading", reply' = ReadReply(t)
      PROVE  Tracking'
  <2>1. /\ reply'.after = Len(wire) /\ reply'.kind \in {"read", "error"}
        /\ reply'.kind = "read" => reply'.id = t /\ reply'.status = dStatus[t]
      BY <1>7 DEF ReadReply
  <2>2. SnapshotReads'
      BY <1>1, <1>7, <2>1 DEF Tracking, SnapshotReads
  <2>3. Replies' /\ Catalogued' /\ StartedFirst' /\ ResyncLists'
      BY <1>1, <1>7, <2>1 DEF Tracking, Replies, Catalogued, StartedFirst,
         ResyncLists
  <2>. QED BY <1>4, <2>2, <2>3 DEF Tracking
<1>. QED BY <1>5, <1>6, <1>7 DEF AnswerRequest

\* Without a connection nothing is claimed but of the catalog.
LEMMA TrackingOff ==
    ASSUME TypeOK, Tracking, UNCHANGED <<dStore, dStatus, catalog, hidden>>,
           closedStarted' \in {closedStarted, NoneClosed}, live' = FALSE,
           pc' \in {"stopped", "backoff"}, wire' = <<>>, reply' = NoReply,
           snap' = EmptySnap \/ UNCHANGED snap
    PROVE  Tracking'
<1>. USE TypedFields
<1>1. /\ NoReply.kind = "none" /\ EmptySnap.hidden = {}
      /\ \A t \in Threads : EmptySnap.threads[t] = Absent
    BY DEF NoReply, EmptySnap, AllAbsent
<1>2. \A t : LastTold(<<>>, t, dStatus'[t])
    BY DEF LastTold
<1>3. WireTruth' /\ LoadedKept' /\ ClosedTold' /\ HiddenKnown' /\ Catalogued'
    BY <1>1, <1>2 DEF Tracking, WireTruth, LoadedKept, ClosedTold,
       HiddenKnown, Catalogued, NoneClosed
<1>4. Replies' /\ StartedFirst' /\ ResyncLists' /\ SnapshotReads' /\ StatusFollows'
    BY <1>1 DEF Replies, StartedFirst, ResyncLists, SnapshotReads, StatusFollows
<1>. QED BY <1>3, <1>4 DEF Tracking

LEMMA TrackingDisconnected ==
    ASSUME TypeOK, Tracking, NEW err, Disconnected(err),
           pc' \in {"stopped", "backoff"}
    PROVE  Tracking'
    BY TrackingOff DEF Disconnected, catalogVars

LEMMA TrackingStart ==
    ASSUME TypeOK, Phase, Tracking, StartLifecycle
    PROVE  Tracking'
<1>1. ~connected
    BY DEF StartLifecycle, Phase
<1>2. wire = <<>> /\ reply = NoReply
    BY <1>1 DEF Tracking, WireTruth
<1>. QED BY <1>2, TrackingOff DEF StartLifecycle, daemonVars
\* The fields a snapshot starts with.
LEMMA EmptySnapIs ==
    /\ EmptySnap.todo = {} /\ EmptySnap.hidden = {}
    /\ EmptySnap.status = AllNotLoaded
    /\ \A t \in Threads : EmptySnap.threads[t] = Absent
                          /\ EmptySnap.loaded[t] = Absent
    BY DEF EmptySnap, AllAbsent

\* Connecting and starting a fetch.
LEMMA TrackingBegin ==
    ASSUME TypeOK, Phase, Tracking, Connect \/ BeginSnapshot \/ BeginResync
    PROVE  Tracking'
<1>. USE TypedFields DEF linkVars
<1>1. /\ UNCHANGED <<dStore, dStatus, wire, reply, catalog, closedStarted,
                     status, hidden, live>>
      /\ reply = NoReply /\ Kept' = Kept
    BY NothingAsked DEF Connect, BeginSnapshot, BeginResync, Kept, Removed,
       daemonVars, catalogVars
<1>2. /\ reply.kind = "none"
      /\ connected' = TRUE /\ (~connected => wire = <<>>)
    BY <1>1 DEF Connect, BeginSnapshot, BeginResync, daemonVars, Phase,
       NoReply, Tracking, WireTruth
<1>3. /\ pc' \in {"dialed", "listing", "resync"}
      /\ \/ snap' = snap
         \/ /\ snap'.hidden = {} /\ snap'.status = AllNotLoaded
            /\ \A t \in Threads : snap'.threads[t] = Absent
      /\ pc' = "listing" => snap'.status = AllNotLoaded
    BY EmptySnapIs DEF Connect, BeginSnapshot, BeginResync, EmptySnap
<1>4. live' => pc' = "resync" /\ live
    BY DEF Connect, BeginSnapshot, BeginResync, Phase, ServeStates
<1>5. WireTruth' /\ LoadedKept' /\ ClosedTold' /\ HiddenKnown' /\ Catalogued'
    BY <1>1, <1>2, <1>3 DEF Tracking, WireTruth, LoadedKept, ClosedTold,
       HiddenKnown, Catalogued, Removed
<1>6. Replies' /\ StartedFirst' /\ ResyncLists' /\ SnapshotReads' /\ StatusFollows'
    BY <1>1, <1>2, <1>3, <1>4 DEF Tracking, Replies, StartedFirst,
       ResyncLists, SnapshotReads, StatusFollows
<1>. QED BY <1>5, <1>6 DEF Tracking

\* The frame of a snapshot's local steps.
LEMMA SnapshotStepIs ==
    ASSUME TypeOK, Phase, Tracking, NEW next, SnapshotStep(next),
           pc \in SnapshotStates, reply # NoReply
    PROVE  /\ UNCHANGED <<dStore, dStatus, wire, connected, catalog,
                          closedStarted, status, hidden, live, dirty>>
           /\ pc' = next /\ reply' = NoReply /\ reply'.kind = "none"
           /\ Kept' = Kept /\ ~live /\ connected
           /\ WireTruth' /\ LoadedKept' /\ ClosedTold' /\ StatusFollows'
<1>1. /\ UNCHANGED <<dStore, dStatus, wire, connected, catalog,
                     closedStarted, status, hidden, live, dirty>>
      /\ pc' = next /\ reply' = NoReply /\ reply'.kind = "none"
      /\ Kept' = Kept /\ ~live /\ connected
    BY DEF SnapshotStep, catalogVars, linkVars, NoReply, Kept, Removed,
       Phase, SnapshotStates, ServeStates
<1>. QED BY <1>1 DEF Tracking, WireTruth, LoadedKept, ClosedTold,
         StatusFollows, Removed

LEMMA TrackingSnapshot ==
    ASSUME TypeOK, Phase, Tracking,
           SnapshotListed \/ SnapshotLoaded \/ SnapshotRead
    PROVE  Tracking'
<1>. USE TypedFields, SnapFields DEF TypeOK, RuntimeTypeOK
<1>1. CASE SnapshotListed
  <2>1. /\ pc = "listing" /\ reply.kind = "list" /\ reply.after = 0
        /\ reply # NoReply /\ SnapshotStep("loading")
      BY <1>1 DEF SnapshotListed, Received, NoReply
  <2>2. /\ snap'.threads = reply.names /\ snap'.hidden = snap.hidden
        /\ snap'.status = snap.status /\ snap'.todo = snap.todo
      BY <1>1 DEF SnapshotListed, SnapType
  <2>3. /\ UNCHANGED <<dStore, wire, catalog, hidden>>
        /\ pc' = "loading" /\ reply' = NoReply /\ reply'.kind = "none"
        /\ WireTruth' /\ LoadedKept' /\ ClosedTold' /\ StatusFollows'
      BY <2>1, SnapshotStepIs DEF SnapshotStates
  <2>4. StartedFirst'
    <3>. SUFFICES ASSUME NEW i \in 1 .. Len(wire), wire[i].method = "started"
                  PROVE  /\ catalog[wire[i].thread] = Absent
                         /\ reply.names[wire[i].thread] = Absent
        BY <2>2, <2>3 DEF StartedFirst
    <3>1. i > 0
        OBVIOUS
    <3>. QED BY <2>1, <3>1 DEF Tracking, StartedFirst
  <2>5. Replies' /\ HiddenKnown' /\ Catalogued' /\ ResyncLists' /\ SnapshotReads'
      BY <2>1, <2>2, <2>3 DEF Tracking, Replies, HiddenKnown, Catalogued,
         ResyncLists, SnapshotReads
  <2>. QED BY <2>3, <2>4, <2>5 DEF Tracking
<1>2. CASE SnapshotLoaded
  <2>1. /\ pc = "loading" /\ reply.kind = "loaded" /\ reply.after = 0
        /\ reply # NoReply /\ SnapshotStep(AfterReads(reply.ids))
      BY <1>2 DEF SnapshotLoaded, Received, NoReply
  <2>2. /\ snap'.threads = snap.threads /\ snap'.hidden = snap.hidden
        /\ snap'.status = AllNotLoaded /\ snap'.todo = reply.ids
      BY <1>2, <2>1 DEF SnapshotLoaded, SnapType, Tracking, Replies
  <2>3. /\ UNCHANGED <<dStore, dStatus, wire, catalog, hidden, dirty>>
        /\ pc' = AfterReads(reply.ids) /\ reply' = NoReply
        /\ reply'.kind = "none" /\ Kept' = Kept
        /\ WireTruth' /\ LoadedKept' /\ ClosedTold' /\ StatusFollows'
      BY <2>1, SnapshotStepIs DEF SnapshotStates
  <2>4. pc' \in {"reading", "install"} /\ (pc' = "install" => reply.ids = {})
      BY <2>3 DEF AfterReads
  <2>5. SnapshotReads'
    <3>. SUFFICES ASSUME NEW t \in Kept
                  PROVE  \/ t \in reply.ids \cup dirty
                         \/ Quiet(wire, t, 0) => AllNotLoaded[t] = dStatus[t]
        BY <2>2, <2>3 DEF SnapshotReads
    <3>1. AllNotLoaded[t] = NotLoaded
        BY DEF AllNotLoaded, Kept
    <3>. QED BY <2>1, <3>1 DEF Tracking, SnapshotReads
  <2>6. Replies' /\ HiddenKnown' /\ Catalogued' /\ ResyncLists' /\ StartedFirst'
      BY <2>2, <2>3, <2>4 DEF Tracking, Replies, HiddenKnown, Catalogued,
         ResyncLists, StartedFirst
  <2>. QED BY <2>3, <2>5, <2>6 DEF Tracking
<1>3. CASE SnapshotRead
  <2>. DEFINE id == reply.id
  <2>1. /\ pc = "reading" /\ reply.kind = "read" /\ reply.after = 0
        /\ reply # NoReply /\ SnapshotStep(AfterReads(snap.todo \ {id}))
        /\ id \in Threads /\ reply.status \in Status
      BY <1>3, ReplyFields DEF SnapshotRead, Received, NoReply
  <2>2. /\ snap'.threads = snap.threads /\ snap'.todo = snap.todo \ {id}
        /\ snap'.hidden \subseteq snap.hidden \cup HiddenThreads
        /\ \A t \in Threads \ HiddenThreads :
              snap'.status[t] = IF t = id THEN reply.status ELSE snap.status[t]
      BY <1>3, <2>1 DEF SnapshotRead, SnapType
  <2>3. /\ UNCHANGED <<dStore, dStatus, wire, catalog, hidden, dirty>>
        /\ pc' = AfterReads(snap.todo \ {id}) /\ reply' = NoReply
        /\ reply'.kind = "none" /\ Kept' = Kept
        /\ WireTruth' /\ LoadedKept' /\ ClosedTold' /\ StatusFollows'
      BY <2>1, SnapshotStepIs DEF SnapshotStates
  <2>4. pc' \in {"reading", "install"} /\ (pc' = "install" => snap.todo \ {id} = {})
      BY <2>3 DEF AfterReads
  <2>5. SnapshotReads'
    <3>. SUFFICES ASSUME NEW t \in Kept
                  PROVE  \/ t \in (snap.todo \ {id}) \cup dirty
                         \/ Quiet(wire, t, 0) => snap'.status[t] = dStatus[t]
        BY <2>2, <2>3 DEF SnapshotReads
    <3>1. t \in Threads \ HiddenThreads
        BY DEF Kept
    <3>. QED BY <2>1, <2>2, <3>1 DEF Tracking, SnapshotReads
  <2>6. Replies' /\ HiddenKnown' /\ Catalogued' /\ ResyncLists' /\ StartedFirst'
      BY <2>2, <2>3, <2>4 DEF Tracking, Replies, HiddenKnown, Catalogued,
         ResyncLists, StartedFirst
  <2>. QED BY <2>3, <2>5, <2>6 DEF Tracking
<1>. QED BY <1>1, <1>2, <1>3

\* The threads a notification marked are the ones still to be read.
LEMMA TrackingReread ==
    ASSUME TypeOK, Phase, Tracking, RereadDirty
    PROVE  Tracking'
<1>. USE TypedFields, SnapFields DEF TypeOK, RuntimeTypeOK
<1>1. /\ UNCHANGED <<dStore, dStatus, wire, reply, connected, catalog,
                     closedStarted, status, hidden, live>>
      /\ pc = "install" /\ pc' = "reading" /\ dirty' = {} /\ Kept' = Kept
      /\ snap'.todo = dirty /\ snap'.threads = snap.threads
      /\ snap'.hidden = snap.hidden /\ snap'.status = snap.status
    BY DEF RereadDirty, catalogVars, linkVars, daemonVars, Kept, Removed, SnapType
<1>2. reply = NoReply /\ reply.kind = "none" /\ snap.todo = {}
    BY <1>1, NothingAsked DEF NoReply, Tracking, Replies
<1>3. SnapshotReads'
    BY <1>1, <1>2 DEF Tracking, SnapshotReads
<1>. QED BY <1>1, <1>2, <1>3
    DEF Tracking, LoadedKept, WireTruth, ClosedTold, Replies, Catalogued,
        StartedFirst, HiddenKnown, ResyncLists, StatusFollows, Removed

\* What an installed catalog leaves of the others'.
LEMMA InstallCatalogIs ==
    ASSUME TypeOK, NEW seq \in Nat, NEW threads, NEW starting,
           NEW closed \in [Threads -> Nat \cup {NotClosed}], NEW known,
           InstallCatalog(seq, threads, starting, closed, known)
    PROVE  /\ \A t \in Threads :
                /\ catalog'[t] # Absent => catalog[t] # Absent \/ threads[t] # Absent
                /\ closedStarted'[t] \in {closed[t], NotClosed}
           /\ hidden' \subseteq known \cup HiddenThreads
<1>1. CASE seq > catalogSeq
    BY <1>1 DEF InstallCatalog, WithoutHidden
<1>2. CASE ~(seq > catalogSeq)
    BY <1>2 DEF InstallCatalog
<1>. QED BY <1>1, <1>2

LEMMA TrackingInstall ==
    ASSUME TypeOK, Phase, Tracking, InstallSnapshot
    PROVE  Tracking'
<1>. USE TypedFields, SnapFields DEF TypeOK, RuntimeTypeOK
<1>. DEFINE known == hidden \cup snap.hidden
<1>1. /\ UNCHANGED <<dStore, dStatus, wire, reply, connected>>
      /\ pc = "install" /\ pc' = "serve" /\ dirty = {} /\ snap' = EmptySnap
      /\ InstallCatalog(snap.seq, snap.threads, SnapshotStarted(known),
                        NoneClosed, known)
      /\ status' = [t \in Threads |->
                      IF t \in hidden' THEN NotLoaded ELSE snap.status[t]]
      /\ Kept' = Kept
    BY DEF InstallSnapshot, daemonVars, Kept, Removed
<1>2. reply = NoReply /\ reply.kind = "none" /\ snap.todo = {}
    BY <1>1, NothingAsked DEF NoReply, Tracking, Replies
<1>3. known \subseteq HiddenThreads
    BY DEF Tracking, HiddenKnown
<1>. HIDE DEF known
<1>4. NoneClosed \in [Threads -> Nat \cup {NotClosed}]
      /\ \A t \in Threads : NoneClosed[t] = NotClosed
    BY DEF NoneClosed
<1>5. /\ \A t \in Threads :
           /\ catalog'[t] # Absent => catalog[t] # Absent \/ snap.threads[t] # Absent
           /\ closedStarted'[t] = NotClosed
      /\ hidden' \subseteq HiddenThreads
    BY <1>1, <1>3, <1>4, InstallCatalogIs
<1>6. StatusFollows'
  <2>. SUFFICES ASSUME NEW t \in Kept, Quiet(wire, t, 0)
                PROVE  status'[t] = dStatus[t]
      BY <1>1 DEF StatusFollows
  <2>1. t \in Threads /\ t \notin hidden'
      BY <1>5 DEF Kept
  <2>2. snap.status[t] = dStatus[t]
      BY <1>1, <1>2 DEF Tracking, SnapshotReads
  <2>. QED BY <1>1, <2>1, <2>2
<1>7. connected
    BY <1>1 DEF Phase
<1>8. WireTruth' /\ LoadedKept' /\ ClosedTold' /\ HiddenKnown' /\ Catalogued'
    BY <1>1, <1>2, <1>5, <1>7, EmptySnapIs
    DEF Tracking, WireTruth, LoadedKept, ClosedTold, HiddenKnown, Catalogued,
        Removed
<1>9. Replies' /\ StartedFirst' /\ ResyncLists' /\ SnapshotReads'
    BY <1>1, <1>2, <1>5, EmptySnapIs
    DEF Tracking, Replies, StartedFirst, ResyncLists, SnapshotReads
<1>. QED BY <1>6, <1>8, <1>9 DEF Tracking

\* The threads a re-read takes off the catalog are not the daemon's.
LEMMA ResyncKeepsListed ==
    ASSUME TypeOK, Tracking, NEW t \in Kept, catalog[t] # Absent,
           pc = "resync", reply.kind = "list"
    PROVE  WithoutHidden(reply.names)[t] # Absent
<1>1. t \in Threads /\ t \notin HiddenThreads /\ ~Removed(t)
    BY DEF Kept
<1>2. dStore[t] = "listed"
    BY <1>1 DEF Tracking, Catalogued, Removed
<1>3. reply.names[t] # Absent
    BY <1>1, <1>2 DEF Tracking, ResyncLists
<1>. QED BY <1>1, <1>3 DEF WithoutHidden

LEMMA TrackingResync ==
    ASSUME TypeOK, Phase, Tracking, InstallResync
    PROVE  Tracking'
<1>. USE TypedFields, SnapFields DEF TypeOK, RuntimeTypeOK
<1>1. /\ UNCHANGED <<dStore, dStatus, wire, connected, live, dirty>>
      /\ pc = "resync" /\ pc' = "serve" /\ snap' = EmptySnap
      /\ reply.kind = "list" /\ reply.after = 0
      /\ reply' = NoReply /\ reply'.kind = "none"
      /\ InstallCatalog(snap.seq, reply.names, started, closedStarted, hidden)
      /\ status' = StatusKept(snap.seq, reply.names)
      /\ Kept' = Kept
    BY DEF InstallResync, Received, linkVars, Kept, Removed, NoReply
<1>2. /\ \A t \in Threads :
           /\ catalog'[t] # Absent => catalog[t] # Absent \/ reply.names[t] # Absent
           /\ closedStarted'[t] \in {closedStarted[t], NotClosed}
      /\ hidden' \subseteq HiddenThreads
    BY <1>1, InstallCatalogIs DEF Tracking, HiddenKnown
<1>3. StatusFollows'
  <2>. SUFFICES ASSUME NEW t \in Kept, live, Quiet(wire, t, 0)
                PROVE  status'[t] = dStatus[t]
      BY <1>1 DEF StatusFollows
  <2>1. t \in Threads /\ status'[t] = status[t]
      BY <1>1, ResyncKeepsListed DEF StatusKept, Kept
  <2>. QED BY <2>1 DEF Tracking, StatusFollows
<1>4. connected
    BY <1>1 DEF Phase
<1>5. WireTruth' /\ LoadedKept' /\ ClosedTold' /\ HiddenKnown' /\ Catalogued'
    BY <1>1, <1>2, <1>4, EmptySnapIs
    DEF Tracking, WireTruth, LoadedKept, ClosedTold, HiddenKnown, Catalogued,
        Removed
<1>6. StartedFirst'
  <2>. SUFFICES ASSUME NEW i \in 1 .. Len(wire), wire[i].method = "started"
                PROVE  catalog'[wire[i].thread] = Absent
      BY <1>1, EmptySnapIs DEF StartedFirst
  <2>1. i > 0
      OBVIOUS
  <2>. QED BY <1>1, <1>2, <2>1 DEF Tracking, StartedFirst
<1>7. Replies' /\ ResyncLists' /\ SnapshotReads'
    BY <1>1 DEF Tracking, Replies, ResyncLists, SnapshotReads
<1>. QED BY <1>3, <1>5, <1>6, <1>7 DEF Tracking
LEMMA TrackingInit == Init => Tracking
<1>. SUFFICES ASSUME Init PROVE Tracking
    OBVIOUS
<1>1. /\ wire = <<>> /\ reply = NoReply /\ reply.kind = "none" /\ ~live
      /\ pc = "stopped" /\ hidden = {} /\ snap = EmptySnap
      /\ \A t \in Threads : catalog[t] = Absent /\ closedStarted[t] = NotClosed
    BY DEF Init, DaemonInit, RuntimeInit, NoReply, AllAbsent, NoneClosed
<1>2. \A t : LastTold(<<>>, t, dStatus[t])
    BY DEF LastTold
<1>3. LoadedKept
    BY DEF Init, DaemonInit, LoadedKept, NotLoaded
<1>4. WireTruth /\ ClosedTold /\ Replies /\ Catalogued /\ StartedFirst
      /\ HiddenKnown /\ ResyncLists /\ SnapshotReads /\ StatusFollows
    BY <1>1, <1>2, EmptySnapIs
    DEF WireTruth, ClosedTold, Replies, Catalogued, StartedFirst, HiddenKnown,
        ResyncLists, SnapshotReads, StatusFollows
<1>. QED BY <1>3, <1>4 DEF Tracking

LEMMA TrackingStep ==
    ASSUME Undisturbed
    PROVE  TypeOK /\ Phase /\ FetchOrder /\ Tracking /\ [Next]_vars => Tracking'
<1>. SUFFICES ASSUME TypeOK, Phase, FetchOrder, Tracking, [Next]_vars
              PROVE  Tracking'
    OBVIOUS
<1>. USE DEF catalogVars, linkVars, daemonVars
<1>1. CASE DaemonEvent /\ UNCHANGED runtimeVars
    BY <1>1, TrackingDaemon DEF Undisturbed
<1>2. CASE HandleNotification
    BY <1>2, TrackingHandled
<1>3. CASE AnswerRequest
    BY <1>3, TrackingAnswer
<1>4. CASE RunStep
  <2>1. CASE SnapshotFails
      BY <2>1, TrackingDisconnected DEF SnapshotFails
  <2>2. CASE ServeRequest \/ AwaitWake
    <3>1. /\ UNCHANGED <<dStore, dStatus, dName, wire, reply, connected,
                         catalog, closedStarted, status, hidden, live, dirty,
                         snap>>
          /\ pc \in {"serve", "waiting"} /\ pc' \in {"serve", "waiting", "gap"}
          /\ Kept' = Kept
        BY <2>2 DEF ServeRequest, AwaitWake, Kept, Removed
    <3>2. reply.kind = "none"
        BY <3>1, NothingAsked DEF NoReply
    <3>. QED BY <3>1, <3>2
         DEF Tracking, LoadedKept, WireTruth, ClosedTold, Replies, Catalogued,
             StartedFirst, HiddenKnown, ResyncLists, SnapshotReads,
             StatusFollows, Removed
  <2>. QED BY <1>4, <2>1, <2>2, TrackingBegin, TrackingSnapshot,
              TrackingReread, TrackingInstall, TrackingResync DEF RunStep
<1>5. CASE ConnectFails \/ ConnectionLost \/ StopLifecycle
  <2>1. pc' \in {"stopped", "backoff"}
      BY <1>5 DEF ConnectFails, ConnectionLost, StopLifecycle
  <2>. QED BY <1>5, <2>1, TrackingDisconnected
           DEF ConnectFails, ConnectionLost, StopLifecycle
<1>6. CASE StartLifecycle
    BY <1>6, TrackingStart
<1>7. CASE UNCHANGED vars \/ Publish \/ HintStep
    BY <1>7, TrackingFrame
    DEF vars, runtimeVars, Publish, HintStep, RememberActiveTurn,
        ForgetActiveTurn, HintsOnly
<1>. QED BY <1>1, <1>2, <1>3, <1>4, <1>5, <1>6, <1>7 DEF Next, Undisturbed

LEMMA UndisturbedAlways ==
    ASSUME Undisturbed
    PROVE  Spec => [](TypeOK /\ Phase /\ FetchOrder /\ HiddenOut
                      /\ OneRowPerThread /\ Tracking)
<1>1. ListCalls = {}
    BY DEF Undisturbed
<1>2. Init => OneRowPerThread
    BY DEF Init, RuntimeInit, OneRowPerThread, AllAbsent
<1>3. TypeOK /\ FetchOrder /\ [Next]_vars => FetchOrder'
    BY <1>1, FetchOrderStep
<1>4. TypeOK /\ FetchOrder /\ OneRowPerThread /\ [Next]_vars
          => OneRowPerThread'
    BY <1>1, OneRowStep
<1>5. TypeOK /\ Phase /\ FetchOrder /\ Tracking /\ [Next]_vars => Tracking'
    BY TrackingStep
<1>. QED BY <1>2, <1>3, <1>4, <1>5, InitType, NextType, PhaseInit, PhaseStep,
            HiddenInit, HiddenStep, FetchOrderInit, TrackingInit, PTL DEF Spec

\* With every notification handled, a live runtime shows the status the
\* daemon has: the snapshot re-reads what changed under it, the reader writes
\* what comes later, and no re-read takes a listed thread's status away.
THEOREM StatusIsCurrentAlways ==
    ASSUME Undisturbed
    PROVE  Spec => []StatusIsCurrent
<1>1. HiddenOut /\ Tracking => StatusIsCurrent
  <2>. SUFFICES ASSUME HiddenOut, Tracking, live, wire = <<>>,
                       NEW t \in Threads, Visible(t),
                       dStore[t] \in {"unsaved", "listed"}
                PROVE  status[t] = dStatus[t]
      BY DEF StatusIsCurrent
  <2>1. t \in Kept
      BY DEF Kept, Removed, HiddenOut, Visible
  <2>2. Quiet(wire, t, 0)
      BY DEF Quiet
  <2>. QED BY <2>1, <2>2 DEF Tracking, StatusFollows
<1>. QED BY <1>1, UndisturbedAlways, PTL

-----------------------------------------------------------------------------
(* Rows stay.                                                              *)

NoFlickerNow ==
    \A t \in Threads :
        /\ Visible(t) /\ live /\ live'
        /\ dStore[t] \in {"unsaved", "listed"}
        => Visible(t)'

\* No notification takes off a thread the daemon still has.
LEMMA HandledStays ==
    ASSUME TypeOK, Tracking, HandleNotification, NEW t \in Threads,
           dStore[t] \in {"unsaved", "listed"}, Visible(t)
    PROVE  Visible(t)'
<1>. USE TypedFields
<1>. DEFINE n == Head(wire)
<1>1. /\ n \in Notification /\ n.thread \in Threads /\ n = wire[1]
      /\ 1 \in 1 .. Len(wire)
    BY WireHead, NotificationFields
    DEF HandleNotification, TypeOK, DaemonTypeOK
<1>. HIDE DEF n
<1>2. n.method \in {"archived", "deleted"} => n.thread # t
    BY <1>1 DEF Tracking, WireTruth, Removed
<1>3. n.method \in {"started", "name"} => n.name # Absent
    BY <1>1, NotificationFields, DaemonAssumption DEF DaemonAssumption
<1>. QED BY <1>1, <1>2, <1>3
    DEF HandleNotification, HandleStatusChanged, HandleClosed,
        HandleHiddenStarted, HandleStarted, HandleNameUpdated, HandleRemoved,
        HandleUnarchived, Visible, TypeOK, RuntimeTypeOK, n

\* A re-read takes a live-started thread off only when it was closed before
\* the re-read began and is not listed.
LEMMA ResyncStays ==
    ASSUME TypeOK, Tracking, HiddenOut, InstallResync, NEW t \in Threads,
           dStore[t] \in {"unsaved", "listed"}, Visible(t)
    PROVE  Visible(t)'
<1>. DEFINE names == reply.names
<1>1. /\ pc = "resync" /\ reply.kind = "list"
      /\ InstallCatalog(snap.seq, names, started, closedStarted, hidden)
    BY DEF InstallResync, Received
<1>2. t \in Kept /\ t \notin HiddenThreads
    BY DEF Kept, Removed, HiddenOut, Visible
<1>3. catalog[t] # Absent => WithoutHidden(names)[t] # Absent
    BY <1>1, <1>2, ResyncKeepsListed
<1>4. CASE WithoutHidden(names)[t] # Absent
    BY <1>1, <1>4 DEF InstallCatalog, Visible
<1>5. CASE WithoutHidden(names)[t] = Absent
  <2>1. started[t] # Absent
      BY <1>3, <1>5 DEF Visible
  <2>2. names[t] = Absent
      BY <1>2, <1>5 DEF WithoutHidden
  <2>3. ~(closedStarted[t] # NotClosed /\ snap.seq > closedStarted[t])
      BY <1>1, <1>2, <2>2 DEF Tracking, ClosedTold, ResyncLists
  <2>4. t \notin Settled(snap.seq, names, closedStarted)
      BY <1>5, <2>3 DEF Settled
  <2>. QED BY <1>1, <2>1, <2>4 DEF InstallCatalog, Visible
<1>. QED BY <1>4, <1>5

LEMMA NoFlickerStep ==
    ASSUME Undisturbed
    PROVE  TypeOK /\ Phase /\ HiddenOut /\ Tracking /\ [Next]_vars
               => NoFlickerNow
<1>. SUFFICES ASSUME TypeOK, Phase, HiddenOut, Tracking, [Next]_vars,
                     NEW t \in Threads, Visible(t), live, live',
                     dStore[t] \in {"unsaved", "listed"}
              PROVE  Visible(t)'
    BY DEF NoFlickerNow
<1>. USE DEF catalogVars, linkVars
<1>1. CASE UNCHANGED <<started, catalog>>
    BY <1>1 DEF Visible
<1>2. CASE HandleNotification
    BY <1>2, HandledStays
<1>3. CASE InstallResync
    BY <1>3, ResyncStays
<1>4. CASE InstallSnapshot \/ StartLifecycle
    BY <1>4 DEF InstallSnapshot, StartLifecycle, Phase, ServeStates
<1>5. CASE RunStep /\ ~InstallSnapshot /\ ~InstallResync
    BY <1>1, <1>5 DEF RunStep, Connect, BeginSnapshot, SnapshotListed,
       SnapshotLoaded, SnapshotRead, SnapshotStep, RereadDirty,
       SnapshotFails, Disconnected, ServeRequest, AwaitWake, BeginResync
<1>6. CASE ConnectFails \/ ConnectionLost \/ StopLifecycle
    BY <1>1, <1>6 DEF ConnectFails, ConnectionLost, StopLifecycle,
       Disconnected
<1>7. CASE \/ UNCHANGED vars
           \/ DaemonEvent /\ UNCHANGED runtimeVars
           \/ AnswerRequest \/ Publish \/ HintStep
    BY <1>1, <1>7 DEF vars, runtimeVars, AnswerRequest, Publish, HintStep,
       RememberActiveTurn, ForgetActiveTurn, HintsOnly
<1>. QED BY <1>2, <1>3, <1>4, <1>5, <1>6, <1>7 DEF Next, Undisturbed

\* A thread the daemon has listed or still has loaded does not blink: no
\* handler of the reader and no late re-read takes it off a live runtime.
THEOREM NoFlickerAlways ==
    ASSUME Undisturbed
    PROVE  Spec => NoFlicker
<1>1. TypeOK /\ Phase /\ HiddenOut /\ Tracking /\ [Next]_vars
          => [NoFlickerNow]_vars
    BY NoFlickerStep
<1>. QED BY <1>1, UndisturbedAlways, PTL DEF Spec, NoFlicker, NoFlickerNow

-----------------------------------------------------------------------------
(***************************************************************************)
(* The rows at rest.  A handler that changes what a row should be either   *)
(* corrects the live-started threads, or marks the thread for a running    *)
(* snapshot, or asks for a catalog that is fetched after it.               *)
(***************************************************************************)

\* What a notification says of a thread's row.
Stirs(n, t) == n.thread = t /\ n.method # "status"

\* After its first k notifications, w says nothing of t's row.
Still(w, t, k) == \A i \in 1 .. Len(w) : i > k => ~Stirs(w[i], t)

\* Never persisted, and not loaded.
Lost(t) == dStore[t] \in {"absent", "gone"}

\* A catalog fetch is still to be answered.
Fetching == needCatalog \/ pc = "gap" \/ (pc = "resync" /\ reply = NoReply)

\* What is under way about the rows is what the daemon last did.
WireRows ==
    \A i \in 1 .. Len(wire) :
        LET n == wire[i] t == wire[i].thread IN
        /\ n.method # "unarchived"
        /\ n.method = "started" =>
            /\ dStore[t] # "absent"
            /\ dStore[t] = "unsaved" => n.name = dName[t]
            /\ dStore[t] = "gone" => ~Still(wire, t, i)
        /\ n.method = "name" => dStore[t] \in {"listed", "archived", "deleted"}

\* A live runtime has each unpersisted thread live-started under its name,
\* and none that is lost but those marked closed.
LiveRows ==
    live => \A t \in Kept : Still(wire, t, 0) =>
        /\ dStore[t] = "unsaved" => started[t] = dName[t]
        /\ Lost(t) /\ started[t] # Absent => closedStarted[t] # NotClosed

\* A closing mark waits for a fetch that begins after it.
ClosedWaits ==
    \A t \in Threads : closedStarted[t] # NotClosed =>
        /\ closedStarted[t] <= fetchSeq
        /\ live => \/ needCatalog \/ pc = "gap"
                   \/ pc = "resync" /\ snap.seq > closedStarted[t]

\* What a snapshot has read of the threads no catalog has yet.
SnapLoads ==
    /\ pc \in {"listing", "loading"} =>
        startedNow \subseteq dirty /\ snap.loaded = AllAbsent
    /\ reply.kind = "loaded" =>
        \A t \in Kept \ reply.ids :
            t \in dirty \/ (Still(wire, t, reply.after) => dStore[t] # "unsaved")
    /\ reply.kind = "read" /\ reply.id \in Kept =>
        \/ reply.id \in dirty
        \/ Still(wire, reply.id, reply.after) =>
            /\ ~Lost(reply.id)
            /\ dStore[reply.id] = "unsaved" =>
                reply.name = dName[reply.id] /\ reply.status # NotLoaded
    /\ pc \in {"reading", "install"} =>
        \A t \in Kept :
            \/ t \in snap.todo \cup dirty
            \/ Still(wire, t, 0) =>
                /\ dStore[t] = "unsaved" => snap.loaded[t] = dName[t]
                /\ Lost(t) => /\ snap.loaded[t] = Absent
                              /\ t \in startedNow => started[t] = Absent

\* What a snapshot has read of a persisted thread t: its name in the catalog,
\* or, persisted after the catalog was fetched, in what is read of it.
SnapNamed(t) ==
    /\ pc = "listing" /\ reply.kind = "list" =>
        \/ reply.names[t] = dName[t]
        \/ reply.names[t] = Absent /\ dStatus[t] # NotLoaded
    /\ pc \in {"loading", "reading", "install"} =>
        \/ snap.threads[t] = dName[t]
        \/ /\ snap.threads[t] = Absent /\ dStatus[t] # NotLoaded
           /\ reply.kind = "loaded" => t \in reply.ids \cup dirty
           /\ reply.kind = "read" /\ reply.id = t =>
                t \in dirty \/ (reply.name = dName[t] /\ reply.status # NotLoaded)
           /\ pc \in {"reading", "install"} =>
                t \in snap.todo \cup dirty \/ snap.loaded[t] = dName[t]

SnapNames ==
    ~needCatalog =>
        \A t \in Kept : dStore[t] = "listed" /\ Still(wire, t, 0) => SnapNamed(t)

\* With no fetch to come, a live runtime has a persisted thread's name, in
\* its catalog, live-started, or in the answer it is about to install.
LiveNamed(t) ==
    IF pc = "resync"
    THEN \/ reply.names[t] = dName[t]
         \/ /\ reply.names[t] = Absent /\ started[t] = dName[t]
            /\ closedStarted[t] = NotClosed
    ELSE dName[t] \in {catalog[t], started[t]}

LiveNames ==
    live /\ ~Fetching =>
        \A t \in Kept : dStore[t] = "listed" /\ Still(wire, t, 0) => LiveNamed(t)

Naming ==
    WireRows /\ LiveRows /\ ClosedWaits /\ SnapLoads /\ SnapNames /\ LiveNames

\* Broadcasting one more notification.
LEMMA StillAppend ==
    ASSUME NEW w \in Seq(Notification), NEW n \in Notification, NEW t,
           NEW k \in Nat, k <= Len(w)
    PROVE  Still(Append(w, n), t, k) <=> Still(w, t, k) /\ ~Stirs(n, t)
<1>1. Len(Append(w, n)) = Len(w) + 1 /\ Append(w, n)[Len(w) + 1] = n
      /\ \A i \in 1 .. Len(w) : Append(w, n)[i] = w[i]
    OBVIOUS
<1>. QED BY <1>1 DEF Still

\* Handling the oldest notification.
LEMMA StillTail ==
    ASSUME NEW w \in Seq(Notification), w # <<>>, NEW t, NEW k \in Nat
    PROVE  /\ Still(Tail(w), t, k) <=> Still(w, t, k + 1)
           /\ Still(w, t, 0) <=> Still(Tail(w), t, 0) /\ ~Stirs(Head(w), t)
<1>1. /\ Len(w) \in Nat /\ Len(w) >= 1 /\ Len(Tail(w)) = Len(w) - 1
      /\ \A i \in 1 .. Len(w) - 1 : Tail(w)[i] = w[i + 1]
      /\ Head(w) = w[1]
    OBVIOUS
<1>2. ASSUME NEW j \in Nat, Still(Tail(w), t, j)
      PROVE  Still(w, t, j + 1)
  <2>. SUFFICES ASSUME NEW i \in 1 .. Len(w), i > j + 1 PROVE ~Stirs(w[i], t)
      BY DEF Still
  <2>1. i - 1 \in 1 .. Len(w) - 1 /\ i - 1 > j /\ w[i] = Tail(w)[i - 1]
      BY <1>1
  <2>. QED BY <1>1, <1>2, <2>1 DEF Still
<1>3. ASSUME NEW j \in Nat, Still(w, t, j + 1)
      PROVE  Still(Tail(w), t, j)
    BY <1>1, <1>3 DEF Still
<1>4. Still(w, t, 0) <=> Still(w, t, 1) /\ ~Stirs(Head(w), t)
    BY <1>1 DEF Still
<1>. QED BY <1>2, <1>3, <1>4

\* A thread whose row n says nothing of keeps its row.
RowTruth(n) ==
    /\ \A t \in Threads : ~Stirs(n, t) =>
        /\ dName'[t] = dName[t] /\ dStore'[t] = dStore[t]
        /\ dStatus[t] # NotLoaded => dStatus'[t] # NotLoaded
    /\ n.method # "unarchived"
    /\ n.method = "started" =>
        dStore'[n.thread] = "unsaved" /\ n.name = dName'[n.thread]
    /\ n.method = "name" => dStore'[n.thread] = "listed"
    /\ n.method # "name" => UNCHANGED dName

\* What the daemon may do to the rows, and that it says so, but for persisting
\* a thread.
LEMMA DaemonRowIs ==
    ASSUME TypeOK, DaemonEvent, "unarchive" \notin Kinds
    PROVE  \/ /\ UNCHANGED <<wire, dStatus, dName>>
              /\ \A t \in Threads :
                    \/ dStore'[t] = dStore[t]
                    \/ dStore[t] = "unsaved" /\ dStore'[t] = "listed"
           \/ \E n \in Notification :
                /\ wire' = IF connected THEN Append(wire, n) ELSE wire
                /\ RowTruth(n)
<1>. PICK t \in Threads :
        \/ StartThread(t) \/ PersistThread(t) \/ ChangeStatus(t)
        \/ CloseThread(t) \/ ResumeThread(t) \/ RemoveThread(t)
        \/ UnarchiveThread(t) \/ RenameThread(t)
    BY DEF DaemonEvent
<1>1. /\ dStore \in [Threads -> StoreState]
      /\ dStatus \in [Threads -> Status] /\ dName \in [Threads -> Names]
    BY DEF TypeOK, DaemonTypeOK
<1>. DEFINE Goal ==
        \/ /\ UNCHANGED <<wire, dStatus, dName>>
           /\ \A u \in Threads :
                \/ dStore'[u] = dStore[u]
                \/ dStore[u] = "unsaved" /\ dStore'[u] = "listed"
        \/ \E n \in Notification :
             /\ wire' = IF connected THEN Append(wire, n) ELSE wire
             /\ RowTruth(n)
<1>. SUFFICES Goal
    OBVIOUS
<1>2. ASSUME NEW n \in Notification, Broadcast(n), RowTruth(n)
      PROVE  Goal
    BY <1>2 DEF Broadcast
<1>. USE <1>1 DEF Event, Stirs, Status, LoadedStatus, NotLoaded, Loaded
<1>. HIDE DEF Goal
<1>3. CASE StartThread(t)
  <2>. PICK nm \in Names : nm = dName[t]
      OBVIOUS
  <2>. DEFINE n == [method |-> "started", thread |-> t, name |-> nm,
                    status |-> "idle"]
  <2>1. n \in Notification
      BY DEF Notification
  <2>2. RowTruth(n)
      BY <1>3 DEF StartThread, RowTruth
  <2>3. Broadcast(n)
      BY <1>3 DEF StartThread
  <2>. HIDE DEF n
  <2>. QED BY <1>2, <2>1, <2>2, <2>3
<1>4. CASE PersistThread(t)
    BY <1>4 DEF PersistThread, Goal
<1>5. CASE ChangeStatus(t) \/ ResumeThread(t)
  <2>. PICK s \in LoadedStatus :
          /\ dStatus' = [dStatus EXCEPT ![t] = s]
          /\ Broadcast([method |-> "status", thread |-> t, status |-> s])
          /\ UNCHANGED <<dStore, dName>>
      BY <1>5 DEF ChangeStatus, ResumeThread
  <2>. DEFINE n == [method |-> "status", thread |-> t, status |-> s]
  <2>1. n \in Notification
      BY DEF Notification
  <2>2. RowTruth(n)
      BY DEF RowTruth
  <2>3. Broadcast(n)
      OBVIOUS
  <2>. HIDE DEF n
  <2>. QED BY <1>2, <2>1, <2>2, <2>3
<1>6. CASE CloseThread(t) \/ RemoveThread(t)
  <2>. PICK m \in {"closed", "archived", "deleted"} :
          /\ dStatus' = [dStatus EXCEPT ![t] = NotLoaded]
          /\ \A u \in Threads : u # t => dStore'[u] = dStore[u]
          /\ Broadcast([method |-> m, thread |-> t])
          /\ UNCHANGED dName
      BY <1>6 DEF CloseThread, RemoveThread
  <2>. DEFINE n == [method |-> m, thread |-> t]
  <2>1. n \in Notification
      BY DEF Notification
  <2>2. RowTruth(n)
      BY DEF RowTruth
  <2>3. Broadcast(n)
      OBVIOUS
  <2>. HIDE DEF n
  <2>. QED BY <1>2, <2>1, <2>2, <2>3
<1>7. CASE UnarchiveThread(t)
    BY <1>7 DEF UnarchiveThread
<1>8. CASE RenameThread(t)
  <2>. PICK nm \in Names :
          /\ dName' = [dName EXCEPT ![t] = nm]
          /\ Broadcast([method |-> "name", thread |-> t, name |-> nm])
      BY <1>8 DEF RenameThread
  <2>. DEFINE n == [method |-> "name", thread |-> t, name |-> nm]
  <2>1. n \in Notification
      BY DEF Notification
  <2>2. RowTruth(n)
      BY <1>8 DEF RenameThread, RowTruth
  <2>3. Broadcast(n)
      BY <1>8 DEF RenameThread
  <2>. HIDE DEF n
  <2>. QED BY <1>2, <2>1, <2>2, <2>3
<1>. QED BY <1>3, <1>4, <1>5, <1>6, <1>7, <1>8

\* On an open connection, a thread the wire says nothing of after its first k
\* notifications has kept its row, or has been persisted.
LEMMA DaemonSettles ==
    ASSUME TypeOK, Phase, Tracking, DaemonEvent, UNCHANGED runtimeVars,
           "unarchive" \notin Kinds, connected,
           NEW t \in Kept', NEW k \in 0 .. Len(wire), Still(wire', t, k)
    PROVE  /\ t \in Kept /\ Still(wire, t, k)
           /\ dName'[t] = dName[t]
           /\ dStatus[t] # NotLoaded => dStatus'[t] # NotLoaded
           /\ \/ dStore'[t] = dStore[t]
              \/ dStore[t] = "unsaved" /\ dStore'[t] = "listed"
<1>. USE TypedFields
<1>1. t \in Kept /\ t \in Threads
  <2>1. StoreMoves
      BY DaemonEventIs DEF Tracking
  <2>. QED BY <2>1 DEF StoreMoves, Kept, Removed
<1>2. CASE /\ UNCHANGED <<wire, dStatus, dName>>
           /\ \A u \in Threads :
                \/ dStore'[u] = dStore[u]
                \/ dStore[u] = "unsaved" /\ dStore'[u] = "listed"
    BY <1>1, <1>2
<1>3. ASSUME NEW n \in Notification, wire' = Append(wire, n), RowTruth(n)
      PROVE  /\ Still(wire, t, k)
             /\ dName'[t] = dName[t] /\ dStore'[t] = dStore[t]
             /\ dStatus[t] # NotLoaded => dStatus'[t] # NotLoaded
  <2>1. Still(Append(wire, n), t, k) /\ k \in Nat /\ k <= Len(wire)
      BY <1>3
  <2>2. Still(wire, t, k) /\ ~Stirs(n, t)
      BY <2>1, StillAppend
  <2>. QED BY <1>1, <1>3, <2>2 DEF RowTruth
<1>. QED BY <1>1, <1>2, <1>3, DaemonRowIs

LEMMA WireRowsDaemon ==
    ASSUME TypeOK, Phase, Tracking, WireRows, DaemonEvent,
           UNCHANGED runtimeVars, "unarchive" \notin Kinds
    PROVE  WireRows'
<1>. USE TypedFields
<1>1. StoreMoves
    BY DaemonEventIs DEF Tracking
<1>2. CASE ~connected
  <2>1. wire = <<>>
      BY <1>2 DEF Tracking, WireTruth
  <2>2. wire' = <<>>
      BY <1>2, <2>1, DaemonRowIs
  <2>. QED BY <2>2 DEF WireRows
<1>3. CASE connected
  <2>1. CASE /\ UNCHANGED <<wire, dStatus, dName>>
             /\ \A u \in Threads :
                  \/ dStore'[u] = dStore[u]
                  \/ dStore[u] = "unsaved" /\ dStore'[u] = "listed"
      BY <2>1 DEF WireRows
  <2>2. ASSUME NEW n \in Notification, wire' = Append(wire, n), RowTruth(n)
        PROVE  WireRows'
    <3>1. /\ Len(wire') = Len(wire) + 1 /\ wire'[Len(wire) + 1] = n
          /\ \A i \in 1 .. Len(wire) : wire'[i] = wire[i]
          /\ n.thread \in Threads
        BY <2>2, NotificationFields
    <3>. DEFINE Good(i) ==
            LET m == wire'[i] t == wire'[i].thread IN
            /\ m.method # "unarchived"
            /\ m.method = "started" =>
                /\ dStore'[t] # "absent"
                /\ dStore'[t] = "unsaved" => m.name = dName'[t]
                /\ dStore'[t] = "gone" => ~Still(wire', t, i)
            /\ m.method = "name" => dStore'[t] \in {"listed", "archived", "deleted"}
    <3>2. Good(Len(wire) + 1)
        BY <2>2, <3>1 DEF RowTruth
    <3>3. ASSUME NEW i \in 1 .. Len(wire)
          PROVE  Good(i)
      <4>. DEFINE t == wire[i].thread
      <4>1. wire'[i] = wire[i] /\ t \in Threads /\ i \in Nat /\ i <= Len(wire)
          BY <3>1
      <4>2. /\ wire[i].method # "unarchived"
            /\ wire[i].method = "started" =>
                /\ dStore[t] # "absent"
                /\ dStore[t] = "unsaved" => wire[i].name = dName[t]
                /\ dStore[t] = "gone" => ~Still(wire, t, i)
            /\ wire[i].method = "name" => dStore[t] \in {"listed", "archived", "deleted"}
          BY DEF WireRows
      <4>. HIDE DEF t
      <4>3. Still(wire', t, i) <=> Still(wire, t, i) /\ ~Stirs(n, t)
          BY <2>2, <4>1, StillAppend
      <4>4. CASE Stirs(n, t)
        <5>1. ~Still(wire', t, i) /\ n.thread = t
            BY <4>3, <4>4 DEF Stirs
        <5>2. n.method = "name" => dStore'[t] = "listed"
            BY <2>2, <5>1 DEF RowTruth
        <5>3. n.method # "name" => dName'[t] = dName[t]
            BY <2>2, <4>1 DEF RowTruth
        <5>4. dStore[t] # "absent" => dStore'[t] # "absent"
            BY <1>1, <4>1 DEF StoreMoves
        <5>5. dStore[t] # "absent" /\ dStore'[t] = "unsaved" => dStore[t] = "unsaved"
            BY <1>1, <4>1 DEF StoreMoves
        <5>6. dStore[t] \in {"listed", "archived", "deleted"}
                 => dStore'[t] \in {"listed", "archived", "deleted"}
            BY <1>1, <4>1 DEF StoreMoves
        <5>. QED BY <4>1, <4>2, <5>1, <5>2, <5>3, <5>4, <5>5, <5>6 DEF t
      <4>5. CASE ~Stirs(n, t)
        <5>1. dName'[t] = dName[t] /\ dStore'[t] = dStore[t]
            BY <2>2, <4>1, <4>5 DEF RowTruth
        <5>. QED BY <4>1, <4>2, <4>3, <4>5, <5>1 DEF t
      <4>. QED BY <4>4, <4>5
    <3>. QED BY <3>1, <3>2, <3>3 DEF WireRows
  <2>. QED BY <1>3, <2>1, <2>2, DaemonRowIs
<1>. QED BY <1>2, <1>3

\* Whatever the daemon does, the rows stay what they should be once the
\* notification it sent is handled.
LEMMA NamingDaemon ==
    ASSUME TypeOK, Phase, Tracking, Naming, DaemonEvent,
           UNCHANGED runtimeVars, "unarchive" \notin Kinds
    PROVE  Naming'
<1>. USE TypedFields
<1>1. /\ UNCHANGED <<pc, catalog, started, startedNow, closedStarted,
                     fetchSeq, live, dirty, needCatalog, snap>>
      /\ UNCHANGED <<reply, connected>>
    BY DaemonEventIs DEF Tracking, runtimeVars, catalogVars, linkVars, requestVars
<1>2. ASSUME connected, NEW t \in Kept', NEW k \in 0 .. Len(wire),
             Still(wire', t, k)
      PROVE  /\ t \in Kept /\ Still(wire, t, k)
             /\ dName'[t] = dName[t]
             /\ dStatus[t] # NotLoaded => dStatus'[t] # NotLoaded
             /\ \/ dStore'[t] = dStore[t]
                \/ dStore[t] = "unsaved" /\ dStore'[t] = "listed"
    BY <1>2, DaemonSettles
<1>3. 0 \in 0 .. Len(wire)
    OBVIOUS
<1>4. WireRows'
    BY WireRowsDaemon DEF Naming
<1>5. LiveRows'
  <2>. SUFFICES ASSUME live, NEW t \in Kept', Still(wire', t, 0)
                PROVE  /\ dStore'[t] = "unsaved" => started[t] = dName'[t]
                       /\ dStore'[t] \in {"absent", "gone"} /\ started[t] # Absent
                            => closedStarted[t] # NotClosed
      BY <1>1 DEF LiveRows, Lost
  <2>1. connected
      BY DEF Phase, ServeStates
  <2>. QED BY <1>2, <1>3, <2>1 DEF Naming, LiveRows, Lost
<1>6. ClosedWaits'
    BY <1>1 DEF Naming, ClosedWaits
<1>7. /\ reply.kind \in {"list", "loaded", "read"} =>
            reply.after \in 0 .. Len(wire) /\ connected
      /\ reply.kind = "loaded" => pc = "loading"
      /\ reply.kind = "read" => pc = "reading" /\ reply.id \in Threads
    BY ReplyFields DEF TypeOK, Tracking, Replies, WireTruth
<1>8. pc \in SnapshotStates => connected
    BY DEF Phase, SnapshotStates
<1>9. SnapLoads'
  <2>1. reply.kind = "loaded" =>
          \A t \in Kept' \ reply.ids :
            t \in dirty \/ (Still(wire', t, reply.after) => dStore'[t] # "unsaved")
      BY <1>2, <1>7 DEF Naming, SnapLoads
  <2>2. reply.kind = "read" /\ reply.id \in Kept' =>
          \/ reply.id \in dirty
          \/ Still(wire', reply.id, reply.after) =>
              /\ dStore'[reply.id] \notin {"absent", "gone"}
              /\ dStore'[reply.id] = "unsaved" =>
                  reply.name = dName'[reply.id] /\ reply.status # NotLoaded
      BY <1>2, <1>7 DEF Naming, SnapLoads, Lost
  <2>3. pc \in {"reading", "install"} =>
          \A t \in Kept' :
            \/ t \in snap.todo \cup dirty
            \/ Still(wire', t, 0) =>
                /\ dStore'[t] = "unsaved" => snap.loaded[t] = dName'[t]
                /\ dStore'[t] \in {"absent", "gone"} =>
                     /\ snap.loaded[t] = Absent
                     /\ t \in startedNow => started[t] = Absent
      BY <1>2, <1>3, <1>8 DEF Naming, SnapLoads, Lost, SnapshotStates
  <2>. QED BY <1>1, <2>1, <2>2, <2>3 DEF Naming, SnapLoads, Lost
<1>10. SnapNames'
  <2>. SUFFICES ASSUME ~needCatalog, NEW t \in Kept', dStore'[t] = "listed",
                       Still(wire', t, 0), pc \in SnapshotStates
                PROVE  SnapNamed(t)'
    BY <1>1 DEF SnapNames, SnapNamed, SnapshotStates
  <2>1. /\ t \in Kept /\ t \in Threads /\ Still(wire, t, 0) /\ dName'[t] = dName[t]
        /\ dStatus[t] # NotLoaded => dStatus'[t] # NotLoaded
        /\ dStore[t] \in {"listed", "unsaved"}
      BY <1>2, <1>3, <1>8 DEF Kept
  <2>2. CASE dStore[t] = "listed"
    <3>1. SnapNamed(t)
        BY <2>1, <2>2 DEF Naming, SnapNames
    <3>. QED BY <1>1, <2>1, <3>1 DEF SnapNamed
  <2>3. CASE dStore[t] = "unsaved"
    <3>1. dStatus[t] # NotLoaded
        BY <2>1, <2>3 DEF Tracking, LoadedKept
    <3>2. /\ snap.threads[t] = Absent
          /\ reply.kind = "list" => reply.names[t] = Absent
        BY <2>1, <2>3 DEF Tracking, Catalogued
    <3>3. reply.kind \in {"loaded", "read"} => Still(wire, t, reply.after)
        BY <1>7, <2>1 DEF Still
    <3>4. /\ reply.kind = "loaded" => t \in reply.ids \cup dirty
          /\ reply.kind = "read" /\ reply.id = t =>
                t \in dirty \/ (reply.name = dName[t] /\ reply.status # NotLoaded)
          /\ pc \in {"reading", "install"} =>
                t \in snap.todo \cup dirty \/ snap.loaded[t] = dName[t]
        BY <2>1, <2>3, <3>3 DEF Naming, SnapLoads
    <3>. QED BY <1>1, <2>1, <3>1, <3>2, <3>4 DEF SnapNamed
  <2>. QED BY <2>1, <2>2, <2>3
<1>11. LiveNames'
  <2>. SUFFICES ASSUME live, ~Fetching, NEW t \in Kept', dStore'[t] = "listed",
                       Still(wire', t, 0)
                PROVE  LiveNamed(t)'
    BY <1>1 DEF LiveNames, Fetching
  <2>1. connected
      BY DEF Phase, ServeStates
  <2>2. /\ t \in Kept /\ t \in Threads /\ Still(wire, t, 0) /\ dName'[t] = dName[t]
        /\ dStore[t] \in {"listed", "unsaved"}
      BY <1>2, <1>3, <2>1 DEF Kept
  <2>3. CASE dStore[t] = "listed"
    <3>1. LiveNamed(t)
        BY <2>2, <2>3 DEF Naming, LiveNames
    <3>. QED BY <1>1, <2>2, <3>1 DEF LiveNamed
  <2>4. CASE dStore[t] = "unsaved"
    <3>1. started[t] = dName[t]
        BY <2>2, <2>4 DEF Naming, LiveRows
    <3>2. closedStarted[t] = NotClosed
        BY <2>2, <2>4 DEF Tracking, ClosedTold
    <3>3. pc = "resync" => reply.names[t] = Absent
        BY <2>2, <2>4 DEF Tracking, Catalogued, Replies, Fetching
    <3>. QED BY <1>1, <2>2, <3>1, <3>2, <3>3 DEF LiveNamed
  <2>. QED BY <2>2, <2>3, <2>4
<1>. QED BY <1>4, <1>5, <1>6, <1>9, <1>10, <1>11 DEF Naming

\* What handling a notification does to the rows.
LEMMA HandledRow ==
    ASSUME TypeOK, Phase, Tracking, WireRows, HandleNotification
    PROVE  /\ needCatalog => needCatalog'
           /\ dirty \subseteq dirty' /\ startedNow' \subseteq startedNow \cup dirty'
           /\ ~needCatalog' =>
                /\ UNCHANGED <<catalog, started, closedStarted>>
                /\ \A t \in Kept : ~Stirs(Head(wire), t)
           /\ \A t \in Threads :
                closedStarted'[t] # NotClosed /\ closedStarted'[t] # closedStarted[t]
                    => closedStarted'[t] = fetchSeq /\ needCatalog'
           /\ \A t \in Kept :
                \/ /\ ~Stirs(Head(wire), t)
                   /\ started'[t] = started[t]
                   /\ closedStarted'[t] = closedStarted[t]
                   /\ t \in startedNow' => t \in startedNow
                \/ /\ dStore[t] = "listed"
                \/ /\ Stirs(Head(wire), t)
                   /\ snapshotting => t \in dirty'
                   /\ Head(wire).method = "closed"
                   /\ started'[t] # Absent => closedStarted'[t] # NotClosed
                \/ /\ Stirs(Head(wire), t)
                   /\ snapshotting => t \in dirty'
                   /\ Head(wire).method = "started"
                   /\ live => started'[t] = Head(wire).name
<1>. DEFINE n == Head(wire)
<1>1. /\ wire # <<>> /\ n \in Notification /\ dirty \subseteq dirty'
      /\ snapshotting =>
           \A t \in Threads \ HiddenThreads : Tells(n, t) => t \in dirty'
    BY HandledIs
<1>2. /\ n = wire[1] /\ 1 \in 1 .. Len(wire)
    BY <1>1, TypedFields
<1>. HIDE DEF n
<1>3. /\ n.method = "started" => catalog[n.thread] = Absent
      /\ n.method # "unarchived"
      /\ n.method = "name" => dStore[n.thread] \in {"listed", "archived", "deleted"}
      /\ n.method \in {"archived", "deleted"} => Removed(n.thread)
    BY <1>2 DEF Tracking, StartedFirst, WireRows, WireTruth
<1>4. /\ n.thread \in Threads
      /\ n.method \in {"started", "name"} => n.name \in Names
    BY <1>1, NotificationFields
<1>5. \/ HandleStatusChanged(n) \/ HandleClosed(n)
      \/ HandleHiddenStarted(n) \/ HandleStarted(n)
      \/ HandleNameUpdated(n) \/ HandleRemoved(n) \/ HandleUnarchived(n)
    BY DEF HandleNotification, n
<1>6. /\ started \in [Threads -> Entry] /\ fetchSeq \in Nat
      /\ closedStarted \in [Threads -> Nat \cup {NotClosed}]
      /\ NotClosed \notin Nat
      /\ needCatalog \in BOOLEAN /\ dirty \subseteq Threads
    BY DEF TypeOK, RuntimeTypeOK, NotClosed
<1>7. /\ needCatalog => needCatalog'
      /\ startedNow' \subseteq startedNow \cup dirty'
      /\ ~needCatalog' =>
           /\ UNCHANGED <<catalog, started, closedStarted>>
           /\ \A t \in Kept : ~Stirs(n, t)
      /\ \A t \in Threads :
           closedStarted'[t] # NotClosed /\ closedStarted'[t] # closedStarted[t]
               => closedStarted'[t] = fetchSeq /\ needCatalog'
  <2>1. CASE HandleStatusChanged(n)
      BY <1>6, <2>1 DEF HandleStatusChanged, RequestCatalog, requestVars, Stirs
  <2>2. CASE HandleClosed(n)
      BY <1>4, <1>6, <2>2 DEF HandleClosed, RequestCatalog
  <2>3. CASE HandleHiddenStarted(n)
      BY <2>3 DEF HandleHiddenStarted, requestVars, Stirs, Kept
  <2>4. CASE HandleStarted(n)
      BY <1>4, <1>6, <2>4
      DEF HandleStarted, RequestCatalog, SetStatus, DirtyAfter
  <2>5. CASE HandleNameUpdated(n) \/ HandleRemoved(n) \/ HandleUnarchived(n)
      BY <1>4, <1>6, <2>5
      DEF HandleNameUpdated, HandleRemoved, HandleUnarchived, RequestCatalog
  <2>. QED BY <1>5, <2>1, <2>2, <2>3, <2>4, <2>5
<1>8. ASSUME NEW t \in Kept
      PROVE  \/ /\ ~Stirs(n, t)
                /\ started'[t] = started[t]
                /\ closedStarted'[t] = closedStarted[t]
                /\ t \in startedNow' => t \in startedNow
             \/ /\ dStore[t] = "listed"
             \/ /\ Stirs(n, t)
                /\ snapshotting => t \in dirty'
                /\ n.method = "closed"
                /\ started'[t] # Absent => closedStarted'[t] # NotClosed
             \/ /\ Stirs(n, t)
                /\ snapshotting => t \in dirty'
                /\ n.method = "started"
                /\ live => started'[t] = n.name
  <2>1. t \in Threads \ HiddenThreads /\ ~Removed(t)
      BY DEF Kept
  <2>2. n.method \in {"started", "closed"} /\ n.thread = t /\ snapshotting => t \in dirty'
      BY <1>1, <2>1 DEF Tells
  <2>3. CASE HandleStatusChanged(n) \/ HandleHiddenStarted(n)
      BY <2>1, <2>3 DEF HandleStatusChanged, HandleHiddenStarted, Stirs
  <2>4. CASE HandleClosed(n)
      BY <1>4, <1>6, <2>1, <2>2, <2>4 DEF HandleClosed, Stirs
  <2>5. CASE HandleStarted(n)
      BY <1>3, <1>4, <1>6, <2>1, <2>2, <2>5 DEF HandleStarted, Stirs
  <2>6. CASE HandleNameUpdated(n)
      BY <1>3, <1>4, <1>6, <2>1, <2>6 DEF HandleNameUpdated, Stirs, Removed
  <2>7. CASE HandleRemoved(n)
      BY <1>3, <1>4, <1>6, <2>1, <2>7 DEF HandleRemoved, Stirs
  <2>. QED BY <1>3, <1>5, <2>3, <2>4, <2>5, <2>6, <2>7 DEF HandleUnarchived
<1>. QED BY <1>1, <1>7, <1>8 DEF n

\* Handling a notification leaves its thread's row what it should be, or to be
\* read again, or to be fetched.
LEMMA NamingHandled ==
    ASSUME TypeOK, Phase, Tracking, Naming, HandleNotification
    PROVE  Naming'
<1>. USE TypedFields
<1>. DEFINE n == Head(wire)
<1>1. /\ wire # <<>> /\ wire' = Tail(wire) /\ n \in Notification
      /\ UNCHANGED <<dStore, dStatus, dName, connected, pc, fetchSeq,
                     live, snapshotting, snap>>
    BY HandledIs
<1>2. /\ needCatalog => needCatalog'
      /\ dirty \subseteq dirty' /\ startedNow' \subseteq startedNow \cup dirty'
      /\ ~needCatalog' =>
           /\ UNCHANGED <<catalog, started, closedStarted>>
           /\ \A t \in Kept : ~Stirs(n, t)
      /\ \A t \in Threads :
           closedStarted'[t] # NotClosed /\ closedStarted'[t] # closedStarted[t]
               => closedStarted'[t] = fetchSeq /\ needCatalog'
    BY HandledRow DEF Naming
<1>3. \A t \in Kept :
        \/ /\ ~Stirs(n, t)
           /\ started'[t] = started[t]
           /\ closedStarted'[t] = closedStarted[t]
           /\ t \in startedNow' => t \in startedNow
        \/ /\ dStore[t] = "listed"
        \/ /\ Stirs(n, t)
           /\ snapshotting => t \in dirty'
           /\ n.method = "closed"
           /\ started'[t] # Absent => closedStarted'[t] # NotClosed
        \/ /\ Stirs(n, t)
           /\ snapshotting => t \in dirty'
           /\ n.method = "started"
           /\ live => started'[t] = n.name
    BY HandledRow DEF Naming
<1>4. /\ reply' = NoReply <=> reply = NoReply
      /\ reply'.kind = reply.kind
      /\ reply.kind = "list" => reply'.names = reply.names
      /\ reply.kind = "loaded" => reply'.ids = reply.ids
      /\ reply.kind = "read" =>
           /\ reply'.id = reply.id /\ reply'.name = reply.name
           /\ reply'.status = reply.status
      /\ reply # NoReply =>
           reply'.after = IF reply.after = 0 THEN 0 ELSE reply.after - 1
    BY HandledReply
<1>. HIDE DEF n
<1>5. /\ Len(wire') = Len(wire) - 1 /\ Len(wire) >= 1 /\ n = wire[1]
      /\ 1 \in 1 .. Len(wire)
      /\ \A i \in 1 .. Len(wire') : wire'[i] = wire[i + 1] /\ i + 1 \in 1 .. Len(wire)
    BY <1>1 DEF n
<1>6. Kept' = Kept /\ Kept \subseteq Threads \ HiddenThreads
    BY <1>1 DEF Kept, Removed
<1>7. \A t : /\ \A k \in Nat : Still(wire', t, k) <=> Still(wire, t, k + 1)
             /\ Still(wire, t, 0) <=> Still(wire', t, 0) /\ ~Stirs(n, t)
    BY <1>1, StillTail DEF n
<1>8. ASSUME NEW t, reply # NoReply, Still(wire', t, reply'.after)
      PROVE  Still(wire, t, reply.after) \/ Stirs(n, t)
  <2>1. CASE reply.after = 0
      BY <1>4, <1>7, <1>8, <2>1
  <2>2. CASE reply.after # 0
    <3>1. reply.after - 1 \in Nat /\ reply'.after = reply.after - 1
        BY <1>4, <1>8, <2>2
    <3>. QED BY <1>7, <1>8, <3>1
  <2>. QED BY <2>1, <2>2
<1>9. ASSUME NEW t \in Kept, n.thread = t, Still(wire', t, 0)
      PROVE  /\ n.method = "started" =>
                  ~Lost(t) /\ (dStore[t] = "unsaved" => n.name = dName[t])
             /\ n.method = "closed" => dStore[t] # "unsaved"
  <2>1. Still(wire, t, 1)
      BY <1>7, <1>9
  <2>2. n.method = "started" =>
          /\ dStore[t] # "absent"
          /\ dStore[t] = "unsaved" => n.name = dName[t]
          /\ dStore[t] = "gone" => ~Still(wire, t, 1)
      BY <1>5, <1>9 DEF Naming, WireRows
  <2>3. n.method = "closed" => dStore[t] # "unsaved"
      BY <1>5, <1>9 DEF Tracking, WireTruth
  <2>. QED BY <2>1, <2>2, <2>3 DEF Lost
<1>10. WireRows'
  <2>. SUFFICES ASSUME NEW i \in 1 .. Len(wire')
                PROVE  LET m == wire'[i] t == wire'[i].thread IN
                       /\ m.method # "unarchived"
                       /\ m.method = "started" =>
                           /\ dStore[t] # "absent"
                           /\ dStore[t] = "unsaved" => m.name = dName[t]
                           /\ dStore[t] = "gone" => ~Still(wire', t, i)
                       /\ m.method = "name" => dStore[t] \in {"listed", "archived", "deleted"}
      BY <1>1 DEF WireRows
  <2>1. wire'[i] = wire[i + 1] /\ i + 1 \in 1 .. Len(wire) /\ i \in Nat
      BY <1>5
  <2>2. \A t : Still(wire', t, i) <=> Still(wire, t, i + 1)
      BY <1>7, <2>1
  <2>. QED BY <2>1, <2>2 DEF Naming, WireRows
<1>11. LiveRows'
  <2>. SUFFICES ASSUME live, NEW t \in Kept, Still(wire', t, 0)
                PROVE  /\ dStore[t] = "unsaved" => started'[t] = dName[t]
                       /\ Lost(t) /\ started'[t] # Absent
                            => closedStarted'[t] # NotClosed
      BY <1>1, <1>6 DEF LiveRows, Lost
  <2>1. CASE /\ ~Stirs(n, t)
             /\ started'[t] = started[t]
             /\ closedStarted'[t] = closedStarted[t]
      BY <1>7, <2>1 DEF Naming, LiveRows
  <2>2. CASE dStore[t] = "listed"
      BY <2>2 DEF Lost
  <2>. QED BY <1>3, <1>9, <2>1, <2>2 DEF Stirs
<1>12. ClosedWaits'
  <2>1. fetchSeq \in Nat
      BY DEF TypeOK, RuntimeTypeOK
  <2>. QED BY <1>1, <1>2, <2>1 DEF Naming, ClosedWaits
<1>13. SnapLoads'
  <2>1. pc \in {"loading", "reading", "install"} => snapshotting
      BY DEF Phase, SnapshotStates
  <2>2. /\ reply.kind = "loaded" => pc = "loading"
        /\ reply.kind = "read" => pc = "reading"
      BY DEF Tracking, Replies
  <2>3. reply'.kind = "loaded" =>
          \A t \in Kept \ reply.ids :
            t \in dirty' \/ (Still(wire', t, reply'.after) => dStore[t] # "unsaved")
    <3>. SUFFICES ASSUME reply.kind = "loaded", NEW t \in Kept \ reply.ids,
                         Still(wire', t, reply'.after), dStore[t] = "unsaved"
                  PROVE  t \in dirty'
        BY <1>4
    <3>1. t \in dirty \/ ~Still(wire, t, reply.after)
        BY DEF Naming, SnapLoads
    <3>2. reply # NoReply
        OBVIOUS
    <3>. QED BY <1>2, <1>3, <1>8, <2>1, <2>2, <3>1, <3>2
  <2>4. reply'.kind = "read" /\ reply.id \in Kept =>
          \/ reply.id \in dirty'
          \/ Still(wire', reply.id, reply'.after) =>
              /\ ~Lost(reply.id)
              /\ dStore[reply.id] = "unsaved" =>
                  reply.name = dName[reply.id] /\ reply.status # NotLoaded
    <3>. DEFINE id == reply.id
    <3>. SUFFICES ASSUME reply.kind = "read", id \in Kept, id \notin dirty',
                         Still(wire', id, reply'.after)
                  PROVE  /\ ~Lost(id)
                         /\ dStore[id] = "unsaved" =>
                             reply.name = dName[id] /\ reply.status # NotLoaded
        BY <1>4
    <3>1. reply # NoReply
        OBVIOUS
    <3>2. Still(wire, id, reply.after) \/ Stirs(n, id)
        BY <1>8, <3>1
    <3>3. CASE Stirs(n, id)
      <4>1. dStore[id] = "listed"
          BY <1>3, <2>1, <2>2, <3>3
      <4>. QED BY <4>1 DEF Lost
    <3>4. CASE Still(wire, id, reply.after)
        BY <1>2, <3>4 DEF Naming, SnapLoads
    <3>. QED BY <3>2, <3>3, <3>4
  <2>5. pc \in {"reading", "install"} =>
          \A t \in Kept :
            \/ t \in snap.todo \cup dirty'
            \/ Still(wire', t, 0) =>
                /\ dStore[t] = "unsaved" => snap.loaded[t] = dName[t]
                /\ Lost(t) => /\ snap.loaded[t] = Absent
                              /\ t \in startedNow' => started'[t] = Absent
    <3>. SUFFICES ASSUME pc \in {"reading", "install"}, NEW t \in Kept,
                         t \notin snap.todo \cup dirty', Still(wire', t, 0)
                  PROVE  /\ dStore[t] = "unsaved" => snap.loaded[t] = dName[t]
                         /\ Lost(t) => /\ snap.loaded[t] = Absent
                                       /\ t \in startedNow' => started'[t] = Absent
        OBVIOUS
    <3>1. CASE dStore[t] = "listed"
        BY <3>1 DEF Lost
    <3>2. CASE /\ ~Stirs(n, t)
               /\ started'[t] = started[t]
               /\ t \in startedNow' => t \in startedNow
        BY <1>2, <1>7, <3>2 DEF Naming, SnapLoads
    <3>. QED BY <1>3, <2>1, <3>1, <3>2
  <2>6. pc \in {"listing", "loading"} =>
            startedNow' \subseteq dirty' /\ snap.loaded = AllAbsent
      BY <1>2 DEF Naming, SnapLoads
  <2>. QED BY <1>1, <1>4, <1>6, <2>3, <2>4, <2>5, <2>6 DEF SnapLoads, Lost
<1>14. SnapNames'
  <2>. SUFFICES ASSUME ~needCatalog', NEW t \in Kept, dStore[t] = "listed",
                       Still(wire', t, 0)
                PROVE  SnapNamed(t)'
      BY <1>1, <1>6 DEF SnapNames
  <2>1. SnapNamed(t)
      BY <1>2, <1>7 DEF Naming, SnapNames
  <2>. QED BY <1>1, <1>2, <1>4, <2>1 DEF SnapNamed
<1>15. LiveNames'
  <2>. SUFFICES ASSUME live, ~needCatalog', ~Fetching', NEW t \in Kept,
                       dStore[t] = "listed", Still(wire', t, 0)
                PROVE  LiveNamed(t)'
      BY <1>1, <1>6 DEF LiveNames, Fetching
  <2>1. ~Fetching
      BY <1>1, <1>2, <1>4 DEF Fetching
  <2>2. LiveNamed(t)
      BY <1>2, <1>7, <2>1 DEF Naming, LiveNames
  <2>3. pc = "resync" => reply'.names = reply.names
      BY <1>4, <2>1 DEF Fetching, Tracking, Replies
  <2>. QED BY <1>1, <1>2, <2>2, <2>3 DEF LiveNamed
<1>. QED BY <1>10, <1>11, <1>12, <1>13, <1>14, <1>15 DEF Naming

\* Steps that touch nothing of the rows.
LEMMA NamingFrame ==
    ASSUME Naming,
           UNCHANGED <<dStore, dStatus, dName, wire, reply, pc, fetchSeq,
                       catalog, started, startedNow, closedStarted, live,
                       dirty, needCatalog, snap>>
    PROVE  Naming'
<1>1. Kept' = Kept
    BY DEF Kept, Removed
<1>. QED BY <1>1
    DEF Naming, WireRows, LiveRows, ClosedWaits, SnapLoads, SnapNames,
        SnapNamed, LiveNames, LiveNamed, Fetching, Lost

\* An answer is true when it is given.
LEMMA NamingAnswer ==
    ASSUME TypeOK, Phase, Tracking, Naming, AnswerRequest
    PROVE  Naming'
<1>. USE TypedFields
<1>1. /\ UNCHANGED <<dStore, dStatus, dName, wire, connected, pc, fetchSeq,
                     catalog, started, startedNow, closedStarted, live, dirty,
                     needCatalog, snap>>
      /\ reply = NoReply /\ reply.kind = "none"
      /\ Kept' = Kept /\ Kept \subseteq Threads
    BY DEF AnswerRequest, runtimeVars, catalogVars, linkVars, requestVars,
       Kept, Removed, NoReply
<1>2. WireRows' /\ LiveRows' /\ ClosedWaits'
    BY <1>1 DEF Naming, WireRows, LiveRows, ClosedWaits, Lost
<1>3. \A t \in Threads : dStore[t] = "unsaved" => dStatus[t] # NotLoaded
    BY DEF Tracking, LoadedKept
<1>4. live => pc \in ServeStates
    BY DEF Phase
<1>5. CASE pc \in {"listing", "resync"} /\ reply' = ListReply
  <2>1. /\ reply'.kind = "list" /\ reply' # NoReply
        /\ \A t \in Threads : dStore[t] = "listed" => reply'.names[t] = dName[t]
      BY <1>5 DEF ListReply, NativeCatalog, NoReply
  <2>2. SnapLoads' /\ SnapNames' /\ LiveNames'
      BY <1>1, <1>5, <2>1
      DEF Naming, SnapLoads, SnapNames, SnapNamed, LiveNames, LiveNamed, Lost,
          Fetching
  <2>. QED BY <1>2, <2>2 DEF Naming
<1>6. CASE pc = "loading" /\ reply' = LoadedReply
  <2>1. reply'.kind = "loaded" /\ reply'.ids = Loaded
      BY <1>6 DEF LoadedReply
  <2>2. SnapLoads' /\ SnapNames' /\ LiveNames'
      BY <1>1, <1>3, <1>4, <1>6, <2>1
      DEF Naming, SnapLoads, SnapNames, SnapNamed, LiveNames, Lost, Loaded,
          ServeStates
  <2>. QED BY <1>2, <2>2 DEF Naming
<1>7. ASSUME NEW t \in snap.todo, pc = "reading", reply' = ReadReply(t)
      PROVE  Naming'
  <2>1. /\ reply'.kind \in {"read", "error"}
        /\ reply'.kind = "read" =>
             /\ reply'.id = t /\ reply'.name = dName[t]
             /\ reply'.status = dStatus[t] /\ dStore[t] \in {"unsaved", "listed"}
      BY <1>7 DEF ReadReply
  <2>2. SnapLoads' /\ SnapNames' /\ LiveNames'
      BY <1>1, <1>3, <1>4, <1>7, <2>1
      DEF Naming, SnapLoads, SnapNames, SnapNamed, LiveNames, Lost, ServeStates
  <2>. QED BY <1>2, <2>2 DEF Naming
<1>. QED BY <1>5, <1>6, <1>7 DEF AnswerRequest

\* Without a connection, nothing is claimed but of the closing marks.
LEMMA NamingOff ==
    ASSUME TypeOK, Naming, UNCHANGED fetchSeq,
           closedStarted' \in {closedStarted, NoneClosed}, live' = FALSE,
           pc' \in {"stopped", "backoff", "dialed"}, wire' = <<>>,
           reply' = NoReply
    PROVE  Naming'
<1>1. reply'.kind = "none"
    BY DEF NoReply
<1>2. WireRows' /\ LiveRows' /\ SnapLoads' /\ SnapNames' /\ LiveNames'
    BY <1>1 DEF WireRows, LiveRows, SnapLoads, SnapNames, SnapNamed, LiveNames
<1>3. ClosedWaits'
    BY DEF Naming, ClosedWaits, NoneClosed
<1>. QED BY <1>2, <1>3 DEF Naming

LEMMA NamingDisconnected ==
    ASSUME TypeOK, Naming, NEW err, Disconnected(err),
           pc' \in {"stopped", "backoff"}
    PROVE  Naming'
    BY NamingOff DEF Disconnected, catalogVars

\* Connecting and starting a fetch.
LEMMA NamingBegin ==
    ASSUME TypeOK, Phase, Tracking, FetchOrder, Naming,
           \/ Connect \/ StartLifecycle \/ BeginSnapshot \/ BeginResync
           \/ ServeRequest \/ AwaitWake
    PROVE  Naming'
<1>. USE TypedFields DEF catalogVars, linkVars, daemonVars, requestVars
<1>1. reply = NoReply /\ reply.kind = "none"
    BY NothingAsked DEF Connect, StartLifecycle, BeginSnapshot, BeginResync,
       ServeRequest, AwaitWake, NoReply
<1>2. CASE Connect \/ StartLifecycle
  <2>1. wire = <<>> /\ live = FALSE
      BY <1>2 DEF Connect, StartLifecycle, Phase, Tracking, WireTruth,
         ServeStates, TypeOK, RuntimeTypeOK
  <2>2. /\ UNCHANGED fetchSeq /\ closedStarted' \in {closedStarted, NoneClosed}
        /\ live' = FALSE /\ pc' \in {"stopped", "backoff", "dialed"}
        /\ wire' = <<>> /\ reply' = NoReply
      BY <1>1, <1>2, <2>1 DEF Connect, StartLifecycle
  <2>. QED BY <2>2, NamingOff
<1>3. CASE BeginSnapshot
  <2>1. /\ UNCHANGED <<dStore, dStatus, dName, wire, reply, closedStarted, live>>
        /\ ~live /\ pc' = "listing" /\ startedNow' = {} /\ snap'.loaded = AllAbsent
        /\ fetchSeq' = fetchSeq + 1 /\ Kept' = Kept
      BY <1>3 DEF BeginSnapshot, Phase, ServeStates, EmptySnap, Kept, Removed
  <2>2. WireRows' /\ LiveRows' /\ SnapLoads' /\ SnapNames' /\ LiveNames'
      BY <1>1, <2>1 DEF Naming, WireRows, LiveRows, SnapLoads, SnapNames,
         SnapNamed, LiveNames
  <2>3. ClosedWaits'
    <3>. fetchSeq \in Nat /\ closedStarted \in [Threads -> Nat \cup {NotClosed}]
        BY DEF TypeOK, RuntimeTypeOK
    <3>. QED BY <2>1 DEF Naming, ClosedWaits
  <2>. QED BY <2>2, <2>3 DEF Naming
<1>4. CASE BeginResync
  <2>1. /\ UNCHANGED <<dStore, dStatus, dName, wire, reply, started,
                       closedStarted, live, needCatalog>>
        /\ live /\ pc' = "resync" /\ snap'.seq = fetchSeq + 1
        /\ fetchSeq' = fetchSeq + 1 /\ Kept' = Kept
      BY <1>4 DEF BeginResync, Phase, ServeStates, EmptySnap, Kept, Removed
  <2>2. WireRows' /\ LiveRows' /\ SnapLoads' /\ SnapNames' /\ LiveNames'
      BY <1>1, <2>1 DEF Naming, WireRows, LiveRows, SnapLoads, SnapNames,
         SnapNamed, LiveNames, Fetching, Lost
  <2>3. ClosedWaits'
    <3>. fetchSeq \in Nat /\ closedStarted \in [Threads -> Nat \cup {NotClosed}]
        BY DEF TypeOK, RuntimeTypeOK
    <3>. QED BY <2>1 DEF Naming, ClosedWaits, NotClosed
  <2>. QED BY <2>2, <2>3 DEF Naming
<1>5. CASE ServeRequest \/ AwaitWake
  <2>1. /\ UNCHANGED <<dStore, dStatus, dName, wire, reply, catalog, started,
                       closedStarted, fetchSeq, live, snap>>
        /\ live /\ pc \in {"serve", "waiting"}
        /\ pc' \in {"serve", "waiting", "gap"} /\ Kept' = Kept
        /\ needCatalog => needCatalog' \/ pc' = "gap"
        /\ needCatalog' => needCatalog
        /\ pc' = "gap" => needCatalog
      BY <1>5 DEF ServeRequest, AwaitWake, Phase, ServeStates, Kept, Removed
  <2>2. Fetching' <=> Fetching
      BY <1>1, <2>1 DEF Fetching
  <2>3. WireRows' /\ LiveRows' /\ ClosedWaits' /\ SnapLoads'
      BY <1>1, <2>1 DEF Naming, WireRows, LiveRows, ClosedWaits, SnapLoads, Lost
  <2>4. SnapNames' /\ LiveNames'
      BY <1>1, <2>1, <2>2 DEF Naming, SnapNames, SnapNamed, LiveNames, LiveNamed
  <2>. QED BY <2>3, <2>4 DEF Naming
<1>. QED BY <1>2, <1>3, <1>4, <1>5

\* A snapshot's reads.
LEMMA NamingSnapshot ==
    ASSUME TypeOK, Phase, Tracking, Naming,
           SnapshotListed \/ SnapshotLoaded \/ SnapshotRead
    PROVE  Naming'
<1>. USE TypedFields, SnapFields DEF TypeOK, RuntimeTypeOK
<1>1. /\ UNCHANGED <<dStore, dStatus, dName, wire, fetchSeq, catalog, started,
                     startedNow, closedStarted, live, dirty, needCatalog>>
      /\ reply' = NoReply /\ reply'.kind = "none" /\ reply.after = 0
      /\ pc' \in {"loading", "reading", "install"} /\ ~live /\ Kept' = Kept
      /\ Kept \subseteq Threads \ HiddenThreads
    BY DEF SnapshotListed, SnapshotLoaded, SnapshotRead, SnapshotStep,
       AfterReads, Received, catalogVars, linkVars, requestVars, NoReply,
       Kept, Removed, Phase, ServeStates
<1>2. WireRows' /\ LiveRows' /\ ClosedWaits' /\ LiveNames'
    BY <1>1 DEF Naming, WireRows, LiveRows, ClosedWaits, LiveNames
<1>3. CASE SnapshotListed
  <2>1. /\ pc = "listing" /\ reply.kind = "list" /\ pc' = "loading"
        /\ snap'.threads = reply.names /\ snap'.loaded = snap.loaded
      BY <1>3 DEF SnapshotListed, Received, SnapType, SnapshotStep
  <2>2. SnapLoads' /\ SnapNames'
      BY <1>1, <2>1 DEF Naming, SnapLoads, SnapNames, SnapNamed
  <2>. QED BY <1>2, <2>2 DEF Naming
<1>4. CASE SnapshotLoaded
  <2>1. /\ pc = "loading" /\ reply.kind = "loaded"
        /\ pc' \in {"reading", "install"}
        /\ snap'.threads = snap.threads /\ snap'.todo = reply.ids
        /\ snap'.loaded = AllAbsent /\ startedNow \subseteq dirty
        /\ \A t \in Threads : AllAbsent[t] = Absent
      BY <1>4 DEF SnapshotLoaded, Received, SnapType, SnapshotStep, AfterReads,
         Naming, SnapLoads, AllAbsent
  <2>2. SnapLoads' /\ SnapNames'
      BY <1>1, <2>1 DEF Naming, SnapLoads, SnapNames, SnapNamed, Lost
  <2>. QED BY <1>2, <2>2 DEF Naming
<1>5. CASE SnapshotRead
  <2>. DEFINE id == reply.id
  <2>1. /\ pc = "reading" /\ reply.kind = "read"
        /\ pc' \in {"reading", "install"} /\ id \in Threads
        /\ reply.name \in Names /\ Absent \notin Names
        /\ snap'.threads = snap.threads /\ snap'.todo = snap.todo \ {id}
        /\ \A t \in Threads \ HiddenThreads :
             snap'.loaded[t] = IF t # id THEN snap.loaded[t]
                               ELSE IF reply.status # NotLoaded THEN reply.name
                               ELSE Absent
      BY <1>5, ReplyFields, DaemonAssumption
      DEF SnapshotRead, Received, SnapType, SnapshotStep, AfterReads,
          DaemonAssumption
  <2>2. SnapLoads'
    <3>. SUFFICES ASSUME NEW t \in Kept, t \notin (snap.todo \ {id}) \cup dirty,
                         Still(wire, t, 0)
                  PROVE  /\ dStore[t] = "unsaved" => snap'.loaded[t] = dName[t]
                         /\ Lost(t) => /\ snap'.loaded[t] = Absent
                                       /\ t \in startedNow => started[t] = Absent
        BY <1>1, <2>1 DEF SnapLoads, Lost
    <3>1. CASE t = id
        BY <1>1, <2>1, <3>1 DEF Naming, SnapLoads
    <3>2. CASE t # id
        BY <1>1, <2>1, <3>2 DEF Naming, SnapLoads
    <3>. QED BY <3>1, <3>2
  <2>3. SnapNames'
    <3>. SUFFICES ASSUME ~needCatalog, NEW t \in Kept, dStore[t] = "listed",
                         Still(wire, t, 0)
                  PROVE  SnapNamed(t)'
        BY <1>1 DEF SnapNames
    <3>1. SnapNamed(t)
        BY DEF Naming, SnapNames
    <3>. QED BY <1>1, <2>1, <3>1 DEF SnapNamed
  <2>. QED BY <1>2, <2>2, <2>3 DEF Naming
<1>. QED BY <1>3, <1>4, <1>5

\* The threads a notification marked are read again.
LEMMA NamingReread ==
    ASSUME TypeOK, Phase, Tracking, Naming, RereadDirty
    PROVE  Naming'
<1>. USE TypedFields, SnapFields DEF TypeOK, RuntimeTypeOK
<1>1. /\ UNCHANGED <<dStore, dStatus, dName, wire, reply, fetchSeq, catalog,
                     started, startedNow, closedStarted, live, needCatalog>>
      /\ pc = "install" /\ pc' = "reading" /\ dirty' = {} /\ ~live
      /\ snap'.todo = dirty /\ snap'.threads = snap.threads
      /\ snap'.loaded = snap.loaded /\ Kept' = Kept
    BY DEF RereadDirty, catalogVars, linkVars, daemonVars, requestVars, Kept,
       Removed, SnapType, Phase, ServeStates
<1>2. reply.kind = "none" /\ snap.todo = {}
    BY <1>1, NothingAsked DEF NoReply, Tracking, Replies
<1>3. WireRows' /\ LiveRows' /\ ClosedWaits' /\ LiveNames'
    BY <1>1 DEF Naming, WireRows, LiveRows, ClosedWaits, LiveNames
<1>4. SnapLoads' /\ SnapNames'
    BY <1>1, <1>2 DEF Naming, SnapLoads, SnapNames, SnapNamed, Lost
<1>. QED BY <1>3, <1>4 DEF Naming

\* A finished snapshot leaves every row what it should be, but for what a
\* catalog is asked for.
LEMMA NamingInstall ==
    ASSUME TypeOK, Phase, FetchOrder, Tracking, Naming, InstallSnapshot
    PROVE  Naming'
<1>. USE TypedFields, SnapFields DEF TypeOK, RuntimeTypeOK
<1>. DEFINE known == hidden \cup snap.hidden
            starting == SnapshotStarted(known)
<1>1. /\ UNCHANGED <<dStore, dStatus, dName, wire, reply, fetchSeq, needCatalog>>
      /\ pc = "install" /\ pc' = "serve" /\ dirty = {}
      /\ InstallCatalog(snap.seq, snap.threads, starting, NoneClosed, known)
      /\ Kept' = Kept /\ Kept \subseteq Threads \ HiddenThreads
    BY DEF InstallSnapshot, daemonVars, requestVars, Kept, Removed
<1>2. reply.kind = "none" /\ snap.todo = {}
    BY <1>1, NothingAsked DEF NoReply, Tracking, Replies
<1>3. known \subseteq HiddenThreads
    BY DEF Tracking, HiddenKnown
<1>4. snap.seq > catalogSeq
    BY <1>1 DEF FetchOrder, SnapshotStates
<1>5. \A t \in Threads : NoneClosed[t] = NotClosed
    BY DEF NoneClosed
<1>6. \A t \in Kept :
        starting[t] = IF snap.loaded[t] # Absent THEN snap.loaded[t]
                      ELSE IF t \in startedNow THEN started[t] ELSE Absent
    BY <1>1, <1>3 DEF SnapshotStarted
<1>. HIDE DEF known, starting
<1>7. \A t \in Kept :
        /\ catalog'[t] = snap.threads[t]
        /\ started'[t] = IF snap.threads[t] # Absent THEN Absent ELSE starting[t]
    BY <1>1, <1>4, <1>5 DEF InstallCatalog, WithoutHidden, Settled
<1>8. \A t \in Threads : closedStarted'[t] = NotClosed
    BY <1>1, <1>4, <1>5 DEF InstallCatalog
<1>9. \A t \in Kept : dName[t] # Absent
    BY <1>1, DaemonAssumption DEF DaemonTypeOK, DaemonAssumption
<1>10. WireRows' /\ ClosedWaits' /\ SnapLoads' /\ SnapNames'
    BY <1>1, <1>2, <1>8 DEF Naming, WireRows, ClosedWaits, SnapLoads,
       SnapNames, SnapNamed
<1>11. LiveRows'
  <2>. SUFFICES ASSUME NEW t \in Kept, Still(wire, t, 0)
                PROVE  /\ dStore[t] = "unsaved" => started'[t] = dName[t]
                       /\ Lost(t) => started'[t] = Absent
      BY <1>1 DEF LiveRows, Lost
  <2>1. dStore[t] = "unsaved" \/ Lost(t) => snap.threads[t] = Absent
      BY <1>1 DEF Tracking, Catalogued, Lost
  <2>2. /\ dStore[t] = "unsaved" => snap.loaded[t] = dName[t]
        /\ Lost(t) => /\ snap.loaded[t] = Absent
                      /\ t \in startedNow => started[t] = Absent
      BY <1>1, <1>2 DEF Naming, SnapLoads
  <2>. QED BY <1>6, <1>7, <1>9, <2>1, <2>2
<1>12. LiveNames'
  <2>. SUFFICES ASSUME ~needCatalog, NEW t \in Kept, dStore[t] = "listed",
                       Still(wire, t, 0)
                PROVE  dName[t] \in {catalog'[t], started'[t]}
      BY <1>1 DEF LiveNames, LiveNamed, Fetching
  <2>1. SnapNamed(t)
      BY DEF Naming, SnapNames
  <2>2. \/ snap.threads[t] = dName[t]
        \/ snap.threads[t] = Absent /\ snap.loaded[t] = dName[t]
      BY <1>1, <1>2, <2>1 DEF SnapNamed
  <2>. QED BY <1>6, <1>7, <1>9, <2>2
<1>. QED BY <1>10, <1>11, <1>12 DEF Naming

\* An answered re-read settles the closing marks that waited for it, and has
\* the names of the persisted threads.
LEMMA NamingResync ==
    ASSUME TypeOK, Phase, FetchOrder, Tracking, Naming, InstallResync
    PROVE  Naming'
<1>. USE TypedFields, SnapFields DEF TypeOK, RuntimeTypeOK
<1>1. /\ UNCHANGED <<dStore, dStatus, dName, wire, fetchSeq, startedNow, live,
                     dirty, needCatalog>>
      /\ pc = "resync" /\ pc' = "serve" /\ live
      /\ reply.kind = "list" /\ reply # NoReply
      /\ reply' = NoReply /\ reply'.kind = "none"
      /\ InstallCatalog(snap.seq, reply.names, started, closedStarted, hidden)
      /\ Kept' = Kept /\ Kept \subseteq Threads \ HiddenThreads
    BY DEF InstallResync, Received, linkVars, requestVars, Kept, Removed,
       NoReply, Phase, ServeStates
<1>2. snap.seq > catalogSeq
    BY <1>1 DEF FetchOrder
<1>3. \A t \in Kept : catalog'[t] = reply.names[t]
    BY <1>1, <1>2 DEF InstallCatalog, WithoutHidden
<1>4. \A t \in Threads :
        IF t \in Settled(snap.seq, reply.names, closedStarted)
        THEN started'[t] = Absent /\ closedStarted'[t] = NotClosed
        ELSE started'[t] = started[t] /\ closedStarted'[t] = closedStarted[t]
    BY <1>1, <1>2 DEF InstallCatalog
<1>5. \A t \in Kept :
        t \in Settled(snap.seq, reply.names, closedStarted) <=>
            \/ reply.names[t] # Absent
            \/ closedStarted[t] # NotClosed /\ snap.seq > closedStarted[t]
    BY <1>1 DEF Settled, WithoutHidden
<1>6. \A t \in Kept : dName[t] # Absent
    BY <1>1, DaemonAssumption DEF DaemonTypeOK, DaemonAssumption
<1>7. WireRows' /\ SnapLoads' /\ SnapNames'
    BY <1>1 DEF Naming, WireRows, SnapLoads, SnapNames, SnapNamed
<1>8. LiveRows'
  <2>. SUFFICES ASSUME NEW t \in Kept, Still(wire, t, 0)
                PROVE  /\ dStore[t] = "unsaved" => started'[t] = dName[t]
                       /\ Lost(t) /\ started'[t] # Absent
                            => closedStarted'[t] # NotClosed
      BY <1>1 DEF LiveRows, Lost
  <2>1. /\ dStore[t] = "unsaved" => started[t] = dName[t]
        /\ Lost(t) /\ started[t] # Absent => closedStarted[t] # NotClosed
      BY <1>1 DEF Naming, LiveRows
  <2>2. dStore[t] = "unsaved" =>
            reply.names[t] = Absent /\ closedStarted[t] = NotClosed
      BY <1>1 DEF Tracking, Catalogued, ClosedTold
  <2>. QED BY <1>1, <1>4, <1>5, <2>1, <2>2
<1>9. ClosedWaits'
  <2>. SUFFICES ASSUME NEW t \in Threads, closedStarted'[t] # NotClosed
                PROVE  closedStarted'[t] <= fetchSeq /\ needCatalog
      BY <1>1 DEF ClosedWaits
  <2>1. /\ closedStarted'[t] = closedStarted[t]
        /\ ~(closedStarted[t] # NotClosed /\ snap.seq > closedStarted[t])
      BY <1>4 DEF Settled
  <2>. QED BY <1>1, <2>1 DEF Naming, ClosedWaits
<1>10. LiveNames'
  <2>. SUFFICES ASSUME ~needCatalog, NEW t \in Kept, dStore[t] = "listed",
                       Still(wire, t, 0)
                PROVE  dName[t] \in {catalog'[t], started'[t]}
      BY <1>1 DEF LiveNames, LiveNamed, Fetching
  <2>1. LiveNamed(t)
      BY <1>1 DEF Naming, LiveNames, Fetching
  <2>2. \/ reply.names[t] = dName[t]
        \/ /\ reply.names[t] = Absent /\ started[t] = dName[t]
           /\ closedStarted[t] = NotClosed
      BY <1>1, <2>1 DEF LiveNamed
  <2>. QED BY <1>1, <1>3, <1>4, <1>5, <2>2
<1>. QED BY <1>7, <1>8, <1>9, <1>10 DEF Naming

LEMMA NamingInit == Init => Naming
<1>. SUFFICES ASSUME Init PROVE Naming
    OBVIOUS
<1>1. /\ wire = <<>> /\ reply.kind = "none" /\ ~live /\ pc = "stopped"
      /\ \A t \in Threads : closedStarted[t] = NotClosed
    BY DEF Init, DaemonInit, RuntimeInit, NoReply, NoneClosed
<1>. QED BY <1>1
    DEF Naming, WireRows, LiveRows, ClosedWaits, SnapLoads, SnapNames,
        SnapNamed, LiveNames

LEMMA NamingStep ==
    ASSUME Undisturbed
    PROVE  TypeOK /\ Phase /\ FetchOrder /\ Tracking /\ Naming /\ [Next]_vars
               => Naming'
<1>. SUFFICES ASSUME TypeOK, Phase, FetchOrder, Tracking, Naming, [Next]_vars
              PROVE  Naming'
    OBVIOUS
<1>1. CASE DaemonEvent /\ UNCHANGED runtimeVars
    BY <1>1, NamingDaemon DEF Undisturbed
<1>2. CASE HandleNotification
    BY <1>2, NamingHandled
<1>3. CASE AnswerRequest
    BY <1>3, NamingAnswer
<1>4. CASE RunStep
  <2>1. CASE SnapshotFails
      BY <2>1, NamingDisconnected DEF SnapshotFails
  <2>. QED BY <1>4, <2>1, NamingBegin, NamingSnapshot, NamingReread,
              NamingInstall, NamingResync DEF RunStep
<1>5. CASE ConnectFails \/ ConnectionLost \/ StopLifecycle
  <2>1. pc' \in {"stopped", "backoff"}
      BY <1>5 DEF ConnectFails, ConnectionLost, StopLifecycle
  <2>. QED BY <1>5, <2>1, NamingDisconnected
           DEF ConnectFails, ConnectionLost, StopLifecycle
<1>6. CASE StartLifecycle
    BY <1>6, NamingBegin
<1>7. CASE UNCHANGED vars \/ Publish \/ HintStep
    BY <1>7, NamingFrame
    DEF vars, runtimeVars, daemonVars, catalogVars, linkVars, requestVars,
        Publish, HintStep, RememberActiveTurn, ForgetActiveTurn, HintsOnly
<1>. QED BY <1>1, <1>2, <1>3, <1>4, <1>5, <1>6, <1>7 DEF Next, Undisturbed

\* What is tracked says, of each thread, what row there is at rest.
LEMMA RestingRow ==
    ASSUME TypeOK, HiddenOut, OneRowPerThread, Tracking, Naming, Quiescent,
           NEW t \in Kept
    PROVE  /\ status[t] = dStatus[t]
           /\ \/ /\ dStore[t] \in {"unsaved", "listed"}
                 /\ \/ started[t] = dName[t] /\ catalog[t] = Absent
                    \/ catalog[t] = dName[t] /\ started[t] = Absent
              \/ Lost(t) /\ started[t] = Absent /\ catalog[t] = Absent
<1>1. /\ live /\ wire = <<>> /\ pc \in {"serve", "waiting"} /\ ~needCatalog
      /\ t \in Threads /\ ~Removed(t) /\ dName[t] # Absent
      /\ dStore[t] \in StoreState
    BY DaemonAssumption
    DEF Quiescent, Kept, TypeOK, DaemonTypeOK, DaemonAssumption
<1>2. Quiet(wire, t, 0) /\ Still(wire, t, 0) /\ ~Fetching
    BY <1>1 DEF Quiet, Still, Fetching
<1>3. status[t] = dStatus[t]
    BY <1>1, <1>2 DEF Tracking, StatusFollows
<1>4. closedStarted[t] = NotClosed
    BY <1>1 DEF Naming, ClosedWaits
<1>5. catalog[t] # Absent => dStore[t] \in {"listed", "archived", "deleted"}
    BY <1>1 DEF Tracking, Catalogued
<1>6. CASE dStore[t] = "unsaved"
    BY <1>1, <1>2, <1>3, <1>5, <1>6 DEF Naming, LiveRows
<1>7. CASE dStore[t] = "listed"
  <2>1. LiveNamed(t)
      BY <1>1, <1>2, <1>7 DEF Naming, LiveNames
  <2>. QED BY <1>1, <1>3, <1>7, <2>1 DEF LiveNamed, OneRowPerThread
<1>8. CASE Lost(t)
    BY <1>1, <1>2, <1>3, <1>4, <1>5, <1>8 DEF Naming, LiveRows, Lost
<1>. QED BY <1>1, <1>6, <1>7, <1>8 DEF Removed, StoreState, Lost

\* At rest, the rows are the daemon's: every thread that is persisted or
\* loaded under its current name and status, and nothing that was closed
\* before it was persisted.
THEOREM QuiescentRowsAlways ==
    ASSUME Undisturbed
    PROVE  Spec => []QuiescentRows
<1>1. ASSUME TypeOK, HiddenOut, OneRowPerThread, Tracking, Naming, Quiescent
      PROVE  RowsAgree
  <2>1. live
      BY <1>1 DEF Quiescent
  <2>2. ASSUME NEW row \in DaemonRows
        PROVE  row \in Rows
    <3>. PICK t \in Threads \ HiddenThreads :
            /\ row = [thread |-> t, name |-> dName[t], status |-> dStatus[t]]
            /\ t \in Loaded \/ dStore[t] = "listed"
        BY DEF DaemonRows
    <3>1. t \in Kept /\ ~Lost(t) /\ dName[t] # Absent
        BY <1>1, DaemonAssumption
        DEF Tracking, LoadedKept, Loaded, Kept, Removed, Lost, TypeOK,
            DaemonTypeOK, DaemonAssumption
    <3>. QED BY <1>1, <2>1, <3>1, RestingRow DEF Rows
  <2>3. ASSUME NEW row \in Rows, ~Removed(row.thread)
        PROVE  row \in DaemonRows
    <3>. PICK t \in Threads :
            \/ /\ started[t] # Absent
               /\ row = [thread |-> t, name |-> started[t], status |-> status[t]]
            \/ /\ catalog[t] # Absent
               /\ row = [thread |-> t, name |-> catalog[t], status |-> status[t]]
        BY <2>1 DEF Rows
    <3>1. t \in Kept
        BY <1>1, <2>3 DEF Kept, HiddenOut
    <3>2. /\ row = [thread |-> t, name |-> dName[t], status |-> dStatus[t]]
          /\ dStore[t] \in {"unsaved", "listed"}
        BY <1>1, <3>1, RestingRow
    <3>3. t \in Loaded \/ dStore[t] = "listed"
        BY <1>1, <3>2 DEF Tracking, LoadedKept, Loaded
    <3>. QED BY <3>1, <3>2, <3>3 DEF DaemonRows, Kept
  <2>. QED BY <2>2, <2>3 DEF RowsAgree
<1>2. TypeOK /\ HiddenOut /\ OneRowPerThread /\ Tracking /\ Naming
          => QuiescentRows
    BY <1>1 DEF QuiescentRows
<1>3. TypeOK /\ Phase /\ FetchOrder /\ Tracking /\ Naming /\ [Next]_vars
          => Naming'
    BY NamingStep
<1>. QED BY <1>2, <1>3, NamingInit, UndisturbedAlways, PTL DEF Spec

-----------------------------------------------------------------------------
(***************************************************************************)
(* The status a live runtime shows beside Lists and unarchives.  No        *)
(* catalog brings a status in, so what is left of the argument above does  *)
(* not look at catalogs at all: a status is only ever dropped, or comes    *)
(* from a notification or from a read that no notification has overtaken.  *)
(***************************************************************************)

\* The threads whose status a runtime follows.  Archiving tears a thread down
\* and unarchiving brings it back, both without a word about its status, so
\* with unarchives it follows those the daemon has loaded.
Followed ==
    {t \in Threads \ HiddenThreads :
        ~Removed(t) /\ ("unarchive" \in Kinds => t \in Loaded)}

LinkTruth ==
    /\ ~connected => wire = <<>> /\ reply = NoReply
    /\ \A t \in Followed : LastTold(wire, t, dStatus[t])

\* Nothing tells of a thread before its announcement, and until that is
\* handled it has no status here.
FirstTold ==
    /\ \A t \in Threads : dStore[t] = "absent" =>
        /\ Quiet(wire, t, 0)
        /\ status[t] = NotLoaded /\ snap.status[t] = NotLoaded
        /\ reply.kind = "read" => reply.id # t
    /\ \A i \in 1 .. Len(wire) : wire[i].method = "started" =>
        LET t == wire[i].thread IN
        /\ status[t] = NotLoaded /\ snap.status[t] = NotLoaded
        /\ reply.kind = "read" /\ reply.id = t => i <= reply.after
        /\ \A j \in 1 .. Len(wire) : j < i => ~Tells(wire[j], t)

\* SnapshotReads and StatusFollows, but for a status that is not there.
SnapshotTrue ==
    /\ reply.kind = "read" /\ reply.id \in Followed =>
        \/ reply.id \in dirty
        \/ Quiet(wire, reply.id, reply.after)
               => reply.status = dStatus[reply.id]
    /\ pc \in {"reading", "install"} =>
        \A t \in Followed :
            \/ t \in snap.todo \cup dirty
            \/ Quiet(wire, t, 0) => snap.status[t] \in {dStatus[t], NotLoaded}

StatusTrue ==
    live => \A t \in Followed :
                Quiet(wire, t, 0) => status[t] \in {dStatus[t], NotLoaded}

Following ==
    /\ LoadedKept /\ LinkTruth /\ Replies /\ HiddenKnown
    /\ FirstTold /\ SnapshotTrue /\ StatusTrue

\* What a notification says of the threads that are followed after it.
Candid(n) ==
    /\ \A t \in Threads : Tells(n, t) => dStore'[t] # "absent"
    /\ \A t \in Followed' : Tells(n, t) => dStatus'[t] = Told(n)
    /\ \A t \in Followed' : ~Tells(n, t) => t \in Followed /\ dStatus'[t] = dStatus[t]
    /\ n.method = "started" => dStore[n.thread] = "absent"

\* The daemon tells whatever it does to the status of a followed thread.
LEMMA DaemonTells ==
    ASSUME TypeOK, LoadedKept, DaemonEvent
    PROVE  /\ UNCHANGED <<reply, connected>> /\ LoadedKept'
           /\ \A t \in Threads : dStore'[t] = "absent" => dStore[t] = "absent"
           /\ \/ UNCHANGED <<wire, dStatus>> /\ Followed' \subseteq Followed
              \/ \E n \in Notification :
                    /\ wire' = IF connected THEN Append(wire, n) ELSE wire
                    /\ Candid(n)
<1>. PICK t \in Threads :
        \/ StartThread(t) \/ PersistThread(t) \/ ChangeStatus(t)
        \/ CloseThread(t) \/ ResumeThread(t) \/ RemoveThread(t)
        \/ UnarchiveThread(t) \/ RenameThread(t)
    BY DEF DaemonEvent
<1>1. /\ dStore \in [Threads -> StoreState]
      /\ dStatus \in [Threads -> Status] /\ dName \in [Threads -> Names]
    BY DEF TypeOK, DaemonTypeOK
<1>. DEFINE Kept2 == /\ UNCHANGED <<reply, connected>> /\ LoadedKept'
                     /\ \A u \in Threads : dStore'[u] = "absent" => dStore[u] = "absent"
            Goal ==
              /\ Kept2
              /\ \/ UNCHANGED <<wire, dStatus>> /\ Followed' \subseteq Followed
                 \/ \E n \in Notification :
                       /\ wire' = IF connected THEN Append(wire, n) ELSE wire
                       /\ Candid(n)
<1>. SUFFICES Goal
    OBVIOUS
<1>2. ASSUME NEW n \in Notification, Broadcast(n), Candid(n), Kept2
      PROVE  Goal
    BY <1>2 DEF Broadcast
<1>. USE <1>1 DEF Event, LoadedKept, Tells, Told, Removed, StoreState, Status,
                  LoadedStatus, NotLoaded, Loaded
<1>. HIDE DEF Goal
<1>3. CASE StartThread(t)
  <2>. PICK nm \in Names : nm = dName[t]
      OBVIOUS
  <2>. DEFINE n == [method |-> "started", thread |-> t, name |-> nm,
                    status |-> "idle"]
  <2>1. n \in Notification
      BY DEF Notification
  <2>2. Kept2 /\ Candid(n)
      BY <1>3 DEF StartThread, Candid, Followed
  <2>3. Broadcast(n)
      BY <1>3 DEF StartThread
  <2>. HIDE DEF n, Kept2
  <2>. QED BY <1>2, <2>1, <2>2, <2>3
<1>4. CASE PersistThread(t)
    BY <1>4 DEF PersistThread, Goal, Followed
<1>5. CASE ChangeStatus(t)
  <2>. PICK s \in LoadedStatus :
          /\ dStatus' = [dStatus EXCEPT ![t] = s]
          /\ Broadcast([method |-> "status", thread |-> t, status |-> s])
      BY <1>5 DEF ChangeStatus
  <2>. DEFINE n == [method |-> "status", thread |-> t, status |-> s]
  <2>1. n \in Notification
      BY DEF Notification
  <2>2. Kept2 /\ Candid(n)
      BY <1>5 DEF ChangeStatus, Candid, Followed
  <2>. HIDE DEF n, Kept2
  <2>. QED BY <1>2, <2>1, <2>2 DEF n
<1>6. CASE CloseThread(t)
  <2>. DEFINE n == [method |-> "closed", thread |-> t]
  <2>1. n \in Notification
      BY DEF Notification
  <2>2. Kept2 /\ Candid(n)
      BY <1>6 DEF CloseThread, Candid, Followed
  <2>3. Broadcast(n)
      BY <1>6 DEF CloseThread
  <2>. HIDE DEF n, Kept2
  <2>. QED BY <1>2, <2>1, <2>2, <2>3
<1>7. CASE ResumeThread(t)
  <2>. DEFINE n == [method |-> "status", thread |-> t, status |-> "idle"]
  <2>1. n \in Notification
      BY DEF Notification
  <2>2. Kept2 /\ Candid(n)
      BY <1>7 DEF ResumeThread, Candid, Followed
  <2>3. Broadcast(n)
      BY <1>7 DEF ResumeThread
  <2>. HIDE DEF n, Kept2
  <2>. QED BY <1>2, <2>1, <2>2, <2>3
<1>8. CASE RemoveThread(t)
  <2>. PICK m \in {"archived", "deleted"} :
          /\ dStore' = [dStore EXCEPT ![t] = m]
          /\ Broadcast([method |-> m, thread |-> t])
      BY <1>8 DEF RemoveThread
  <2>. DEFINE n == [method |-> m, thread |-> t]
  <2>1. n \in Notification
      BY DEF Notification
  <2>2. Kept2 /\ Candid(n)
      BY <1>8 DEF RemoveThread, Candid, Followed
  <2>. HIDE DEF n, Kept2
  <2>. QED BY <1>2, <2>1, <2>2 DEF n
<1>9. CASE UnarchiveThread(t)
  <2>. DEFINE n == [method |-> "unarchived", thread |-> t]
  <2>1. n \in Notification
      BY DEF Notification
  <2>2. Kept2 /\ Candid(n)
      BY <1>9 DEF UnarchiveThread, Candid, Followed
  <2>3. Broadcast(n)
      BY <1>9 DEF UnarchiveThread
  <2>. HIDE DEF n, Kept2
  <2>. QED BY <1>2, <2>1, <2>2, <2>3
<1>10. CASE RenameThread(t)
  <2>. PICK nm \in Names :
          /\ dName' = [dName EXCEPT ![t] = nm]
          /\ Broadcast([method |-> "name", thread |-> t, name |-> nm])
      BY <1>10 DEF RenameThread
  <2>. DEFINE n == [method |-> "name", thread |-> t, name |-> nm]
  <2>1. n \in Notification
      BY DEF Notification
  <2>2. Kept2 /\ Candid(n)
      BY <1>10 DEF RenameThread, Candid, Followed
  <2>. HIDE DEF n, Kept2
  <2>. QED BY <1>2, <2>1, <2>2 DEF n
<1>. QED BY <1>3, <1>4, <1>5, <1>6, <1>7, <1>8, <1>9, <1>10

\* Broadcasting: a thread newly followed is told of, the others' last word
\* stays right.
LEMMA LastToldBroadcast ==
    ASSUME NEW w \in Seq(Notification), NEW n \in Notification, NEW t, NEW s, NEW new,
           \/ Tells(n, t) /\ new = Told(n)
           \/ ~Tells(n, t) /\ new = s /\ LastTold(w, t, s)
    PROVE  LastTold(Append(w, n), t, new)
<1>1. CASE ~Tells(n, t)
    BY <1>1, LastToldAppend
<1>2. CASE Tells(n, t) /\ new = Told(n)
  <2>1. Len(Append(w, n)) = Len(w) + 1 /\ Append(w, n)[Len(w) + 1] = n
        /\ Len(w) \in Nat
      OBVIOUS
  <2>. SUFFICES ASSUME NEW i \in 1 .. Len(w) + 1, Quiet(Append(w, n), t, i)
                PROVE  Told(Append(w, n)[i]) = new
      BY <2>1 DEF LastTold
  <2>2. CASE i = Len(w) + 1
      BY <1>2, <2>1, <2>2
  <2>3. CASE i \in 1 .. Len(w)
    <3>1. ~Tells(n, t)
        BY <2>3, QuietAppend
    <3>. QED BY <1>2, <3>1
  <2>. QED BY <2>1, <2>2, <2>3
<1>. QED BY <1>1, <1>2

\* Whatever the daemon does, its last word on each followed thread is true.
LEMMA FollowingDaemon ==
    ASSUME TypeOK, Phase, Following, DaemonEvent, UNCHANGED runtimeVars
    PROVE  Following'
<1>. USE TypedFields
<1>1. /\ UNCHANGED <<reply, connected>> /\ LoadedKept'
      /\ \A t \in Threads : dStore'[t] = "absent" => dStore[t] = "absent"
      /\ \/ UNCHANGED <<wire, dStatus>> /\ Followed' \subseteq Followed
         \/ \E n \in Notification :
               /\ wire' = IF connected THEN Append(wire, n) ELSE wire
               /\ Candid(n)
    BY DaemonTells DEF Following
<1>2. UNCHANGED <<pc, status, hidden, live, dirty, snap>>
    BY DEF runtimeVars, linkVars
<1>3. \A t \in Followed' : t \in Threads
    BY DEF Followed
<1>4. CASE UNCHANGED <<wire, dStatus>> /\ Followed' \subseteq Followed
    BY <1>1, <1>2, <1>4
    DEF Following, LinkTruth, Replies, HiddenKnown, FirstTold, SnapshotTrue,
        StatusTrue
<1>5. CASE ~connected
  <2>1. wire = <<>> /\ reply = NoReply /\ ~live /\ pc \notin {"reading", "install"}
      BY <1>5 DEF Following, LinkTruth, Phase, ServeStates
  <2>2. wire' = <<>> /\ reply'.kind = "none" /\ reply' = NoReply
      BY <1>1, <1>5, <2>1 DEF NoReply
  <2>3. \A t : LastTold(<<>>, t, dStatus'[t]) /\ Quiet(<<>>, t, 0)
      BY DEF LastTold, Quiet
  <2>4. LinkTruth' /\ FirstTold'
      BY <1>1, <1>2, <2>2, <2>3 DEF LinkTruth, FirstTold, Following
  <2>5. Replies' /\ HiddenKnown' /\ SnapshotTrue' /\ StatusTrue'
      BY <1>2, <2>1, <2>2
      DEF Following, Replies, HiddenKnown, SnapshotTrue, StatusTrue
  <2>. QED BY <1>1, <2>4, <2>5 DEF Following
<1>6. ASSUME connected, NEW n \in Notification, wire' = Append(wire, n), Candid(n)
      PROVE  Following'
  <2>1. /\ Len(wire') = Len(wire) + 1 /\ wire'[Len(wire) + 1] = n
        /\ \A i \in 1 .. Len(wire) : wire'[i] = wire[i]
        /\ n.thread \in Threads
      BY <1>6, NotificationFields
  <2>2. \A t \in Followed' : LastTold(wire', t, dStatus'[t])
    <3>. SUFFICES ASSUME NEW t \in Followed'
                  PROVE  LastTold(Append(wire, n), t, dStatus'[t])
        BY <1>6
    <3>. DEFINE s == dStatus[t]
                new == dStatus'[t]
    <3>1. \/ Tells(n, t) /\ new = Told(n)
          \/ ~Tells(n, t) /\ new = s /\ LastTold(wire, t, s)
        BY <1>6 DEF Candid, Following, LinkTruth
    <3>. HIDE DEF s, new
    <3>2. LastTold(Append(wire, n), t, new)
        BY <3>1, LastToldBroadcast
    <3>. QED BY <3>2 DEF new
  <2>3. ASSUME NEW t \in Followed', NEW k \in 0 .. Len(wire), Quiet(wire', t, k)
        PROVE  t \in Followed /\ Quiet(wire, t, k) /\ dStatus'[t] = dStatus[t]
    <3>1. Quiet(Append(wire, n), t, k) /\ k \in Nat /\ k <= Len(wire)
        BY <1>6, <2>3
    <3>2. Quiet(wire, t, k) /\ ~Tells(n, t)
        BY <3>1, QuietAppend
    <3>. QED BY <1>6, <3>2 DEF Candid
  <2>4. ASSUME NEW t \in Threads, dStore'[t] = "absent"
        PROVE  Quiet(wire', t, 0)
    <3>1. Quiet(wire, t, 0) /\ ~Tells(n, t)
        BY <1>1, <1>6, <2>4 DEF Following, FirstTold, Candid
    <3>. QED BY <1>6, <3>1, QuietAppend
  <2>5. ASSUME NEW i \in 1 .. Len(wire'), wire'[i].method = "started"
        PROVE  LET t == wire'[i].thread IN
               /\ status[t] = NotLoaded /\ snap.status[t] = NotLoaded
               /\ reply.kind = "read" /\ reply.id = t => i <= reply.after
               /\ \A j \in 1 .. Len(wire') : j < i => ~Tells(wire'[j], t)
    <3>1. CASE i \in 1 .. Len(wire)
        BY <2>1, <2>5, <3>1 DEF Following, FirstTold
    <3>2. CASE i = Len(wire) + 1
      <4>1. dStore[n.thread] = "absent" /\ wire'[i] = n
          BY <1>6, <2>1, <2>5, <3>2 DEF Candid
      <4>2. /\ Quiet(wire, n.thread, 0) /\ status[n.thread] = NotLoaded
            /\ snap.status[n.thread] = NotLoaded
            /\ reply.kind = "read" => reply.id # n.thread
          BY <2>1, <4>1 DEF Following, FirstTold
      <4>. QED BY <2>1, <3>2, <4>1, <4>2 DEF Quiet
    <3>. QED BY <2>1, <3>1, <3>2
  <2>6. FirstTold'
      BY <1>1, <1>2, <2>4, <2>5 DEF Following, FirstTold
  <2>7. LinkTruth' /\ Replies' /\ HiddenKnown'
      BY <1>1, <1>2, <1>6, <2>1, <2>2 DEF Following, LinkTruth, Replies, HiddenKnown
  <2>8. SnapshotTrue' /\ StatusTrue'
    <3>1. reply.kind = "read" => reply.after \in 0 .. Len(wire)
        BY DEF Following, Replies
    <3>. QED BY <1>1, <1>2, <2>3, <3>1 DEF Following, SnapshotTrue, StatusTrue
  <2>. QED BY <1>1, <2>6, <2>7, <2>8 DEF Following
<1>. QED BY <1>1, <1>4, <1>5, <1>6

\* What handling a notification does to the statuses: a thread it tells of
\* gets the status told, or is marked for the running snapshot; only an
\* announcement may come to nothing, when a List has listed the thread.
LEMMA HandledTells ==
    ASSUME TypeOK, Phase, HiddenKnown, HandleNotification
    PROVE  /\ wire # <<>> /\ wire' = Tail(wire) /\ Head(wire) \in Notification
           /\ UNCHANGED <<dStore, dStatus, connected, pc, live, snapshotting, snap>>
           /\ hidden' \subseteq HiddenThreads /\ dirty \subseteq dirty'
           /\ \A t \in Threads :
                \/ status'[t] = status[t]
                \/ Tells(Head(wire), t) /\ status'[t] = Told(Head(wire))
           /\ \A t \in Threads \ HiddenThreads :
                Tells(Head(wire), t) /\ Head(wire).method # "started" =>
                    /\ snapshotting => t \in dirty'
                    /\ live => status'[t] = Told(Head(wire))
<1>. DEFINE n == Head(wire)
<1>1. /\ wire # <<>> /\ wire' = Tail(wire) /\ n \in Notification
      /\ UNCHANGED <<dStore, dStatus, connected, pc, live, snapshotting, snap>>
    BY WireHead DEF HandleNotification, TypeOK, DaemonTypeOK, linkVars
<1>2. n.thread \in Threads
    BY <1>1, NotificationFields
<1>3. \/ HandleStatusChanged(n) \/ HandleClosed(n)
      \/ HandleHiddenStarted(n) \/ HandleStarted(n)
      \/ HandleNameUpdated(n) \/ HandleRemoved(n) \/ HandleUnarchived(n)
    BY DEF HandleNotification
<1>4. /\ hidden \subseteq HiddenThreads /\ HiddenThreads \subseteq Threads
      /\ live => ~snapshotting
      /\ live \in BOOLEAN /\ snapshotting \in BOOLEAN
      /\ dirty \subseteq Threads /\ status \in [Threads -> Status]
    BY TypedFields DEF HiddenKnown, Phase, SnapshotStates, ServeStates, TypeOK,
       RuntimeTypeOK
<1>. HIDE DEF n
<1>5. hidden' \subseteq HiddenThreads
    BY <1>3, <1>4
    DEF HandleStatusChanged, HandleClosed, HandleHiddenStarted, HandleStarted,
        HandleNameUpdated, HandleRemoved, HandleUnarchived
<1>. DEFINE Statuses ==
      /\ dirty \subseteq dirty'
      /\ \A t \in Threads :
           \/ status'[t] = status[t]
           \/ Tells(n, t) /\ status'[t] = Told(n)
      /\ \A t \in Threads \ HiddenThreads :
           Tells(n, t) /\ n.method # "started" =>
               /\ snapshotting => t \in dirty'
               /\ live => status'[t] = Told(n)
<1>6. ASSUME NEW s, SetStatus(n.thread, s), Tells(n, n.thread), Told(n) = s
      PROVE  Statuses
    BY <1>2, <1>4, <1>6 DEF SetStatus, DirtyAfter, Observes, Tells
<1>7. ASSUME UNCHANGED <<dirty, status>>,
             n.method \notin {"status", "closed"}
      PROVE  Statuses
    BY <1>7 DEF Tells
<1>. HIDE DEF Statuses
<1>8. CASE HandleStatusChanged(n)
  <2>1. SetStatus(n.thread, n.status) /\ n.method = "status"
      BY <1>8 DEF HandleStatusChanged
  <2>. QED BY <1>1, <1>5, <1>6, <2>1 DEF Tells, Told, n, Statuses
<1>9. CASE HandleClosed(n)
  <2>1. SetStatus(n.thread, NotLoaded) /\ n.method = "closed"
      BY <1>9 DEF HandleClosed
  <2>. QED BY <1>1, <1>5, <1>6, <2>1 DEF Tells, Told, n, Statuses
<1>10. CASE HandleStarted(n) /\ (live \/ snapshotting) /\ catalog[n.thread] = Absent
  <2>1. SetStatus(n.thread, n.status) /\ n.method = "started"
      BY <1>10 DEF HandleStarted
  <2>. QED BY <1>1, <1>5, <1>6, <2>1 DEF Tells, Told, n, Statuses
<1>11. CASE \/ HandleStarted(n) /\ ~((live \/ snapshotting) /\ catalog[n.thread] = Absent)
            \/ HandleHiddenStarted(n) \/ HandleNameUpdated(n)
            \/ HandleRemoved(n) \/ HandleUnarchived(n)
  <2>1. UNCHANGED <<dirty, status>> /\ n.method \notin {"status", "closed"}
      BY <1>11 DEF HandleStarted, HandleHiddenStarted, HandleNameUpdated,
         HandleRemoved, HandleUnarchived
  <2>. QED BY <1>1, <1>5, <1>7, <2>1 DEF n, Statuses
<1>. QED BY <1>3, <1>8, <1>9, <1>10, <1>11

LEMMA FollowingHandled ==
    ASSUME TypeOK, Phase, Following, HandleNotification
    PROVE  Following'
<1>. USE TypedFields
<1>. DEFINE n == Head(wire)
<1>1. /\ wire # <<>> /\ wire' = Tail(wire) /\ n \in Notification
      /\ UNCHANGED <<dStore, dStatus, connected, pc, live, snapshotting, snap>>
      /\ hidden' \subseteq HiddenThreads /\ dirty \subseteq dirty'
      /\ \A t \in Threads :
           \/ status'[t] = status[t]
           \/ Tells(n, t) /\ status'[t] = Told(n)
      /\ \A t \in Threads \ HiddenThreads :
           Tells(n, t) /\ n.method # "started" =>
               /\ snapshotting => t \in dirty'
               /\ live => status'[t] = Told(n)
    BY HandledTells DEF Following
<1>2. /\ reply' = NoReply <=> reply = NoReply
      /\ reply'.kind = reply.kind
      /\ reply.kind = "read" => reply'.id = reply.id /\ reply'.status = reply.status
      /\ reply # NoReply =>
            reply'.after = IF reply.after = 0 THEN 0 ELSE reply.after - 1
    BY HandledReply
<1>. HIDE DEF n
<1>3. /\ Len(wire') = Len(wire) - 1 /\ Len(wire) >= 1 /\ n = wire[1]
      /\ \A i \in 1 .. Len(wire') : wire'[i] = wire[i + 1] /\ i + 1 \in 1 .. Len(wire)
      /\ 1 \in 1 .. Len(wire) /\ n.thread \in Threads
    BY <1>1 DEF n
<1>4. Followed' = Followed /\ Followed \subseteq Threads \ HiddenThreads
    BY <1>1 DEF Followed, Removed, Loaded
<1>5. \A t \in Followed :
        /\ LastTold(wire', t, dStatus[t])
        /\ Tells(n, t) /\ Quiet(wire', t, 0) => Told(n) = dStatus[t]
    BY <1>1, LastToldTail DEF Following, LinkTruth, n
<1>6. \A t : /\ \A k \in Nat : Quiet(wire', t, k) <=> Quiet(wire, t, k + 1)
             /\ Quiet(wire, t, 0) <=> Quiet(wire', t, 0) /\ ~Tells(n, t)
    BY <1>1, QuietTail DEF n
<1>7. \A t : n.method = "started" /\ Tells(n, t) =>
        /\ status[t] = NotLoaded /\ snap.status[t] = NotLoaded
        /\ reply.kind = "read" /\ reply.id = t => 1 <= reply.after
    BY <1>3 DEF Following, FirstTold, Tells
<1>8. ASSUME NEW t, reply # NoReply, Quiet(wire', t, reply'.after)
      PROVE  Quiet(wire, t, reply.after) \/ (Tells(n, t) /\ reply.after = 0)
  <2>1. CASE reply.after = 0
      BY <1>2, <1>6, <1>8, <2>1
  <2>2. CASE reply.after # 0
    <3>1. reply.after - 1 \in Nat /\ reply'.after = reply.after - 1
        BY <1>2, <1>8, <2>2
    <3>. QED BY <1>6, <1>8, <3>1
  <2>. QED BY <2>1, <2>2
<1>9. LoadedKept' /\ LinkTruth' /\ HiddenKnown'
    BY <1>1, <1>2, <1>3, <1>4, <1>5
    DEF Following, LoadedKept, LinkTruth, HiddenKnown
<1>10. Replies'
    BY <1>1, <1>2, <1>3 DEF Following, Replies
<1>11. FirstTold'
  <2>1. ASSUME NEW t \in Threads, dStore[t] = "absent"
        PROVE  /\ Quiet(wire', t, 0) /\ status'[t] = NotLoaded
               /\ snap.status[t] = NotLoaded
               /\ reply.kind = "read" => reply.id # t
    <3>1. Quiet(wire, t, 0)
        BY <2>1 DEF Following, FirstTold
    <3>. QED BY <1>1, <1>6, <2>1, <3>1 DEF Following, FirstTold
  <2>2. ASSUME NEW i \in 1 .. Len(wire'), wire'[i].method = "started"
        PROVE  LET t == wire'[i].thread IN
               /\ status'[t] = NotLoaded /\ snap.status[t] = NotLoaded
               /\ reply'.kind = "read" /\ reply'.id = t => i <= reply'.after
               /\ \A j \in 1 .. Len(wire') : j < i => ~Tells(wire'[j], t)
    <3>. DEFINE t == wire'[i].thread
    <3>1. /\ wire'[i] = wire[i + 1] /\ i + 1 \in 1 .. Len(wire) /\ 1 < i + 1
          /\ t \in Threads
        BY <1>3
    <3>2. /\ status[t] = NotLoaded /\ snap.status[t] = NotLoaded
          /\ reply.kind = "read" /\ reply.id = t => i + 1 <= reply.after
          /\ \A j \in 1 .. Len(wire) : j < i + 1 => ~Tells(wire[j], t)
        BY <2>2, <3>1 DEF Following, FirstTold
    <3>. HIDE DEF t
    <3>3. ~Tells(n, t) /\ status'[t] = NotLoaded
        BY <1>1, <1>3, <3>1, <3>2
    <3>4. reply'.kind = "read" /\ reply'.id = t => i <= reply'.after
      <4>. SUFFICES ASSUME reply'.kind = "read", reply'.id = t
                    PROVE  i <= reply'.after
          OBVIOUS
      <4>1. reply # NoReply /\ reply.after \in Nat /\ i + 1 <= reply.after
          BY <1>2, <3>2
      <4>. QED BY <1>2, <4>1
    <3>5. \A j \in 1 .. Len(wire') : j < i => ~Tells(wire'[j], t)
        BY <1>3, <3>2
    <3>. QED BY <3>2, <3>3, <3>4, <3>5 DEF t
  <2>. QED BY <1>1, <1>2, <2>1, <2>2 DEF FirstTold
<1>12. SnapshotTrue'
  <2>1. pc \in {"reading", "install"} => snapshotting
      BY DEF Phase, SnapshotStates
  <2>2. reply.kind = "read" => pc = "reading"
      BY DEF Following, Replies
  <2>3. reply'.kind = "read" /\ reply.id \in Followed =>
          \/ reply.id \in dirty'
          \/ Quiet(wire', reply.id, reply'.after) => reply.status = dStatus[reply.id]
      BY <1>1, <1>2, <1>4, <1>7, <1>8, <2>1, <2>2 DEF Following, SnapshotTrue
  <2>4. pc \in {"reading", "install"} =>
          \A t \in Followed :
            \/ t \in snap.todo \cup dirty'
            \/ Quiet(wire', t, 0) => snap.status[t] \in {dStatus[t], NotLoaded}
      BY <1>1, <1>4, <1>6, <1>7, <2>1 DEF Following, SnapshotTrue
  <2>. QED BY <1>1, <1>2, <1>4, <2>3, <2>4 DEF SnapshotTrue
<1>13. StatusTrue'
  <2>. SUFFICES ASSUME NEW t \in Followed, live, Quiet(wire', t, 0)
                PROVE  status'[t] \in {dStatus[t], NotLoaded}
      BY <1>1, <1>4 DEF StatusTrue
  <2>1. CASE Tells(n, t)
      BY <1>1, <1>4, <1>5, <1>7, <2>1
  <2>2. CASE ~Tells(n, t)
      BY <1>1, <1>4, <1>6, <2>2 DEF Following, StatusTrue
  <2>. QED BY <2>1, <2>2
<1>. QED BY <1>9, <1>10, <1>11, <1>12, <1>13 DEF Following

\* Steps that change nothing of what is followed, or drop a status: Lists,
\* the publisher, the turn hints.
LEMMA FollowingFrame ==
    ASSUME TypeOK, Following,
           UNCHANGED <<dStore, dStatus, wire, reply, connected, pc, live,
                       dirty, snap>>,
           hidden' \subseteq HiddenThreads,
           \A t \in Threads : status'[t] \in {status[t], NotLoaded}
    PROVE  Following'
<1>1. Followed' = Followed /\ Followed \subseteq Threads
    BY DEF Followed, Removed, Loaded
<1>2. \A i \in 1 .. Len(wire) : wire[i].thread \in Threads
    BY TypedFields
<1>. QED BY <1>1, <1>2
    DEF Following, LoadedKept, LinkTruth, Replies, HiddenKnown, FirstTold,
        SnapshotTrue, StatusTrue

\* A local step of the run goroutine has nothing outstanding.
LEMMA NoAnswerDue ==
    ASSUME TypeOK, Following,
           \/ pc \in {"stopped", "backoff", "dialed", "install", "serve",
                      "waiting", "gap"}
           \/ ~connected
    PROVE  reply = NoReply
    BY TypedFields DEF Following, Replies, LinkTruth

\* An answer is true when it is given.
LEMMA FollowingAnswer ==
    ASSUME TypeOK, Phase, Following, AnswerRequest
    PROVE  Following'
<1>. USE TypedFields
<1>1. /\ UNCHANGED <<dStore, dStatus, wire, connected, pc, status, hidden,
                     live, dirty, snap>>
      /\ reply = NoReply
    BY DEF AnswerRequest, runtimeVars, linkVars
<1>2. Followed' = Followed
    BY <1>1 DEF Followed, Removed, Loaded
<1>3. connected
    BY DEF AnswerRequest, Phase
<1>4. reply'.after = Len(wire)
    BY DEF AnswerRequest, ListReply, LoadedReply, ReadReply
<1>5. /\ reply'.kind = "list" => pc \in {"listing", "resync"}
      /\ reply'.kind = "loaded" => pc = "loading"
      /\ reply'.kind \in {"read", "error"} => pc = "reading"
      /\ reply'.kind = "read" =>
            /\ reply'.id \in snap.todo /\ reply'.status = dStatus[reply'.id]
            /\ dStore[reply'.id] # "absent"
    BY DEF AnswerRequest, ListReply, LoadedReply, ReadReply
<1>6. LoadedKept' /\ LinkTruth' /\ HiddenKnown' /\ StatusTrue'
    BY <1>1, <1>2, <1>3 DEF Following, LoadedKept, LinkTruth, HiddenKnown, StatusTrue
<1>7. Replies'
    BY <1>1, <1>4, <1>5 DEF Following, Replies
<1>8. FirstTold'
    BY <1>1, <1>4, <1>5 DEF Following, FirstTold
<1>9. SnapshotTrue'
    BY <1>1, <1>2, <1>5 DEF Following, SnapshotTrue
<1>. QED BY <1>6, <1>7, <1>8, <1>9 DEF Following

\* Without a connection nothing is claimed.
LEMMA FollowingOff ==
    ASSUME TypeOK, Following, UNCHANGED <<dStore, dStatus, hidden>>,
           status' = AllNotLoaded, live' = FALSE,
           pc' \in {"stopped", "backoff"}, wire' = <<>>, reply' = NoReply,
           snap' = EmptySnap \/ UNCHANGED snap
    PROVE  Following'
<1>1. NoReply.kind = "none" /\ \A t \in Threads : AllNotLoaded[t] = NotLoaded
    BY DEF NoReply, AllNotLoaded
<1>2. \A t : LastTold(<<>>, t, dStatus'[t]) /\ Quiet(<<>>, t, 0)
    BY DEF LastTold, Quiet
<1>3. LoadedKept' /\ LinkTruth' /\ HiddenKnown'
    BY <1>2, EmptySnapIs DEF Following, LoadedKept, LinkTruth, HiddenKnown
<1>4. FirstTold'
    BY <1>1, <1>2, EmptySnapIs DEF Following, FirstTold
<1>5. Replies' /\ SnapshotTrue' /\ StatusTrue'
    BY <1>1 DEF Replies, SnapshotTrue, StatusTrue
<1>. QED BY <1>3, <1>4, <1>5 DEF Following

\* A connection or an attempt ends, or a lifecycle starts.
LEMMA FollowingDisconnected ==
    ASSUME TypeOK, Following, NEW err, Disconnected(err),
           pc' \in {"stopped", "backoff"}
    PROVE  Following'
    BY FollowingOff DEF Disconnected

LEMMA FollowingStart ==
    ASSUME TypeOK, Phase, Following, StartLifecycle
    PROVE  Following'
<1>1. ~connected
    BY DEF StartLifecycle, Phase
<1>2. wire = <<>> /\ reply = NoReply
    BY <1>1 DEF Following, LinkTruth
<1>. QED BY <1>2, FollowingOff DEF StartLifecycle, daemonVars

\* Steps of the run goroutine that leave nothing asked.
LEMMA FollowingLocal ==
    ASSUME TypeOK, Following, UNCHANGED <<dStore, dStatus, wire>>,
           reply' = NoReply, connected' \/ wire = <<>>,
           hidden' \subseteq HiddenThreads, snap'.hidden \subseteq HiddenThreads,
           pc' = "install" => snap'.todo = {},
           pc' \in {"listing", "loading"} => snap'.status = AllNotLoaded,
           \A t \in Threads :
               /\ status'[t] \in {status[t], snap.status[t], NotLoaded}
               /\ \/ snap'.status[t] \in {snap.status[t], NotLoaded}
                  \/ reply.kind = "read" /\ reply.id = t /\ reply.after = 0,
           pc' \in {"reading", "install"} =>
               \A t \in Followed :
                   \/ t \in snap'.todo \cup dirty'
                   \/ Quiet(wire, t, 0)
                          => snap'.status[t] \in {dStatus[t], NotLoaded},
           live' => \A t \in Followed :
               Quiet(wire, t, 0) => status'[t] \in {dStatus[t], NotLoaded}
    PROVE  Following'
<1>. USE TypedFields
<1>1. Followed' = Followed /\ reply'.kind = "none"
    BY DEF Followed, Removed, Loaded, NoReply
<1>2. LoadedKept' /\ LinkTruth' /\ HiddenKnown'
    BY <1>1 DEF Following, LoadedKept, LinkTruth, HiddenKnown
<1>3. Replies' /\ SnapshotTrue' /\ StatusTrue'
    BY <1>1 DEF Replies, SnapshotTrue, StatusTrue
<1>4. ASSUME NEW i \in 1 .. Len(wire), wire[i].method = "started"
      PROVE  /\ status'[wire[i].thread] = NotLoaded
             /\ snap'.status[wire[i].thread] = NotLoaded
             /\ \A j \in 1 .. Len(wire) : j < i => ~Tells(wire[j], wire[i].thread)
  <2>1. i > 0 /\ wire[i].thread \in Threads
      OBVIOUS
  <2>2. ~(reply.kind = "read" /\ reply.id = wire[i].thread /\ reply.after = 0)
      BY <1>4, <2>1 DEF Following, FirstTold
  <2>. QED BY <1>4, <2>1, <2>2 DEF Following, FirstTold
<1>5. FirstTold'
    BY <1>1, <1>4 DEF Following, FirstTold
<1>. QED BY <1>2, <1>3, <1>5 DEF Following

\* Connecting, waiting for a re-read and starting a fetch.
LEMMA FollowingBegin ==
    ASSUME TypeOK, Phase, Following,
           Connect \/ BeginSnapshot \/ BeginResync \/ ServeRequest \/ AwaitWake
    PROVE  Following'
<1>. USE DEF linkVars, daemonVars
<1>1. /\ UNCHANGED <<dStore, dStatus, wire, reply, status, hidden, live>>
      /\ reply = NoReply
    BY NoAnswerDue DEF Connect, BeginSnapshot, BeginResync, ServeRequest, AwaitWake
<1>2. connected' = TRUE
    BY DEF Connect, BeginSnapshot, BeginResync, ServeRequest, AwaitWake, Phase
<1>3. /\ pc' \in {"dialed", "listing", "resync", "gap", "waiting", "serve"}
      /\ \/ snap' = snap
         \/ /\ snap'.hidden = {} /\ snap'.status = AllNotLoaded
      /\ pc' = "listing" => snap'.status = AllNotLoaded
    BY EmptySnapIs
    DEF Connect, BeginSnapshot, BeginResync, ServeRequest, AwaitWake, EmptySnap
<1>4. \A t \in Threads : AllNotLoaded[t] = NotLoaded
    BY DEF AllNotLoaded
<1>5. hidden' \subseteq HiddenThreads /\ snap'.hidden \subseteq HiddenThreads
    BY <1>1, <1>3 DEF Following, HiddenKnown
<1>6. \A t \in Threads : snap'.status[t] \in {snap.status[t], NotLoaded}
    BY <1>3, <1>4
<1>7. live' => \A t \in Followed :
          Quiet(wire, t, 0) => status'[t] \in {dStatus[t], NotLoaded}
    BY <1>1 DEF Following, StatusTrue
<1>. QED BY <1>1, <1>2, <1>3, <1>5, <1>6, <1>7, FollowingLocal

\* The snapshot's steps: what is still to be read may change, what has been
\* read was true when the answer left, and nothing told otherwise since.
LEMMA FollowingSnapshot ==
    ASSUME TypeOK, Phase, Following,
           SnapshotListed \/ SnapshotLoaded \/ SnapshotRead \/ RereadDirty
    PROVE  Following'
<1>. USE SnapFields DEF TypeOK, RuntimeTypeOK
<1>1. /\ UNCHANGED <<dStore, dStatus, wire, connected, status, hidden, live>>
      /\ pc \in SnapshotStates /\ ~live /\ connected
    BY DEF SnapshotListed, SnapshotLoaded, SnapshotRead, RereadDirty,
       SnapshotStep, linkVars, daemonVars, Phase, SnapshotStates, ServeStates
<1>2. /\ \A t \in Threads : AllNotLoaded[t] = NotLoaded
      /\ Followed \subseteq Threads \ HiddenThreads
      /\ hidden \subseteq HiddenThreads /\ snap.hidden \subseteq HiddenThreads
    BY DEF AllNotLoaded, Followed, Following, HiddenKnown
<1>3. CASE SnapshotListed
  <2>1. /\ reply' = NoReply /\ pc' = "loading" /\ snap.status = AllNotLoaded
        /\ snap'.hidden = snap.hidden /\ snap'.status = snap.status
      BY <1>3 DEF SnapshotListed, SnapshotStep, SnapType, Following, Replies
  <2>. QED BY <1>1, <1>2, <2>1, FollowingLocal
<1>4. CASE SnapshotLoaded
  <2>1. /\ reply' = NoReply /\ pc' \in {"reading", "install"}
        /\ snap'.hidden = snap.hidden /\ snap'.status = snap.status
        /\ snap.status = AllNotLoaded
        /\ pc' = "install" => snap'.todo = {}
      BY <1>4 DEF SnapshotLoaded, SnapshotStep, SnapType, Following, Replies,
         AfterReads
  <2>. QED BY <1>1, <1>2, <2>1, FollowingLocal
<1>5. CASE SnapshotRead
  <2>. DEFINE id == reply.id
  <2>1. /\ pc = "reading" /\ reply.kind = "read" /\ reply.after = 0
        /\ SnapshotStep(AfterReads(snap.todo \ {id})) /\ id \in Threads
      BY <1>5, ReplyFields DEF SnapshotRead, Received
  <2>2. /\ snap'.todo = snap.todo \ {id}
        /\ snap'.hidden \subseteq snap.hidden \cup HiddenThreads
        /\ snap'.status[id] \in {reply.status, NotLoaded}
        /\ \A t \in Threads : t # id => snap'.status[t] = snap.status[t]
      BY <1>5, <2>1 DEF SnapshotRead, SnapType
  <2>3. /\ reply' = NoReply /\ pc' \in {"reading", "install"} /\ dirty' = dirty
        /\ pc' = "install" => snap.todo \ {id} = {}
      BY <2>1 DEF SnapshotStep, AfterReads
  <2>4. \A t \in Followed :
          \/ t \in snap'.todo \cup dirty'
          \/ Quiet(wire, t, 0) => snap'.status[t] \in {dStatus[t], NotLoaded}
    <3>. SUFFICES ASSUME NEW t \in Followed, t \notin snap'.todo \cup dirty',
                         Quiet(wire, t, 0)
                  PROVE  snap'.status[t] \in {dStatus[t], NotLoaded}
        OBVIOUS
    <3>1. CASE t = id
        BY <2>1, <2>2, <2>3, <3>1 DEF Following, SnapshotTrue
    <3>2. CASE t # id
        BY <1>2, <2>1, <2>2, <2>3, <3>2 DEF Following, SnapshotTrue
    <3>. QED BY <3>1, <3>2
  <2>. HIDE DEF id
  <2>5. \A t \in Threads :
          /\ status'[t] \in {status[t], snap.status[t], NotLoaded}
          /\ \/ snap'.status[t] \in {snap.status[t], NotLoaded}
             \/ reply.kind = "read" /\ reply.id = t /\ reply.after = 0
      BY <1>1, <2>1, <2>2 DEF id
  <2>. QED BY <1>1, <1>2, <2>2, <2>3, <2>4, <2>5, FollowingLocal
<1>6. CASE RereadDirty
  <2>1. /\ reply' = reply /\ pc = "install" /\ pc' = "reading"
        /\ snap'.hidden = snap.hidden /\ snap'.status = snap.status
        /\ snap'.todo = dirty /\ dirty' = {}
      BY <1>6 DEF RereadDirty, daemonVars, SnapType
  <2>2. reply' = NoReply /\ snap.todo = {}
      BY <2>1, NoAnswerDue DEF Following, Replies
  <2>3. \A t \in Followed :
          \/ t \in snap'.todo \cup dirty'
          \/ Quiet(wire, t, 0) => snap'.status[t] \in {dStatus[t], NotLoaded}
      BY <2>1, <2>2 DEF Following, SnapshotTrue
  <2>. QED BY <1>1, <1>2, <2>1, <2>2, <2>3, FollowingLocal
<1>. QED BY <1>3, <1>4, <1>5, <1>6

\* The finished snapshot's statuses become the runtime's.
LEMMA FollowingInstall ==
    ASSUME TypeOK, Phase, Following, InstallSnapshot
    PROVE  Following'
<1>1. /\ UNCHANGED <<dStore, dStatus, wire, reply, connected>>
      /\ pc = "install" /\ pc' = "serve" /\ dirty = {} /\ snap' = EmptySnap
      /\ status' = [t \in Threads |->
                      IF t \in hidden' THEN NotLoaded ELSE snap.status[t]]
    BY DEF InstallSnapshot, daemonVars
<1>2. reply = NoReply /\ snap.todo = {} /\ connected
    BY <1>1, NoAnswerDue DEF Following, Replies, Phase
<1>3. hidden \cup snap.hidden \subseteq HiddenThreads
    BY DEF Following, HiddenKnown
<1>4. hidden' \subseteq HiddenThreads
  <2>1. InstallCatalog(snap.seq, snap.threads,
                       SnapshotStarted(hidden \cup snap.hidden), NoneClosed,
                       hidden \cup snap.hidden)
      BY DEF InstallSnapshot
  <2>. QED BY <1>3, <2>1 DEF InstallCatalog
<1>5. \A t \in Threads : AllNotLoaded[t] = NotLoaded
    BY DEF AllNotLoaded
<1>6. \A t \in Threads :
        /\ status'[t] \in {status[t], snap.status[t], NotLoaded}
        /\ snap'.status[t] \in {snap.status[t], NotLoaded}
    BY <1>1, <1>5, EmptySnapIs
<1>7. live' => \A t \in Followed :
          Quiet(wire, t, 0) => status'[t] \in {dStatus[t], NotLoaded}
  <2>1. \A t \in Followed : t \in Threads
      BY DEF Followed
  <2>. QED BY <1>1, <1>2, <2>1 DEF Following, SnapshotTrue
<1>8. snap'.hidden = {}
    BY <1>1, EmptySnapIs
<1>. QED BY <1>1, <1>2, <1>4, <1>6, <1>7, <1>8, FollowingLocal

\* A catalog may only drop statuses.
LEMMA StatusKeptIs ==
    ASSUME NEW seq, NEW threads, status' = StatusKept(seq, threads)
    PROVE  \A t \in Threads : status'[t] \in {status[t], NotLoaded}
    BY DEF StatusKept

\* Catalogs of re-reads and of Lists, however late.
LEMMA FollowingCatalog ==
    ASSUME TypeOK, Phase, Following,
           InstallResync \/ \E c \in ListCalls : ListStep(c)
    PROVE  Following'
<1>1. hidden \subseteq HiddenThreads
    BY DEF Following, HiddenKnown
<1>2. CASE InstallResync
  <2>1. /\ UNCHANGED <<dStore, dStatus, wire, connected, live, dirty>>
        /\ pc = "resync" /\ pc' = "serve" /\ reply' = NoReply
        /\ snap' = EmptySnap /\ status' = StatusKept(snap.seq, reply.names)
        /\ InstallCatalog(snap.seq, reply.names, started, closedStarted, hidden)
      BY <1>2 DEF InstallResync, linkVars
  <2>2. hidden' \subseteq HiddenThreads
      BY <1>1, <2>1 DEF InstallCatalog
  <2>3. \A t \in Threads : status'[t] \in {status[t], NotLoaded}
      BY <2>1, StatusKeptIs
  <2>4. connected
      BY <2>1 DEF Phase
  <2>5. snap'.hidden = {} /\ \A t \in Threads : snap'.status[t] = NotLoaded
      BY <2>1, EmptySnapIs DEF AllNotLoaded
  <2>6. live' => \A t \in Followed :
          Quiet(wire, t, 0) => status'[t] \in {dStatus[t], NotLoaded}
    <3>1. \A t \in Followed : t \in Threads
        BY DEF Followed
    <3>. QED BY <2>1, <2>3, <3>1 DEF Following, StatusTrue
  <2>. QED BY <2>1, <2>2, <2>3, <2>4, <2>5, <2>6, FollowingLocal
<1>3. ASSUME NEW c \in ListCalls, ListStep(c)
      PROVE  Following'
  <2>1. UNCHANGED <<dStore, dStatus, wire, reply, connected, pc, live, dirty, snap>>
      BY <1>3 DEF ListStep, BeginList, AnswerList, FailList, InstallList,
         ListUnchanged, daemonVars, linkVars
  <2>2. CASE UNCHANGED <<status, hidden>>
      BY <1>1, <2>1, <2>2, FollowingFrame
  <2>3. CASE InstallList(c)
    <3>1. /\ status' = StatusKept(lists[c].seq, lists[c].threads)
          /\ InstallCatalog(lists[c].seq, lists[c].threads, started,
                            closedStarted, hidden)
        BY <2>3 DEF InstallList
    <3>2. hidden' \subseteq HiddenThreads
        BY <1>1, <3>1 DEF InstallCatalog
    <3>3. \A t \in Threads : status'[t] \in {status[t], NotLoaded}
        BY <3>1, StatusKeptIs
    <3>. QED BY <2>1, <3>2, <3>3, FollowingFrame
  <2>. QED BY <1>3, <2>2, <2>3 DEF ListStep, BeginList, AnswerList, FailList
<1>. QED BY <1>2, <1>3

LEMMA FollowingInit == Init => Following
<1>. SUFFICES ASSUME Init PROVE Following
    OBVIOUS
<1>1. /\ wire = <<>> /\ reply = NoReply /\ reply.kind = "none" /\ ~live
      /\ pc = "stopped" /\ hidden = {} /\ snap = EmptySnap
      /\ status = AllNotLoaded
      /\ \A t \in Threads : AllNotLoaded[t] = NotLoaded
    BY DEF Init, DaemonInit, RuntimeInit, NoReply, AllNotLoaded
<1>2. \A t : LastTold(<<>>, t, dStatus[t]) /\ Quiet(<<>>, t, 0)
    BY DEF LastTold, Quiet
<1>3. LoadedKept
    BY DEF Init, DaemonInit, LoadedKept, NotLoaded
<1>4. LinkTruth /\ Replies /\ HiddenKnown /\ FirstTold /\ SnapshotTrue /\ StatusTrue
    BY <1>1, <1>2, EmptySnapIs
    DEF LinkTruth, Replies, HiddenKnown, FirstTold, SnapshotTrue, StatusTrue
<1>. QED BY <1>3, <1>4 DEF Following

LEMMA FollowingStep == TypeOK /\ Phase /\ Following /\ [Next]_vars => Following'
<1>. SUFFICES ASSUME TypeOK, Phase, Following, [Next]_vars
              PROVE  Following'
    OBVIOUS
<1>1. CASE DaemonEvent /\ UNCHANGED runtimeVars
    BY <1>1, FollowingDaemon
<1>2. CASE HandleNotification
    BY <1>2, FollowingHandled
<1>3. CASE AnswerRequest
    BY <1>3, FollowingAnswer
<1>4. CASE RunStep
  <2>1. CASE SnapshotFails
      BY <2>1, FollowingDisconnected DEF SnapshotFails
  <2>. QED BY <1>4, <2>1, FollowingBegin, FollowingSnapshot, FollowingInstall,
              FollowingCatalog DEF RunStep
<1>5. CASE ConnectFails \/ ConnectionLost \/ StopLifecycle
  <2>1. pc' \in {"stopped", "backoff"}
      BY <1>5 DEF ConnectFails, ConnectionLost, StopLifecycle
  <2>. QED BY <1>5, <2>1, FollowingDisconnected
           DEF ConnectFails, ConnectionLost, StopLifecycle
<1>6. CASE StartLifecycle
    BY <1>6, FollowingStart
<1>7. CASE UNCHANGED vars \/ Publish \/ HintStep
  <2>1. UNCHANGED <<dStore, dStatus, wire, reply, connected, pc, live, dirty,
                    snap, hidden, status>>
      BY <1>7 DEF vars, runtimeVars, daemonVars, linkVars, Publish, HintStep,
         RememberActiveTurn, ForgetActiveTurn, HintsOnly
  <2>2. hidden' \subseteq HiddenThreads
      BY <2>1 DEF Following, HiddenKnown
  <2>. QED BY <2>1, <2>2, FollowingFrame
<1>. QED BY <1>1, <1>2, <1>3, <1>4, <1>5, <1>6, <1>7, FollowingCatalog DEF Next

LEMMA FollowingAlways == Spec => []Following
    BY InitType, NextType, PhaseInit, PhaseStep, FollowingInit, FollowingStep,
       PTL DEF Spec

\* However the Lists, the reader, reconnects and unarchives interleave: with
\* every notification handled, a live runtime shows each thread the daemon
\* runs its status or none, never another one.
THEOREM NoWrongStatusAlways == Spec => []NoWrongStatus
<1>1. Following => NoWrongStatus
  <2>. SUFFICES ASSUME Following, live, wire = <<>>,
                       NEW t \in Loaded \ HiddenThreads
                PROVE  status[t] \in {dStatus[t], NotLoaded}
      BY DEF NoWrongStatus
  <2>1. t \in Followed
      BY DEF Loaded, Followed, Removed, Following, LoadedKept
  <2>2. Quiet(wire, t, 0)
      BY DEF Quiet
  <2>. QED BY <2>1, <2>2 DEF Following, StatusTrue
<1>. QED BY <1>1, FollowingAlways, PTL

\* Where nothing is unarchived, no thread is shown a wrong status, the
\* finished ones included: Lists alone never keep a status alive.
THEOREM ListsOnlyDropStatuses ==
    ASSUME "unarchive" \notin Kinds
    PROVE  Spec => [](live /\ wire = <<>> =>
                        \A t \in Threads \ HiddenThreads :
                            ~Removed(t) => status[t] \in {dStatus[t], NotLoaded})
<1>. DEFINE Shown ==
        live /\ wire = <<>> =>
            \A t \in Threads \ HiddenThreads :
                ~Removed(t) => status[t] \in {dStatus[t], NotLoaded}
<1>1. Following => Shown
  <2>. SUFFICES ASSUME Following, live, wire = <<>>,
                       NEW t \in Threads \ HiddenThreads, ~Removed(t)
                PROVE  status[t] \in {dStatus[t], NotLoaded}
      OBVIOUS
  <2>1. t \in Followed /\ Quiet(wire, t, 0)
      BY DEF Followed, Quiet
  <2>. QED BY <2>1 DEF Following, StatusTrue
<1>. QED BY <1>1, FollowingAlways, PTL
=============================================================================
