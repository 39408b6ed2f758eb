---------------------------- MODULE ClaudeCatalog ----------------------------
(***************************************************************************)
(* Claude's session catalog as agentsctl shows it: Provider.List reads the *)
(* native catalog with `claude agents`, then the archive overlay, then the *)
(* known creation times, which it brings up to date, in four separate      *)
(* steps.  Lists overlap (reload cycles supersede each other without       *)
(* waiting), other agentsctl processes write the same state.json, and the  *)
(* sessions meanwhile start, finish, are attached to and are removed.      *)
(*                                                                         *)
(* A row's startedAt is the session's creation time while it has no        *)
(* process, and else that process's start.  Names are in ClaudeAttach, the *)
(* probe's own rows in ClaudeUsageProbe.                                   *)
(***************************************************************************)
EXTENDS LocalState

CONSTANTS Activities, \* of sessions: working, done, failed
          Lists,      \* calls of Provider.List, one after another in each
          Users,      \* users of Agent Views, who archive and pin
          Mortal      \* clients whose process may be killed

ASSUME CatalogAssumption ==
    /\ Activities \subseteq {"working", "done", "failed"}
    /\ Clients = Lists \cup Users /\ Lists \cap Users = {}
    /\ Times = {"created", "process"}
    /\ Mortal \subseteq Users

VARIABLES native,    \* Claude's sessions
          list,      \* per List: where it is and its locals
          rows,      \* the rows the last List returned, as Agent View holds them
          quiet      \* history: Lists with which nothing interfered so far

vars == <<file, txn, native, list, rows, quiet>>
store == <<file, txn>>

----------------------------------------------------------------------------
(* Claude's side.  A finished session may keep its process or get one anew *)
(* when somebody attaches to it, and a prompt sets it to work again.        *)
Row(activity, pid) == [activity |-> activity, pid |-> pid]
Absent == Row("absent", FALSE)     \* not dispatched yet
Gone   == Row("removed", FALSE)    \* `claude rm`
NativeRows == [activity : Activities, pid : BOOLEAN]
Catalog == {i \in Ids : native[i] \in NativeRows}

StartedAt(row) == IF row.pid THEN "process" ELSE "created"

(* `claude --bg`, from Dispatch or a shell.                                 *)
Dispatch(i) ==
    /\ native[i] = Absent
    /\ native' = [native EXCEPT ![i] = Row("working", TRUE)]

(* Claude ends a turn, or an attached user begins one.                      *)
Works(i) ==
    /\ i \in Catalog /\ native[i].pid
    /\ \E a \in Activities \ {native[i].activity} :
          native' = [native EXCEPT ![i].activity = a]

Attached(i) ==
    /\ i \in Catalog /\ ~native[i].pid
    /\ native' = [native EXCEPT ![i].pid = TRUE]

(* The process ends by itself, or by `claude stop`.                         *)
Exits(i) ==
    /\ i \in Catalog /\ native[i].pid
    /\ native' = [native EXCEPT ![i] =
                     Row(IF @.activity = "working" THEN "done" ELSE @.activity, FALSE)]

Removed(i) ==
    /\ i \in Catalog /\ ~native[i].pid
    /\ native' = [native EXCEPT ![i] = Gone]

Claude == /\ \E i \in Ids : Dispatch(i) \/ Works(i) \/ Attached(i) \/ Exits(i) \/ Removed(i)
          /\ UNCHANGED <<store, list, rows, quiet>>

----------------------------------------------------------------------------
(* What List makes of a native row.                                         *)
Runtime(row) == IF row.activity \in {"done", "failed"} THEN "stopped" ELSE "detached"

Actions(row) ==
    (IF Runtime(row) = "detached" \/ row.activity = "done" THEN {"open"} ELSE {})
      \cup (IF Runtime(row) = "detached" THEN {"stop"} ELSE {"archive"})

(* knownCreatedAt: only a row without a process is authoritative.          *)
Authoritative(cat) ==
    [i \in Ids |-> IF cat[i] \in NativeRows /\ ~cat[i].pid THEN StartedAt(cat[i])
                   ELSE Unknown]

Present(cat) == {i \in Ids : cat[i] \in NativeRows}

SyncOp(cat) == [do |-> "sync", authoritative |-> Authoritative(cat), catalog |-> Present(cat)]

KnownAfter(known, cat) == Synced(known, Authoritative(cat), Present(cat))

CreatedAt(known, i, row) == IF known[i] # Unknown THEN known[i] ELSE StartedAt(row)

NoRow == [activity |-> "none", created |-> Unknown]
ShownRow(row, created) == [activity |-> row.activity, created |-> created]

MutOverlayForgotten(cat, archived, known) ==
    [i \in Ids |-> IF cat[i] \in NativeRows
                   THEN ShownRow(cat[i], CreatedAt(known, i, cat[i])) ELSE NoRow]

(* List(ctx, false): the archived rows are left out.                        *)
ListedRows(cat, archived, known) ==
    [i \in Ids |-> IF cat[i] \in NativeRows /\ i \notin archived
                   THEN ShownRow(cat[i], CreatedAt(known, i, cat[i])) ELSE NoRow]

----------------------------------------------------------------------------
Idle == [at |-> "idle"]

(* A List is quiet as long as no other List overlaps it and no access of   *)
(* its to the store fails.                                                  *)
Disturbed(l) == IF \A m \in Lists \ {l} : list[m] = Idle THEN quiet \cup {l} ELSE {}

(* `claude agents --json --all` answers.                                    *)
RunAgents(l) ==
    /\ list[l] = Idle
    /\ list' = [list EXCEPT ![l] =
                   [at |-> "overlay", cat |-> native, blind |-> FALSE, known |-> NoTimes,
                    archived |-> {}, hidden |-> file.archived]]
    /\ quiet' = Disturbed(l)
    /\ UNCHANGED <<store, native, rows>>

(* Store.ClaudeState; its error is ignored.                                 *)
ReadOverlay(l) ==
    /\ list[l].at = "overlay"
    /\ \/ /\ Unlocked
          /\ list' = [list EXCEPT ![l].at = "times", ![l].archived = file.archived]
          /\ UNCHANGED quiet
       \/ /\ list' = [list EXCEPT ![l].at = "times", ![l].blind = TRUE]
          /\ quiet' = quiet \ {l}
    /\ UNCHANGED <<store, native, rows>>

MutForgettingIsNoChange(known, cat) ==
    \E i \in Ids : Authoritative(cat)[i] \notin {Unknown, known[i]}

Changed(known, cat) == KnownAfter(known, cat) # known

(* Store.ClaudeCreatedAt, and what the listing changes of it.               *)
ReadTimes(l) ==
    /\ list[l].at = "times"
    /\ \/ /\ Unlocked
          /\ list' = [list EXCEPT
                        ![l].at = IF Changed(file.createdAt, list[l].cat) THEN "sync" ELSE "rows",
                        ![l].known = KnownAfter(file.createdAt, list[l].cat)]
          /\ UNCHANGED quiet
       \/ /\ list' = [list EXCEPT ![l].at = "rows"]
          /\ quiet' = quiet \ {l}
    /\ UNCHANGED <<store, native, rows>>

(* Store.SyncClaudeCreatedAt; its error is ignored.                         *)
BeginSync(l) ==
    /\ list[l].at = "sync" /\ txn[l] = NoTxn
    /\ Begin(l, SyncOp(list[l].cat))
    /\ UNCHANGED <<native, list, rows, quiet>>

EndSync(l) ==
    /\ list[l].at = "sync"
    /\ \/ Commit(l) /\ UNCHANGED quiet
       \/ Abort(l) /\ quiet' = quiet \ {l}
    /\ list' = [list EXCEPT ![l].at = "rows"]
    /\ UNCHANGED <<native, rows>>

Return(l) ==
    /\ list[l].at = "rows"
    /\ rows' = ListedRows(list[l].cat, list[l].archived, list[l].known)
    /\ list' = [list EXCEPT ![l] = Idle]
    /\ quiet' = quiet \ {l}
    /\ UNCHANGED <<store, native>>

----------------------------------------------------------------------------
(* Agent View: what a user may do with a row is decided by the row.         *)
Archive(u, i) ==
    /\ rows[i] # NoRow /\ "archive" \in Actions(rows[i])
    /\ Begin(u, [do |-> "archive", id |-> i])
    /\ UNCHANGED <<native, list, rows, quiet>>

TogglePin(u, i) ==
    /\ rows[i] # NoRow
    /\ Begin(u, [do |-> "toggle", id |-> i])
    /\ UNCHANGED <<native, list, rows, quiet>>

UserDone(u) ==
    /\ Commit(u) \/ Abort(u)
    /\ UNCHANGED <<native, list, rows, quiet>>

Crash(u) ==
    /\ u \in Mortal /\ txn[u] # NoTxn
    /\ Dies({u})
    /\ UNCHANGED <<native, list, rows, quiet>>

----------------------------------------------------------------------------
Init ==
    /\ StoreInit /\ file.names = {}
    /\ native = [i \in Ids |-> Absent]
    /\ list = [l \in Lists |-> Idle]
    /\ rows = [i \in Ids |-> NoRow]
    /\ quiet = {}

ListStep(l) == ReadOverlay(l) \/ ReadTimes(l) \/ BeginSync(l) \/ EndSync(l) \/ Return(l)

Next ==
    \/ Claude
    \/ \E l \in Lists : RunAgents(l) \/ ListStep(l)
    \/ \E u \in Users, i \in Ids : Archive(u, i) \/ TogglePin(u, i)
    \/ \E u \in Users : UserDone(u) \/ Crash(u)

Spec == Init /\ [][Next]_vars

----------------------------------------------------------------------------
TypeOK ==
    /\ StoreTypeOK
    /\ native \in [Ids -> NativeRows \cup {Absent, Gone}]
    /\ \A l \in Lists : list[l].at \in {"idle", "overlay", "times", "sync", "rows"}
    /\ \A i \in Ids : rows[i] # NoRow => rows[i].created \in Times
    /\ quiet \subseteq Lists

(* A List that ran alone leaves the known times as its listing has them:   *)
(* every stopped session recorded, every removed one forgotten, so what an *)
(* interleaving got wrong heals with the next one.                          *)
QuietListHeals ==
    [][\A l \in Lists : Return(l) /\ l \in quiet =>
          \A i \in Ids :
             /\ (i \notin Present(list[l].cat)) => file.createdAt[i] = Unknown
             /\ (Authoritative(list[l].cat)[i] # Unknown) => file.createdAt[i] = "created"]_vars

(* A session archived before a List began is not among the rows it returns,*)
(* unless it could not read the overlay.                                    *)
ArchivedStaysHidden ==
    [][\A l \in Lists : Return(l) /\ ~list[l].blind =>
          \A i \in list[l].hidden : rows'[i] = NoRow]_vars
=============================================================================
