----------------------------- MODULE LocalState -----------------------------
(***************************************************************************)
(* state.json (internal/localstate): the pins, the Claude archive overlay, *)
(* the names left over from older builds and the known creation times of   *)
(* Claude sessions.  Any goroutine of any agentsctl process changes it by  *)
(* a read-modify-write under an exclusive file lock; what it promises is   *)
(* AtomicStore, a file that changes by one whole operation at a time.      *)
(* The ChatGPT catalogs in the same file are modelled in ChatGPTRefresh.   *)
(***************************************************************************)
EXTENDS FiniteSets

CONSTANTS Ids,        \* session IDs
          Times,      \* creation times
          Unknown,    \* no time is recorded
          Clients     \* goroutines, of whatever process, that use the store

ASSUME TimesAssumption == Unknown \notin Times

VARIABLES file,   \* what state.json holds
          txn     \* per client: the open read-modify-write, if any

TimeMap == [Ids -> Times \cup {Unknown}]

Data == [pinned : SUBSET Ids, archived : SUBSET Ids, names : SUBSET Ids,
         createdAt : TimeMap]

NoTimes == [i \in Ids |-> Unknown]

(* A file as an older build may have left it: only the names matter.        *)
InitialFile == [pinned : {{}}, archived : {{}}, names : SUBSET Ids, createdAt : {NoTimes}]

Ops == [do : {"toggle", "archive", "unarchive", "clearName"}, id : Ids]
         \cup [do : {"migrate"}, from : Ids, to : Ids]
         \cup [do : {"sync"}, authoritative : TimeMap, catalog : SUBSET Ids]

Flip(S, i) == IF i \in S THEN S \ {i} ELSE S \cup {i}

Migrated(S, from, to) == IF from \in S THEN (S \ {from}) \cup {to} ELSE S

Synced(known, authoritative, catalog) ==
    [i \in Ids |-> IF authoritative[i] # Unknown THEN authoritative[i]
                   ELSE IF i \in catalog THEN known[i] ELSE Unknown]

Apply(op, d) ==
    CASE op.do = "toggle"    -> [d EXCEPT !.pinned = Flip(@, op.id)]
      [] op.do = "migrate"   -> [d EXCEPT !.pinned = Migrated(@, op.from, op.to)]
      [] op.do = "archive"   -> [d EXCEPT !.archived = @ \cup {op.id}]
      [] op.do = "unarchive" -> [d EXCEPT !.archived = @ \ {op.id}]
      [] op.do = "clearName" -> [d EXCEPT !.names = @ \ {op.id}]
      [] op.do = "sync"      -> [d EXCEPT !.createdAt =
                                     Synced(@, op.authoritative, op.catalog)]

(* The store's promise: whatever runs at once, the file changes by one     *)
(* operation applied to what the operations before it left.                *)
AtomicStore == file \in InitialFile /\ [][\E op \in Ops : file' = Apply(op, file)]_file

----------------------------------------------------------------------------
NoTxn == <<>>

MutNobodyWaits == TRUE

(* LOCK_EX, and LOCK_SH for a view, wait for every other holder.            *)
Unlocked == \A c \in Clients : txn[c] = NoTxn

StoreInit == file \in InitialFile /\ txn = [c \in Clients |-> NoTxn]

(* lock, load                                                              *)
Begin(c, op) ==
    /\ Unlocked
    /\ txn' = [txn EXCEPT ![c] = <<op, file>>]
    /\ UNCHANGED file

Unlock(c) == [txn EXCEPT ![c] = NoTxn]

(* fn, save, unlock                                                        *)
Commit(c) ==
    /\ txn[c] # NoTxn
    /\ file' = Apply(txn[c][1], txn[c][2])
    /\ txn' = Unlock(c)

(* The file is replaced by a rename only after all of it was written, so a *)
(* save that fails leaves it as it was.                                    *)
Abort(c) ==
    /\ txn[c] # NoTxn
    /\ txn' = Unlock(c)
    /\ UNCHANGED file

(* A process dies: the kernel drops its lock, a temporary file stays.       *)
Dies(dying) ==
    /\ txn' = [c \in Clients |-> IF c \in dying THEN NoTxn ELSE txn[c]]
    /\ UNCHANGED file

StoreNext ==
    \/ \E c \in Clients, op \in Ops : Begin(c, op)
    \/ \E c \in Clients : Commit(c) \/ Abort(c)
    \/ \E dying \in SUBSET Clients : Dies(dying)

StoreSpec == StoreInit /\ [][StoreNext]_<<file, txn>>

StoreTypeOK ==
    /\ file \in Data
    /\ \A c \in Clients : txn[c] # NoTxn => txn[c] \in Ops \X Data
=============================================================================
