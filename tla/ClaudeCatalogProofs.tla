------------------------- MODULE ClaudeCatalogProofs -------------------------
(***************************************************************************)
(* For any clients, sessions and times: the locked read-modify-write of    *)
(* LocalState implements the atomic store it promises; and what overlapping *)
(* Lists, users and crashes make of that store keeps an archived session    *)
(* out of every List that began after it was archived, and lets a List      *)
(* that runs alone leave the known creation times right.                    *)
(***************************************************************************)
EXTENDS ClaudeCatalog, TLAPS

----------------------------------------------------------------------------
(* The store, whoever uses it.                                              *)
(* Whoever has a transaction open has it alone, on the file as it is.       *)
OneTransaction ==
    \A c \in Clients : txn[c] # NoTxn =>
        /\ txn[c] = <<txn[c][1], file>>
        /\ txn[c][1] \in Ops
        /\ \A d \in Clients : txn[d] # NoTxn => d = c

StoreInv ==
    /\ file \in Data
    /\ txn \in [Clients -> {NoTxn} \cup (Ops \X Data)]
    /\ OneTransaction

(* What an operation makes of a well-formed file is one again.              *)
LEMMA ApplyType == \A op \in Ops, d \in Data : Apply(op, d) \in Data
<1> SUFFICES ASSUME NEW op \in Ops, NEW d \in Data PROVE Apply(op, d) \in Data
    OBVIOUS
<1>1. CASE op.do = "toggle"
    <2>1. op \in [do : {"toggle", "archive", "unarchive", "clearName"}, id : Ids]
        BY <1>1 DEF Ops
    <2>2. Flip(d.pinned, op.id) \in SUBSET Ids
        BY <2>1 DEF Data, Flip
    <2> QED  BY <1>1, <2>2 DEF Data, Apply
<1>2. CASE op.do = "archive"
    <2>1. op.id \in Ids
        BY <1>2 DEF Ops
    <2> QED  BY <1>2, <2>1 DEF Data, Apply
<1>3. CASE op.do = "unarchive"
    BY <1>3 DEF Data, Apply
<1>4. CASE op.do = "clearName"
    BY <1>4 DEF Data, Apply
<1>5. CASE op.do = "migrate"
    <2>1. op.from \in Ids /\ op.to \in Ids
        BY <1>5 DEF Ops
    <2>2. Migrated(d.pinned, op.from, op.to) \in SUBSET Ids
        BY <2>1 DEF Data, Migrated
    <2> QED  BY <1>5, <2>2 DEF Data, Apply
<1>6. CASE op.do = "sync"
    <2>1. op.authoritative \in TimeMap
        BY <1>6 DEF Ops
    <2>2. d.createdAt \in TimeMap
        BY DEF Data
    <2>3. Synced(d.createdAt, op.authoritative, op.catalog) \in TimeMap
        BY <2>1, <2>2 DEF Synced, TimeMap
    <2> QED  BY <1>6, <2>3 DEF Data, Apply
<1> QED  BY <1>1, <1>2, <1>3, <1>4, <1>5, <1>6 DEF Ops

LEMMA InitStore == StoreInit => StoreInv
<1> SUFFICES ASSUME StoreInit PROVE StoreInv
    OBVIOUS
<1>1. file \in Data
    <2>1. NoTimes \in TimeMap
        BY DEF NoTimes, TimeMap
    <2> QED  BY <2>1 DEF StoreInit, InitialFile, Data
<1> QED  BY <1>1 DEF StoreInit, StoreInv, OneTransaction

(* Each step keeps the invariant, and is a step of the atomic store.        *)
LEMMA StepStore ==
    ASSUME StoreInv, [StoreNext]_<<file, txn>>
    PROVE  /\ StoreInv'
           /\ file' # file => \E op \in Ops : file' = Apply(op, file)
<1>1. CASE UNCHANGED <<file, txn>>
    BY <1>1 DEF StoreInv, OneTransaction
<1>2. ASSUME NEW c \in Clients, NEW op \in Ops, Begin(c, op)
      PROVE  StoreInv' /\ file' = file
    <2>1. file' = file /\ txn' = [txn EXCEPT ![c] = <<op, file>>] /\ \A d \in Clients : txn[d] = NoTxn
        BY <1>2 DEF Begin, Unlocked
    <2>2. txn' \in [Clients -> {NoTxn} \cup (Ops \X Data)]
        BY <2>1 DEF StoreInv
    <2>3. OneTransaction'
        BY <2>1, <2>2 DEF OneTransaction, StoreInv
    <2> QED  BY <2>1, <2>2, <2>3 DEF StoreInv
<1>3. ASSUME NEW c \in Clients, Commit(c)
      PROVE  StoreInv' /\ \E op \in Ops : file' = Apply(op, file)
    <2>1. txn[c][1] \in Ops /\ txn[c][2] = file /\ file \in Data
        BY <1>3 DEF Commit, StoreInv, OneTransaction
    <2>2. file' = Apply(txn[c][1], file) /\ txn' = [txn EXCEPT ![c] = NoTxn]
        BY <1>3, <2>1 DEF Commit, Unlock
    <2>3. file' \in Data
        BY <2>1, <2>2, ApplyType
    <2>4. \A d \in Clients : txn'[d] = NoTxn
        BY <1>3, <2>2 DEF Commit, StoreInv, OneTransaction
    <2>5. txn' \in [Clients -> {NoTxn} \cup (Ops \X Data)]
        BY <2>2 DEF StoreInv
    <2> QED  BY <2>1, <2>2, <2>3, <2>4, <2>5 DEF StoreInv, OneTransaction
<1>4. ASSUME NEW c \in Clients, Abort(c)
      PROVE  StoreInv' /\ file' = file
    BY <1>4 DEF Abort, Unlock, StoreInv, OneTransaction
<1>5. ASSUME NEW dying \in SUBSET Clients, Dies(dying)
      PROVE  StoreInv' /\ file' = file
    BY <1>5 DEF Dies, StoreInv, OneTransaction
<1> QED  BY <1>1, <1>2, <1>3, <1>4, <1>5 DEF StoreNext

(* state.json stays well formed.                                            *)
THEOREM StoreTyped == StoreSpec => []StoreTypeOK
<1>1. StoreInit => StoreInv
    BY InitStore
<1>2. StoreInv /\ [StoreNext]_<<file, txn>> => StoreInv'
    BY StepStore
<1>3. StoreInv => StoreTypeOK
    BY DEF StoreInv, StoreTypeOK
<1> QED  BY <1>1, <1>2, <1>3, PTL DEF StoreSpec

(* The store changes by whole operations, each applied to what those       *)
(* before it left: no process's change is lost to another's.                *)
THEOREM StoreIsAtomic == StoreSpec => AtomicStore
<1>1. StoreInit => StoreInv
    BY InitStore
<1>2. StoreInv /\ [StoreNext]_<<file, txn>> => StoreInv'
    BY StepStore
<1>3. StoreInv /\ [StoreNext]_<<file, txn>> => [\E op \in Ops : file' = Apply(op, file)]_file
    BY StepStore
<1>4. StoreInit => file \in InitialFile
    BY DEF StoreInit
<1> QED  BY <1>1, <1>2, <1>3, <1>4, PTL DEF StoreSpec, AtomicStore

----------------------------------------------------------------------------
(* The catalog and its Lists.                                               *)
Fields == {"at", "cat", "blind", "known", "archived", "hidden"}

(* A List's place, and the one transaction it may have open.                *)
Cycle(l) ==
    /\ \/ list[l] = Idle
       \/ DOMAIN list[l] = Fields /\ list[l].at \in {"overlay", "times", "sync", "rows"}
    /\ txn[l] # NoTxn => list[l].at = "sync" /\ txn[l][1] = SyncOp(list[l].cat)

(* What was archived when a List began is archived when it reads the       *)
(* overlay, and is in what it has read.                                     *)
Overlaid(l) ==
    /\ list[l] # Idle => list[l].hidden \subseteq Ids /\ list[l].blind \in BOOLEAN
    /\ list[l].at = "overlay" => ~list[l].blind /\ list[l].hidden \subseteq file.archived
    /\ list[l].at \in {"times", "sync", "rows"} /\ ~list[l].blind =>
          list[l].hidden \subseteq list[l].archived

Alone(l) == list[l] # Idle /\ \A m \in Lists \ {l} : list[m] = Idle

(* Nothing is left to synchronise when a quiet List is about to return.     *)
Settled(l) ==
    l \in quiet =>
        /\ Alone(l)
        /\ list[l].at = "rows" => KnownAfter(file.createdAt, list[l].cat) = file.createdAt

UserOp(u) == txn[u] # NoTxn => txn[u][1].do \in {"archive", "toggle"}

CatalogInv ==
    /\ DOMAIN list = Lists /\ quiet \subseteq Lists
    /\ \A l \in Lists : Cycle(l) /\ Overlaid(l) /\ Settled(l)
    /\ \A u \in Users : UserOp(u)

LEMMA SyncOpIsOp == ASSUME NEW cat PROVE SyncOp(cat) \in Ops
<1>1. Authoritative(cat) \in TimeMap
    BY CatalogAssumption DEF Authoritative, TimeMap, StartedAt
<1>2. Present(cat) \in SUBSET Ids
    BY DEF Present
<1> QED  BY <1>1, <1>2 DEF SyncOp, Ops

(* Lists and users reach the file through the store's operations only.      *)
LEMMA StoreUse == [Next]_vars => [StoreNext]_<<file, txn>>
<1> SUFFICES ASSUME [Next]_vars PROVE [StoreNext]_<<file, txn>>
    OBVIOUS
<1> USE CatalogAssumption DEF store
<1>1. CASE UNCHANGED <<file, txn>>
    BY <1>1
<1>2. CASE Claude
    BY <1>2 DEF Claude
<1>3. ASSUME NEW l \in Lists, RunAgents(l) \/ ListStep(l)
      PROVE  [StoreNext]_<<file, txn>>
    <2>1. CASE RunAgents(l) \/ ReadOverlay(l) \/ ReadTimes(l) \/ Return(l)
        BY <2>1 DEF RunAgents, ReadOverlay, ReadTimes, Return
    <2>2. CASE BeginSync(l)
        <3>1. Begin(l, SyncOp(list[l].cat))
            BY <2>2 DEF BeginSync
        <3> QED  BY <3>1, SyncOpIsOp DEF StoreNext
    <2>3. CASE EndSync(l)
        BY <2>3 DEF EndSync, StoreNext
    <2> QED  BY <1>3, <2>1, <2>2, <2>3 DEF ListStep
<1>4. ASSUME NEW u \in Users, NEW i \in Ids, Archive(u, i) \/ TogglePin(u, i)
      PROVE  [StoreNext]_<<file, txn>>
    <2>1. /\ [do |-> "archive", id |-> i] \in Ops
          /\ [do |-> "toggle", id |-> i] \in Ops
        BY DEF Ops
    <2> QED  BY <1>4, <2>1 DEF Archive, TogglePin, StoreNext
<1>5. ASSUME NEW u \in Users, UserDone(u) \/ Crash(u)
      PROVE  [StoreNext]_<<file, txn>>
    BY <1>5 DEF UserDone, Crash, StoreNext
<1>6. CASE UNCHANGED vars
    BY <1>1, <1>6 DEF vars
<1> QED  BY <1>2, <1>3, <1>4, <1>5, <1>6 DEF Next

(* The catalog's processes are clients the store was specified for.         *)
THEOREM CatalogUsesStore == Spec => StoreSpec
<1>1. Init => StoreInit
    BY DEF Init
<1> QED  BY <1>1, StoreUse, PTL DEF Spec, StoreSpec

THEOREM CatalogIsAtomic == Spec => AtomicStore
<1> QED  BY CatalogUsesStore, StoreIsAtomic

LEMMA StoreInvAlways == Spec => []StoreInv
<1>1. StoreSpec => []StoreInv
    BY InitStore, StepStore, PTL DEF StoreSpec
<1> QED  BY <1>1, CatalogUsesStore

LEMMA ApplyUserOp ==
    ASSUME NEW d \in Data, NEW op \in Ops, op.do \in {"archive", "toggle"}
    PROVE  /\ d.archived \subseteq Apply(op, d).archived
           /\ Apply(op, d).createdAt = d.createdAt
<1> QED  BY DEF Apply, Data

LEMMA ApplySync ==
    ASSUME NEW d \in Data, NEW cat
    PROVE  /\ Apply(SyncOp(cat), d).archived = d.archived
           /\ Apply(SyncOp(cat), d).createdAt = KnownAfter(d.createdAt, cat)
<1> QED  BY DEF Apply, Data, SyncOp, KnownAfter

LEMMA SyncedOnce ==
    ASSUME NEW known, NEW cat
    PROVE  KnownAfter(KnownAfter(known, cat), cat) = KnownAfter(known, cat)
<1> QED  BY DEF KnownAfter, Synced

(* Lists stay where they are, the known times as they are, and nothing is  *)
(* unarchived.                                                              *)
LEMMA StoreMoves ==
    ASSUME CatalogInv, UNCHANGED <<list, quiet>>,
           file.archived \subseteq file'.archived, file'.createdAt = file.createdAt,
           \A l \in Lists : txn'[l] \in {NoTxn, txn[l]},
           \A u \in Users : UserOp(u)'
    PROVE  CatalogInv'
<1>1. ASSUME NEW l \in Lists PROVE Cycle(l)' /\ Overlaid(l)' /\ Settled(l)'
    <2>1. Cycle(l) /\ Overlaid(l) /\ Settled(l)
        BY DEF CatalogInv
    <2>2. Cycle(l)'
        BY <2>1 DEF Cycle
    <2>3. Overlaid(l)'
        BY <2>1 DEF Overlaid
    <2>4. Settled(l)'
        BY <2>1 DEF Settled, Alone
    <2> QED  BY <2>2, <2>3, <2>4
<1> QED  BY <1>1 DEF CatalogInv

(* One List moves, and nothing but what it synchronises changes in the     *)
(* store; the others are not quiet.                                         *)
LEMMA ListMoves ==
    ASSUME CatalogInv, NEW l \in Lists,
           file'.archived = file.archived,
           \A c \in Clients \ {l} : txn'[c] \in {NoTxn, txn[c]},
           DOMAIN list' = Lists, \A m \in Lists \ {l} : list'[m] = list[m],
           (quiet' \subseteq quiet /\ list[l] # Idle) \/ quiet' \subseteq {l},
           Cycle(l)', Overlaid(l)', Settled(l)'
    PROVE  CatalogInv'
<1> USE CatalogAssumption
<1>1. ASSUME NEW m \in Lists \ {l} PROVE Cycle(m)' /\ Overlaid(m)' /\ Settled(m)'
    <2>1. /\ Cycle(m) /\ Overlaid(m) /\ Settled(m) /\ list'[m] = list[m]
          /\ txn'[m] \in {NoTxn, txn[m]}
        BY DEF CatalogInv
    <2>2. Cycle(m)'
        BY <2>1 DEF Cycle
    <2>3. Overlaid(m)'
        BY <2>1 DEF Overlaid
    <2>4. m \notin quiet'
        BY <2>1 DEF Settled, Alone
    <2> QED  BY <2>2, <2>3, <2>4 DEF Settled
<1>2. ASSUME NEW u \in Users PROVE UserOp(u)'
    <2>1. UserOp(u) /\ txn'[u] \in {NoTxn, txn[u]}
        BY DEF CatalogInv
    <2> QED  BY <2>1 DEF UserOp
<1>3. quiet' \subseteq Lists
    BY DEF CatalogInv
<1> QED  BY <1>1, <1>2, <1>3 DEF CatalogInv

LEMMA CatalogUser ==
    ASSUME CatalogInv, StoreInv, NEW u \in Users,
           \/ \E i \in Ids : Archive(u, i) \/ TogglePin(u, i)
           \/ UserDone(u) \/ Crash(u)
    PROVE  CatalogInv'
<1> USE CatalogAssumption
<1>1. /\ DOMAIN txn = Clients /\ file \in Data /\ u \in Clients /\ u \notin Lists
      /\ \A v \in Users : UserOp(v)
      /\ txn[u] # NoTxn => txn[u][1] \in Ops /\ txn[u][2] = file
    BY DEF StoreInv, OneTransaction, CatalogInv
<1>2. UNCHANGED <<list, quiet>>
    BY DEF Archive, TogglePin, UserDone, Crash
<1>3. ASSUME NEW op, op.do \in {"archive", "toggle"}, Begin(u, op) PROVE CatalogInv'
    <2>1. /\ file' = file /\ txn' = [txn EXCEPT ![u] = <<op, file>>]
        BY <1>3 DEF Begin
    <2>2. ASSUME NEW v \in Users PROVE UserOp(v)'
        BY <1>1, <1>3, <2>1 DEF UserOp
    <2> QED  BY <1>1, <1>2, <2>1, <2>2, StoreMoves
<1>4. ASSUME file.archived \subseteq file'.archived, file'.createdAt = file.createdAt,
             \A c \in Clients : txn'[c] \in {NoTxn, txn[c]}
      PROVE  CatalogInv'
    <2>1. ASSUME NEW v \in Users PROVE UserOp(v)'
        BY <1>1, <1>4 DEF UserOp
    <2> QED  BY <1>2, <1>4, <2>1, StoreMoves
<1>5. CASE \E i \in Ids : Archive(u, i)
    <2>1. PICK i \in Ids : Begin(u, [do |-> "archive", id |-> i])
        BY <1>5 DEF Archive
    <2> QED  BY <1>3, <2>1
<1>6. CASE \E i \in Ids : TogglePin(u, i)
    <2>1. PICK i \in Ids : Begin(u, [do |-> "toggle", id |-> i])
        BY <1>6 DEF TogglePin
    <2> QED  BY <1>3, <2>1
<1>7. CASE Commit(u)
    <2>1. /\ txn[u] # NoTxn /\ file' = Apply(txn[u][1], file) /\ txn' = [txn EXCEPT ![u] = NoTxn]
        BY <1>1, <1>7 DEF Commit, Unlock
    <2>2. txn[u][1].do \in {"archive", "toggle"}
        BY <1>1, <2>1 DEF UserOp
    <2>3. file.archived \subseteq file'.archived /\ file'.createdAt = file.createdAt
        BY <1>1, <2>1, <2>2, ApplyUserOp
    <2> QED  BY <1>1, <1>4, <2>1, <2>3
<1>8. CASE Abort(u) \/ Dies({u})
    BY <1>1, <1>4, <1>8 DEF Abort, Unlock, Dies
<1> QED  BY <1>5, <1>6, <1>7, <1>8 DEF UserDone, Crash

(* The steps of a List that leave the store alone.                          *)
LEMMA CatalogRead ==
    ASSUME CatalogInv, StoreInv, NEW l \in Lists,
           RunAgents(l) \/ ReadOverlay(l) \/ ReadTimes(l) \/ Return(l)
    PROVE  CatalogInv'
<1> USE DEF store
<1>1. /\ DOMAIN list = Lists /\ Cycle(l) /\ Overlaid(l) /\ Settled(l)
      /\ file.archived \subseteq Ids
    BY DEF CatalogInv, StoreInv, Data
<1>2. UNCHANGED store
    BY DEF RunAgents, ReadOverlay, ReadTimes, Return
<1>3. CASE RunAgents(l)
    <2>1. /\ list[l] = Idle
          /\ list' = [list EXCEPT ![l] =
                [at |-> "overlay", cat |-> native, blind |-> FALSE, known |-> NoTimes,
                 archived |-> {}, hidden |-> file.archived]]
          /\ quiet' = Disturbed(l)
        BY <1>3 DEF RunAgents
    <2>2. txn[l] = NoTxn
        BY <1>1, <2>1 DEF Cycle, Idle
    <2>3. /\ DOMAIN list' = Lists /\ \A m \in Lists \ {l} : list'[m] = list[m]
          /\ DOMAIN list'[l] = Fields /\ list'[l].at = "overlay" /\ list'[l].blind = FALSE
          /\ list'[l].hidden = file.archived
        BY <1>1, <2>1 DEF Fields
    <2>4. list'[l] # Idle
        BY <2>3 DEF Idle
    <2>5. quiet' \subseteq {l} /\ (l \in quiet' => \A m \in Lists \ {l} : list[m] = Idle)
        <3>1. /\ quiet \subseteq Lists
              /\ \A m \in Lists : m \in quiet => list[m] # Idle
            BY DEF CatalogInv, Settled, Alone
        <3>2. quiet' = IF \A m \in Lists \ {l} : list[m] = Idle THEN quiet \cup {l} ELSE {}
            BY <2>1 DEF Disturbed
        <3> QED  BY <2>1, <3>1, <3>2
    <2>6. Cycle(l)' /\ Overlaid(l)'
        BY <1>1, <1>2, <2>2, <2>3 DEF Cycle, Overlaid
    <2>7. Settled(l)'
        BY <2>3, <2>4, <2>5 DEF Settled, Alone
    <2> QED  BY <1>2, <2>3, <2>5, <2>6, <2>7, ListMoves
<1>4. ASSUME list[l].at \in {"overlay", "times"}, DOMAIN list' = Lists,
             \A m \in Lists \ {l} : list'[m] = list[m],
             DOMAIN list'[l] = Fields, list'[l].at \in {"times", "sync", "rows"},
             list'[l].cat = list[l].cat, list'[l].hidden = list[l].hidden,
             list'[l].blind = FALSE => list[l].hidden \subseteq list'[l].archived,
             list'[l].blind \in BOOLEAN, quiet' \subseteq quiet,
             l \in quiet' /\ list'[l].at = "rows" =>
                KnownAfter(file.createdAt, list[l].cat) = file.createdAt
      PROVE  CatalogInv'
    <2>1. list[l] # Idle /\ txn[l] = NoTxn
        BY <1>1, <1>4 DEF Cycle, Idle
    <2>2. list'[l] # Idle
        BY <1>4 DEF Idle
    <2>3. Cycle(l)' /\ Overlaid(l)'
        BY <1>1, <1>2, <1>4, <2>1 DEF Cycle, Overlaid
    <2>4. Settled(l)'
        BY <1>1, <1>2, <1>4, <2>2 DEF Settled, Alone
    <2> QED  BY <1>2, <1>4, <2>1, <2>3, <2>4, ListMoves
<1>5. CASE ReadOverlay(l)
    <2>1. list[l].at = "overlay" /\ DOMAIN list[l] = Fields
        BY <1>1, <1>5 DEF ReadOverlay, Cycle, Idle
    <2>2. \/ /\ list' = [list EXCEPT ![l].at = "times", ![l].archived = file.archived]
             /\ quiet' = quiet
          \/ /\ list' = [list EXCEPT ![l].at = "times", ![l].blind = TRUE]
             /\ quiet' = quiet \ {l}
        BY <1>5 DEF ReadOverlay
    <2>3. list[l].blind = FALSE /\ list[l].hidden \subseteq file.archived
        BY <1>1, <2>1 DEF Overlaid, Idle
    <2>4. /\ DOMAIN list' = Lists /\ \A m \in Lists \ {l} : list'[m] = list[m]
          /\ DOMAIN list'[l] = Fields /\ list'[l].at = "times"
          /\ list'[l].cat = list[l].cat /\ list'[l].hidden = list[l].hidden
          /\ list'[l].blind \in BOOLEAN /\ quiet' \subseteq quiet
          /\ list'[l].blind = FALSE => list'[l].archived = file.archived
        <3>1. CASE list' = [list EXCEPT ![l].at = "times", ![l].archived = file.archived]
            BY <1>1, <2>1, <2>2, <2>3, <3>1 DEF Fields
        <3>2. CASE list' = [list EXCEPT ![l].at = "times", ![l].blind = TRUE]
            BY <1>1, <2>1, <2>2, <2>3, <3>2 DEF Fields
        <3> QED  BY <2>2, <3>1, <3>2
    <2> QED  BY <1>4, <2>1, <2>3, <2>4
<1>6. CASE ReadTimes(l)
    <2>1. list[l].at = "times" /\ DOMAIN list[l] = Fields
        BY <1>1, <1>6 DEF ReadTimes, Cycle, Idle
    <2>2. PICK known : known = KnownAfter(file.createdAt, list[l].cat)
        OBVIOUS
    <2>3. \/ /\ list' = [list EXCEPT ![l].at = IF known # file.createdAt THEN "sync" ELSE "rows",
                                     ![l].known = known]
             /\ quiet' = quiet
          \/ /\ list' = [list EXCEPT ![l].at = "rows"]
             /\ quiet' = quiet \ {l}
        BY <1>6, <2>2 DEF ReadTimes, Changed
    <2>4. list[l].blind = FALSE => list[l].hidden \subseteq list[l].archived
        BY <1>1, <2>1 DEF Overlaid
    <2>5. /\ DOMAIN list' = Lists /\ \A m \in Lists \ {l} : list'[m] = list[m]
          /\ DOMAIN list'[l] = Fields /\ list'[l].at \in {"sync", "rows"}
          /\ list'[l].cat = list[l].cat /\ list'[l].hidden = list[l].hidden
          /\ list'[l].blind = list[l].blind /\ list'[l].archived = list[l].archived
          /\ quiet' \subseteq quiet
        BY <1>1, <2>1, <2>3 DEF Fields
    <2>6. l \in quiet' /\ list'[l].at = "rows" => known = file.createdAt
        BY <1>1, <2>1, <2>3 DEF Fields
    <2>7. list[l].blind \in BOOLEAN
        BY <1>1, <2>1 DEF Overlaid, Idle
    <2> QED  BY <1>4, <2>1, <2>2, <2>4, <2>5, <2>6, <2>7
<1>7. CASE Return(l)
    <2>1. /\ list[l].at = "rows" /\ list' = [list EXCEPT ![l] = Idle] /\ quiet' = quiet \ {l}
        BY <1>7 DEF Return
    <2>2. list[l] # Idle /\ txn[l] = NoTxn
        BY <1>1, <2>1 DEF Cycle, Idle
    <2>3. /\ DOMAIN list' = Lists /\ list'[l] = Idle
          /\ \A m \in Lists \ {l} : list'[m] = list[m]
        BY <1>1, <2>1
    <2>4. Cycle(l)' /\ Overlaid(l)' /\ Settled(l)'
        BY <1>2, <2>1, <2>2, <2>3 DEF Cycle, Overlaid, Settled, Idle
    <2> QED  BY <1>2, <2>1, <2>2, <2>3, <2>4, ListMoves
<1> QED  BY <1>3, <1>5, <1>6, <1>7
(* The steps of a List's synchronisation.                                   *)
LEMMA CatalogSync ==
    ASSUME CatalogInv, StoreInv, NEW l \in Lists, BeginSync(l) \/ EndSync(l)
    PROVE  CatalogInv'
<1> USE CatalogAssumption
<1>1. /\ DOMAIN list = Lists /\ Cycle(l) /\ Overlaid(l) /\ Settled(l)
      /\ DOMAIN txn = Clients /\ file \in Data
      /\ list[l].at = "sync" /\ list[l] # Idle /\ DOMAIN list[l] = Fields
    BY DEF CatalogInv, StoreInv, BeginSync, EndSync, Cycle, Idle
<1>2. CASE BeginSync(l)
    <2>1. /\ txn' = [txn EXCEPT ![l] = <<SyncOp(list[l].cat), file>>]
          /\ UNCHANGED <<file, list, quiet>>
        BY <1>2 DEF BeginSync, Begin
    <2>2. txn'[l][1] = SyncOp(list[l].cat) /\ \A c \in Clients \ {l} : txn'[c] = txn[c]
        BY <1>1, <2>1
    <2>3. Cycle(l)' /\ Overlaid(l)' /\ Settled(l)'
        BY <1>1, <2>1, <2>2 DEF Cycle, Overlaid, Settled, Alone
    <2> QED  BY <1>1, <2>1, <2>2, <2>3, ListMoves
<1>3. CASE EndSync(l)
    <2>1. /\ DOMAIN list' = Lists /\ \A m \in Lists \ {l} : list'[m] = list[m]
          /\ DOMAIN list'[l] = Fields /\ list'[l].at = "rows"
          /\ list'[l].cat = list[l].cat /\ list'[l].hidden = list[l].hidden
          /\ list'[l].blind = list[l].blind /\ list'[l].archived = list[l].archived
        BY <1>1, <1>3 DEF EndSync, Fields
    <2>2. list'[l] # Idle
        BY <2>1 DEF Idle
    <2>3. /\ txn' = [txn EXCEPT ![l] = NoTxn]
          /\ \/ /\ file' = Apply(SyncOp(list[l].cat), file) /\ quiet' = quiet
             \/ /\ file' = file /\ quiet' = quiet \ {l}
        <3>1. CASE Commit(l) /\ UNCHANGED quiet
            <4>1. txn[l] # NoTxn /\ txn[l][1] = SyncOp(list[l].cat) /\ txn[l][2] = file
                BY <1>1, <3>1 DEF Commit, Cycle, StoreInv, OneTransaction
            <4> QED  BY <3>1, <4>1 DEF Commit, Unlock
        <3>2. CASE Abort(l) /\ quiet' = quiet \ {l}
            BY <3>2 DEF Abort, Unlock
        <3> QED  BY <1>3, <3>1, <3>2 DEF EndSync
    <2>4. /\ file'.archived = file.archived
          /\ l \in quiet' => file'.createdAt = KnownAfter(file.createdAt, list[l].cat)
        BY <1>1, <2>3, ApplySync
    <2>5. txn'[l] = NoTxn /\ \A c \in Clients \ {l} : txn'[c] = txn[c]
        BY <1>1, <2>3
    <2>6. quiet' \subseteq quiet
        BY <2>3
    <2>7. Cycle(l)' /\ Overlaid(l)'
        BY <1>1, <2>1, <2>5 DEF Cycle, Overlaid
    <2>8. Settled(l)'
        BY <1>1, <2>1, <2>2, <2>4, <2>6, SyncedOnce DEF Settled, Alone
    <2> QED  BY <1>1, <2>1, <2>4, <2>5, <2>6, <2>7, <2>8, ListMoves
<1> QED  BY <1>2, <1>3

LEMMA CatalogInit == Init => CatalogInv
<1> SUFFICES ASSUME Init PROVE CatalogInv
    OBVIOUS
<1>1. /\ txn = [c \in Clients |-> NoTxn] /\ list = [l \in Lists |-> Idle] /\ quiet = {}
    BY DEF Init, StoreInit
<1>2. ASSUME NEW l \in Lists PROVE Cycle(l) /\ Overlaid(l) /\ Settled(l)
    BY <1>1, CatalogAssumption DEF Cycle, Overlaid, Settled, Idle
<1>3. \A u \in Users : UserOp(u)
    BY <1>1, CatalogAssumption DEF UserOp
<1> QED  BY <1>1, <1>2, <1>3 DEF CatalogInv

LEMMA CatalogStep == CatalogInv /\ StoreInv /\ [Next]_vars => CatalogInv'
<1> SUFFICES ASSUME CatalogInv, StoreInv, [Next]_vars PROVE CatalogInv'
    OBVIOUS
<1>1. CASE UNCHANGED <<store, list, quiet>>
    <2>1. \A l \in Lists : Cycle(l)' /\ Overlaid(l)' /\ Settled(l)'
        BY <1>1 DEF store, CatalogInv, Cycle, Overlaid, Settled, Alone
    <2>2. \A u \in Users : UserOp(u)'
        BY <1>1 DEF store, CatalogInv, UserOp
    <2> QED  BY <1>1, <2>1, <2>2 DEF CatalogInv
<1>2. CASE Claude
    BY <1>1, <1>2 DEF Claude
<1>3. CASE UNCHANGED vars
    BY <1>1, <1>3 DEF vars, store
<1> QED
    BY <1>2, <1>3, CatalogUser, CatalogRead, CatalogSync DEF Next, ListStep

LEMMA CatalogInvAlways == Spec => [](CatalogInv /\ StoreInv)
<1> QED  BY CatalogInit, CatalogStep, StoreInvAlways, PTL DEF Spec

(* A session archived before a List began is not among its rows, whatever  *)
(* other Lists, users and processes did in between.                         *)
THEOREM ArchivedStaysHiddenAlways == Spec => ArchivedStaysHidden
<1> DEFINE P == \A l \in Lists : Return(l) /\ ~list[l].blind =>
                   \A i \in list[l].hidden : rows'[i] = NoRow
<1>1. CatalogInv /\ StoreInv /\ [Next]_vars => [P]_vars
    <2> SUFFICES ASSUME CatalogInv, NEW l \in Lists, Return(l), ~list[l].blind,
                        NEW i \in list[l].hidden
                 PROVE  rows'[i] = NoRow
        OBVIOUS
    <2>1. list[l].at = "rows" /\ list[l] # Idle
        BY DEF Return, Idle
    <2>2. i \in Ids /\ i \in list[l].archived
        BY <2>1 DEF CatalogInv, Overlaid
    <2> QED  BY <2>2 DEF Return, ListedRows
<1> QED  BY <1>1, CatalogInvAlways, PTL DEF Spec, ArchivedStaysHidden

(* A List that ran alone leaves every stopped session's creation time      *)
(* recorded and every removed one forgotten, as its listing has them.       *)
THEOREM QuietListHealsAlways == Spec => QuietListHeals
<1> DEFINE P == \A l \in Lists : Return(l) /\ l \in quiet =>
                   \A i \in Ids :
                      /\ (i \notin Present(list[l].cat)) => file.createdAt[i] = Unknown
                      /\ (Authoritative(list[l].cat)[i] # Unknown) => file.createdAt[i] = "created"
<1>1. CatalogInv /\ StoreInv /\ [Next]_vars => [P]_vars
    <2> SUFFICES ASSUME CatalogInv, NEW l \in Lists, Return(l), l \in quiet, NEW i \in Ids
                 PROVE  /\ (i \notin Present(list[l].cat)) => file.createdAt[i] = Unknown
                        /\ (Authoritative(list[l].cat)[i] # Unknown) => file.createdAt[i] = "created"
        OBVIOUS
    <2> DEFINE cat == list[l].cat
    <2>1. file.createdAt = KnownAfter(file.createdAt, cat)
        BY DEF Return, CatalogInv, Settled
    <2> HIDE DEF cat
    <2>2. file.createdAt[i] = IF Authoritative(cat)[i] # Unknown THEN Authoritative(cat)[i]
                              ELSE IF i \in Present(cat) THEN file.createdAt[i] ELSE Unknown
        BY <2>1 DEF KnownAfter, Synced
    <2>3. Authoritative(cat)[i] # Unknown =>
              Authoritative(cat)[i] = "created" /\ i \in Present(cat)
        BY DEF Authoritative, Present, StartedAt
    <2> QED  BY <2>2, <2>3 DEF cat
<1> QED  BY <1>1, CatalogInvAlways, PTL DEF Spec, QuietListHeals
=============================================================================
