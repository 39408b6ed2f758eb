----------------------- MODULE ClaudeUsageProbeProofs -----------------------
(***************************************************************************)
(* For any processes, calls, limits, clock and crashes: one probe at a     *)
(* time on the machine; every session ID claude was ever started with is   *)
(* known to the identity; a result is as fresh as it claims to be; and a   *)
(* limit just detected is reported.                                        *)
(***************************************************************************)
EXTENDS ClaudeUsageProbe, FiniteSetTheorems, TLAPS

Running == {"settling", "trusting", "sending", "polling", "saving", "rotating"}
Leading == Running \cup {"locking", "finishing"}
Places == Leading \cup {"idle", "joining", "waiting", "woken", "done"}

(* One caller at most leads its process's refresh, for which the channel   *)
(* is there, and from TakeLock to its release it holds the machine lock    *)
(* for the process: the two together leave one on the machine.             *)
OneLeader ==
    /\ pc \in [Callers -> Places]
    /\ flight \in [Agents -> BOOLEAN]
    /\ \A c \in Callers : pc[c] \in Leading => flight[AgentOf[c]]
    /\ \A c, d \in Callers :
          pc[c] \in Leading /\ pc[d] \in Leading /\ AgentOf[c] = AgentOf[d] => c = d
    /\ \A c \in Callers : pc[c] \in Running => lock = AgentOf[c]

(* A leader that goes from one place to another and keeps the lock, or that *)
(* held it and releases it.                                                 *)
LEMMA LeaderMoves ==
    ASSUME OneLeader, NEW c \in Callers, NEW l \in Leading,
           pc[c] \in Leading, pc' = [pc EXCEPT ![c] = l], flight' = flight,
           \/ lock' = lock /\ (l \in Running => pc[c] \in Running)
           \/ pc[c] \in Running /\ lock' = NoAgent /\ l \notin Running
           \/ lock = NoAgent /\ lock' = AgentOf[c]
           \/ lock = NoAgent /\ lock' = NoAgent /\ l \notin Running
    PROVE  OneLeader'
<1> USE ProbeAssumption DEF OneLeader
<1>1. pc' \in [Callers -> Places] /\ \A d \in Callers : pc'[d] = IF d = c THEN l ELSE pc[d]
    BY DEF Places
<1>2. \A d \in Callers : pc'[d] \in Leading => pc[d] \in Leading
    BY <1>1
<1>3. \A d \in Callers : pc'[d] \in Running => lock' = AgentOf[d]
    <2> SUFFICES ASSUME NEW d \in Callers, pc'[d] \in Running PROVE lock' = AgentOf[d]
        OBVIOUS
    <2>1. CASE d = c
        BY <1>1, <2>1
    <2>2. CASE d # c
        <3>1. pc[d] \in Running /\ pc[d] \in Leading /\ lock = AgentOf[d]
            BY <1>1, <2>2 DEF Leading
        <3>2. AgentOf[d] # AgentOf[c] /\ AgentOf[d] \in Agents
            BY <2>2, <3>1
        <3>3. lock # NoAgent
            BY <3>1, <3>2
        <3>4. pc[c] \notin Running
            BY <3>1, <3>2
        <3> QED  BY <3>1, <3>3, <3>4
    <2> QED  BY <2>1, <2>2
<1> QED  BY <1>1, <1>2, <1>3

(* A caller that does not lead and does not begin to.                       *)
LEMMA OtherMoves ==
    ASSUME OneLeader, NEW c \in Callers, NEW l \in Places \ Leading,
           pc[c] \notin Leading, pc' = [pc EXCEPT ![c] = l], UNCHANGED <<flight, lock>>
    PROVE  OneLeader'
<1>1. pc' \in [Callers -> Places] /\ \A d \in Callers : pc'[d] = IF d = c THEN l ELSE pc[d]
    BY DEF OneLeader
<1>2. \A d \in Callers : /\ pc'[d] \in Leading => pc[d] \in Leading
                         /\ pc'[d] \in Running => pc[d] \in Running
    BY <1>1 DEF Leading
<1> QED  BY <1>1, <1>2 DEF OneLeader

LEMMA InitOneLeader == Init => OneLeader
<1> SUFFICES ASSUME Init PROVE OneLeader
    OBVIOUS
<1>1. flight \in [Agents -> BOOLEAN]
    BY Zenon DEF Init
<1>2. pc = [c \in Callers |-> "idle"]
    BY DEF Init
<1> QED  BY <1>1, <1>2 DEF OneLeader, Places, Leading, Running

(* The steps of a call of Usage.                                            *)
LEMMA LeaderStep ==
    ASSUME OneLeader, NEW c \in Callers,
           \/ TakeLock(c) \/ Settled(c) \/ PersistTrust(c)
           \/ SendPrompt(c) \/ Poll(c) \/ SaveSnapshot(c) \/ Recover(c)
    PROVE  OneLeader'
<1> USE DEF Goto, Leaves, Fail, Conflict, Running, Leading
<1>1. flight' = flight
    BY DEF TakeLock, Settled, PersistTrust, SendPrompt, Poll, SaveSnapshot, Recover
<1>2. CASE TakeLock(c)
    <2>1. pc[c] = "locking" /\ lock = NoAgent
        BY <1>2 DEF TakeLock
    <2>2. \/ pc' = [pc EXCEPT ![c] = "finishing"] /\ lock' = lock
          \/ pc' = [pc EXCEPT ![c] = "settling"] /\ lock' = AgentOf[c]
          \/ pc' = [pc EXCEPT ![c] = "finishing"] /\ lock' = NoAgent
        BY <1>2 DEF TakeLock, StartAttempt
    <2> QED  BY <1>1, <2>1, <2>2, LeaderMoves
<1>3. ASSUME pc[c] \in Running,
             \/ lock' = lock /\ \E l \in Running : pc' = [pc EXCEPT ![c] = l]
             \/ lock' = NoAgent /\ pc' = [pc EXCEPT ![c] = "finishing"]
      PROVE  OneLeader'
    BY <1>1, <1>3, LeaderMoves
<1>4. CASE Settled(c)
    BY <1>3, <1>4 DEF Settled
<1>5. CASE PersistTrust(c)
    BY <1>3, <1>5 DEF PersistTrust
<1>6. CASE SendPrompt(c)
    BY <1>3, <1>6 DEF SendPrompt
<1>7. CASE Poll(c)
    BY <1>3, <1>7 DEF Poll
<1>8. CASE SaveSnapshot(c)
    BY <1>3, <1>8 DEF SaveSnapshot
<1>9. CASE Recover(c)
    BY <1>3, <1>9 DEF Recover, StartAttempt
<1> QED  BY <1>2, <1>4, <1>5, <1>6, <1>7, <1>8, <1>9

LEMMA UsageStep ==
    ASSUME OneLeader, NEW c \in Callers,
           Usage(c) \/ RefreshShared(c) \/ Waiter(c) \/ ContextEnds(c) \/ Finish(c)
    PROVE  OneLeader'
<1> USE DEF Goto, Returns, FallBack, Places, Leading, Running
<1>1. CASE Usage(c)
    <2>1. pc[c] = "idle" /\ UNCHANGED <<flight, lock>>
        BY <1>1 DEF Usage
    <2>2. pc' = [pc EXCEPT ![c] = "done"] \/ pc' = [pc EXCEPT ![c] = "joining"]
        BY <1>1 DEF Usage
    <2> QED  BY <2>1, <2>2, OtherMoves
<1>2. CASE RefreshShared(c)
    <2>1. CASE flight[AgentOf[c]]
        <3>1. pc[c] = "joining" /\ UNCHANGED <<flight, lock>> /\ pc' = [pc EXCEPT ![c] = "waiting"]
            BY <1>2, <2>1 DEF RefreshShared
        <3> QED  BY <3>1, OtherMoves
    <2>2. CASE ~flight[AgentOf[c]]
        <3>1. /\ pc[c] = "joining" /\ lock' = lock
              /\ pc' = [pc EXCEPT ![c] = "locking"]
              /\ flight' = [flight EXCEPT ![AgentOf[c]] = TRUE]
            BY <1>2, <2>2 DEF RefreshShared
        <3>2. \A d \in Callers : pc[d] \in Leading => AgentOf[d] # AgentOf[c]
            BY <2>2 DEF OneLeader
        <3>3. \A d \in Callers : pc'[d] = IF d = c THEN "locking" ELSE pc[d]
            BY <3>1 DEF OneLeader
        <3>4. flight' \in [Agents -> BOOLEAN]
            BY <3>1 DEF OneLeader
        <3>5. \A d \in Callers : pc'[d] \in Leading => flight'[AgentOf[d]]
            <4> SUFFICES ASSUME NEW d \in Callers, pc'[d] \in Leading PROVE flight'[AgentOf[d]]
                OBVIOUS
            <4>1. AgentOf[d] \in Agents
                BY ProbeAssumption
            <4>2. CASE AgentOf[d] = AgentOf[c]
                BY <3>1, <4>1, <4>2 DEF OneLeader
            <4>3. CASE AgentOf[d] # AgentOf[c]
                <5>1. flight[AgentOf[d]]
                    BY <3>3, <4>3 DEF OneLeader
                <5> QED  BY <3>1, <4>1, <4>3, <5>1 DEF OneLeader
            <4> QED  BY <4>2, <4>3
        <3>6. pc' \in [Callers -> Places]
            BY <3>1 DEF OneLeader
        <3>7. /\ \A d, e \in Callers :
                    pc'[d] \in Leading /\ pc'[e] \in Leading /\ AgentOf[d] = AgentOf[e] => d = e
              /\ \A d \in Callers : pc'[d] \in Running => lock' = AgentOf[d]
            BY <3>1, <3>2, <3>3 DEF OneLeader
        <3> QED  BY <3>4, <3>5, <3>6, <3>7 DEF OneLeader
    <2> QED  BY <2>1, <2>2
<1>3. CASE Waiter(c)
    <2>1. pc[c] = "woken" /\ UNCHANGED <<flight, lock>> /\ pc' = [pc EXCEPT ![c] = "done"]
        BY <1>3 DEF Waiter
    <2> QED  BY <2>1, OtherMoves
<1>4. CASE ContextEnds(c)
    <2>0. UNCHANGED <<flight, lock>>
        BY <1>4 DEF ContextEnds
    <2>1. \/ pc[c] = "waiting" /\ pc' = [pc EXCEPT ![c] = "done"]
          \/ pc[c] = "locking" /\ pc' = [pc EXCEPT ![c] = "finishing"]
        BY <1>4 DEF ContextEnds
    <2> QED  BY <2>0, <2>1, OtherMoves, LeaderMoves
<1>5. CASE Finish(c)
    <2>1. /\ pc[c] = "finishing" /\ lock' = lock
          /\ flight' = [flight EXCEPT ![AgentOf[c]] = FALSE]
          /\ pc' = [d \in Callers |->
                      IF d = c THEN "done"
                      ELSE IF pc[d] = "waiting" /\ AgentOf[d] = AgentOf[c] THEN "woken" ELSE pc[d]]
        BY <1>5 DEF Finish
    <2>2. \A d \in Callers : pc'[d] \in Leading =>
              pc'[d] = pc[d] /\ AgentOf[d] # AgentOf[c] /\ AgentOf[d] \in Agents
        BY <2>1, ProbeAssumption DEF OneLeader
    <2>3. flight' \in [Agents -> BOOLEAN]
        BY <2>1 DEF OneLeader
    <2>4. \A d \in Callers : pc'[d] \in Leading => flight'[AgentOf[d]] = flight[AgentOf[d]]
        BY <2>1, <2>2 DEF OneLeader
    <2>5. pc' \in [Callers -> Places]
        BY <2>1 DEF OneLeader
    <2>6. \A d \in Callers : pc'[d] \in Leading => flight'[AgentOf[d]]
        BY <2>2, <2>4 DEF OneLeader
    <2> QED  BY <2>1, <2>2, <2>3, <2>5, <2>6 DEF OneLeader
<1> QED  BY <1>1, <1>2, <1>3, <1>4, <1>5

(* A crash takes the leader, its lock and its channel with it.              *)
LEMMA CrashStep ==
    ASSUME OneLeader, NEW a \in Mortal, Crash(a)
    PROVE  OneLeader'
<1> USE DEF Places, Leading, Running
<1>1. /\ lock = a /\ lock' = NoAgent
      /\ flight' = [flight EXCEPT ![a] = FALSE]
      /\ pc' = [c \in Callers |->
                  IF c \in {d \in Callers : AgentOf[d] = a /\ pc[d] \notin {"idle", "done"}}
                  THEN "done" ELSE pc[c]]
    BY DEF Crash
<1>2. \A c \in Callers : pc'[c] \in Leading =>
          pc'[c] = pc[c] /\ AgentOf[c] # a /\ AgentOf[c] \in Agents
    BY <1>1, ProbeAssumption DEF OneLeader
<1>3. flight' \in [Agents -> BOOLEAN]
    BY <1>1 DEF OneLeader
<1>4. \A c \in Callers : pc'[c] \in Leading => flight'[AgentOf[c]] = flight[AgentOf[c]]
    BY <1>1, <1>2 DEF OneLeader
<1>5. \A c \in Callers : pc'[c] \in Leading => flight'[AgentOf[c]]
    BY <1>2, <1>4 DEF OneLeader
<1>6. pc' \in [Callers -> Places]
    BY <1>1 DEF OneLeader
<1> QED  BY <1>1, <1>2, <1>3, <1>5, <1>6 DEF OneLeader

LEMMA OneLeaderInductive == OneLeader /\ [Next]_vars => OneLeader'
<1> SUFFICES ASSUME OneLeader, [Next]_vars PROVE OneLeader'
    OBVIOUS
<1>1. CASE UNCHANGED <<pc, flight, lock>>
    BY <1>1 DEF OneLeader
<1>2. ASSUME NEW n \in 1..MaxSpawn, Claude(n) \/ Collector(n) PROVE OneLeader'
    BY <1>1, <1>2 DEF Claude, Collector
<1>3. CASE Tick
    BY <1>1, <1>3 DEF Tick
<1>4. CASE UNCHANGED vars
    BY <1>1, <1>4 DEF vars
<1> QED
    BY <1>2, <1>3, <1>4, LeaderStep, UsageStep, CrashStep DEF Next, CallerStep

(* At most one caller runs a probe session, under refresh.lock and with a  *)
(* channel for the callers that wait.                                       *)
THEOREM OneProbeAlways == Spec => []OneProbe
<1>1. OneLeader => OneProbe
    <2> SUFFICES ASSUME OneLeader PROVE OneProbe
        OBVIOUS
    <2> DEFINE R == {c \in Callers : pc[c] \in {"settling", "trusting", "sending", "polling", "saving", "rotating"}}
    <2>1. \A c \in R : lock = AgentOf[c] /\ flight[AgentOf[c]]
        BY DEF OneLeader, Leading, Running
    <2>2. \A c, d \in R : c = d
        BY <2>1 DEF OneLeader, Leading, Running
    <2>3. Cardinality(R) <= 1
        <3>1. CASE R = {}
            BY <3>1, FS_EmptySet
        <3>2. ASSUME NEW c \in R PROVE Cardinality(R) <= 1
            <4>1. R = {c}
                BY <2>2
            <4> HIDE DEF R
            <4> QED  BY <4>1, FS_Singleton
        <3> QED  BY <3>1, <3>2
    <2> QED  BY <2>1, <2>3 DEF OneProbe
<1> QED  BY <1>1, InitOneLeader, OneLeaderInductive, PTL DEF Spec

----------------------------------------------------------------------------
(* What the identity owns only grows, and what claude is started with is   *)
(* owned by the identity persisted before.                                  *)
WellFormed(S) ==
    \A i \in S : "cur" \in DOMAIN i /\ "retired" \in DOMAIN i

OwnedBy(S) == UNION {{i.cur} \cup i.retired : i \in S}

RowsOwned == WellFormed(identity) /\ ProbeRowsHidden

LEMMA CreatedOwns ==
    ASSUME WellFormed(identity)
    PROVE  WellFormed(LoadOrCreate) /\ Owned \subseteq OwnedBy(LoadOrCreate)
<1>1. CASE identity = {}
    <2> DEFINE id == FreshID
    <2>1. LoadOrCreate = {[cur |-> id, trusted |-> FALSE, retired |-> {}]}
        BY <1>1 DEF LoadOrCreate, NewIdentity
    <2> HIDE DEF id
    <2>2. Owned = {}
        BY <1>1 DEF Owned
    <2> QED  BY <2>1, <2>2 DEF WellFormed
<1>2. CASE identity # {}
    BY <1>2 DEF LoadOrCreate, Owned, OwnedBy
<1> QED  BY <1>1, <1>2

LEMMA TrustOwns ==
    ASSUME WellFormed(identity)
    PROVE  WellFormed(MarkTrustAccepted) /\ Owned \subseteq OwnedBy(MarkTrustAccepted)
<1> DEFINE New(i) == [i EXCEPT !.trusted = TRUE]
<1>1. ASSUME NEW i \in identity
      PROVE  /\ New(i).cur = i.cur /\ New(i).retired = i.retired
             /\ "cur" \in DOMAIN New(i) /\ "retired" \in DOMAIN New(i)
    BY <1>1 DEF WellFormed
<1>2. MarkTrustAccepted = {New(i) : i \in identity}
    BY DEF MarkTrustAccepted
<1> HIDE DEF New
<1> QED  BY <1>1, <1>2 DEF WellFormed, Owned, OwnedBy

LEMMA RotateOwns ==
    ASSUME WellFormed(identity), NEW rejected
    PROVE  WellFormed(Rotate(rejected)) /\ Owned \subseteq OwnedBy(Rotate(rejected))
<1> DEFINE id == FreshID
           New(i) == IF i.cur # rejected THEN i
                     ELSE [cur |-> id, trusted |-> i.trusted, retired |-> i.retired \cup {i.cur}]
<1>1. Rotate(rejected) = {New(i) : i \in identity}
    BY DEF Rotate
<1> HIDE DEF id
<1>2. \A i \in identity : {i.cur} \cup i.retired \subseteq {New(i).cur} \cup New(i).retired
    OBVIOUS
<1>3. WellFormed(Rotate(rejected))
    BY <1>1 DEF WellFormed
<1>4. Owned \subseteq OwnedBy(Rotate(rejected))
    <2> SUFFICES ASSUME NEW i \in identity, NEW x \in {i.cur} \cup i.retired
                 PROVE  x \in OwnedBy(Rotate(rejected))
        BY DEF Owned
    <2>1. New(i) \in Rotate(rejected) /\ x \in {New(i).cur} \cup New(i).retired
        BY <1>1, <1>2
    <2> HIDE DEF New
    <2> QED  BY <2>1 DEF OwnedBy
<1> QED  BY <1>3, <1>4

LEMMA OwnedAfter == Owned' = OwnedBy(identity')
<1> QED  BY DEF Owned, OwnedBy

(* claude is started with an ID of the identity there then is.              *)
LEMMA StartOwns ==
    ASSUME RowsOwned, NEW c \in Callers, NEW retry, WellFormed(identity'),
           Owned \subseteq OwnedBy(identity'),
           \/ addressed' = addressed
           \/ \E i \in identity' : StartAttempt(c, i, retry)
    PROVE  RowsOwned'
<1>1. \A x \in addressed' : x \in addressed \/ x \in OwnedBy(identity')
    <2>1. ASSUME NEW i \in identity', StartAttempt(c, i, retry)
          PROVE  addressed' = addressed \cup {i.cur} /\ i.cur \in OwnedBy(identity')
        <3>1. addressed' = addressed \cup {i.cur}
            BY <2>1, Zenon DEF StartAttempt
        <3> QED  BY <3>1 DEF OwnedBy
    <2> QED  BY <2>1
<1> QED  BY <1>1, OwnedAfter DEF RowsOwned, ProbeRowsHidden

LEMMA RowsOwnedInductive == RowsOwned /\ [Next]_vars => RowsOwned'
<1> SUFFICES ASSUME RowsOwned, [Next]_vars PROVE RowsOwned'
    OBVIOUS
<1>1. CASE UNCHANGED <<identity, addressed>>
    BY <1>1 DEF RowsOwned, WellFormed, ProbeRowsHidden, Owned
<1>2. WellFormed(identity)
    BY DEF RowsOwned
<1>3. Owned \subseteq OwnedBy(identity)
    BY DEF Owned, OwnedBy
<1>4. ASSUME NEW c \in Callers, TakeLock(c) PROVE RowsOwned'
    <2>1. CASE UNCHANGED <<identity, addressed>>
        BY <1>1, <2>1
    <2>2. CASE identity' = LoadOrCreate /\ \E i \in identity' : StartAttempt(c, i, FALSE)
        BY <1>2, <2>2, CreatedOwns, StartOwns
    <2>3. CASE identity' \in {identity, LoadOrCreate} /\ addressed' = addressed
        BY <1>2, <1>3, <2>3, CreatedOwns, StartOwns
    <2> QED  BY <1>4, <2>1, <2>2, <2>3 DEF TakeLock
<1>5. ASSUME NEW c \in Callers, PersistTrust(c) PROVE RowsOwned'
    <2>1. CASE UNCHANGED <<identity, addressed>>
        BY <1>1, <2>1
    <2>2. CASE identity' = MarkTrustAccepted /\ addressed' = addressed
        BY <1>2, <2>2, TrustOwns, StartOwns
    <2> QED  BY <1>5, <2>1, <2>2 DEF PersistTrust
<1>6. ASSUME NEW c \in Callers, Recover(c) PROVE RowsOwned'
    <2>1. CASE UNCHANGED <<identity, addressed>>
        BY <1>1, <2>1
    <2>2. CASE identity' = Rotate(ref[c].id) /\ \E i \in identity' : StartAttempt(c, i, TRUE)
        BY <1>2, <2>2, RotateOwns, StartOwns
    <2>3. CASE identity' = Rotate(ref[c].id) /\ addressed' = addressed
        BY <1>2, <1>3, <2>3, RotateOwns, StartOwns
    <2> QED  BY <1>6, <2>1, <2>2, <2>3 DEF Recover
<1>7. ASSUME NEW c \in Callers,
             \/ Usage(c) \/ RefreshShared(c) \/ Waiter(c) \/ Settled(c) \/ SendPrompt(c)
             \/ Poll(c) \/ SaveSnapshot(c) \/ Finish(c) \/ ContextEnds(c)
      PROVE  UNCHANGED <<identity, addressed>>
    BY <1>7 DEF Usage, RefreshShared, Waiter, Settled, SendPrompt, Poll, SaveSnapshot,
                Finish, ContextEnds, disk
<1>8. ASSUME \/ \E n \in 1..MaxSpawn : Claude(n) \/ Collector(n)
             \/ \E a \in Mortal : Crash(a)
             \/ Tick
             \/ UNCHANGED vars
      PROVE  UNCHANGED <<identity, addressed>>
    BY <1>8 DEF Claude, Collector, Crash, Tick, vars, disk
<1> QED
    BY <1>1, <1>4, <1>5, <1>6, <1>7, <1>8 DEF Next, CallerStep

(* Every session ID claude was started with is in KnownSessionIDs, also    *)
(* after rotations, crashes and another process's changes: List can hide   *)
(* its row.                                                                 *)
THEOREM ProbeRowsHiddenAlways == Spec => []ProbeRowsHidden
<1>1. Init => RowsOwned
    BY DEF Init, RowsOwned, WellFormed, ProbeRowsHidden
<1>2. RowsOwned => ProbeRowsHidden
    BY DEF RowsOwned
<1> QED  BY <1>1, <1>2, RowsOwnedInductive, PTL DEF Spec

----------------------------------------------------------------------------
(* How old a snapshot is wherever it is kept, and which windows of it a    *)
(* limit message named.                                                     *)
Fields == {"n", "t", "retried", "sentAt", "id", "trusted", "limit", "val", "prev"}

Readable == [state : {"unknown", "available", "exhausted"}, reset : Nat]

Observed(s) == s.at \in Nat /\ s.w \in [Windows -> Readable]

(* In memory: installed less than a TTL after it was observed.             *)
Kept(m) == Observed(m.snap) /\ m.at \in Nat /\ m.at - m.snap.at < TTL

(* The locals of a call.  What a leader is about to save or to install is   *)
(* fresh, and says exhausted of the windows of its limit message; what      *)
(* answers its prompt was written just now, or it had been taken before.    *)
RefDated(c) ==
    /\ pc[c] \in {"idle", "done"} => ref[c] = NoRef
    /\ pc[c] \in {"joining", "waiting", "woken"} => ref[c] \in [n : {0}, t : 0..now]
    /\ pc[c] \in Leading =>
        /\ DOMAIN ref[c] = Fields
        /\ ref[c].t \in 0..now /\ ref[c].sentAt \in Nat
        /\ ref[c].limit \subseteq Windows
        /\ \A s \in ref[c].val : Observed(s)
        /\ ref[c].prev \in [Windows -> Readable]
    /\ pc[c] \in Leading \ {"saving", "finishing"} => ref[c].val = {} /\ ref[c].limit = {}
    /\ pc[c] = "polling" => \A s \in Answer(c) : s.at = now
    /\ pc[c] \in {"saving", "finishing"} =>
        \A s \in ref[c].val :
            /\ s.at <= now /\ now - s.at < TTL
            /\ \A w \in ref[c].limit : s.w[w].state = "exhausted"

Dated ==
    /\ now \in Nat
    /\ \A s \in usage : Observed(s) /\ s.at <= now
    /\ DOMAIN mem = Agents /\ DOMAIN ref = Callers
    /\ \A a \in Agents : \A m \in mem[a] : Kept(m)
    /\ \A c \in Callers : RefDated(c)

(* What a status line reads.                                                *)
LEMMA ReadingIs ==
    ASSUME now \in Nat, NEW answered
    PROVE  Observed(ParseStatusLine(answered)) /\ ParseStatusLine(answered).at = now
<1> DEFINE q == now \div Period
           reset == (q + 1) * Period
<1>1. Period \in Nat /\ Period > 0
    BY ProbeAssumption
<1>2. q \in Nat
    BY <1>1, Z3
<1>3. \A x, y \in Nat : x * y \in Nat
    BY Z3
<1>4. reset \in Nat
    BY <1>1, <1>2, <1>3
<1> HIDE DEF q, reset
<1>5. Reading(answered) \in [Windows -> Readable]
    BY <1>4 DEF Reading, Unknown, Readable, q, reset
<1> QED  BY <1>5 DEF ParseStatusLine, Observed

(* What a limit message makes of the readings before it.                    *)
LEMMA ExhaustedIs ==
    ASSUME now \in Nat, NEW limit, NEW prev \in [Windows -> Readable]
    PROVE  /\ Observed(Exhausted(limit, prev)) /\ Exhausted(limit, prev).at = now
           /\ \A w \in limit \cap Windows : Exhausted(limit, prev).w[w].state = "exhausted"
<1> DEFINE win(w) == IF w \in limit THEN ExhaustedWindow(prev[w]) ELSE prev[w]
<1>1. ASSUME NEW w \in Windows
      PROVE  win(w) \in Readable /\ (w \in limit => win(w).state = "exhausted")
    BY DEF ExhaustedWindow, Readable
<1>2. Exhausted(limit, prev).w = [w \in Windows |-> win(w)]
    BY DEF Exhausted
<1> HIDE DEF win
<1>3. Exhausted(limit, prev).w \in [Windows -> Readable]
    BY <1>1, <1>2
<1> QED  BY <1>1, <1>2, <1>3 DEF Exhausted, Observed

(* A step of one call: the clock and the other calls stay where they are.   *)
LEMMA DatedCall ==
    ASSUME Dated, OneLeader, NEW c \in Callers, UNCHANGED <<now, usage>>,
           DOMAIN mem' = Agents, DOMAIN ref' = Callers,
           \A a \in Agents : \A m \in mem'[a] : Kept(m),
           \A d \in Callers \ {c} : pc'[d] = pc[d] /\ ref'[d] = ref[d],
           RefDated(c)'
    PROVE  Dated'
<1>1. ASSUME NEW d \in Callers \ {c} PROVE RefDated(d)'
    <2>1. RefDated(d) /\ pc'[d] = pc[d] /\ ref'[d] = ref[d]
        BY DEF Dated
    <2> QED  BY <2>1 DEF RefDated, Answer
<1> QED  BY <1>1 DEF Dated, Kept, Observed

(* Calls that find, wait for, or are refused a refresh.                     *)
LEMMA DatedJoin ==
    ASSUME Dated, OneLeader, NEW c \in Callers,
           Usage(c) \/ RefreshShared(c) \/ Waiter(c) \/ ContextEnds(c)
    PROVE  Dated'
<1> USE DEF Goto, Returns, FallBack, disk, Leading, Running
<1> DEFINE a == AgentOf[c]
<1>0. /\ a \in Agents /\ RefDated(c) /\ now \in Nat /\ TTL \in Nat /\ TTL > 0
      /\ DOMAIN ref = Callers /\ DOMAIN mem = Agents
      /\ pc \in [Callers -> Places]
      /\ \A b \in Agents : \A m \in mem[b] : Kept(m)
      /\ \A s \in usage : Observed(s) /\ s.at <= now
    BY ProbeAssumption DEF Dated, OneLeader
<1> HIDE DEF a
<1>1. CASE Usage(c)
    <2> DEFINE loaded == IF mem[a] # {} THEN mem[a] ELSE {[snap |-> s, at |-> s.at] : s \in usage}
    <2>1. /\ pc[c] = "idle" /\ UNCHANGED <<now, usage>>
          /\ mem' = [mem EXCEPT ![a] = loaded]
          /\ \/ pc' = [pc EXCEPT ![c] = "done"] /\ UNCHANGED ref
             \/ /\ pc' = [pc EXCEPT ![c] = "joining"]
                /\ ref' = [ref EXCEPT ![c] = [n |-> 0, t |-> now]]
        BY <1>1 DEF Usage, a
    <2>2. \A m \in loaded : Kept(m)
        <3>1. ASSUME NEW s \in usage PROVE Kept([snap |-> s, at |-> s.at])
            BY <1>0, <3>1 DEF Kept, Observed
        <3> QED  BY <1>0, <3>1
    <2> HIDE DEF loaded
    <2>3. /\ DOMAIN mem' = Agents /\ \A b \in Agents : \A m \in mem'[b] : Kept(m)
        BY <1>0, <2>1, <2>2
    <2>4. /\ DOMAIN ref' = Callers /\ RefDated(c)'
          /\ \A d \in Callers \ {c} : pc'[d] = pc[d] /\ ref'[d] = ref[d]
        BY <1>0, <2>1 DEF RefDated
    <2> QED  BY <2>1, <2>3, <2>4, DatedCall
<1>2. CASE RefreshShared(c)
    <2>1. /\ pc[c] = "joining" /\ UNCHANGED <<now, usage, mem>>
          /\ \/ pc' = [pc EXCEPT ![c] = "waiting"] /\ UNCHANGED ref
             \/ /\ pc' = [pc EXCEPT ![c] = "locking"]
                /\ ref' = [ref EXCEPT ![c] =
                     [n |-> 0, t |-> @.t, retried |-> FALSE, sentAt |-> 0, id |-> 0,
                      trusted |-> FALSE, limit |-> {}, val |-> {},
                      prev |-> IF mem[a] = {} THEN NoWindows
                               ELSE (CHOOSE m \in mem[a] : TRUE).snap.w]]
        BY <1>2 DEF RefreshShared, a
    <2> DEFINE prev == IF mem[a] = {} THEN NoWindows ELSE (CHOOSE m \in mem[a] : TRUE).snap.w
    <2>2. prev \in [Windows -> Readable]
        <3>1. NoWindows \in [Windows -> Readable]
            BY DEF NoWindows, Unknown, Readable
        <3>2. mem[a] # {} => (CHOOSE m \in mem[a] : TRUE) \in mem[a]
            OBVIOUS
        <3> QED  BY <1>0, <3>1, <3>2 DEF Kept, Observed
    <2> HIDE DEF prev
    <2>3. /\ DOMAIN ref' = Callers
          /\ \A d \in Callers \ {c} : pc'[d] = pc[d] /\ ref'[d] = ref[d]
        BY <1>0, <2>1
    <2>4. RefDated(c)'
        <3>1. ref[c].t \in 0..now
            BY <1>0, <2>1 DEF RefDated
        <3> QED  BY <1>0, <2>1, <2>2, <3>1 DEF RefDated, Fields, prev
    <2> QED  BY <1>0, <2>1, <2>3, <2>4, DatedCall
<1>3. CASE Waiter(c)
    <2>1. /\ UNCHANGED <<now, usage, mem>> /\ pc' = [pc EXCEPT ![c] = "done"]
          /\ ref' = [ref EXCEPT ![c] = NoRef]
        BY <1>3 DEF Waiter
    <2>2. RefDated(c)'
        BY <1>0, <2>1 DEF RefDated
    <2> QED  BY <1>0, <2>1, <2>2, DatedCall
<1>4. CASE ContextEnds(c)
    <2>1. /\ UNCHANGED <<now, usage, mem>>
          /\ \/ /\ pc' = [pc EXCEPT ![c] = "done"]
                /\ ref' = [ref EXCEPT ![c] = NoRef]
             \/ /\ pc[c] = "locking" /\ pc' = [pc EXCEPT ![c] = "finishing"]
                /\ UNCHANGED ref
        BY <1>4 DEF ContextEnds
    <2>2. RefDated(c)'
        BY <1>0, <2>1 DEF RefDated
    <2> QED  BY <1>0, <2>1, <2>2, DatedCall
<1> QED  BY <1>1, <1>2, <1>3, <1>4

(* Where a leader goes without a snapshot to save or to install.            *)
LEMMA DatedLeader ==
    ASSUME Dated, OneLeader, NEW c \in Callers, UNCHANGED <<now, usage, mem>>,
           pc[c] \in Leading \ {"saving", "finishing"},
           DOMAIN ref' = Callers, DOMAIN ref'[c] = Fields,
           ref'[c].t = ref[c].t, ref'[c].sentAt \in Nat, ref'[c].prev \in [Windows -> Readable],
           ref'[c].limit = {}, ref'[c].val = {},
           \A d \in Callers \ {c} : ref'[d] = ref[d],
           NEW l \in Leading, pc' = [pc EXCEPT ![c] = l],
           l = "polling" => ref'[c].sentAt = now
    PROVE  Dated'
<1> USE DEF Leading, Running
<1>1. /\ RefDated(c) /\ now \in Nat /\ pc \in [Callers -> Places]
      /\ \A s \in usage : s.at \in Nat /\ s.at <= now
    BY DEF Dated, OneLeader, Observed
<1>2. RefDated(c)'
    BY <1>1 DEF RefDated, Answer
<1> QED  BY <1>1, <1>2, DatedCall DEF Dated

(* What is left of a leader's locals once its Refresh has returned.         *)
Left(c) ==
    /\ DOMAIN ref'[c] = Fields
    /\ ref'[c].t = ref[c].t /\ ref'[c].limit = ref[c].limit /\ ref'[c].val = ref[c].val
    /\ ref'[c].sentAt \in Nat /\ ref'[c].prev \in [Windows -> Readable]

LEMMA LeavesIs ==
    ASSUME NEW c \in Callers, Leaves(c), DOMAIN ref = Callers, DOMAIN ref[c] = Fields
    PROVE  DOMAIN ref' = Callers /\ Left(c) /\ \A d \in Callers \ {c} : ref'[d] = ref[d]
<1>1. NoWindows \in [Windows -> Readable]
    BY DEF NoWindows, Unknown, Readable
<1>2. ref' = [ref EXCEPT ![c].id = 0, ![c].trusted = FALSE, ![c].retried = FALSE,
                         ![c].sentAt = 0, ![c].prev = NoWindows]
    BY DEF Leaves
<1> QED  BY <1>1, <1>2 DEF Left, Fields

(* The leader's steps under refresh.lock.                                   *)
LEMMA DatedProbe ==
    ASSUME Dated, OneLeader, NEW c \in Callers,
           \/ TakeLock(c) \/ Settled(c) \/ PersistTrust(c) \/ SendPrompt(c)
           \/ Poll(c) \/ Recover(c)
    PROVE  Dated'
<1> USE DEF Goto, Fail, Conflict, disk, Leading, Running
<1>0. /\ RefDated(c) /\ now \in Nat /\ TTL \in Nat /\ TTL > 0
      /\ DOMAIN ref = Callers /\ DOMAIN mem = Agents
      /\ pc \in [Callers -> Places]
      /\ \A b \in Agents : \A m \in mem[b] : Kept(m)
      /\ \A s \in usage : Observed(s) /\ s.at <= now
    BY ProbeAssumption DEF Dated, OneLeader
<1>1. UNCHANGED <<now, usage, mem>>
    BY DEF TakeLock, Settled, PersistTrust, SendPrompt, Poll, Recover
<1>2. ASSUME NEW i, NEW retry, StartAttempt(c, i, retry), pc[c] \in {"locking", "rotating"}
      PROVE  Dated'
    <2>1. /\ ref' = [ref EXCEPT ![c].n = Spawned + 1, ![c].id = i.cur, ![c].trusted = i.trusted,
                                ![c].retried = retry]
          /\ pc' = [pc EXCEPT ![c] = "settling"]
        BY <1>2 DEF StartAttempt
    <2>2. DOMAIN ref[c] = Fields
        BY <1>0, <1>2 DEF RefDated
    <2>3. /\ DOMAIN ref' = Callers /\ DOMAIN ref'[c] = Fields
          /\ ref'[c].t = ref[c].t /\ ref'[c].sentAt = ref[c].sentAt /\ ref'[c].prev = ref[c].prev
          /\ ref'[c].limit = ref[c].limit /\ ref'[c].val = ref[c].val
          /\ \A d \in Callers \ {c} : ref'[d] = ref[d]
        BY <1>0, <2>1, <2>2 DEF Fields
    <2>4. ref[c].limit = {} /\ ref[c].val = {} /\ ref[c].sentAt \in Nat /\ ref[c].prev \in [Windows -> Readable]
        BY <1>0, <1>2 DEF RefDated
    <2> QED  BY <1>1, <1>2, <2>1, <2>3, <2>4, DatedLeader
<1>3. ASSUME UNCHANGED ref, pc[c] \in Leading \ {"saving", "finishing"},
             NEW l \in Leading \ {"polling"}, pc' = [pc EXCEPT ![c] = l]
      PROVE  Dated'
    <2>1. /\ DOMAIN ref[c] = Fields /\ ref[c].sentAt \in Nat
          /\ ref[c].limit = {} /\ ref[c].val = {} /\ ref[c].prev \in [Windows -> Readable]
        BY <1>0, <1>3 DEF RefDated
    <2> QED  BY <1>0, <1>1, <1>3, <2>1, DatedLeader
<1>3a. ASSUME Leaves(c), pc[c] \in Leading \ {"saving", "finishing"} PROVE Dated'
    <2>1. DOMAIN ref[c] = Fields /\ ref[c].limit = {} /\ ref[c].val = {}
        BY <1>0, <1>3a DEF RefDated
    <2>2. DOMAIN ref' = Callers /\ Left(c) /\ \A d \in Callers \ {c} : ref'[d] = ref[d]
        BY <1>0, <1>3a, <2>1, LeavesIs
    <2> QED  BY <1>1, <1>3a, <2>1, <2>2, DatedLeader DEF Left, Leaves
<1>4. CASE TakeLock(c)
    <2>1. pc[c] = "locking"
        BY <1>4 DEF TakeLock
    <2>2. CASE \E i \in LoadOrCreate : StartAttempt(c, i, FALSE)
        BY <1>2, <2>1, <2>2
    <2>3. CASE Leaves(c)
        BY <1>3a, <2>1, <2>3
    <2>4. ASSUME NEW val, val = {s \in usage : SnapshotFresh(s.at)},
                 pc' = [pc EXCEPT ![c] = "finishing"],
                 ref' = [ref EXCEPT ![c].val = val]
          PROVE  Dated'
        <3>1. \A s \in val : Observed(s) /\ s.at <= now /\ now - s.at < TTL
            BY <1>0, <2>4 DEF SnapshotFresh
        <3>2. DOMAIN ref[c] = Fields /\ ref[c].limit = {}
            BY <1>0, <2>1 DEF RefDated
        <3>3. /\ DOMAIN ref' = Callers /\ DOMAIN ref'[c] = Fields /\ ref'[c].val = val
              /\ ref'[c].t = ref[c].t /\ ref'[c].sentAt = ref[c].sentAt /\ ref'[c].prev = ref[c].prev
              /\ ref'[c].limit = {}
              /\ \A d \in Callers \ {c} : ref'[d] = ref[d] /\ pc'[d] = pc[d]
              /\ pc'[c] = "finishing"
            BY <1>0, <2>4, <3>2 DEF Fields
        <3>4. RefDated(c)'
            BY <1>0, <1>1, <2>1, <3>1, <3>3 DEF RefDated
        <3> QED  BY <1>0, <1>1, <3>3, <3>4, DatedCall
    <2> QED  BY <1>4, <2>2, <2>3, <2>4 DEF TakeLock
<1>5. CASE Settled(c)
    BY <1>3, <1>3a, <1>5 DEF Settled
<1>6. CASE PersistTrust(c)
    BY <1>3, <1>3a, <1>6 DEF PersistTrust
<1>7. CASE SendPrompt(c)
    <2>1. pc[c] = "sending"
        BY <1>7 DEF SendPrompt
    <2>2. CASE Leaves(c) \/ (UNCHANGED ref /\ pc' = [pc EXCEPT ![c] = "rotating"])
        BY <1>3, <1>3a, <2>1, <2>2
    <2>3. CASE /\ pc' = [pc EXCEPT ![c] = "polling"]
               /\ ref' = [ref EXCEPT ![c].sentAt = now, ![c].trusted = FALSE]
        <3>1. /\ DOMAIN ref[c] = Fields /\ ref[c].limit = {} /\ ref[c].val = {}
              /\ ref[c].prev \in [Windows -> Readable]
            BY <1>0, <2>1 DEF RefDated
        <3>2. /\ DOMAIN ref' = Callers /\ DOMAIN ref'[c] = Fields /\ ref'[c].sentAt = now
              /\ ref'[c].t = ref[c].t /\ ref'[c].prev \in [Windows -> Readable]
              /\ ref'[c].limit = {} /\ ref'[c].val = {}
              /\ \A d \in Callers \ {c} : ref'[d] = ref[d]
            BY <1>0, <2>3, <3>1 DEF Fields
        <3> QED  BY <1>0, <1>1, <2>1, <2>3, <3>2, DatedLeader
    <2> QED  BY <1>7, <2>2, <2>3 DEF SendPrompt
<1>8. CASE Recover(c)
    BY <1>2, <1>3a, <1>8 DEF Recover
<1>9. CASE Poll(c)
    <2>1. pc[c] = "polling" /\ DOMAIN ref[c] = Fields /\ ref[c].limit = {}
          /\ ref[c].prev \in [Windows -> Readable]
        BY <1>0, <1>9 DEF Poll, RefDated
    <2>2. ASSUME DOMAIN ref' = Callers, DOMAIN ref'[c] = Fields, ref'[c].t = ref[c].t,
                 ref'[c].sentAt = ref[c].sentAt, ref'[c].prev = ref[c].prev,
                 \A d \in Callers \ {c} : ref'[d] = ref[d],
                 ref'[c].limit \subseteq Windows,
                 \A s \in ref'[c].val :
                     Observed(s) /\ s.at = now /\ \A w \in ref'[c].limit : s.w[w].state = "exhausted",
                 pc' = [pc EXCEPT ![c] = "saving"]
          PROVE  Dated'
        <3>1. RefDated(c)'
            BY <1>0, <1>1, <2>1, <2>2 DEF RefDated
        <3> QED  BY <1>0, <1>1, <2>2, <3>1, DatedCall
    <2>3. CASE ref' = [ref EXCEPT ![c].val = Answer(c)] /\ pc' = [pc EXCEPT ![c] = "saving"]
        <3>1. \A s \in Answer(c) : Observed(s) /\ s.at = now
            BY <1>0, <2>1 DEF RefDated, Answer
        <3>2. /\ DOMAIN ref' = Callers /\ DOMAIN ref'[c] = Fields /\ ref'[c].val = Answer(c)
              /\ ref'[c].t = ref[c].t /\ ref'[c].sentAt = ref[c].sentAt /\ ref'[c].prev = ref[c].prev
              /\ ref'[c].limit = {}
              /\ \A d \in Callers \ {c} : ref'[d] = ref[d]
            BY <1>0, <2>1, <2>3 DEF Fields
        <3> QED  BY <2>2, <2>3, <3>1, <3>2
    <2>4. ASSUME NEW limit, limit = Mine(c).text \cap Windows,
                 ref' = [ref EXCEPT ![c].val = {Exhausted(limit, ref[c].prev)}, ![c].limit = limit],
                 pc' = [pc EXCEPT ![c] = "saving"]
          PROVE  Dated'
        <3>1. limit \subseteq Windows
            BY <2>4
        <3>2. \A s \in {Exhausted(limit, ref[c].prev)} :
                 Observed(s) /\ s.at = now /\ \A w \in limit : s.w[w].state = "exhausted"
            BY <1>0, <2>1, <3>1, ExhaustedIs
        <3>3. /\ DOMAIN ref' = Callers /\ DOMAIN ref'[c] = Fields
              /\ ref'[c].val = {Exhausted(limit, ref[c].prev)}
              /\ ref'[c].t = ref[c].t /\ ref'[c].sentAt = ref[c].sentAt /\ ref'[c].prev = ref[c].prev
              /\ ref'[c].limit = limit
              /\ \A d \in Callers \ {c} : ref'[d] = ref[d]
            BY <1>0, <2>1, <2>4 DEF Fields
        <3> QED  BY <2>2, <2>4, <3>1, <3>2, <3>3
    <2>5. CASE Leaves(c)
        BY <1>3a, <2>1, <2>5
    <2>6. PICK limit : limit = Mine(c).text \cap Windows
        OBVIOUS
    <2> QED  BY <1>9, <2>3, <2>4, <2>5, <2>6 DEF Poll
<1> QED  BY <1>4, <1>5, <1>6, <1>7, <1>8, <1>9

(* Only the caller that polls could answer its own prompt by saving, and it *)
(* is past that.                                                            *)
LEMMA DatedSave ==
    ASSUME Dated, OneLeader, NEW c \in Callers, SaveSnapshot(c)
    PROVE  Dated'
<1> USE DEF Leading, Running
<1>1. /\ pc[c] = "saving" /\ usage' \in {ref[c].val, usage}
      /\ pc' = [pc EXCEPT ![c] = "finishing"] /\ UNCHANGED <<now, mem>> /\ Leaves(c)
      /\ pc \in [Callers -> Places] /\ now \in Nat
      /\ DOMAIN ref = Callers /\ RefDated(c)
    BY DEF SaveSnapshot, Leaves, Goto, Dated, OneLeader
<1>1a. DOMAIN ref' = Callers /\ Left(c) /\ \A d \in Callers \ {c} : ref'[d] = ref[d]
    <2>1. DOMAIN ref[c] = Fields
        BY <1>1 DEF RefDated
    <2> QED  BY <1>1, <2>1, LeavesIs
<1>2. RefDated(c)' /\ \A s \in ref[c].val : Observed(s) /\ s.at <= now
    BY <1>1, <1>1a DEF RefDated, Left
<1>3. ASSUME NEW d \in Callers \ {c} PROVE RefDated(d)'
    <2>1. pc'[d] = pc[d] /\ ref'[d] = ref[d] /\ RefDated(d)
        BY <1>1, <1>1a DEF Dated
    <2>2. pc[d] # "polling"
        BY <1>1, ProbeAssumption DEF OneLeader
    <2> QED  BY <1>1, <2>1, <2>2 DEF RefDated
<1> QED  BY <1>1, <1>2, <1>3, <1>1a DEF Dated, Kept, Observed

LEMMA DatedFinish ==
    ASSUME Dated, OneLeader, NEW c \in Callers, Finish(c)
    PROVE  Dated'
<1> USE DEF disk, Leading, Running
<1> DEFINE a == AgentOf[c]
           installed == {[snap |-> s, at |-> now] : s \in ref[c].val}
<1>1. /\ pc[c] = "finishing" /\ UNCHANGED <<now, usage>>
      /\ mem' = [mem EXCEPT ![a] = IF installed # {} THEN installed ELSE @]
      /\ pc' = [d \in Callers |->
                  IF d = c THEN "done"
                  ELSE IF pc[d] = "waiting" /\ AgentOf[d] = a THEN "woken" ELSE pc[d]]
      /\ ref' = [ref EXCEPT ![c] = NoRef]
      /\ a \in Agents /\ pc \in [Callers -> Places] /\ now \in Nat
      /\ DOMAIN mem = Agents /\ DOMAIN ref = Callers
    BY ProbeAssumption DEF Finish, Dated, OneLeader
<1>2. ASSUME NEW s \in ref[c].val PROVE Kept([snap |-> s, at |-> now])
    BY <1>1 DEF Dated, RefDated, Kept, Observed
<1>3. \A b \in Agents : \A m \in mem'[b] : Kept(m)
    <2> SUFFICES ASSUME NEW b \in Agents, NEW m \in mem'[b] PROVE Kept(m)
        OBVIOUS
    <2>1. CASE m \in mem[b]
        BY <2>1 DEF Dated
    <2>2. CASE m \notin mem[b]
        <3>1. m \in installed
            BY <1>1, <2>2
        <3> QED  BY <1>2, <3>1
    <2> QED  BY <2>1, <2>2
<1>4. ASSUME NEW d \in Callers PROVE RefDated(d)'
    <2>1. CASE d = c
        BY <1>1, <2>1 DEF RefDated
    <2>2. CASE d # c
        <3>1. RefDated(d) /\ ref'[d] = ref[d]
            BY <1>1, <2>2 DEF Dated
        <3>2. pc'[d] = pc[d] \/ (pc[d] = "waiting" /\ pc'[d] = "woken")
            BY <1>1, <2>2
        <3> QED  BY <1>1, <3>1, <3>2 DEF RefDated, Answer
    <2> QED  BY <2>1, <2>2
<1>5. DOMAIN mem' = Agents /\ DOMAIN ref' = Callers
    BY <1>1
<1> QED  BY <1>1, <1>3, <1>4, <1>5 DEF Dated, Kept, Observed

(* No time passes while a snapshot is on its way to the cache, and a status *)
(* line writes what it reads now.                                           *)
LEMMA DatedInductive == Dated /\ OneLeader /\ [Next]_vars => Dated'
<1> SUFFICES ASSUME Dated, OneLeader, [Next]_vars PROVE Dated'
    OBVIOUS
<1> USE DEF disk, Leading, Running
<1>1. CASE UNCHANGED <<now, usage, mem, pc, ref>>
    BY <1>1 DEF Dated, RefDated, Answer, Kept, Observed
<1>2. ASSUME NEW n \in 1..MaxSpawn, Claude(n) PROVE Dated'
    BY <1>1, <1>2 DEF Claude
<1>3. ASSUME NEW n \in 1..MaxSpawn, Collector(n) PROVE Dated'
    <2>1. /\ usage' = {ParseStatusLine(child[n].answered)}
          /\ UNCHANGED <<now, mem, pc, ref>> /\ now \in Nat
        BY <1>3 DEF Collector, Dated
    <2>2. \A s \in usage' : Observed(s) /\ s.at = now
        BY <2>1, ReadingIs
    <2> QED  BY <2>1, <2>2 DEF Dated, RefDated, Answer, Kept, Observed
<1>4. CASE Tick
    <2>1. /\ now' = now + 1 /\ UNCHANGED <<usage, mem, pc, ref>> /\ now \in Nat
          /\ \A c \in Callers : ~Urgent(c)
          /\ \A s \in usage : s.at \in Nat
        BY <1>4 DEF Tick, Dated, Observed
    <2>2. ASSUME NEW c \in Callers PROVE RefDated(c)'
        <3>1. RefDated(c) /\ ~Urgent(c)
            BY <2>1 DEF Dated
        <3>2. pc[c] \notin {"joining", "woken", "saving", "finishing"}
            BY <3>1 DEF Urgent
        <3>3. pc[c] = "polling" => Answer(c) = {}
            BY <3>1 DEF Urgent
        <3>4. Answer(c)' = Answer(c)
            BY <2>1 DEF Answer
        <3> QED  BY <2>1, <3>1, <3>2, <3>3, <3>4 DEF RefDated
    <2> QED  BY <2>1, <2>2 DEF Dated, Kept, Observed
<1>5. ASSUME NEW a \in Mortal, Crash(a) PROVE Dated'
    <2> DEFINE mine == {c \in Callers : AgentOf[c] = a /\ pc[c] \notin {"idle", "done"}}
    <2>1. /\ UNCHANGED <<now, usage>> /\ mem' = [mem EXCEPT ![a] = {}]
          /\ pc' = [c \in Callers |-> IF c \in mine THEN "done" ELSE pc[c]]
          /\ ref' = [c \in Callers |-> IF c \in mine THEN NoRef ELSE ref[c]]
          /\ DOMAIN mem = Agents /\ now \in Nat
        BY <1>5 DEF Crash, Dated
    <2> HIDE DEF mine
    <2>2. ASSUME NEW c \in Callers PROVE RefDated(c)'
        <3>1. RefDated(c)
            BY DEF Dated
        <3>2. \/ pc'[c] = "done" /\ ref'[c] = NoRef
              \/ pc'[c] = pc[c] /\ ref'[c] = ref[c]
            BY <2>1
        <3> QED  BY <2>1, <3>1, <3>2 DEF RefDated, Answer
    <2>3. \A b \in Agents : \A m \in mem'[b] : Kept(m)
        BY <2>1 DEF Dated
    <2> QED  BY <2>1, <2>2, <2>3 DEF Dated, Kept, Observed
<1>6. CASE UNCHANGED vars
    BY <1>1, <1>6 DEF vars
<1> QED
    BY <1>2, <1>3, <1>4, <1>5, <1>6, DatedJoin, DatedProbe, DatedSave, DatedFinish
    DEF Next, CallerStep

LEMMA InitDated == Init => Dated
<1> SUFFICES ASSUME Init PROVE Dated
    OBVIOUS
<1>1. /\ now = 0 /\ usage = {} /\ mem = [a \in Agents |-> {}]
      /\ pc = [c \in Callers |-> "idle"] /\ ref = [c \in Callers |-> NoRef]
    BY DEF Init
<1>2. ASSUME NEW c \in Callers PROVE RefDated(c)
    BY <1>1 DEF RefDated, Leading, Running
<1> QED  BY <1>1, <1>2 DEF Dated

(* A snapshot in memory that is still fresh, given to a call that asked     *)
(* claude nothing.                                                          *)
LEMMA CachedResult ==
    ASSUME NEW c \in Callers, now \in Nat, now' = now, ref[c].n = 0,
           NEW a \in Agents, NEW m \in mem[a], Kept(m), SnapshotFresh(m.at),
           NEW t, out' = Result(c, m.snap, t)
    PROVE  FreshIsBounded' /\ LimitIsReported'
<1>1. out'.how = "fresh" /\ out'.at = m.snap.at /\ out'.limit = {}
    BY DEF Result
<1>2. TTL \in Nat /\ m.at \in Nat /\ m.snap.at \in Nat
    BY ProbeAssumption DEF Kept, Observed
<1>3. now - m.snap.at <= 2 * (TTL - 1)
    BY <1>2 DEF Kept, SnapshotFresh
<1> QED  BY <1>1, <1>3 DEF FreshIsBounded, LimitIsReported

(* What a leader has just installed, and gives to its own call.             *)
LEMMA InstalledResult ==
    ASSUME NEW c \in Callers, Dated, OneLeader, pc[c] = "finishing", now' = now,
           NEW m \in mem'[AgentOf[c]], m.snap \in ref[c].val,
           out' = Result(c, m.snap, ref[c].t)
    PROVE  FreshIsBounded' /\ LimitIsReported'
<1> DEFINE s == m.snap
<1>1. /\ Observed(s) /\ s.at <= now /\ now - s.at < TTL
      /\ \A w \in ref[c].limit : s.w[w].state = "exhausted"
      /\ ref[c].limit \subseteq Windows /\ ref[c].t \in 0..now /\ now \in Nat
      /\ TTL \in Nat /\ TTL > 0 /\ AgentOf[c] \in Agents
    BY ProbeAssumption DEF Dated, RefDated, Leading
<1>2. /\ out'.how = "fresh" /\ out'.at = s.at /\ out'.w = ToSessionUsage(s, ref[c].t)
      /\ out'.limit \subseteq ref[c].limit
    BY DEF Result
<1>3. FreshIsBounded'
    BY <1>1, <1>2 DEF FreshIsBounded, Observed
<1>4. ASSUME NEW w \in out'.limit
      PROVE  \/ out'.w[w].state = "exhausted"
             \/ s.w[w].state = "exhausted" /\ s.w[w].reset \in 1..now
    <2>1. s.w[w].state = "exhausted" /\ s.w[w].reset \in Nat /\ w \in Windows
        BY <1>1, <1>2 DEF Observed, Readable
    <2>2. out'.w[w] = At(s.w[w], ref[c].t)
        BY <1>2, <2>1 DEF ToSessionUsage
    <2>3. CASE s.w[w].reset # 0 /\ ref[c].t >= s.w[w].reset
        BY <1>1, <2>1, <2>3
    <2>4. CASE ~(s.w[w].reset # 0 /\ ref[c].t >= s.w[w].reset)
        BY <2>1, <2>2, <2>4 DEF At
    <2> QED  BY <2>3, <2>4
<1>5. LimitIsReported'
    BY <1>1, <1>4 DEF LimitIsReported
<1> QED  BY <1>3, <1>5

Reported == FreshIsBounded /\ LimitIsReported

(* Each step's answer is right on its own: a step that gives none gives an  *)
(* empty one, and a fallback or an error claims nothing.                    *)
LEMMA ReportedStep == Dated /\ OneLeader /\ Reported /\ [Next]_vars => Reported'
<1> SUFFICES ASSUME Dated, OneLeader, Reported, [Next]_vars PROVE Reported'
    OBVIOUS
<1>1. ASSUME out'.how # "fresh" PROVE Reported'
    BY <1>1 DEF Reported, FreshIsBounded, LimitIsReported
<1>2. CASE Silent
    <2>1. out'.how = "none"
        BY <1>2 DEF Silent, NoOut
    <2> QED  BY <1>1, <2>1
<1>3. ASSUME NEW c \in Callers, FallBack(c) PROVE Reported'
    BY <1>2, <1>3 DEF FallBack
<1>4. ASSUME NEW c \in Callers
      PROVE  /\ RefDated(c) /\ now \in Nat /\ AgentOf[c] \in Agents
             /\ DOMAIN mem = Agents /\ \A a \in Agents : \A m \in mem[a] : Kept(m)
    BY ProbeAssumption DEF Dated
<1>5. ASSUME NEW c \in Callers, Usage(c) PROVE Reported'
    <2> DEFINE a == AgentOf[c]
               loaded == IF mem[a] # {} THEN mem[a] ELSE {[snap |-> s, at |-> s.at] : s \in usage}
    <2>1. pc[c] = "idle" /\ now' = now
        BY <1>5 DEF Usage
    <2>2. ref[c].n = 0
        BY <1>4, <2>1 DEF RefDated, NoRef
    <2>3. \A m \in loaded : Kept(m)
        <3>1. ASSUME NEW s \in usage PROVE Kept([snap |-> s, at |-> s.at])
            BY ProbeAssumption, <3>1 DEF Kept, Observed, Dated
        <3> QED  BY <1>4, <3>1
    <2>4. ASSUME NEW m \in loaded, SnapshotFresh(m.at), out' = Result(c, m.snap, now)
          PROVE  Reported'
        <3>1. Kept(m) /\ out'.at = m.snap.at /\ out'.limit = {} /\ TTL \in Nat
            BY <2>2, <2>3, <2>4, ProbeAssumption DEF Result
        <3>2. now - m.snap.at <= 2 * (TTL - 1)
            BY <1>4, <2>4, <3>1 DEF Kept, SnapshotFresh, Observed
        <3> QED  BY <2>1, <3>1, <3>2 DEF Reported, FreshIsBounded, LimitIsReported
    <2> QED  BY <1>2, <1>5, <2>4 DEF Usage, Returns
<1>6. ASSUME NEW c \in Callers, Waiter(c) PROVE Reported'
    <2>1. pc[c] = "woken" /\ now' = now
        BY <1>6 DEF Waiter
    <2>2. ref[c].n = 0
        BY <1>4, <2>1 DEF RefDated
    <2>3. ASSUME NEW m \in CachedFresh(AgentOf[c]), out' = Result(c, m.snap, ref[c].t)
          PROVE  Reported'
        <3>1. m \in mem[AgentOf[c]] /\ SnapshotFresh(m.at) /\ Kept(m)
            BY <1>4 DEF CachedFresh
        <3> QED  BY <1>4, <2>1, <2>2, <2>3, <3>1, CachedResult DEF Reported
    <2> QED  BY <1>3, <1>6, <2>3 DEF Waiter, Returns
<1>7. ASSUME NEW c \in Callers, ContextEnds(c) PROVE Reported'
    BY <1>2, <1>3, <1>7 DEF ContextEnds
<1>8. ASSUME NEW c \in Callers, Finish(c) PROVE Reported'
    <2> DEFINE a == AgentOf[c]
               installed == {[snap |-> s, at |-> now] : s \in ref[c].val}
               m == CHOOSE x \in installed : TRUE
    <2>1. /\ pc[c] = "finishing" /\ now' = now
          /\ mem' = [mem EXCEPT ![a] = IF installed # {} THEN installed ELSE @]
          /\ out' = IF installed = {} THEN NoOut ELSE Result(c, m.snap, ref[c].t)
        BY <1>8 DEF Finish
    <2>2. CASE installed = {}
        BY <1>2, <2>1, <2>2 DEF Silent
    <2>3. CASE installed # {}
        <3>1. mem'[a] = installed /\ m \in installed /\ m.snap \in ref[c].val
            BY <1>4, <2>1, <2>3
        <3>2. out' = Result(c, m.snap, ref[c].t)
            BY <2>1, <2>3
        <3>3. PICK x : x = m
            OBVIOUS
        <3>4. x \in mem'[AgentOf[c]] /\ x.snap \in ref[c].val /\ out' = Result(c, x.snap, ref[c].t)
            BY <3>1, <3>2, <3>3
        <3> QED  BY <2>1, <3>4, InstalledResult DEF Reported
    <2> QED  BY <2>2, <2>3
<1>9. ASSUME NEW c \in Callers,
             \/ RefreshShared(c) \/ TakeLock(c) \/ Settled(c) \/ PersistTrust(c) \/ SendPrompt(c)
             \/ Poll(c) \/ SaveSnapshot(c) \/ Recover(c)
      PROVE  Silent
    BY <1>9 DEF RefreshShared, TakeLock, Settled, PersistTrust, SendPrompt, Poll, SaveSnapshot, Recover
<1>10. ASSUME \/ \E n \in 1..MaxSpawn : Claude(n) \/ Collector(n)
              \/ \E a \in Mortal : Crash(a)
              \/ Tick
       PROVE  Silent
    BY <1>10 DEF Claude, Collector, Crash, Tick
<1>11. CASE UNCHANGED vars
    BY <1>11 DEF vars, Reported, FreshIsBounded, LimitIsReported
<1> QED
    BY <1>2, <1>5, <1>6, <1>7, <1>8, <1>9, <1>10, <1>11 DEF Next, CallerStep

LEMMA ReportedAlways == Spec => []Reported
<1>1. Init => Reported
    BY DEF Init, NoOut, Reported, FreshIsBounded, LimitIsReported
<1> QED
    BY <1>1, InitOneLeader, InitDated, OneLeaderInductive, DatedInductive, ReportedStep, PTL DEF Spec

(* A result that is not a fallback was observed less than two TTLs before   *)
(* the call that reports it, through another process's usage.json too.      *)
THEOREM FreshIsBoundedAlways == Spec => []FreshIsBounded
<1>1. Reported => FreshIsBounded
    BY DEF Reported
<1> QED  BY <1>1, ReportedAlways, PTL

(* The call whose refresh has detected a limit reports it, unless the reset *)
(* carried over from the reading before is already past.                    *)
THEOREM LimitIsReportedAlways == Spec => []LimitIsReported
<1>1. Reported => LimitIsReported
    BY DEF Reported
<1> QED  BY <1>1, ReportedAlways, PTL

=============================================================================
