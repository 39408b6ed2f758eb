-------------------------- MODULE CodexTurnsProofs --------------------------
(***************************************************************************)
(* For any calls, any number of turns and any faults: Stop ends the turn   *)
(* it resolved and no other, and Archive ends none it could have seen.     *)
(***************************************************************************)
EXTENDS CodexTurns, TLAPS

Statuses == Rest \cup {"none", "active"}
Fates == Over \cup {"none", "pending", "running"}

(* The daemon has accepted the turns 1 to n, and runs at most one, while   *)
(* the thread is active.                                                    *)
Accepted(n) == \A u \in Turns : fate[u] # "none" <=> u <= n

OneTurn ==
    /\ status \in Statuses
    /\ fate \in [Turns -> Fates]
    /\ \E n \in 0 .. MaxTurns : Accepted(n)
    /\ status # "active" => InProgress = {}
    /\ \A u, v \in InProgress : u = v

(* Turns are neither withdrawn nor taken up again.                          *)
Advance ==
    \A u \in Turns : /\ fate[u] # "none" => fate'[u] # "none"
                     /\ fate[u] \in Over => fate'[u] \in Over

(* What is remembered are accepted turns.                                   *)
Known(u) == u = NoTurn \/ (u \in Turns /\ fate[u] # "none")

Remembered == Known(hint) /\ \A c \in Calls : Known(mine[c])

(* Between its two requests an Archive holds that the turns it saw are over.*)
ArchiveSaw ==
    /\ ~implicit
    /\ \A a \in Archives : pc[a] = "archive" =>
          \A u \in Turns : u <= sight[a] => fate[u] \in Over

StopPlaces == {"idle", "resolve", "interrupt", "inactive", "confirm", "done"}

(* A Stop asks for one turn, which it resolved before, and that was there. *)
Saw(s) ==
    /\ pc[s] \in StopPlaces
    /\ pc[s] \in {"idle", "resolve"} => asked[s] = {} /\ mine[s] = NoTurn
    /\ pc[s] = "interrupt" => mine[s] # NoTurn
    /\ asked[s] \subseteq {mine[s]}
    /\ mine[s] # NoTurn => mine[s] <= sight[s]
    /\ Succeeded(s) /\ mine[s] # NoTurn => fate[mine[s]] \in Over

StopSaw == \A s \in Stops : Saw(s)

Places ==
    Looking \cup {"idle", "turn", "remember", "ready", "name", "cleanup", "wait",
                  "forget", "leave", "interrupt", "inactive", "archive", "done"}

CallTypes ==
    /\ pc \in [Calls -> Places]
    /\ mine \in [Calls -> Turns \cup {NoTurn}]
    /\ sight \in [Calls -> 0 .. MaxTurns]
    /\ failed \subseteq Calls
    /\ asked \in [Stops -> SUBSET Turns]

CallInv == CallTypes /\ Remembered /\ ArchiveSaw /\ StopSaw

----------------------------------------------------------------------------
(* The newest accepted turn.                                                *)
LEMMA CountIsNewest ==
    ASSUME NEW n \in 0 .. MaxTurns, Accepted(n)
    PROVE  Count = n
<1> USE TurnsAssumption DEF Turns
<1>1. CASE n = 0
    <2>1. ~\E u \in Turns : fate[u] # "none"
        BY <1>1 DEF Accepted
    <2> QED  BY <1>1, <2>1 DEF Count
<1>2. CASE n # 0
    <2>1. n \in Turns /\ fate[n] # "none"
        BY <1>2 DEF Accepted
    <2>2. \A u \in Turns : fate[u] # "none" /\ (\A v \in Turns : fate[v] # "none" => v <= u) <=> u = n
        BY <2>1 DEF Accepted
    <2>3. (CHOOSE u \in Turns : fate[u] # "none" /\ \A v \in Turns : fate[v] # "none" => v <= u) = n
        BY <2>1, <2>2
    <2> QED  BY <2>1, <2>3 DEF Count
<1> QED  BY <1>1, <1>2

LEMMA CountBounds ==
    ASSUME OneTurn
    PROVE  Count \in 0 .. MaxTurns /\ \A u \in Turns : fate[u] # "none" <=> u <= Count
<1>1. PICK n \in 0 .. MaxTurns : Accepted(n)
    BY DEF OneTurn
<1> QED  BY <1>1, CountIsNewest DEF Accepted

LEMMA AcceptKeeps ==
    ASSUME OneTurn, NEW u \in Turns, status \in Rest, Accept(u)
    PROVE  OneTurn' /\ Advance
<1> USE TurnsAssumption DEF Turns
<1>1. u = Count + 1 /\ status' = "active" /\ fate' = [fate EXCEPT ![u] = "pending"]
    BY DEF Accept, Becomes
<1>2. \A v \in Turns : fate'[v] = IF v = u THEN "pending" ELSE fate[v]
    BY <1>1 DEF OneTurn
<1>3. fate[u] = "none" /\ \A v \in Turns : fate'[v] # "none" <=> v <= u
    BY <1>1, <1>2, CountBounds
<1>4. \A v \in Turns : fate[v] \notin {"pending", "running"}
    BY DEF OneTurn, InProgress, Rest
<1>5. \A v \in InProgress' : v = u
    BY <1>2, <1>4 DEF InProgress
<1>6. fate' \in [Turns -> Fates]
    BY <1>1 DEF OneTurn, Fates
<1>7. \E n \in 0 .. MaxTurns : Accepted(n)'
    BY <1>3 DEF Accepted
<1>8. Advance
    BY <1>2, <1>3 DEF Advance, Over
<1> QED  BY <1>1, <1>5, <1>6, <1>7, <1>8 DEF OneTurn, Statuses

(* Steps that only move turns that run on, or end them all.                 *)
LEMMA FatesMove ==
    ASSUME OneTurn, status' \in Statuses, fate' \in [Turns -> Fates],
           \A u \in Turns : \/ fate'[u] = fate[u]
                            \/ u \in InProgress /\ fate'[u] \in Over \cup {"running"},
           status' # "active" => \A u \in Turns : fate'[u] \notin {"pending", "running"}
    PROVE  OneTurn' /\ Advance
<1>1. \A u \in Turns : /\ fate'[u] # "none" <=> fate[u] # "none"
                       /\ fate[u] \in Over => fate'[u] \in Over
    BY DEF InProgress, Over
<1>2. InProgress' \subseteq InProgress
    BY DEF InProgress, Over
<1>3. \E n \in 0 .. MaxTurns : Accepted(n)'
    BY <1>1 DEF OneTurn, Accepted
<1>4. status' # "active" => InProgress' = {}
    BY DEF InProgress
<1> QED  BY <1>1, <1>2, <1>3, <1>4 DEF OneTurn, Advance

LEMMA FatesStay ==
    ASSUME OneTurn, fate' = fate, status' \in Statuses,
           status' = status \/ (status # "active" /\ status' # "active")
    PROVE  OneTurn' /\ Advance
<1>1. \A u \in Turns : status' # "active" => fate'[u] \notin {"pending", "running"}
    BY DEF OneTurn, InProgress
<1> QED  BY <1>1, FatesMove DEF OneTurn

LEMMA OneTurnStep ==
    ASSUME OneTurn, [Next]_vars
    PROVE  OneTurn' /\ Advance
<1> USE DEF Becomes
<1>1. CASE UNCHANGED <<status, fate>>
    BY <1>1, FatesStay DEF OneTurn
<1>2. CASE TurnBegins
    <2>1. PICK u \in InProgress : fate[u] = "pending" /\ fate' = [fate EXCEPT ![u] = "running"]
                                  /\ status' = status
        BY <1>2 DEF TurnBegins
    <2>2. \A v \in Turns : fate'[v] = IF v = u THEN "running" ELSE fate[v]
        BY <2>1 DEF OneTurn
    <2>3. fate' \in [Turns -> Fates]
        BY <2>1 DEF OneTurn, Fates
    <2>4. status = "active"
        BY DEF OneTurn
    <2> QED  BY <2>1, <2>2, <2>3, <2>4, FatesMove DEF Statuses
<1>3. CASE TurnEnds
    <2>1. PICK u \in InProgress, f \in Over :
              fate' = [fate EXCEPT ![u] = f] /\ status' \in {"idle", "systemError"}
        BY <1>3 DEF TurnEnds, Over
    <2>2. \A v \in Turns : fate'[v] = IF v = u THEN f ELSE fate[v]
        BY <2>1 DEF OneTurn
    <2>3. fate' \in [Turns -> Fates]
        BY <2>1 DEF OneTurn, Fates
    <2>4. \A v \in Turns : fate'[v] \notin {"pending", "running"}
        BY <2>2 DEF OneTurn, InProgress, Over
    <2> QED  BY <2>1, <2>2, <2>3, <2>4, FatesMove DEF Statuses, Rest
<1>4. CASE OthersTurn
    BY <1>4, AcceptKeeps DEF OthersTurn, TakesTurns
<1>5. CASE Unload \/ Open
    BY <1>5, FatesStay DEF Unload, Open, Statuses, Rest
<1>6. ASSUME NEW d \in Dispatches, ThreadStart(d) PROVE OneTurn' /\ Advance
    BY <1>6, FatesStay DEF ThreadStart, Statuses, Rest
<1>7. ASSUME NEW d \in Dispatches, TurnStart(d) PROVE OneTurn' /\ Advance
    <2>1. CASE \E u \in Turns : TakesTurns /\ Accept(u)
        BY <2>1, AcceptKeeps DEF TakesTurns
    <2> QED  BY <1>1, <1>7, <2>1 DEF TurnStart
<1>8. ASSUME NEW a \in Archives, Archive(a) PROVE OneTurn' /\ Advance
    <2>1. CASE /\ fate' = [u \in Turns |-> IF u \in InProgress THEN "ended" ELSE fate[u]]
               /\ status' = "notLoaded"
        <3>1. fate' \in [Turns -> Fates]
            BY <2>1 DEF OneTurn, Fates, Over
        <3>2. \A u \in Turns : fate'[u] \notin {"pending", "running"}
            BY <2>1 DEF InProgress
        <3>3. \A u \in Turns : fate'[u] = IF u \in InProgress THEN "ended" ELSE fate[u]
            BY <2>1
        <3> QED  BY <2>1, <3>1, <3>2, <3>3, FatesMove DEF Statuses, Rest, Over
    <2> QED  BY <1>1, <1>8, <2>1 DEF Archive, Preflight, ThreadArchive, daemon
<1>9. CASE WriterMoves \/ ObserverForgets \/ Unarchive \/ UNCHANGED vars
    BY <1>1, <1>9 DEF WriterMoves, ObserverForgets, Unarchive, vars, daemon
<1>10. ASSUME NEW c \in Calls, ConnectionEnds(c) \/ Look(c) PROVE OneTurn' /\ Advance
    BY <1>1, <1>10 DEF ConnectionEnds, Look, ReadThread, ListTurns, ReadAgain, LookRefused,
                       LookOn, Looked, daemon
<1>11. ASSUME NEW s \in Stops, StopConnects(s) \/ NeverAnswered(s) \/ InterruptTurn(s) \/ WaitInactive(s)
       PROVE  OneTurn' /\ Advance
    BY <1>1, <1>11 DEF StopConnects, NeverAnswered, InterruptTurn, WaitInactive, daemon
<1>12. ASSUME NEW d \in Dispatches,
              \/ RememberActiveTurn(d) \/ WaitStarted(d) \/ SetThreadName(d) \/ InterruptBootstrap(d)
              \/ WaitCompleted(d) \/ GivesUp(d) \/ ForgetActiveTurn(d) \/ Leave(d)
       PROVE  OneTurn' /\ Advance
    BY <1>1, <1>12 DEF RememberActiveTurn, WaitStarted, SetThreadName, InterruptBootstrap,
                       WaitCompleted, GivesUp, ForgetActiveTurn, Leave, daemon
<1> QED
    BY <1>2, <1>3, <1>4, <1>5, <1>6, <1>7, <1>8, <1>9, <1>10, <1>11, <1>12
    DEF Next, Daemon, Turnover, DispatchStep, StopStep, Dispatch, AfterCommit, Stop, Calls

----------------------------------------------------------------------------
(* A step of one Dispatch or Stop.                                          *)
OnlyMoves(c) ==
    /\ \A d \in Calls \ {c} : /\ pc'[d] = pc[d] /\ mine'[d] = mine[d]
                               /\ sight'[d] = sight[d] /\ (d \in failed' <=> d \in failed)
    /\ \A s \in Stops \ {c} : asked'[s] = asked[s]
    /\ implicit' = implicit

LEMMA OneCallMoves ==
    ASSUME CallInv, Advance, NEW c \in Dispatches \cup Stops, OnlyMoves(c), CallTypes',
           Known(hint)', Known(mine[c])', c \in Stops => Saw(c)'
    PROVE  CallInv'
<1> USE TurnsAssumption DEF CallInv, OnlyMoves, Calls
<1>1. Remembered'
    <2>1. ASSUME NEW d \in Calls \ {c} PROVE Known(mine[d])'
        BY <2>1 DEF Remembered, Known, Advance
    <2> QED  BY <2>1 DEF Remembered
<1>2. ArchiveSaw'
    BY DEF ArchiveSaw, Advance
<1>3. StopSaw'
    <2>1. ASSUME NEW s \in Stops, s # c PROVE Saw(s)'
        <3>1. Saw(s) /\ Known(mine[s])
            BY DEF StopSaw, Remembered
        <3>2. mine[s] # NoTurn /\ fate[mine[s]] \in Over => fate'[mine[s]] \in Over
            BY <3>1 DEF Known, Advance
        <3> QED  BY <2>1, <3>1, <3>2 DEF Saw, Succeeded
    <2> QED  BY <2>1 DEF StopSaw
<1> QED  BY <1>1, <1>2, <1>3

(* A step that moves no call, and may drop the hint.                        *)
LEMMA NoCallMoves ==
    ASSUME CallInv, Advance, UNCHANGED <<pc, mine, sight, failed, asked, implicit>>,
           hint' = hint \/ hint' = NoTurn
    PROVE  CallInv'
<1> USE DEF CallInv
<1>1. CallTypes'
    BY DEF CallTypes
<1>2. Remembered'
    BY DEF Remembered, Known, Advance, CallTypes
<1>3. ArchiveSaw'
    BY DEF ArchiveSaw, Advance
<1>4. StopSaw'
    <2>1. ASSUME NEW s \in Stops PROVE Saw(s)'
        <3>1. Saw(s) /\ Known(mine[s])
            BY DEF StopSaw, Remembered, Calls
        <3>2. mine[s] # NoTurn /\ fate[mine[s]] \in Over => fate'[mine[s]] \in Over
            BY <3>1 DEF Known, Advance
        <3> QED  BY <3>1, <3>2 DEF Saw, Succeeded
    <2> QED  BY <2>1 DEF StopSaw
<1> QED  BY <1>1, <1>2, <1>3, <1>4

(* The outcomes of a look: a turn to interrupt, rest, or neither.           *)
Outcome(c, seen) ==
    \/ /\ pc[c] = "resolve" /\ pc' = [pc EXCEPT ![c] = "interrupt"]
       /\ \/ seen.kind = "turn" /\ mine' = [mine EXCEPT ![c] = seen.turn]
          \/ hint # NoTurn /\ mine' = [mine EXCEPT ![c] = hint]
       /\ failed' = failed /\ hint' = hint
    \/ /\ pc[c] \in {"resolve", "confirm"} /\ pc' = [pc EXCEPT ![c] = "done"]
       /\ pc[c] = "confirm" => seen.kind = "rest"
       /\ mine' = mine /\ failed' = failed /\ hint' = NoTurn
    \/ /\ pc[c] = "recheck"
       /\ pc' = [pc EXCEPT ![c] = "forget"] \/ pc' = [pc EXCEPT ![c] = "leave"]
       /\ mine' = mine /\ hint' = hint
       /\ failed' = failed \/ failed' = failed \cup {c}
    \/ /\ pc' = [pc EXCEPT ![c] = "done"] /\ mine' = mine /\ hint' = hint
       /\ failed' = failed \cup {c}

LEMMA LookedOutcome ==
    ASSUME NEW c, NEW seen, Looked(c, seen)
    PROVE  Outcome(c, seen)
<1> USE DEF Looked, Outcome, Goto, Return, ReturnError, Fails, Resolves, IsOver, AtRest
<1>1. CASE Resolves(c, seen)
    BY <1>1
<1>2. CASE ~Resolves(c, seen) /\ pc[c] = "resolve"
    BY <1>2
<1>3. CASE pc[c] = "confirm"
    BY <1>3
<1>4. CASE pc[c] = "recheck"
    BY <1>4
<1>5. CASE pc[c] \notin {"resolve", "confirm", "recheck"}
    BY <1>5
<1> QED  BY <1>1, <1>2, <1>3, <1>4, <1>5

LEMMA LookedKeeps ==
    ASSUME OneTurn, CallInv, OneTurn', Advance, NEW c \in Dispatches \cup Stops, NEW seen,
           pc[c] \in Looking, Looked(c, seen),
           seen.kind = "turn" => seen.turn \in InProgress,
           seen.kind = "rest" => status \in Rest
    PROVE  CallInv'
<1> USE TurnsAssumption DEF CallInv, Calls
<1>1. Outcome(c, seen)
    BY LookedOutcome
<1>2. /\ UNCHANGED <<status, fate, asked, implicit>>
      /\ sight' = IF pc[c] = "resolve" THEN [sight EXCEPT ![c] = Count] ELSE sight
    BY DEF Looked, daemon
<1>3. \A d \in Calls \ {c} : /\ pc'[d] = pc[d] /\ mine'[d] = mine[d] /\ (d \in failed' <=> d \in failed)
                             /\ sight'[d] = sight[d]
    BY <1>1, <1>2 DEF Outcome, CallTypes
<1>4. Known(hint)' /\ Known(mine[c])'
    BY <1>1, <1>2 DEF Outcome, Known, Remembered, InProgress, CallTypes
<1>5. CallTypes'
    <2>1. pc' \in [Calls -> Places]
        BY <1>1 DEF Outcome, CallTypes, Places
    <2>2. mine' \in [Calls -> Turns \cup {NoTurn}]
        BY <1>1 DEF Outcome, CallTypes, Remembered, Known, InProgress
    <2>3. sight' \in [Calls -> 0 .. MaxTurns]
        BY <1>2, CountBounds DEF CallTypes
    <2>4. failed' \subseteq Calls
        BY <1>1 DEF Outcome, CallTypes
    <2> QED  BY <1>2, <2>1, <2>2, <2>3, <2>4 DEF CallTypes
<1>6. ASSUME c \in Stops PROVE Saw(c)'
    <2>1. Saw(c)
        BY <1>6 DEF StopSaw
    <2>2. CASE pc[c] = "resolve"
        <3>1. sight'[c] = Count
            BY <1>2, <2>2 DEF CallTypes
        <3>2. mine'[c] # NoTurn => mine'[c] <= Count
            BY <1>2, <1>4, CountBounds DEF Known
        <3>3. asked'[c] = {} /\ pc'[c] \in {"interrupt", "done"}
            BY <1>1, <1>2, <2>1, <2>2 DEF Outcome, Saw, CallTypes
        <3>4. pc'[c] = "interrupt" => mine'[c] # NoTurn
            BY <1>1, <2>2 DEF Outcome, CallTypes, InProgress, Turns, NoTurn
        <3>5. pc'[c] = "done" => mine'[c] = NoTurn
            BY <1>1, <2>1, <2>2 DEF Outcome, CallTypes, Saw
        <3> QED  BY <3>1, <3>2, <3>3, <3>4, <3>5 DEF Saw, StopPlaces, Succeeded
    <2>3. CASE pc[c] = "confirm"
        <3>1. pc'[c] = "done" /\ mine'[c] = mine[c] /\ sight'[c] = sight[c] /\ asked'[c] = asked[c]
            BY <1>1, <1>2, <2>3 DEF Outcome, CallTypes
        <3>2. c \notin failed' => status \in Rest
            BY <1>1, <2>3 DEF Outcome, CallTypes
        <3>3. status \in Rest /\ mine[c] # NoTurn => fate[mine[c]] \in Over
            BY DEF OneTurn, InProgress, Rest, Remembered, Known, Fates
        <3> QED  BY <1>2, <2>1, <3>1, <3>2, <3>3 DEF Saw, StopPlaces, Succeeded
    <2> QED  BY <2>1, <2>2, <2>3 DEF Saw, StopPlaces, Looking
<1> QED  BY <1>2, <1>3, <1>4, <1>5, <1>6, OneCallMoves DEF OnlyMoves

LEMMA LookKeeps ==
    ASSUME OneTurn, CallInv, OneTurn', Advance, NEW c \in Dispatches \cup Stops, Look(c)
    PROVE  CallInv'
<1> USE DEF AtRest, Runs, Unmaterialized, LookFailed
<1>1. ASSUME NEW at, LookOn(c, at) PROVE CallInv'
    BY <1>1, NoCallMoves DEF LookOn, history
<1>2. CASE ReadThread(c)
    BY <1>1, <1>2, LookedKeeps DEF ReadThread, Looks
<1>3. CASE ListTurns(c)
    <2>1. CASE Looked(c, Unmaterialized)
        BY <1>3, <2>1, LookedKeeps DEF ListTurns, Looks
    <2>2. ASSUME NEW u \in InProgress, Looked(c, Runs(u)) PROVE CallInv'
        BY <1>3, <2>2, LookedKeeps DEF ListTurns, Looks
    <2> QED  BY <1>1, <1>3, <2>1, <2>2 DEF ListTurns
<1>4. CASE ReadAgain(c)
    BY <1>4, LookedKeeps DEF ReadAgain, Looks
<1>5. CASE LookRefused(c)
    BY <1>5, LookedKeeps DEF LookRefused
<1> QED  BY <1>2, <1>3, <1>4, <1>5 DEF Look

----------------------------------------------------------------------------
(* The steps of a Dispatch: they touch no Stop and no Archive.              *)
LEMMA DispatchKeeps ==
    ASSUME OneTurn, CallInv, OneTurn', Advance, NEW d \in Dispatches, Dispatch(d)
    PROVE  CallInv'
<1> USE TurnsAssumption DEF CallInv, Calls, Goto, Fails, Return, ReturnError, Sent, history
<1>1. ASSUME \/ ThreadStart(d) \/ WaitStarted(d) \/ SetThreadName(d) \/ InterruptBootstrap(d)
             \/ WaitCompleted(d) \/ GivesUp(d) \/ Leave(d)
      PROVE  /\ UNCHANGED <<mine, sight, asked, implicit, hint>>
             /\ \E l \in Places : pc' = [pc EXCEPT ![d] = l]
             /\ failed' = failed \/ failed' = failed \cup {d}
    <2>1. CASE ThreadStart(d) \/ WaitStarted(d) \/ SetThreadName(d)
        BY <2>1 DEF ThreadStart, WaitStarted, SetThreadName, Places
    <2>2. CASE InterruptBootstrap(d)
        BY <2>2 DEF InterruptBootstrap, Places, Looking
    <2>3. CASE WaitCompleted(d) \/ GivesUp(d) \/ Leave(d)
        BY <2>3 DEF WaitCompleted, GivesUp, Leave, Places
    <2> QED  BY <1>1, <2>1, <2>2, <2>3
<1>2. ASSUME UNCHANGED <<sight, asked, implicit>>, CallTypes', Known(hint)', Known(mine[d])',
             \A c \in Calls \ {d} : pc'[c] = pc[c] /\ mine'[c] = mine[c] /\ (c \in failed' <=> c \in failed)
      PROVE  CallInv'
    BY <1>2, OneCallMoves DEF OnlyMoves
<1>3. CASE \/ ThreadStart(d) \/ WaitStarted(d) \/ SetThreadName(d) \/ InterruptBootstrap(d)
           \/ WaitCompleted(d) \/ GivesUp(d) \/ Leave(d)
    <2>1. CallTypes'
        BY <1>1, <1>3 DEF CallTypes
    <2>2. Known(hint)' /\ Known(mine[d])'
        BY <1>1, <1>3 DEF Known, Remembered, Advance
    <2>3. \A c \in Calls \ {d} : pc'[c] = pc[c] /\ mine'[c] = mine[c] /\ (c \in failed' <=> c \in failed)
        BY <1>1, <1>3 DEF CallTypes
    <2> QED  BY <1>1, <1>2, <1>3, <2>1, <2>2, <2>3
<1>4. CASE TurnStart(d)
    <2>1. /\ UNCHANGED <<hint, sight, asked, implicit>>
          /\ \E l \in {"remember", "done"} : pc' = [pc EXCEPT ![d] = l]
          /\ failed' = failed \/ failed' = failed \cup {d}
          /\ mine' = mine \/ \E u \in Turns : Accept(u) /\ mine' = [mine EXCEPT ![d] = u]
        BY <1>4 DEF TurnStart
    <2>2. CallTypes'
        BY <2>1 DEF CallTypes, Places
    <2>3. \A u \in Turns : Accept(u) => fate'[u] # "none"
        BY DEF Accept, OneTurn
    <2>4. Known(hint)' /\ Known(mine[d])'
        BY <2>1, <2>3 DEF Known, Remembered, Advance, CallTypes
    <2>5. \A c \in Calls \ {d} : pc'[c] = pc[c] /\ mine'[c] = mine[c] /\ (c \in failed' <=> c \in failed)
        BY <2>1 DEF CallTypes
    <2> QED  BY <1>2, <2>1, <2>2, <2>4, <2>5
<1>5. CASE RememberActiveTurn(d) \/ ForgetActiveTurn(d)
    <2>1. /\ UNCHANGED <<mine, sight, asked, implicit, failed>>
          /\ \E l \in {"ready", "leave"} : pc' = [pc EXCEPT ![d] = l]
          /\ hint' \in {hint, NoTurn, mine[d]}
        BY <1>5 DEF RememberActiveTurn, ForgetActiveTurn
    <2>2. CallTypes'
        BY <2>1 DEF CallTypes, Places
    <2>3. Known(hint)' /\ Known(mine[d])'
        BY <2>1 DEF Known, Remembered, Advance
    <2>4. \A c \in Calls \ {d} : pc'[c] = pc[c] /\ mine'[c] = mine[c] /\ (c \in failed' <=> c \in failed)
        BY <2>1 DEF CallTypes
    <2> QED  BY <1>2, <2>1, <2>2, <2>3, <2>4
<1>6. CASE Look(d)
    BY <1>6, LookKeeps
<1> QED  BY <1>3, <1>4, <1>5, <1>6 DEF Dispatch, AfterCommit

(* The steps of a Stop.                                                     *)
LEMMA StopKeeps ==
    ASSUME OneTurn, CallInv, OneTurn', Advance, NEW s \in Stops,
           StopConnects(s) \/ NeverAnswered(s) \/ Stop(s)
    PROVE  CallInv'
<1> USE TurnsAssumption DEF CallInv, Calls, Goto, Fails, Return, ReturnError, Sent, history
<1>0. Saw(s) /\ Known(mine[s]) /\ Known(hint)
    BY DEF StopSaw, Remembered
<1>1. ASSUME UNCHANGED <<hint, mine, sight, implicit>>, CallTypes', Saw(s)',
             \A c \in Calls \ {s} : pc'[c] = pc[c] /\ (c \in failed' <=> c \in failed),
             \A q \in Stops \ {s} : asked'[q] = asked[q]
      PROVE  CallInv'
    <2>1. Known(hint)' /\ Known(mine[s])'
        BY <1>0, <1>1 DEF Known, Advance
    <2> QED  BY <1>1, <2>1, OneCallMoves DEF OnlyMoves
<1>2. CASE StopConnects(s)
    <2>1. pc[s] = "idle" /\ pc' = [pc EXCEPT ![s] = "resolve"]
          /\ UNCHANGED <<hint, mine, sight, implicit, asked, failed>>
        BY <1>2 DEF StopConnects
    <2>2. CallTypes' /\ \A c \in Calls \ {s} : pc'[c] = pc[c]
        BY <2>1 DEF CallTypes, Places, Looking
    <2>3. Saw(s)'
        BY <1>0, <2>1 DEF CallTypes, Saw, StopPlaces, Succeeded
    <2> QED  BY <1>1, <2>1, <2>2, <2>3
<1>3. CASE InterruptTurn(s)
    <2>1. /\ pc[s] = "interrupt" /\ UNCHANGED <<hint, mine, sight, implicit, failed>>
          /\ pc' = [pc EXCEPT ![s] = "inactive"] \/ pc' = [pc EXCEPT ![s] = "confirm"]
          /\ asked' = asked \/ asked' = [asked EXCEPT ![s] = @ \cup {mine[s]}]
        BY <1>3 DEF InterruptTurn
    <2>2. asked[s] \subseteq {mine[s]} /\ mine[s] \in Turns
        BY <1>0, <2>1 DEF Saw, Known
    <2>3. CallTypes' /\ \A c \in Calls \ {s} : pc'[c] = pc[c]
        BY <2>1, <2>2 DEF CallTypes, Places, Looking
    <2>4. asked'[s] \subseteq {mine[s]} /\ \A q \in Stops \ {s} : asked'[q] = asked[q]
        BY <2>1, <2>2 DEF CallTypes
    <2>5. Saw(s)'
        BY <1>0, <2>1, <2>4 DEF CallTypes, Saw, StopPlaces, Succeeded
    <2> QED  BY <1>1, <2>1, <2>3, <2>4, <2>5
<1>4. CASE WaitInactive(s)
    <2>1. /\ pc[s] = "inactive" /\ UNCHANGED <<hint, mine, sight, implicit, asked>>
          /\ \/ pc' = [pc EXCEPT ![s] = "confirm"] /\ failed' = failed
             \/ pc' = [pc EXCEPT ![s] = "done"] /\ failed' = failed \cup {s}
        BY <1>4 DEF WaitInactive
    <2>2. CallTypes' /\ \A c \in Calls \ {s} : pc'[c] = pc[c] /\ (c \in failed' <=> c \in failed)
        BY <2>1 DEF CallTypes, Places, Looking
    <2>3. Saw(s)'
        BY <1>0, <2>1 DEF CallTypes, Saw, StopPlaces, Succeeded
    <2> QED  BY <1>1, <2>1, <2>2, <2>3
<1>5. CASE Look(s)
    BY <1>5, LookKeeps
<1>6. CASE NeverAnswered(s)
    <2>1. /\ pc[s] \in Looking \cup {"interrupt"}
          /\ UNCHANGED <<hint, pc, mine, sight, implicit, failed>>
          /\ \/ asked' = asked
             \/ pc[s] = "interrupt" /\ asked' = [asked EXCEPT ![s] = @ \cup {mine[s]}]
        BY <1>6 DEF NeverAnswered
    <2>2. pc[s] = "interrupt" => mine[s] \in Turns
        BY <1>0 DEF Saw, Known
    <2>3. CallTypes' /\ \A q \in Stops \ {s} : asked'[q] = asked[q]
        BY <2>1, <2>2 DEF CallTypes
    <2>4. asked'[s] = asked[s] \/ (pc[s] = "interrupt" /\ asked'[s] = asked[s] \cup {mine[s]})
        BY <2>1 DEF CallTypes
    <2>5. Saw(s)'
        BY <1>0, <2>1, <2>4 DEF Saw, Succeeded, Looking
    <2> QED  BY <1>1, <2>1, <2>3, <2>5
<1> QED  BY <1>2, <1>3, <1>4, <1>5, <1>6 DEF Stop

(* The two steps of an Archive.                                             *)
LEMMA ArchiveKeeps ==
    ASSUME OneTurn, CallInv, OneTurn', Advance, NEW a \in Archives, Archive(a)
    PROVE  CallInv'
<1> USE TurnsAssumption DEF CallInv, Calls, Goto
<1>1. /\ UNCHANGED <<hint, mine, asked, failed>>
      /\ \E l \in {"archive", "idle"} : pc' = [pc EXCEPT ![a] = l]
      /\ sight' = [sight EXCEPT ![a] = Count] \/ sight' = [sight EXCEPT ![a] = 0]
    BY DEF Archive, Preflight, ThreadArchive, history
<1>2. CallTypes'
    BY <1>1, CountBounds DEF CallTypes, Places
<1>3. Remembered'
    BY <1>1 DEF Remembered, Known, Advance
<1>4. \A c \in Calls \ {a} : pc'[c] = pc[c] /\ sight'[c] = sight[c]
    BY <1>1 DEF CallTypes
<1>5. StopSaw'
    <2>1. ASSUME NEW s \in Stops PROVE Saw(s)'
        <3>1. Saw(s) /\ Known(mine[s]) /\ pc'[s] = pc[s] /\ sight'[s] = sight[s]
            BY <1>4 DEF StopSaw, Remembered
        <3>2. mine[s] # NoTurn /\ fate[mine[s]] \in Over => fate'[mine[s]] \in Over
            BY <3>1 DEF Known, Advance
        <3> QED  BY <1>1, <3>1, <3>2 DEF Saw, Succeeded
    <2> QED  BY <2>1 DEF StopSaw
<1>6. ArchiveSaw'
    <2>1. ~implicit'
        BY DEF Archive, Preflight, ThreadArchive, ArchiveSaw, InProgress, Over
    <2>2. ASSUME NEW b \in Archives, b # a, pc'[b] = "archive", NEW u \in Turns, u <= sight'[b]
          PROVE  fate'[u] \in Over
        BY <1>4, <2>2 DEF ArchiveSaw, Advance
    <2>3. ASSUME pc'[a] = "archive", NEW u \in Turns, u <= sight'[a]
          PROVE  fate'[u] \in Over
        <3>1. Preflight(a)
            BY <2>3 DEF Archive, ThreadArchive, CallTypes
        <3>2. sight'[a] = Count /\ fate' = fate /\ status \in Rest
            BY <3>1 DEF Preflight, Archivable, CallTypes, daemon
        <3>3. fate[u] # "none" /\ InProgress = {}
            BY <2>3, <3>2, CountBounds DEF OneTurn, Rest
        <3> QED  BY <3>2, <3>3 DEF OneTurn, Fates, InProgress
    <2> QED  BY <2>1, <2>2, <2>3 DEF ArchiveSaw
<1> QED  BY <1>2, <1>3, <1>5, <1>6

----------------------------------------------------------------------------
IInv == OneTurn /\ CallInv

LEMMA InitIInv == Init => IInv
<1> SUFFICES ASSUME Init PROVE IInv
    OBVIOUS
<1> USE TurnsAssumption DEF Turns, NoTurn
<1>1. OneTurn
    <2>1. Accepted(0)
        BY DEF Init, Accepted
    <2>2. status \in Statuses /\ InProgress = {} /\ fate \in [Turns -> Fates]
        BY DEF Init, Statuses, Rest, InProgress, Fates
    <2> QED  BY <2>1, <2>2 DEF OneTurn
<1>2. CallTypes
    BY DEF Init, CallTypes, Places
<1>3. Remembered
    BY DEF Init, Remembered, Known
<1>4. ArchiveSaw /\ StopSaw
    BY DEF Init, ArchiveSaw, StopSaw, Saw, StopPlaces, Succeeded, Calls
<1> QED  BY <1>1, <1>2, <1>3, <1>4 DEF IInv, CallInv

LEMMA Inductive == IInv /\ [Next]_vars => IInv'
<1> SUFFICES ASSUME IInv, [Next]_vars PROVE IInv'
    OBVIOUS
<1>1. OneTurn /\ CallInv /\ OneTurn' /\ Advance
    BY OneTurnStep DEF IInv
<1>2. CASE \/ Daemon \/ ObserverForgets \/ Unarchive \/ Open \/ UNCHANGED vars
           \/ \E c \in Calls : ConnectionEnds(c)
    BY <1>1, <1>2, NoCallMoves
    DEF Daemon, ObserverForgets, Unarchive, Open, ConnectionEnds, vars, history, IInv
<1>3. CASE DispatchStep
    BY <1>1, <1>3, DispatchKeeps DEF DispatchStep, IInv
<1>4. CASE StopStep \/ \E s \in Stops : StopConnects(s) \/ NeverAnswered(s)
    BY <1>1, <1>4, StopKeeps DEF StopStep, IInv
<1>5. CASE \E a \in Archives : Archive(a)
    BY <1>1, <1>5, ArchiveKeeps DEF IInv
<1> QED  BY <1>2, <1>3, <1>4, <1>5 DEF Next

LEMMA InvariantAlways == Spec => []IInv
<1> QED  BY InitIInv, Inductive, PTL DEF Spec

(* Stop asks the daemon to end the one turn it resolved, never one that    *)
(* began after it looked.                                                   *)
THEOREM StopsWhatItSawAlways == Spec => []StopsWhatItSaw
<1>1. IInv => StopsWhatItSaw
    BY DEF IInv, CallInv, StopSaw, Saw, StopsWhatItSaw, CallTypes, Turns, NoTurn
<1> QED  BY <1>1, InvariantAlways, PTL

(* A Stop that succeeds has its turn over.                                  *)
THEOREM StoppedIsOverAlways == Spec => []StoppedIsOver
<1>1. IInv => StoppedIsOver
    BY DEF IInv, CallInv, StopSaw, Saw, StoppedIsOver
<1> QED  BY <1>1, InvariantAlways, PTL

(* thread/archive shuts down no turn that was there at the preflight.      *)
THEOREM ArchiveOnlyRacesAlways == Spec => []ArchiveOnlyRaces
<1>1. IInv => ArchiveOnlyRaces
    BY DEF IInv, CallInv, ArchiveSaw, ArchiveOnlyRaces
<1> QED  BY <1>1, InvariantAlways, PTL
=============================================================================
