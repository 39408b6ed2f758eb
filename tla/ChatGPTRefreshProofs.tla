------------------------ MODULE ChatGPTRefreshProofs ------------------------
(***************************************************************************)
(* Proofs about ChatGPTRefresh: types, single flight, no unreported loss,  *)
(* every request answered, catalogs that never go back, and that each step *)
(* is a step of CoalescedRefresh or none.                                  *)
(***************************************************************************)
EXTENDS ChatGPTRefresh, FiniteSetTheorems, TLAPS

-----------------------------------------------------------------------------
(***************************************************************************)
(* The inductive invariant.                                                *)
(***************************************************************************)

\* refreshing is on exactly while one goroutine exists.
OneJob == IF refreshing THEN \E j \in Jobs : Active = {j} ELSE Active = {}

Asking(j) == At(j, "listing") \/ At(j, "listed")
Holding(j) == jobs[j].pc \in {"cached", "written", "unwritten", "saved", "unsaved"}

\* A running enumeration can only find what is at least as new as everything
\* held; from Install on, its catalog is the cached one.
Ordered ==
    /\ disk <= remote /\ cache <= remote /\ wanted <= remote
    /\ \A j \in Jobs :
        /\ Asking(j) => /\ disk <= jobs[j].seen /\ cache <= jobs[j].seen
                        /\ jobs[j].seen <= remote
        /\ Holding(j) => jobs[j].seen = cache /\ disk <= cache
        /\ At(j, "written") => disk = cache

\* Unless another refresh is requested, the running one answers the newest
\* request.
Answering ==
    open /\ ~pending =>
        \A j \in Jobs :
            /\ Asking(j) \/ Holding(j) => wanted <= jobs[j].seen
            /\ At(j, "published") /\ outcome = "good" => wanted <= cache

\* A refresh about to begin, and the one that follows it, were asked for.
Counting ==
    /\ begun <= asked
    /\ \A j \in Jobs : At(j, "started") => begun < asked
    /\ pending => /\ begun < asked
                  /\ \A j \in Jobs : At(j, "started") => begun + 1 < asked

\* Nothing of the newest refresh's catalog can still be on its way to the
\* cache, the store or the warning.
AtRest == \A j \in Jobs : ~Holding(j)

WarningShown == IF warning THEN "durability" ELSE "none"

NoGoodUpdate == slot.kind # "good" /\ held.kind # "good" /\ ~view.observed

\* The newest catalog on its way to Agent View, or there, is the cached one:
\* in the slot, else handed over, else shown, else in the newest List.
RowsArrive ==
    missed = "no" /\ AtRest =>
        CASE slot.kind = "good" -> slot = Good(cache, warning)
          [] slot.kind # "good" /\ held.kind = "good" -> held = Good(cache, warning)
          [] slot.kind # "good" /\ held.kind # "good" /\ view.observed ->
                /\ view.rows = cache
                /\ view.warning \in {WarningShown, "refresh"}
          [] OTHER ->
                /\ list.pc = "read" => list.rows = cache
                /\ list.pc = "none" /\ asked > 0 => view.rows = cache

\* A failure is shown only until the next success arrives.
FailuresPass ==
    missed = "no" /\ AtRest =>
        /\ outcome = "good" => ~NoGoodUpdate
        /\ outcome # "failed" =>
            /\ slot # Failed
            /\ held = Failed => slot.kind = "good"
            /\ view.warning = "refresh" => slot.kind = "good" \/ held.kind = "good"

\* Before a subscription nothing was sent to it, its initial update is due to
\* a warning still set or to be replaced, and nothing was published only
\* while the first refresh runs.
Subscribing ==
    /\ joined \in {"no", "joining"} => slot = NoUpdate /\ held = NoUpdate
    /\ joined = "joining" => warning \/ ~AtRest
    /\ refreshing => asked > 0
    /\ outcome = "none" /\ asked > 0 =>
            refreshing /\ \A j \in Jobs : ~At(j, "published")

\* A refresh publishes the warning it has set.
Reported ==
    \A j \in Jobs : /\ At(j, "saved") => ~warning
                    /\ At(j, "unsaved") => warning

-----------------------------------------------------------------------------
(***************************************************************************)
(* Types.                                                                  *)
(***************************************************************************)

\* What TypeOK says of one goroutine.
LEMMA JobFields ==
    ASSUME TypeOK, NEW j \in Jobs
    PROVE  /\ jobs[j] = [pc |-> jobs[j].pc, seen |-> jobs[j].seen]
           /\ jobs[j] \in Job
           /\ jobs[j].seen \in Nat
           /\ Asking(j) \/ Holding(j) => jobs[j].seen \in 1..MaxVersion
BY RefreshAssumption DEF TypeOK, Job, Asking, Holding, At, NoCatalog

\* A goroutine that keeps its answer may go on to any step that needs one.
LEMMA GotoType ==
    ASSUME TypeOK, NEW j \in Jobs, Asking(j) \/ Holding(j),
           NEW pc \in {"cached", "written", "unwritten", "saved", "unsaved"},
           Goto(j, pc)
    PROVE  jobs' \in [Jobs -> Job]
<1>1. PICK old, seen : jobs[j] = [pc |-> old, seen |-> seen]
  BY JobFields
<1>2. [jobs[j] EXCEPT !.pc = pc] = [pc |-> pc, seen |-> seen]
  BY <1>1
<1>3. [pc |-> pc, seen |-> seen] \in Job
  BY <1>1, JobFields DEF Job
<1> QED
  BY <1>2, <1>3 DEF Goto, TypeOK

LEMMA DropType ==
    ASSUME TypeOK, NEW j \in Jobs,
           NEW pc \in {"idle", "started", "failed", "published"},
           Drop(j, pc)
    PROVE  jobs' \in [Jobs -> Job]
<1>1. [Idle EXCEPT !.pc = pc] = [pc |-> pc, seen |-> NoCatalog]
  BY DEF Idle
<1>2. [pc |-> pc, seen |-> NoCatalog] \in Job
  BY DEF Job
<1> QED
  BY <1>1, <1>2 DEF Drop, TypeOK

\* With no goroutine, Refresh finds room for one.
LEMMA FreeSlot ==
    ASSUME TypeOK, OneJob, StartRefresh, ~refreshing
    PROVE  \E j \in Jobs : /\ At(j, "idle")
                           /\ jobs' = [jobs EXCEPT ![j].pc = "started"]
BY RefreshAssumption DEF OneJob, Active, StartRefresh

LEMMA StartType ==
    ASSUME TypeOK, OneJob, StartRefresh, ~refreshing
    PROVE  jobs' \in [Jobs -> Job]
<1>1. PICK j \in Jobs : /\ At(j, "idle")
                        /\ jobs' = [jobs EXCEPT ![j].pc = "started"]
  BY FreeSlot
<1>2. [jobs[j] EXCEPT !.pc = "started"] = [pc |-> "started", seen |-> NoCatalog]
  BY <1>1, JobFields DEF At, TypeOK, Job
<1>3. [pc |-> "started", seen |-> NoCatalog] \in Job
  BY DEF Job
<1> QED
  BY <1>1, <1>2, <1>3 DEF TypeOK

\* What a goroutine publishes is an update.
LEMMA OutcomeType ==
    ASSUME TypeOK, NEW j \in Jobs
    PROVE  Outcome(j) \in Update /\ Outcome(j).kind \in {"good", "failed"}
<1>1. jobs[j].seen \in Catalog
  BY JobFields, RefreshAssumption DEF TypeOK, Job, Catalog, NoCatalog
<1>2. At(j, "unsaved") \in BOOLEAN
  BY DEF At
<1>3. /\ Good(jobs[j].seen, At(j, "unsaved")) \in Update
      /\ Good(jobs[j].seen, At(j, "unsaved")).kind = "good"
  BY <1>1, <1>2 DEF Good, Update
<1>4. Failed \in Update /\ Failed.kind = "failed"
  BY DEF Failed, Update
<1> QED
  BY <1>3, <1>4 DEF Outcome

LEMMA InitType == Init => TypeOK
<1> SUFFICES ASSUME Init PROVE TypeOK
  OBVIOUS
<1>1. jobs \in [Jobs -> Job]
  BY DEF Init, Idle, Job
<1>2. slot \in Update /\ held \in Update /\ list \in List /\ view \in View
  BY RefreshAssumption
     DEF Init, Update, NoUpdate, List, NoList, View, EmptyView, NoCatalog, Catalog
<1>3. /\ remote \in 1..MaxVersion
      /\ disk \in Catalog /\ cache \in Catalog /\ wanted \in Catalog
  BY RefreshAssumption DEF Init, Catalog, NoCatalog
<1> QED
  BY <1>1, <1>2, <1>3 DEF Init, TypeOK

LEMMA JobStepType ==
    ASSUME TypeOK, NEW j \in Jobs, JobStep(j)
    PROVE  TypeOK'
<1>1. CASE BeginEnumeration(j)
  <2>1. jobs' \in [Jobs -> Job]
    <3>1. CASE open
      <4>1. [pc |-> "listing", seen |-> remote] \in Job
        BY DEF Job, TypeOK
      <4> QED
        BY <1>1, <3>1, <4>1 DEF BeginEnumeration, TypeOK
    <3>2. CASE ~open
      BY <1>1, <3>2, DropType DEF BeginEnumeration
    <3> QED
      BY <3>1, <3>2
  <2> QED
    BY <1>1, <2>1 DEF BeginEnumeration, TypeOK, storeVars, viewVars
<1>2. CASE EndEnumeration(j)
  <2>1. jobs' \in [Jobs -> Job]
    <3>1. ASSUME NEW v \in Answers(j),
                 jobs' = [jobs EXCEPT ![j] = [pc |-> "listed", seen |-> v]]
          PROVE  jobs' \in [Jobs -> Job]
      <4>1. v \in 1..MaxVersion
        BY <1>2, JobFields, RefreshAssumption
           DEF EndEnumeration, Answers, Asking, TypeOK
      <4>2. [pc |-> "listed", seen |-> v] \in Job
        BY <4>1 DEF Job
      <4> QED
        BY <3>1, <4>2 DEF TypeOK
    <3>2. CASE Drop(j, "failed")
      BY <3>2, DropType
    <3> QED
      BY <1>2, <3>1, <3>2 DEF EndEnumeration
  <2> QED
    BY <1>2, <2>1 DEF EndEnumeration, TypeOK, storeVars, viewVars, counts
<1>3. CASE Install(j)
  <2>1. jobs' \in [Jobs -> Job]
    BY <1>3, GotoType DEF Install, Asking
  <2>2. cache' \in Catalog
    <3>1. At(j, "listed") /\ cache' = jobs[j].seen
      BY <1>3 DEF Install
    <3>2. jobs[j].seen \in 1..MaxVersion
      BY <3>1, JobFields DEF Asking
    <3> QED
      BY <3>1, <3>2, RefreshAssumption DEF Catalog, NoCatalog
  <2> QED
    BY <1>3, <2>1, <2>2 DEF Install, TypeOK, viewVars, counts
<1>4. CASE Save(j)
  <2>1. jobs' \in [Jobs -> Job]
    BY <1>4, GotoType DEF Save, Holding, At
  <2>2. disk' \in Catalog
    BY <1>4, JobFields, RefreshAssumption DEF Save, Holding, At, Catalog, TypeOK
  <2> QED
    BY <1>4, <2>1, <2>2 DEF Save, TypeOK, viewVars, counts
<1>5. CASE SetDurabilityWarning(j)
  <2>1. jobs' \in [Jobs -> Job]
    BY <1>5, GotoType DEF SetDurabilityWarning, Holding, At
  <2> QED
    BY <1>5, <2>1 DEF SetDurabilityWarning, DurabilityAfter, At, TypeOK, viewVars, counts
<1>6. CASE Publish(j)
  <2>1. jobs' \in [Jobs -> Job]
    BY <1>6, DropType DEF Publish
  <2>2. missed' \in {"no", "unheard", "replaced"}
    BY <1>6 DEF Publish, MissedAfter, TypeOK
  <2> QED
    BY <1>6, <2>1, <2>2, OutcomeType DEF Publish, TypeOK, storeVars, viewVars
<1>7. CASE Finish(j)
  <2>1. jobs' \in [Jobs -> Job]
    BY <1>7, DropType DEF Finish
  <2> QED
    BY <1>7, <2>1 DEF Finish, TypeOK, storeVars, viewVars, counts
<1> QED
  BY <1>1, <1>2, <1>3, <1>4, <1>5, <1>6, <1>7 DEF JobStep

LEMMA RestartType ==
    ASSUME TypeOK, Restart
    PROVE  TypeOK'
<1>1. jobs' \in [Jobs -> Job]
  BY DEF Restart, Idle, Job
<1>2. slot' \in Update /\ held' \in Update /\ list' \in List /\ view' \in View
  BY RefreshAssumption
     DEF Restart, Update, NoUpdate, List, NoList, View, EmptyView, NoCatalog, Catalog
<1>3. cache' \in Catalog /\ wanted' \in Catalog
  BY RefreshAssumption DEF Restart, Hydrate, TypeOK, Catalog, NoCatalog
<1>4. warning' \in BOOLEAN
  BY DEF Restart, Hydrate
<1>5. faults' \in Nat /\ remote' \in 1..MaxVersion /\ disk' \in Catalog
  BY DEF Restart, TypeOK
<1> QED
  BY <1>1, <1>2, <1>3, <1>4, <1>5 DEF Restart, TypeOK

LEMMA ReloadType ==
    ASSUME TypeOK, OneJob, Reload
    PROVE  TypeOK'
<1>1. /\ refreshing' \in BOOLEAN /\ pending' \in BOOLEAN
      /\ jobs' \in [Jobs -> Job]
  BY StartType DEF Reload, Refresh, StartRefresh, TypeOK
<1>2. list' \in List /\ wanted' \in Catalog
  BY RefreshAssumption DEF Reload, List, NoCatalog, Catalog, TypeOK
<1> QED
  BY <1>1, <1>2 DEF Reload, TypeOK, storeVars

LEMMA SubscriberType ==
    ASSUME TypeOK, Join \/ SendWarning \/ Leave \/ Close \/ Edit
    PROVE  TypeOK'
<1>1. CASE Join
  BY <1>1 DEF Join, TypeOK, storeVars, jobVars, viewVars, counts
<1>2. CASE SendWarning
  BY <1>2 DEF SendWarning, Good, Update, TypeOK, storeVars, jobVars, viewVars, counts
<1>3. CASE Leave
  BY <1>3 DEF Leave, TypeOK, storeVars, jobVars, viewVars, counts
<1>4. CASE Close
  BY <1>4 DEF Close, TypeOK, storeVars, viewVars, counts
<1>5. CASE Edit
  BY <1>5, RefreshAssumption DEF Edit, TypeOK, storeVars, jobVars, viewVars, counts
<1> QED
  BY <1>1, <1>2, <1>3, <1>4, <1>5

LEMMA AgentViewType ==
    ASSUME TypeOK, TakeUpdate \/ ApplyUpdate \/ ReadList \/ ApplyList
    PROVE  TypeOK'
<1>1. CASE TakeUpdate
  BY <1>1 DEF TakeUpdate, Update, TypeOK, storeVars, jobVars, counts
<1>2. CASE ApplyUpdate
  <2>1. view' \in View
    BY <1>2 DEF ApplyUpdate, ObserverUpdateApplied, TypeOK, View, Update, NoUpdate, Failed
  <2>2. held' \in Update
    BY <1>2 DEF ApplyUpdate, Update
  <2> QED
    BY <1>2, <2>1, <2>2 DEF ApplyUpdate, TypeOK, storeVars, jobVars, counts
<1>3. CASE ReadList
  BY <1>3 DEF ReadList, List, TypeOK, storeVars, jobVars, counts
<1>4. CASE ApplyList
  <2>1. view' \in View /\ list' \in List
    BY <1>4, RefreshAssumption
       DEF ApplyList, ListApplied, TypeOK, View, List, NoList, NoCatalog, Catalog
  <2> QED
    BY <1>4, <2>1 DEF ApplyList, TypeOK, storeVars, jobVars, counts
<1> QED
  BY <1>1, <1>2, <1>3, <1>4

LEMMA StutterType ==
    ASSUME TypeOK, UNCHANGED vars
    PROVE  TypeOK'
BY DEF TypeOK, vars, storeVars, jobVars, viewVars, counts

LEMMA TypeStep ==
    ASSUME TypeOK, OneJob, [Next]_vars
    PROVE  TypeOK'
BY JobStepType, RestartType, ReloadType, SubscriberType, AgentViewType, StutterType
   DEF Next

-----------------------------------------------------------------------------
(***************************************************************************)
(* Single flight.                                                          *)
(***************************************************************************)

\* A goroutine that exists is the only one.
LEMMA OneActive ==
    ASSUME OneJob, NEW j \in Jobs, ~At(j, "idle")
    PROVE  refreshing /\ \A k \in Jobs : k # j => At(k, "idle")
BY DEF OneJob, Active

\* What a step does to the goroutine that takes it, and that it leaves the
\* others alone.
LEMMA GotoFields ==
    ASSUME TypeOK, NEW j \in Jobs, NEW pc, Goto(j, pc)
    PROVE  /\ jobs'[j].pc = pc /\ jobs'[j].seen = jobs[j].seen
           /\ \A k \in Jobs : k # j => jobs'[k] = jobs[k]
<1>1. PICK old, seen : jobs[j] = [pc |-> old, seen |-> seen]
  BY JobFields
<1>2. [jobs[j] EXCEPT !.pc = pc] = [pc |-> pc, seen |-> seen]
  BY <1>1
<1> QED
  BY <1>1, <1>2 DEF Goto, TypeOK

LEMMA DropFields ==
    ASSUME TypeOK, NEW j \in Jobs, NEW pc, Drop(j, pc)
    PROVE  /\ jobs'[j].pc = pc
           /\ \A k \in Jobs : k # j => jobs'[k] = jobs[k]
BY DEF Drop, Idle, TypeOK

\* Everything a step of a goroutine does to jobs: it was there, the others
\* stay as they are, and it is there afterwards unless it was the last one.
LEMMA JobStepFields ==
    ASSUME TypeOK, NEW j \in Jobs, JobStep(j)
    PROVE  /\ ~At(j, "idle")
           /\ \A k \in Jobs : k # j => jobs'[k] = jobs[k]
           /\ refreshing' = IF Finish(j) THEN pending /\ open ELSE refreshing
           /\ refreshing \/ Finish(j) =>
                (At(j, "idle")' <=> ~refreshing')
<1>1. CASE BeginEnumeration(j)
  BY <1>1, DropFields DEF BeginEnumeration, At, Finish, TypeOK
<1>2. CASE EndEnumeration(j)
  BY <1>2, DropFields DEF EndEnumeration, At, Finish, TypeOK
<1>3. CASE Install(j)
  BY <1>3, GotoFields DEF Install, At, Finish
<1>4. CASE Save(j)
  BY <1>4, GotoFields DEF Save, At, Finish
<1>5. CASE SetDurabilityWarning(j)
  BY <1>5, GotoFields DEF SetDurabilityWarning, At, Finish
<1>6. CASE Publish(j)
  BY <1>6, DropFields DEF Publish, At, Finish
<1>7. CASE Finish(j)
  BY <1>7, DropFields DEF Finish, At, TypeOK
<1> QED
  BY <1>1, <1>2, <1>3, <1>4, <1>5, <1>6, <1>7 DEF JobStep

LEMMA OneJobInit == Init => OneJob
BY DEF Init, OneJob, Active, At, Idle

LEMMA OneJobStep ==
    ASSUME TypeOK, OneJob, [Next]_vars
    PROVE  OneJob'
<1>1. ASSUME NEW j \in Jobs, JobStep(j) PROVE OneJob'
  <2>1. ~At(j, "idle") /\ refreshing /\ \A k \in Jobs : k # j => At(k, "idle")
    BY <1>1, JobStepFields, OneActive
  <2>2. \A k \in Jobs : k # j => At(k, "idle")'
    BY <1>1, <2>1, JobStepFields DEF At
  <2>3. At(j, "idle")' <=> ~refreshing'
    BY <1>1, <2>1, JobStepFields
  <2> QED
    BY <2>2, <2>3 DEF OneJob, Active
<1>2. CASE Reload
  <2>1. CASE refreshing
    BY <1>2, <2>1 DEF Reload, Refresh, OneJob, Active, At
  <2>2. CASE ~refreshing
    <3>1. StartRefresh
      BY <1>2, <2>2 DEF Reload, Refresh
    <3>2. PICK j \in Jobs : jobs' = [jobs EXCEPT ![j].pc = "started"]
      BY <2>2, <3>1, FreeSlot
    <3>3. Active' = {j}
      BY <2>2, <3>2 DEF OneJob, Active, At, TypeOK
    <3> QED
      BY <3>1, <3>3 DEF StartRefresh, OneJob
  <2> QED
    BY <2>1, <2>2
<1>3. CASE Restart
  BY <1>3 DEF Restart, OneJob, Active, At, Idle
<1>4. CASE UNCHANGED <<refreshing, jobs>>
  BY <1>4 DEF OneJob, Active, At
<1>5. Edit \/ Close \/ Join \/ SendWarning \/ Leave \/ TakeUpdate
        \/ ApplyUpdate \/ ReadList \/ ApplyList \/ UNCHANGED vars
      => UNCHANGED <<refreshing, jobs>>
  BY DEF Edit, Close, Join, SendWarning, Leave, TakeUpdate, ApplyUpdate,
         ReadList, ApplyList, vars, jobVars
<1> QED
  BY <1>1, <1>2, <1>3, <1>4, <1>5 DEF Next

\* Every reachable state is well typed and has at most one goroutine.
THEOREM TypeAndOneJob == Spec => [](TypeOK /\ OneJob)
<1>1. Init => TypeOK /\ OneJob
  BY InitType, OneJobInit
<1>2. TypeOK /\ OneJob /\ [Next]_vars => TypeOK' /\ OneJob'
  BY TypeStep, OneJobStep
<1> QED
  BY <1>1, <1>2, PTL DEF Spec

\* Spec keeps every variable in its type (New, Refresh, runRefresh, Observe,
\* List, Close and Agent View's event loop).
THEOREM TypeCorrect == Spec => []TypeOK
BY TypeAndOneJob, PTL

\* One runRefresh at a time, and refreshing says whether there is one: Refresh
\* and the locked end of runRefresh never let two enumerations, or two saves
\* of the catalog, overlap.
THEOREM SingleFlightAlways == Spec => []SingleFlight
<1>1. OneJob => SingleFlight
  <2>1. ASSUME NEW j \in Jobs, Active = {j} PROVE Cardinality(Active) = 1
    BY <2>1, FS_Singleton
  <2>2. Cardinality({}) = 0
    BY FS_EmptySet
  <2> QED
    BY <2>1, <2>2 DEF OneJob, SingleFlight
<1> QED
  BY <1>1, TypeAndOneJob, PTL

-----------------------------------------------------------------------------
(***************************************************************************)
(* Catalogs: cache, store and the running refresh.                         *)
(***************************************************************************)
Catalogs == Ordered /\ NoSilentLoss

LEMMA CatalogsInit == Init => Catalogs
BY DEF Init, Catalogs, Ordered, NoSilentLoss, Asking, Holding, At, Idle, NoCatalog

\* A step of the one goroutine needs only what Ordered says of it.
LEMMA CatalogsJobStep ==
    ASSUME TypeOK, OneJob, Catalogs, NEW j \in Jobs, JobStep(j)
    PROVE  Catalogs'
<1> DEFINE Job1(k) ==
       /\ Asking(k) => /\ disk <= jobs[k].seen /\ cache <= jobs[k].seen
                       /\ jobs[k].seen <= remote
       /\ Holding(k) => jobs[k].seen = cache /\ disk <= cache
       /\ At(k, "written") => disk = cache
<1>1. \A k \in Jobs : k # j => At(k, "idle") /\ jobs'[k] = jobs[k]
  BY JobStepFields, OneActive
<1>2. \A k \in Jobs : k # j => Job1(k)'
  BY <1>1 DEF Asking, Holding, At
<1>3. /\ remote \in Nat /\ disk \in Nat /\ cache \in Nat /\ wanted \in Nat
      /\ jobs[j].seen \in Nat
  BY JobFields, RefreshAssumption DEF TypeOK, Catalog, NoCatalog
<1>4. Job1(j) /\ disk <= remote /\ cache <= remote /\ wanted <= remote
  BY DEF Catalogs, Ordered
<1>5. NoSilentLoss /\ (At(j, "cached") \/ At(j, "unwritten") \/ warning \/ disk = cache)
  BY <1>1 DEF Catalogs, NoSilentLoss, At
<1>6. SUFFICES /\ Job1(j)'
               /\ disk' <= remote' /\ cache' <= remote' /\ wanted' <= remote'
               /\ At(j, "cached")' \/ At(j, "unwritten")' \/ warning' \/ disk' = cache'
  BY <1>2 DEF Catalogs, Ordered, NoSilentLoss
<1>7. CASE BeginEnumeration(j)
  BY <1>3, <1>4, <1>5, <1>7, DropFields
     DEF BeginEnumeration, storeVars, Asking, Holding, At, TypeOK
<1>8. CASE EndEnumeration(j)
  <2>1. UNCHANGED <<remote, disk, cache, warning, wanted>> /\ jobs[j].pc = "listing"
    BY <1>8 DEF EndEnumeration, storeVars, counts, At
  <2>2. \/ Drop(j, "failed")
        \/ \E v \in jobs[j].seen .. remote :
              jobs' = [jobs EXCEPT ![j] = [pc |-> "listed", seen |-> v]]
    BY <1>8 DEF EndEnumeration, Answers
  <2>3. \/ jobs'[j].pc = "failed"
        \/ jobs'[j].pc = "listed" /\ jobs'[j].seen \in jobs[j].seen .. remote
    BY <2>2, DropFields DEF TypeOK
  <2> QED
    BY <1>3, <1>4, <1>5, <2>1, <2>3 DEF Asking, Holding, At
<1>9. CASE Install(j)
  BY <1>3, <1>4, <1>5, <1>9, GotoFields
     DEF Install, counts, Asking, Holding, At
<1>10. CASE Save(j)
  BY <1>3, <1>4, <1>5, <1>10, GotoFields DEF Save, counts, Asking, Holding, At
<1>11. CASE SetDurabilityWarning(j)
  <2>1. /\ UNCHANGED <<remote, disk, cache, wanted>>
        /\ warning' = (jobs[j].pc = "unwritten")
        /\ jobs[j].pc \in {"written", "unwritten"}
    BY <1>11 DEF SetDurabilityWarning, DurabilityAfter, counts, At
  <2>2. jobs'[j].pc \in {"saved", "unsaved"} /\ jobs'[j].seen = jobs[j].seen
    BY <1>11, GotoFields DEF SetDurabilityWarning, At
  <2>3. Job1(j)' /\ disk' <= remote' /\ cache' <= remote' /\ wanted' <= remote'
    BY <1>3, <1>4, <2>1, <2>2 DEF Asking, Holding, At
  <2>4. warning' \/ disk' = cache'
    BY <1>4, <2>1 DEF At
  <2> QED
    BY <2>3, <2>4
<1>12. CASE Publish(j)
  BY <1>3, <1>4, <1>5, <1>12, DropFields
     DEF Publish, storeVars, counts, Asking, Holding, At
<1>13. CASE Finish(j)
  BY <1>3, <1>4, <1>5, <1>13, DropFields
     DEF Finish, storeVars, counts, Asking, Holding, At
<1> QED
  BY <1>7, <1>8, <1>9, <1>10, <1>11, <1>12, <1>13 DEF JobStep

LEMMA CatalogsStep ==
    ASSUME TypeOK, OneJob, Catalogs, [Next]_vars
    PROVE  Catalogs'
<1>1. ASSUME NEW j \in Jobs, JobStep(j) PROVE Catalogs'
  BY <1>1, CatalogsJobStep
<1>2. CASE Reload
  <2>1. /\ UNCHANGED <<remote, disk, cache, warning>> /\ wanted' = remote
    BY <1>2 DEF Reload, storeVars
  <2>2. remote \in Nat
    BY DEF TypeOK
  <2>3. CASE refreshing
    BY <1>2, <2>1, <2>2, <2>3
       DEF Reload, Refresh, Catalogs, Ordered, NoSilentLoss, Asking, Holding, At
  <2>4. CASE ~refreshing
    <3>0. StartRefresh
      BY <1>2, <2>4 DEF Reload, Refresh
    <3>1. PICK j \in Jobs : At(j, "idle") /\ jobs' = [jobs EXCEPT ![j].pc = "started"]
      BY <2>4, <3>0, FreeSlot
    <3>2. /\ jobs'[j].pc = "started"
          /\ \A k \in Jobs : k # j => jobs'[k] = jobs[k]
      <4>1. PICK old, seen : jobs[j] = [pc |-> old, seen |-> seen]
        BY JobFields
      <4> QED
        BY <3>1, <4>1 DEF TypeOK
    <3> QED
      BY <2>1, <2>2, <3>1, <3>2 DEF Catalogs, Ordered, NoSilentLoss, Asking, Holding, At
  <2> QED
    BY <2>3, <2>4
<1>3. CASE Restart
  <2>1. /\ remote \in Nat /\ remote' = remote /\ disk' = disk
        /\ disk <= remote /\ wanted' = 0
    BY <1>3 DEF Restart, TypeOK, Catalogs, Ordered, NoCatalog
  <2>2. cache' <= remote /\ (warning' \/ disk' = cache')
    BY <1>3, <2>1 DEF Restart, Hydrate, NoCatalog
  <2>3. \A j \in Jobs : jobs'[j].pc = "idle"
    BY <1>3 DEF Restart, Idle
  <2> QED
    BY <2>1, <2>2, <2>3 DEF Catalogs, Ordered, NoSilentLoss, Asking, Holding, At
<1>4. CASE Edit
  <2>1. /\ remote \in Nat /\ remote' = remote + 1 /\ UNCHANGED <<storeVars, jobs, wanted>>
    BY <1>4 DEF Edit, TypeOK, jobVars, counts
  <2>2. disk \in Nat /\ cache \in Nat /\ wanted \in Nat /\ \A j \in Jobs : jobs[j].seen \in Nat
    BY JobFields, RefreshAssumption DEF TypeOK, Catalog, NoCatalog
  <2> QED
    BY <2>1, <2>2 DEF storeVars, Catalogs, Ordered, NoSilentLoss, Asking, Holding, At
<1>5. CASE UNCHANGED <<remote, storeVars, jobs, wanted>>
  BY <1>5 DEF storeVars, Catalogs, Ordered, NoSilentLoss, Asking, Holding, At
<1>6. Close \/ Join \/ SendWarning \/ Leave \/ TakeUpdate \/ ApplyUpdate
        \/ ReadList \/ ApplyList \/ UNCHANGED vars
      => UNCHANGED <<remote, storeVars, jobs, wanted>>
  BY DEF Close, Join, SendWarning, Leave, TakeUpdate, ApplyUpdate, ReadList,
         ApplyList, vars, jobVars, counts
<1> QED
  BY <1>1, <1>2, <1>3, <1>4, <1>5, <1>6 DEF Next

THEOREM CatalogsAlways == Spec => []Catalogs
<1>1. TypeOK /\ OneJob /\ Catalogs /\ [Next]_vars => Catalogs'
  BY CatalogsStep
<1> QED
  BY <1>1, CatalogsInit, TypeAndOneJob, PTL DEF Spec

\* A catalog that is cached but not persisted is either being saved or
\* reported by the durability warning (persist, setDurabilityWarning, hydrate).
THEOREM NoSilentLossAlways == Spec => []NoSilentLoss
BY CatalogsAlways, PTL DEF Catalogs

\* No step brings an older catalog into the store, nor, but for a restart,
\* into the cache (runRefresh's Install and persist).
THEOREM NeverOlderAlways == Spec => NeverOlder
<1>1. TypeOK /\ OneJob /\ Catalogs /\ [Next]_vars
        => [disk' >= disk /\ (Restart \/ cache' >= cache)]_vars
  <2> SUFFICES ASSUME TypeOK, OneJob, Catalogs, [Next]_vars
               PROVE  [disk' >= disk /\ (Restart \/ cache' >= cache)]_vars
    OBVIOUS
  <2>1. disk \in Nat /\ cache \in Nat /\ \A j \in Jobs : jobs[j].seen \in Nat
    BY JobFields, RefreshAssumption DEF TypeOK, Catalog, NoCatalog
  <2>2. ASSUME NEW j \in Jobs, Install(j) PROVE disk' >= disk /\ cache' >= cache
    BY <2>1, <2>2 DEF Install, Catalogs, Ordered, Asking
  <2>3. ASSUME NEW j \in Jobs, Save(j) PROVE disk' >= disk /\ cache' >= cache
    BY <2>1, <2>3 DEF Save, Catalogs, Ordered, Holding, At
  <2>4. CASE UNCHANGED <<disk, cache>>
    BY <2>1, <2>4
  <2>5. CASE Restart
    BY <2>1, <2>5 DEF Restart
  <2>6. ASSUME NEW j \in Jobs,
               BeginEnumeration(j) \/ EndEnumeration(j)
                 \/ SetDurabilityWarning(j) \/ Publish(j) \/ Finish(j)
        PROVE  UNCHANGED <<disk, cache>>
    BY <2>6 DEF BeginEnumeration, EndEnumeration, SetDurabilityWarning, Publish,
                Finish, storeVars
  <2>7. Edit \/ Close \/ Reload \/ Join \/ SendWarning \/ Leave \/ TakeUpdate
          \/ ApplyUpdate \/ ReadList \/ ApplyList \/ UNCHANGED vars
        => UNCHANGED <<disk, cache>>
    BY DEF Edit, Close, Reload, Join, SendWarning, Leave, TakeUpdate, ApplyUpdate,
           ReadList, ApplyList, vars, storeVars
  <2> QED
    BY <2>2, <2>3, <2>4, <2>5, <2>6, <2>7 DEF Next, JobStep
<1> QED
  BY <1>1, CatalogsAlways, TypeAndOneJob, PTL DEF Spec, NeverOlder

-----------------------------------------------------------------------------
(***************************************************************************)
(* Requests: each is answered by an enumeration begun after it.            *)
(***************************************************************************)
Requests == Answering /\ AnswersEveryRequest

LEMMA RequestsInit == Init => Requests
BY DEF Init, Requests, Answering, AnswersEveryRequest, Asking, Holding, At, Idle

LEMMA RequestsJobStep ==
    ASSUME TypeOK, OneJob, Catalogs, Requests, NEW j \in Jobs, JobStep(j)
    PROVE  Requests'
<1> DEFINE Job1(k) ==
       /\ Asking(k) \/ Holding(k) => wanted <= jobs[k].seen
       /\ At(k, "published") /\ outcome = "good" => wanted <= cache
<1>1. \A k \in Jobs : k # j => At(k, "idle") /\ jobs'[k] = jobs[k]
  BY JobStepFields, OneActive
<1>2. \A k \in Jobs : k # j => Job1(k)'
  BY <1>1 DEF Asking, Holding, At
<1>3. /\ remote \in Nat /\ cache \in Nat /\ wanted \in Nat
      /\ jobs[j].seen \in Nat
  BY JobFields, RefreshAssumption DEF TypeOK, Catalog, NoCatalog
<1>4. /\ open /\ ~pending => Job1(j)
      /\ wanted <= remote
      /\ Holding(j) => jobs[j].seen = cache
  BY DEF Requests, Answering, Catalogs, Ordered
<1>5. refreshing
  BY JobStepFields, OneActive
<1>6. SUFFICES /\ open' /\ ~pending' => Job1(j)'
               /\ ~refreshing' /\ open' /\ outcome' = "good" => cache' >= wanted'
  BY <1>2 DEF Requests, Answering, AnswersEveryRequest
<1>7. CASE BeginEnumeration(j)
  <2>1. /\ UNCHANGED <<remote, cache, wanted, pending, open, refreshing, outcome>>
        /\ jobs[j].pc = "started"
    BY <1>7 DEF BeginEnumeration, storeVars, At
  <2>2. \/ jobs'[j].pc = "failed"
        \/ jobs'[j].pc = "listing" /\ jobs'[j].seen = remote
    BY <1>7, DropFields DEF BeginEnumeration, TypeOK
  <2> QED
    BY <1>3, <1>4, <1>5, <2>1, <2>2 DEF Asking, Holding, At
<1>8. CASE EndEnumeration(j)
  <2>1. /\ UNCHANGED <<remote, cache, wanted, pending, open, refreshing, outcome>>
        /\ jobs[j].pc = "listing"
    BY <1>8 DEF EndEnumeration, storeVars, counts, At
  <2>2. \/ Drop(j, "failed")
        \/ \E v \in jobs[j].seen .. remote :
              jobs' = [jobs EXCEPT ![j] = [pc |-> "listed", seen |-> v]]
    BY <1>8 DEF EndEnumeration, Answers
  <2>3. \/ jobs'[j].pc = "failed"
        \/ jobs'[j].pc = "listed" /\ jobs'[j].seen \in jobs[j].seen .. remote
    BY <2>2, DropFields DEF TypeOK
  <2> QED
    BY <1>3, <1>4, <1>5, <2>1, <2>3 DEF Asking, Holding, At
<1>9. CASE Install(j) \/ Save(j) \/ SetDurabilityWarning(j)
  <2>1. UNCHANGED <<wanted, pending, open, refreshing, outcome>>
    BY <1>9 DEF Install, Save, SetDurabilityWarning, counts
  <2>2. /\ Asking(j) \/ Holding(j)
        /\ jobs'[j].seen = jobs[j].seen /\ jobs'[j].pc # "published"
    BY <1>9, GotoFields DEF Install, Save, SetDurabilityWarning, Asking, Holding, At
  <2> QED
    BY <1>4, <1>5, <2>1, <2>2 DEF At
<1>10. CASE Publish(j)
  <2>1. /\ UNCHANGED <<cache, wanted, pending, open, refreshing>>
        /\ outcome' = "good" => Holding(j)
    BY <1>10 DEF Publish, Outcome, Failed, storeVars, Holding, At
  <2>2. jobs'[j].pc = "published"
    BY <1>10, DropFields DEF Publish
  <2> QED
    BY <1>3, <1>4, <1>5, <2>1, <2>2 DEF Asking, Holding, At
<1>11. CASE Finish(j)
  <2>1. /\ UNCHANGED <<cache, wanted, open, outcome>>
        /\ At(j, "published") /\ refreshing' = (pending /\ open)
    BY <1>11 DEF Finish, storeVars, counts
  <2>2. jobs'[j].pc \in {"started", "idle"}
    BY <1>11, DropFields DEF Finish
  <2> QED
    BY <1>3, <1>4, <2>1, <2>2 DEF Asking, Holding, At
<1> QED
  BY <1>7, <1>8, <1>9, <1>10, <1>11 DEF JobStep

LEMMA RequestsStep ==
    ASSUME TypeOK, OneJob, Catalogs, Requests, [Next]_vars
    PROVE  Requests'
<1>1. ASSUME NEW j \in Jobs, JobStep(j) PROVE Requests'
  BY <1>1, RequestsJobStep
<1>2. CASE Reload
  <2>1. CASE refreshing
    <3>1. pending' /\ refreshing'
      BY <1>2, <2>1 DEF Reload, Refresh
    <3> QED
      BY <3>1 DEF Requests, Answering, AnswersEveryRequest
  <2>2. CASE ~refreshing
    <3>1. StartRefresh
      BY <1>2, <2>2 DEF Reload, Refresh
    <3>2. PICK j \in Jobs : At(j, "idle") /\ jobs' = [jobs EXCEPT ![j].pc = "started"]
      BY <2>2, <3>1, FreeSlot
    <3>3. /\ jobs'[j].pc = "started"
          /\ \A k \in Jobs : k # j => jobs'[k] = jobs[k] /\ At(k, "idle")
      <4>1. PICK old, seen : jobs[j] = [pc |-> old, seen |-> seen]
        BY JobFields
      <4> QED
        BY <2>2, <3>2, <4>1 DEF TypeOK, OneJob, Active
    <3> QED
      BY <3>1, <3>3
         DEF StartRefresh, Requests, Answering, AnswersEveryRequest, Asking, Holding, At
  <2> QED
    BY <2>1, <2>2
<1>3. CASE Restart
  BY <1>3 DEF Restart, Requests, Answering, AnswersEveryRequest,
              Asking, Holding, At, Idle
<1>4. CASE Close
  BY <1>4 DEF Close, Requests, Answering, AnswersEveryRequest
<1>5. CASE UNCHANGED <<cache, jobVars, open, wanted, outcome>>
  BY <1>5 DEF jobVars, Requests, Answering, AnswersEveryRequest, Asking, Holding, At
<1>6. Edit \/ Join \/ SendWarning \/ Leave \/ TakeUpdate \/ ApplyUpdate
        \/ ReadList \/ ApplyList \/ UNCHANGED vars
      => UNCHANGED <<cache, jobVars, open, wanted, outcome>>
  BY DEF Edit, Join, SendWarning, Leave, TakeUpdate, ApplyUpdate, ReadList,
         ApplyList, vars, storeVars, counts
<1> QED
  BY <1>1, <1>2, <1>3, <1>4, <1>5, <1>6 DEF Next

\* At rest after a success the cache is no older than the remote catalog was
\* at the newest request (Refresh, the locked end of runRefresh).
THEOREM AnswersEveryRequestAlways == Spec => []AnswersEveryRequest
<1>1. TypeOK /\ OneJob /\ Catalogs /\ Requests /\ [Next]_vars => Requests'
  BY RequestsStep
<1>2. Requests => AnswersEveryRequest
  BY DEF Requests
<1> QED
  BY <1>1, <1>2, RequestsInit, CatalogsAlways, TypeAndOneJob, PTL DEF Spec

-----------------------------------------------------------------------------
(***************************************************************************)
(* Refinement: every step is a step of CoalescedRefresh, or none.          *)
(***************************************************************************)
LEMMA CountingInit == Init => Counting
BY DEF Init, Counting, At, Idle

LEMMA CountingStep ==
    ASSUME TypeOK, OneJob, Counting, [Next]_vars
    PROVE  Counting'
<1>0. asked \in Nat /\ begun \in Nat
  BY DEF TypeOK
<1>1. ASSUME NEW j \in Jobs, JobStep(j) PROVE Counting'
  <2>1. \A k \in Jobs : k # j => At(k, "idle") /\ jobs'[k] = jobs[k]
    BY <1>1, JobStepFields, OneActive
  <2>2. CASE BeginEnumeration(j)
    <3>1. /\ UNCHANGED <<pending, asked>> /\ begun' = begun + 1
          /\ At(j, "started")
      BY <2>2 DEF BeginEnumeration
    <3>2. jobs'[j].pc \in {"listing", "failed"}
      BY <2>2, DropFields DEF BeginEnumeration, TypeOK
    <3> QED
      BY <1>0, <2>1, <3>1, <3>2 DEF Counting, At
  <2>3. CASE Finish(j)
    <3>1. /\ UNCHANGED <<asked, begun>> /\ ~pending'
      BY <2>3 DEF Finish, counts
    <3>2. jobs'[j].pc = "started" => pending
      BY <2>3, DropFields DEF Finish
    <3> QED
      BY <1>0, <2>1, <3>1, <3>2 DEF Counting, At
  <2>4. CASE \/ EndEnumeration(j) \/ Install(j) \/ Save(j)
             \/ SetDurabilityWarning(j) \/ Publish(j)
    <3>1. UNCHANGED <<pending, asked, begun>>
      BY <2>4 DEF EndEnumeration, Install, Save, SetDurabilityWarning, Publish, counts
    <3>2. jobs'[j].pc # "started"
      BY <2>4, DropFields, GotoFields
         DEF EndEnumeration, Install, Save, SetDurabilityWarning, Publish, TypeOK
    <3> QED
      BY <1>0, <2>1, <3>1, <3>2 DEF Counting, At
  <2> QED
    BY <1>1, <2>2, <2>3, <2>4 DEF JobStep
<1>2. CASE Reload
  <2>1. asked' = asked + 1 /\ begun' = begun
    BY <1>2 DEF Reload
  <2>2. CASE refreshing
    BY <1>0, <1>2, <2>1, <2>2 DEF Reload, Refresh, Counting, At
  <2>3. CASE ~refreshing
    <3>1. StartRefresh /\ pending' = pending
      BY <1>2, <2>3 DEF Reload, Refresh
    <3>2. PICK j \in Jobs : At(j, "idle") /\ jobs' = [jobs EXCEPT ![j].pc = "started"]
      BY <2>3, <3>1, FreeSlot
    <3>3. \A k \in Jobs : k # j => jobs'[k] = jobs[k]
      BY <3>2 DEF TypeOK
    <3> QED
      BY <1>0, <2>1, <3>1, <3>3 DEF Counting, At
  <2> QED
    BY <2>2, <2>3
<1>3. CASE Restart
  BY <1>3 DEF Restart, Counting, At, Idle
<1>4. CASE Close
  BY <1>4 DEF Close, Counting, At, counts
<1>5. CASE UNCHANGED <<jobVars, asked, begun>>
  BY <1>5 DEF jobVars, Counting, At
<1>6. Edit \/ Join \/ SendWarning \/ Leave \/ TakeUpdate \/ ApplyUpdate
        \/ ReadList \/ ApplyList \/ UNCHANGED vars
      => UNCHANGED <<jobVars, asked, begun>>
  BY DEF Edit, Join, SendWarning, Leave, TakeUpdate, ApplyUpdate, ReadList,
         ApplyList, vars, counts
<1> QED
  BY <1>1, <1>2, <1>3, <1>4, <1>5, <1>6 DEF Next

\* Whether an enumeration runs, seen from the one goroutine there is.
LEMMA EnumeratingOne ==
    ASSUME OneJob, NEW j \in Jobs, ~At(j, "idle")
    PROVE  Enumerating # {} <=> ~At(j, "started") /\ ~At(j, "published")
BY OneActive DEF Enumerating, Active, At

LEMMA CoalescedInit == Init => Coalesced!Init
BY DEF Init, Coalesced!Init, Coalesced!Fresh, Enumerating, Active, At, Idle

LEMMA CoalescedJobStep ==
    ASSUME TypeOK, OneJob, OneJob', Counting, NEW j \in Jobs, JobStep(j)
    PROVE  [Coalesced!Next]_Coalesced!vars
<1>1. ~At(j, "idle") /\ \A k \in Jobs : k # j => At(k, "idle") /\ jobs'[k] = jobs[k]
  BY JobStepFields, OneActive
<1>2. Enumerating # {} <=> jobs[j].pc \notin {"started", "published"}
  BY <1>1, EnumeratingOne DEF At
<1>3. (Enumerating # {})' <=> jobs'[j].pc \notin {"idle", "started", "published"}
  BY <1>1 DEF Enumerating, Active, At
<1>4. CASE BeginEnumeration(j)
  <2>1. /\ UNCHANGED <<asked, served, open>>
        /\ begun' = begun + 1 /\ covered' = asked
        /\ At(j, "started")
    BY <1>4 DEF BeginEnumeration
  <2>2. jobs'[j].pc \in {"listing", "failed"}
    BY <1>4, DropFields DEF BeginEnumeration, TypeOK
  <2>3. Coalesced!Begin
    BY <1>2, <1>3, <2>1, <2>2 DEF Coalesced!Begin, Counting, At
  <2> QED
    BY <2>3 DEF Coalesced!Next
<1>5. CASE Publish(j)
  <2>1. /\ UNCHANGED <<asked, begun, covered, open>>
        /\ served' = covered
        /\ jobs[j].pc \in {"failed", "saved", "unsaved"}
    BY <1>5 DEF Publish, At
  <2>2. jobs'[j].pc = "published"
    BY <1>5, DropFields DEF Publish
  <2>3. Coalesced!End
    BY <1>2, <1>3, <2>1, <2>2 DEF Coalesced!End
  <2> QED
    BY <2>3 DEF Coalesced!Next
<1>6. CASE \/ EndEnumeration(j) \/ Install(j) \/ Save(j)
           \/ SetDurabilityWarning(j) \/ Finish(j)
  <2>1. UNCHANGED <<asked, begun, covered, served, open>>
    BY <1>6 DEF EndEnumeration, Install, Save, SetDurabilityWarning, Finish, counts
  <2>2. jobs[j].pc \notin {"started", "published"}
          <=> jobs'[j].pc \notin {"idle", "started", "published"}
    <3>1. CASE EndEnumeration(j)
      BY <3>1, DropFields DEF EndEnumeration, At, TypeOK
    <3>2. CASE Install(j) \/ Save(j) \/ SetDurabilityWarning(j)
      BY <3>2, GotoFields DEF Install, Save, SetDurabilityWarning, At
    <3>3. CASE Finish(j)
      BY <3>3, DropFields DEF Finish, At
    <3> QED
      BY <1>6, <3>1, <3>2, <3>3
  <2> QED
    BY <1>2, <1>3, <2>1, <2>2 DEF Coalesced!vars
<1> QED
  BY <1>4, <1>5, <1>6 DEF JobStep

LEMMA CoalescedStep ==
    ASSUME TypeOK, OneJob, OneJob', Counting, [Next]_vars
    PROVE  [Coalesced!Next]_Coalesced!vars
<1>1. ASSUME NEW j \in Jobs, JobStep(j) PROVE [Coalesced!Next]_Coalesced!vars
  BY <1>1, CoalescedJobStep
<1>2. CASE Reload
  <2>1. /\ open /\ asked' = asked + 1
        /\ UNCHANGED <<begun, covered, served, open>>
    BY <1>2 DEF Reload
  <2>2. (Enumerating # {}) <=> (Enumerating # {})'
    <3>1. CASE refreshing
      BY <1>2, <3>1 DEF Reload, Refresh, Enumerating, Active, At
    <3>2. CASE ~refreshing
      <4>1. StartRefresh
        BY <1>2, <3>2 DEF Reload, Refresh
      <4>2. PICK j \in Jobs : At(j, "idle") /\ jobs' = [jobs EXCEPT ![j].pc = "started"]
        BY <3>2, <4>1, FreeSlot
      <4>3. /\ jobs'[j].pc = "started"
            /\ \A k \in Jobs : k # j => jobs'[k] = jobs[k]
        <5>1. PICK old, seen : jobs[j] = [pc |-> old, seen |-> seen]
          BY JobFields
        <5> QED
          BY <4>2, <5>1 DEF TypeOK
      <4> QED
        BY <4>2, <4>3 DEF Enumerating, Active, At
    <3> QED
      BY <3>1, <3>2
  <2>3. Coalesced!Ask
    BY <2>1, <2>2 DEF Coalesced!Ask
  <2> QED
    BY <2>3 DEF Coalesced!Next
<1>3. CASE Restart
  <2>1. (Enumerating # {})' = FALSE
    BY <1>3 DEF Restart, Enumerating, Active, At, Idle
  <2>2. Coalesced!Restart
    BY <1>3, <2>1 DEF Restart, Coalesced!Restart
  <2> QED
    BY <2>2 DEF Coalesced!Next
<1>4. CASE Close
  <2>1. (Enumerating # {})' = (Enumerating # {})
    BY <1>4 DEF Close, Enumerating, Active, At
  <2>2. Coalesced!Shut
    BY <1>4, <2>1 DEF Close, counts, Coalesced!Shut
  <2> QED
    BY <2>2 DEF Coalesced!Next
<1>5. CASE UNCHANGED <<jobs, open, counts>>
  <2>1. (Enumerating # {})' = (Enumerating # {})
    BY <1>5 DEF Enumerating, Active, At
  <2> QED
    BY <1>5, <2>1 DEF counts, Coalesced!vars
<1>6. Edit \/ Join \/ SendWarning \/ Leave \/ TakeUpdate \/ ApplyUpdate
        \/ ReadList \/ ApplyList \/ UNCHANGED vars
      => UNCHANGED <<jobs, open, counts>>
  BY DEF Edit, Join, SendWarning, Leave, TakeUpdate, ApplyUpdate, ReadList,
         ApplyList, vars, jobVars
<1> QED
  BY <1>1, <1>2, <1>3, <1>4, <1>5, <1>6 DEF Next

\* The refresh state machine implements the safety part of coalesced
\* single-flight refreshing: enumerations run one at a time, are never more
\* than the requests, and record what they answer (Refresh, runRefresh).
THEOREM RefinesCoalescedSafely ==
    Spec => Coalesced!Init /\ [][Coalesced!Next]_Coalesced!vars
<1>1. TypeOK /\ OneJob /\ Counting /\ [Next]_vars => Counting'
  BY CountingStep
<1>2. TypeOK /\ OneJob /\ OneJob' /\ Counting /\ [Next]_vars
        => [Coalesced!Next]_Coalesced!vars
  BY CoalescedStep
<1> QED
  BY <1>1, <1>2, CountingInit, CoalescedInit, TypeAndOneJob, PTL DEF Spec

-----------------------------------------------------------------------------
(***************************************************************************)
(* Delivery: what Agent View ends up showing.                              *)
(***************************************************************************)
Delivery == RowsArrive /\ FailuresPass /\ Subscribing /\ Reported

LEMMA DeliveryInit == Init => Delivery
BY DEF Init, Delivery, RowsArrive, FailuresPass, Subscribing, Reported, AtRest,
       NoGoodUpdate, NoUpdate, NoList, EmptyView, Failed, Holding, At, Idle

\* The goroutine's steps that publish nothing: either it holds a catalog
\* afterwards, or nothing on the way to Agent View has changed.
LEMMA DeliveryQuietJobStep ==
    ASSUME TypeOK, OneJob, Delivery, NEW j \in Jobs, JobStep(j), ~Publish(j)
    PROVE  Delivery'
<1>1. \A k \in Jobs : k # j => At(k, "idle") /\ jobs'[k] = jobs[k]
  BY JobStepFields, OneActive
<1>2. CASE Install(j) \/ Save(j) \/ SetDurabilityWarning(j)
  <2>1. UNCHANGED <<joined, slot, held, refreshing, asked, outcome>>
    BY <1>2 DEF Install, Save, SetDurabilityWarning, viewVars, counts
  <2>2. Holding(j)'
    BY <1>2, GotoFields DEF Install, Save, SetDurabilityWarning, Holding, At
  <2>3. Reported'
    <3>1. CASE Install(j) \/ Save(j)
      BY <1>1, <3>1, GotoFields DEF Install, Save, Reported, At
    <3>2. CASE SetDurabilityWarning(j)
      BY <1>1, <3>2, GotoFields
         DEF SetDurabilityWarning, DurabilityAfter, Reported, At
    <3> QED
      BY <1>2, <3>1, <3>2
  <2>4. Subscribing'
    BY <1>1, <2>1, <2>2 DEF Delivery, Subscribing, AtRest, Holding, At
  <2> QED
    BY <2>2, <2>3, <2>4 DEF Delivery, RowsArrive, FailuresPass, AtRest
<1>3. CASE BeginEnumeration(j) \/ EndEnumeration(j) \/ Finish(j)
  <2>1. UNCHANGED <<cache, warning, joined, slot, held, view, list, missed,
                    asked, outcome>>
    BY <1>3 DEF BeginEnumeration, EndEnumeration, Finish, storeVars, viewVars, counts
  <2>2. /\ jobs[j].pc \in {"started", "listing", "published"}
        /\ jobs'[j].pc \in {"started", "listing", "listed", "failed", "idle"}
    BY <1>3, DropFields
       DEF BeginEnumeration, EndEnumeration, Finish, At, TypeOK
  <2>3. AtRest /\ AtRest'
    BY <1>1, <2>2 DEF AtRest, Holding, At
  <2>4. RowsArrive' /\ FailuresPass'
    BY <2>1, <2>3 DEF Delivery, RowsArrive, FailuresPass, NoGoodUpdate, WarningShown
  <2>5. Reported'
    BY <1>1, <2>1, <2>2 DEF Reported, At
  <2>6. refreshing' => refreshing
    BY <1>3, JobStepFields, OneActive
  <2>7. Finish(j) => ~(outcome = "none" /\ asked > 0)
    BY DEF Finish, Delivery, Subscribing
  <2>8. ~Finish(j) => refreshing' = refreshing
    BY JobStepFields
  <2> QED
    BY <1>1, <2>1, <2>2, <2>3, <2>4, <2>5, <2>6, <2>7, <2>8
       DEF Delivery, Subscribing, At
<1> QED
  BY <1>2, <1>3 DEF JobStep

LEMMA DeliveryPublish ==
    ASSUME TypeOK, OneJob, Catalogs, Delivery, NEW j \in Jobs, Publish(j)
    PROVE  Delivery'
<1>0. JobStep(j)
  BY DEF JobStep
<1>1. \A k \in Jobs : k # j => At(k, "idle") /\ jobs'[k] = jobs[k]
  BY <1>0, JobStepFields, OneActive
<1>2. /\ UNCHANGED <<cache, warning, refreshing, joined, held, list, view, asked>>
      /\ joined \in {"no", "yes", "closed"}
      /\ slot' = IF joined = "yes" THEN Outcome(j) ELSE slot
      /\ missed' = MissedAfter(Outcome(j))
      /\ outcome' = Outcome(j).kind
  BY DEF Publish, SubMuFree, storeVars, viewVars, TypeOK
<1>3. jobs'[j].pc = "published"
  BY DropFields DEF Publish
<1>4. AtRest' /\ Reported'
  BY <1>1, <1>3 DEF AtRest, Reported, Holding, At
<1>5. Outcome(j).kind \in {"good", "failed"}
  BY OutcomeType
<1>6. Subscribing'
  BY <1>2, <1>4, <1>5 DEF Delivery, Subscribing
<1>7. CASE At(j, "failed")
  <2>1. Outcome(j) = Failed /\ Failed.kind = "failed"
    BY <1>7 DEF Outcome, Failed
  <2>2. AtRest
    BY <1>1, <1>7 DEF AtRest, Holding, At
  <2>3. missed' = "no" => missed = "no" /\ ~(joined = "yes" /\ slot.kind = "good")
    BY <1>2, <2>1 DEF MissedAfter
  <2>4. CASE joined = "yes"
    <3>1. slot' = Failed
      BY <1>2, <2>1, <2>4
    <3>2. RowsArrive'
      BY <1>2, <2>1, <2>2, <2>3, <2>4, <3>1
         DEF Delivery, RowsArrive, WarningShown
    <3>3. FailuresPass'
      BY <1>2, <2>1 DEF FailuresPass
    <3> QED
      BY <1>4, <1>6, <3>2, <3>3 DEF Delivery
  <2>5. CASE joined # "yes"
    <3>1. slot' = slot
      BY <1>2, <2>5
    <3>2. RowsArrive'
      BY <1>2, <2>2, <2>3, <3>1 DEF Delivery, RowsArrive, WarningShown
    <3>3. FailuresPass'
      BY <1>2, <2>1 DEF FailuresPass
    <3> QED
      BY <1>4, <1>6, <3>2, <3>3 DEF Delivery
  <2> QED
    BY <2>4, <2>5
<1>8. CASE ~At(j, "failed")
  <2>1. At(j, "saved") \/ At(j, "unsaved")
    BY <1>8 DEF Publish
  <2>2. jobs[j].seen = cache
    BY <2>1 DEF Catalogs, Ordered, Holding, At
  <2>3. warning = At(j, "unsaved")
    <3>1. CASE At(j, "unsaved")
      BY <3>1 DEF Delivery, Reported, TypeOK
    <3>2. CASE ~At(j, "unsaved")
      BY <2>1, <3>2 DEF Delivery, Reported, TypeOK, At
    <3> QED
      BY <3>1, <3>2
  <2>4. Outcome(j) = Good(cache, warning) /\ Good(cache, warning).kind = "good"
    BY <1>8, <2>2, <2>3 DEF Outcome, Good
  <2>5. CASE joined = "yes"
    <3>1. slot' = Good(cache', warning') /\ slot'.kind = "good"
      BY <1>2, <2>4, <2>5
    <3>2. RowsArrive'
      BY <3>1 DEF RowsArrive
    <3>3. FailuresPass'
      BY <3>1 DEF FailuresPass, NoGoodUpdate, Failed
    <3> QED
      BY <1>4, <1>6, <3>2, <3>3 DEF Delivery
  <2>6. CASE joined # "yes"
    <3>1. missed' # "no"
      BY <1>2, <2>4, <2>6 DEF MissedAfter
    <3> QED
      BY <1>4, <1>6, <3>1 DEF Delivery, RowsArrive, FailuresPass
  <2> QED
    BY <2>5, <2>6
<1> QED
  BY <1>7, <1>8

LEMMA DeliveryReload ==
    ASSUME TypeOK, OneJob, Delivery, Reload
    PROVE  Delivery'
<1>1. /\ UNCHANGED <<cache, warning, joined, slot, held, view, missed, outcome>>
      /\ asked' = asked + 1 /\ asked \in Nat
      /\ list'.pc = "asked" /\ refreshing'
  BY DEF Reload, Refresh, StartRefresh, storeVars, TypeOK
<1>2. /\ AtRest <=> AtRest'
      /\ Reported'
      /\ (\A j \in Jobs : ~At(j, "published")) => \A j \in Jobs : ~At(j, "published")'
      /\ ~refreshing => \A j \in Jobs : ~At(j, "published")'
  <2>1. CASE refreshing
    BY <1>1, <2>1 DEF Reload, Refresh, Delivery, Reported, AtRest, Holding, At
  <2>2. CASE ~refreshing
    <3>1. StartRefresh
      BY <2>2 DEF Reload, Refresh
    <3>2. PICK j \in Jobs : At(j, "idle") /\ jobs' = [jobs EXCEPT ![j].pc = "started"]
      BY <2>2, <3>1, FreeSlot
    <3>3. /\ jobs'[j].pc = "started"
          /\ \A k \in Jobs : k # j => jobs'[k] = jobs[k] /\ At(k, "idle")
      <4>1. PICK old, seen : jobs[j] = [pc |-> old, seen |-> seen]
        BY JobFields
      <4> QED
        BY <2>2, <3>2, <4>1 DEF TypeOK, OneJob, Active
    <3> QED
      BY <3>2, <3>3 DEF Reported, AtRest, Holding, At
  <2> QED
    BY <2>1, <2>2
<1>3. RowsArrive' /\ FailuresPass'
  BY <1>1, <1>2 DEF Delivery, RowsArrive, FailuresPass, NoGoodUpdate, WarningShown
<1>4. refreshing => asked > 0
  BY DEF Delivery, Subscribing
<1>5. Subscribing'
  BY <1>1, <1>2, <1>4 DEF Delivery, Subscribing
<1> QED
  BY <1>2, <1>3, <1>5 DEF Delivery

LEMMA DeliverySubscriber ==
    ASSUME TypeOK, Delivery, Join \/ SendWarning \/ Leave
    PROVE  Delivery'
<1>1. /\ UNCHANGED <<cache, warning, refreshing, jobs, held, list, view, asked, outcome>>
  BY DEF Join, SendWarning, Leave, storeVars, jobVars, viewVars, counts
<1>2. (AtRest <=> AtRest') /\ Reported'
  BY <1>1 DEF Delivery, Reported, AtRest, Holding, At
<1>3. CASE Join \/ Leave
  <2>1. UNCHANGED <<slot, missed>>
    BY <1>3 DEF Join, Leave
  <2>2. RowsArrive' /\ FailuresPass'
    BY <1>1, <1>2, <2>1 DEF Delivery, RowsArrive, FailuresPass, NoGoodUpdate, WarningShown
  <2>3. Subscribing'
    BY <1>1, <1>2, <1>3, <2>1 DEF Join, Leave, Delivery, Subscribing, At
  <2> QED
    BY <1>2, <2>2, <2>3 DEF Delivery
<1>4. CASE SendWarning
  <2>1. slot' = Good(cache, TRUE) /\ slot'.kind = "good"
    BY <1>4 DEF SendWarning, Good
  <2>2. AtRest => warning
    BY <1>4 DEF SendWarning, Delivery, Subscribing
  <2>3. RowsArrive'
    BY <1>1, <1>2, <2>1, <2>2 DEF RowsArrive, TypeOK
  <2>4. FailuresPass'
    <3>1. Failed.kind = "failed"
      BY DEF Failed
    <3> QED
      BY <2>1, <3>1 DEF FailuresPass, NoGoodUpdate
  <2>5. Subscribing'
    BY <1>1, <1>4 DEF SendWarning, Delivery, Subscribing, At
  <2> QED
    BY <1>2, <2>3, <2>4, <2>5 DEF Delivery
<1> QED
  BY <1>3, <1>4

LEMMA DeliveryAgentView ==
    ASSUME TypeOK, Delivery, TakeUpdate \/ ApplyUpdate \/ ReadList \/ ApplyList
    PROVE  Delivery'
<1>1. UNCHANGED <<cache, warning, refreshing, jobs, joined, missed, asked, outcome>>
  BY DEF TakeUpdate, ApplyUpdate, ReadList, ApplyList, storeVars, jobVars, counts
<1>2. (AtRest <=> AtRest') /\ Reported' /\ WarningShown' = WarningShown
  BY <1>1 DEF Delivery, Reported, AtRest, Holding, At, WarningShown
<1>3. CASE TakeUpdate
  <2>1. /\ held = NoUpdate /\ slot # NoUpdate /\ held' = slot /\ slot' = NoUpdate
        /\ UNCHANGED <<list, view>>
    BY <1>3 DEF TakeUpdate
  <2>2. NoUpdate.kind = "none" /\ Failed.kind = "failed"
    BY DEF NoUpdate, Failed
  <2>3. RowsArrive'
    BY <1>1, <1>2, <2>1, <2>2 DEF Delivery, RowsArrive
  <2>4. FailuresPass'
    BY <1>1, <1>2, <2>1, <2>2 DEF Delivery, FailuresPass, NoGoodUpdate
  <2>5. Subscribing'
    BY <1>1, <1>2, <2>1 DEF Delivery, Subscribing, At
  <2> QED
    BY <1>2, <2>3, <2>4, <2>5 DEF Delivery
<1>4. CASE ApplyUpdate
  <2>1. /\ held # NoUpdate /\ held' = NoUpdate
        /\ view' = ObserverUpdateApplied(held)
        /\ UNCHANGED <<slot, list>>
    BY <1>4 DEF ApplyUpdate
  <2>2. NoUpdate.kind = "none" /\ Failed.kind = "failed"
    BY DEF NoUpdate, Failed
  <2>3. Subscribing'
    BY <1>1, <1>2, <2>1 DEF Delivery, Subscribing, At
  <2>4. CASE held = Failed
    <3>1. /\ view'.rows = view.rows /\ view'.observed = view.observed
          /\ view'.warning = "refresh"
      BY <2>1, <2>4 DEF ObserverUpdateApplied, TypeOK, View
    <3>2. RowsArrive'
      BY <1>1, <1>2, <2>1, <2>2, <2>4, <3>1 DEF Delivery, RowsArrive
    <3>3. FailuresPass'
      BY <1>1, <1>2, <2>1, <2>2, <2>4, <3>1 DEF Delivery, FailuresPass, NoGoodUpdate
    <3> QED
      BY <1>2, <2>3, <3>2, <3>3 DEF Delivery
  <2>5. CASE held # Failed
    <3>1. held.kind = "good"
      BY <2>1, <2>5 DEF TypeOK, Update
    <3>2. /\ view'.rows = held.rows /\ view'.observed
          /\ view'.warning = IF held.warning THEN "durability" ELSE "none"
      BY <2>1, <2>5 DEF ObserverUpdateApplied
    <3>3. held = Good(cache, warning) => view'.rows = cache /\ view'.warning = WarningShown
      BY <3>2 DEF Good, WarningShown
    <3>4. RowsArrive'
      BY <1>1, <1>2, <2>1, <2>2, <3>1, <3>2, <3>3 DEF Delivery, RowsArrive
    <3>5. FailuresPass'
      BY <1>1, <1>2, <2>1, <2>2, <3>2 DEF Delivery, FailuresPass, NoGoodUpdate
    <3> QED
      BY <1>2, <2>3, <3>4, <3>5 DEF Delivery
  <2> QED
    BY <2>4, <2>5
<1>5. CASE ReadList \/ ApplyList
  <2>1. UNCHANGED <<slot, held>>
    BY <1>5 DEF ReadList, ApplyList
  <2>2. /\ view'.observed = view.observed /\ view'.warning = view.warning
        /\ view.observed => view' = view
    BY <1>5 DEF ReadList, ApplyList, ListApplied, TypeOK, View
  <2>3. /\ list'.pc = "read" => list'.rows = cache
        /\ ~view.observed /\ list'.pc = "none" => view'.rows = list.rows /\ list.pc = "read"
    BY <1>5 DEF ReadList, ApplyList, ListApplied, NoList, TypeOK, View
  <2>4. RowsArrive'
    BY <1>1, <1>2, <2>1, <2>2, <2>3 DEF Delivery, RowsArrive
  <2>5. FailuresPass'
    BY <1>1, <1>2, <2>1, <2>2 DEF Delivery, FailuresPass, NoGoodUpdate
  <2>6. Subscribing'
    BY <1>1, <1>2, <2>1 DEF Delivery, Subscribing, At
  <2> QED
    BY <1>2, <2>4, <2>5, <2>6 DEF Delivery
<1> QED
  BY <1>3, <1>4, <1>5

LEMMA DeliveryStep ==
    ASSUME TypeOK, OneJob, Catalogs, Delivery, [Next]_vars
    PROVE  Delivery'
<1>1. ASSUME NEW j \in Jobs, JobStep(j) PROVE Delivery'
  BY <1>1, DeliveryQuietJobStep, DeliveryPublish
<1>2. CASE Reload
  BY <1>2, DeliveryReload
<1>3. CASE Restart
  BY <1>3 DEF Restart, Delivery, RowsArrive, FailuresPass, Subscribing, Reported,
              AtRest, NoGoodUpdate, NoUpdate, NoList, EmptyView, Failed, Holding, At, Idle
<1>4. CASE Join \/ SendWarning \/ Leave
  BY <1>4, DeliverySubscriber
<1>5. CASE TakeUpdate \/ ApplyUpdate \/ ReadList \/ ApplyList
  BY <1>5, DeliveryAgentView
<1>6. CASE UNCHANGED <<cache, warning, refreshing, jobs, joined, slot, missed,
                       viewVars, asked, outcome>>
  BY <1>6 DEF viewVars, Delivery, RowsArrive, FailuresPass, Subscribing, Reported,
              AtRest, NoGoodUpdate, WarningShown, Holding, At
<1>7. Edit \/ Close \/ UNCHANGED vars
      => UNCHANGED <<cache, warning, refreshing, jobs, joined, slot, missed,
                     viewVars, asked, outcome>>
  BY DEF Edit, Close, vars, storeVars, jobVars, counts
<1> QED
  BY <1>1, <1>2, <1>3, <1>4, <1>5, <1>6, <1>7 DEF Next

\* At rest Agent View's rows are the provider's cache and its warning the
\* provider's, for the two named exceptions (Observe, publish, sendLatest,
\* applyObserverUpdate, applyLoadSnapshot).
THEOREM ViewIsCurrentAlways == Spec => []ViewIsCurrent
<1>1. TypeOK /\ OneJob /\ Catalogs /\ Delivery /\ [Next]_vars => Delivery'
  BY DeliveryStep
<1>2. TypeOK /\ OneJob /\ Delivery => ViewIsCurrent
  <2> SUFFICES ASSUME TypeOK, OneJob, Delivery, Settled, missed = "no"
               PROVE  /\ view.rows = cache
                      /\ outcome # "failed" =>
                            view.warning = IF warning THEN "durability" ELSE "none"
    BY DEF ViewIsCurrent
  <2>1. AtRest
    BY DEF Settled, OneJob, Active, AtRest, Holding, At
  <2>2. slot.kind = "none" /\ held.kind = "none" /\ slot # Failed
    BY DEF Settled, NoUpdate, Failed
  <2>3. list.pc = "none" /\ asked > 0 /\ ~refreshing
    BY DEF Settled, NoList
  <2>4. view.rows = cache /\ (view.observed => view.warning \in {WarningShown, "refresh"})
    BY <2>1, <2>2, <2>3 DEF Delivery, RowsArrive
  <2>5. outcome # "none"
    BY <2>3 DEF Delivery, Subscribing
  <2>6. outcome # "failed" => view.observed /\ view.warning # "refresh"
    BY <2>1, <2>2, <2>5 DEF Delivery, FailuresPass, NoGoodUpdate, TypeOK
  <2> QED
    BY <2>4, <2>6 DEF WarningShown
<1> QED
  BY <1>1, <1>2, DeliveryInit, CatalogsAlways, TypeAndOneJob, PTL DEF Spec

=============================================================================
