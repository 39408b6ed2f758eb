--------------------------- MODULE ChatGPTRefresh ---------------------------
(***************************************************************************)
(* The ChatGPT provider's catalog (internal/provider/chatgpt/provider.go): *)
(* the refresh state machine, the in-memory cache, its persisted copy, and *)
(* the one subscription Agent View holds on it, down to the provider's     *)
(* rows there (internal/agentview).  Concurrent actors: the event loop     *)
(* (reloads, applied updates), the runRefresh goroutine, the goroutines of *)
(* Observe and of the reload's List, and the remote Project, edited at any *)
(* time.  A catalog is the number of the remote version it holds; one that *)
(* was enumerated while the Project changed is some version of that span.  *)
(***************************************************************************)
EXTENDS Naturals, FiniteSets

CONSTANTS
    Jobs,        \* room for runRefresh goroutines that exist at one time
    MaxReloads,  \* how many reloads a process asks for
    MaxVersion,  \* remote versions
    MaxFaults    \* failed loads and saves of the persisted catalog, restarts

ASSUME RefreshAssumption ==
    /\ IsFiniteSet(Jobs) /\ Jobs # {}
    /\ MaxReloads \in Nat /\ MaxVersion \in Nat \ {0} /\ MaxFaults \in Nat

VARIABLES
    remote,     \* newest version of the remote catalog
    disk,       \* persisted version (CatalogStore), or NoCatalog
    cache,      \* catalogCache: version held, or NoCatalog (no snapshot)
    warning,    \* durabilityWarning is set
    refreshing, pending,
    open,       \* lifecycleCtx has not ended
    jobs,       \* runRefresh goroutines
    joined,     \* Observe: not called yet, holding subMu, subscribed, closed
    slot,       \* the subscriber's one-slot channel
    held,       \* the update Controller.Observe's goroutine is handing over
    list,       \* the newest reload's List
    view,       \* Agent View's providerState for this provider
    asked, begun, covered, served, \* requests and enumerations (CoalescedRefresh)
    wanted,     \* remote version at the newest request of a refresh
    outcome,    \* what the newest refresh published
    missed,     \* why the newest published success will not reach the view
    faults

jobVars == <<refreshing, pending, jobs>>
storeVars == <<disk, cache, warning>>
viewVars == <<held, list, view>>
counts == <<asked, begun, covered, served, wanted, outcome>>

vars == <<remote, storeVars, jobVars, open, joined, slot, missed, viewVars,
          counts, faults>>

-----------------------------------------------------------------------------
NoCatalog == 0
Catalog == 0..MaxVersion

Idle == [pc |-> "idle", seen |-> NoCatalog]
Job == [pc : {"idle", "started", "failed", "published"}, seen : {NoCatalog}]
       \cup [pc : {"listing", "listed", "cached", "written", "unwritten",
                   "saved", "unsaved"},
             seen : 1..MaxVersion]
At(j, pc) == jobs[j].pc = pc

Active == {j \in Jobs : ~At(j, "idle")}

\* From the start of browser.List to the publication of its outcome.
Enumerating == {j \in Active : ~At(j, "started") /\ ~At(j, "published")}

NoUpdate == [kind |-> "none"]
Failed == [kind |-> "failed"]
Good(rows, unsaved) == [kind |-> "good", rows |-> rows, warning |-> unsaved]

Update == {NoUpdate, Failed}
          \cup [kind : {"good"}, rows : Catalog, warning : BOOLEAN]

NoList == [pc |-> "none", rows |-> NoCatalog]
List == [pc : {"none", "asked", "read"}, rows : Catalog]

EmptyView == [rows |-> NoCatalog, observed |-> FALSE, warning |-> "none"]
View == [rows : Catalog, observed : BOOLEAN,
         warning : {"none", "durability", "refresh"}]

\* Every variable stays in its type.
TypeOK ==
    /\ remote \in 1..MaxVersion
    /\ disk \in Catalog /\ cache \in Catalog
    /\ warning \in BOOLEAN
    /\ refreshing \in BOOLEAN /\ pending \in BOOLEAN /\ open \in BOOLEAN
    /\ jobs \in [Jobs -> Job]
    /\ joined \in {"no", "joining", "yes", "closed"}
    /\ slot \in Update /\ held \in Update
    /\ list \in List
    /\ view \in View
    /\ asked \in Nat /\ begun \in Nat /\ covered \in Nat /\ served \in Nat
    /\ wanted \in Catalog
    /\ outcome \in {"none", "good", "failed"}
    /\ missed \in {"no", "unheard", "replaced"}
    /\ faults \in Nat

(***************************************************************************)
(* A process starts: New with its hydrate.  An unreadable or invalid       *)
(* persisted catalog leaves the cache empty and a durability warning.      *)
(***************************************************************************)
Init ==
    /\ remote = 1
    /\ disk \in {NoCatalog, 1}
    /\ \/ cache = disk /\ warning = FALSE
       \/ cache = NoCatalog /\ warning = TRUE
    /\ refreshing = FALSE /\ pending = FALSE /\ open = TRUE
    /\ jobs = [j \in Jobs |-> Idle]
    /\ joined = "no" /\ slot = NoUpdate /\ held = NoUpdate
    /\ list = NoList /\ view = EmptyView
    /\ asked = 0 /\ begun = 0 /\ covered = 0 /\ served = 0
    /\ wanted = NoCatalog /\ outcome = "none" /\ missed = "no"
    /\ faults = 0

Hydrate ==
    \/ cache' = disk /\ warning' = FALSE
    \/ cache' = NoCatalog /\ warning' = TRUE

\* The process is killed, or exits, and agentsctl is started again.
Restart ==
    /\ faults < MaxFaults
    /\ faults' = faults + 1
    /\ Hydrate
    /\ refreshing' = FALSE /\ pending' = FALSE /\ open' = TRUE
    /\ jobs' = [j \in Jobs |-> Idle]
    /\ joined' = "no" /\ slot' = NoUpdate /\ held' = NoUpdate
    /\ list' = NoList /\ view' = EmptyView
    /\ asked' = 0 /\ begun' = 0 /\ covered' = 0 /\ served' = 0
    /\ wanted' = NoCatalog /\ outcome' = "none" /\ missed' = "no"
    /\ UNCHANGED <<remote, disk>>

-----------------------------------------------------------------------------
\* The Project changes in the browser of some other user or device.
Edit ==
    /\ remote < MaxVersion
    /\ remote' = remote + 1
    /\ UNCHANGED <<storeVars, jobVars, open, joined, slot, missed, viewVars,
                   counts, faults>>

(***************************************************************************)
(* Refresh, called by Agent View's reload (requestReload), which also      *)
(* lists the provider; an older reload's undelivered List is dropped.      *)
(***************************************************************************)
StartRefresh ==
    /\ refreshing' = TRUE
    /\ jobs' = [jobs EXCEPT ![CHOOSE j \in Jobs : j \notin Active].pc = "started"]

\* Variants: a second refresh beside the running one; a request forgotten.
RefreshAtOnce ==
    IF Jobs = Active
    THEN pending' = TRUE /\ UNCHANGED <<refreshing, jobs>>
    ELSE StartRefresh /\ UNCHANGED pending
RefreshForgotten ==
    IF refreshing
    THEN UNCHANGED jobVars
    ELSE StartRefresh /\ UNCHANGED pending

Refresh ==
    IF refreshing
    THEN pending' = TRUE /\ UNCHANGED <<refreshing, jobs>>
    ELSE StartRefresh /\ UNCHANGED pending

Reload ==
    /\ open
    /\ asked < MaxReloads
    /\ Refresh
    /\ asked' = asked + 1
    /\ wanted' = remote
    /\ list' = [pc |-> "asked", rows |-> NoCatalog]
    /\ UNCHANGED <<remote, storeVars, open, joined, slot, missed, held, view,
                   begun, covered, served, outcome, faults>>

(***************************************************************************)
(* runRefresh.  After Close its context is cancelled: a List not yet begun *)
(* fails; one in progress fails or had its answer already.                 *)
(***************************************************************************)
Goto(j, pc) == jobs' = [jobs EXCEPT ![j].pc = pc]

\* The answer, if any, is not used any more.
Drop(j, pc) == jobs' = [jobs EXCEPT ![j] = [Idle EXCEPT !.pc = pc]]

BeginEnumeration(j) ==
    /\ At(j, "started")
    /\ IF open
       THEN jobs' = [jobs EXCEPT ![j] = [pc |-> "listing", seen |-> remote]]
       ELSE Drop(j, "failed")
    /\ begun' = begun + 1
    /\ covered' = asked
    /\ UNCHANGED <<remote, storeVars, refreshing, pending, open, joined, slot,
                   missed, viewVars, asked, served, wanted, outcome, faults>>

\* Variant: an enumeration cut short counts as a complete one.
PartialAnswers(j) == NoCatalog..remote

\* What a complete enumeration can have seen.
Answers(j) == jobs[j].seen..remote

EndEnumeration(j) ==
    /\ At(j, "listing")
    /\ \/ \E v \in Answers(j) :
              jobs' = [jobs EXCEPT ![j] = [pc |-> "listed", seen |-> v]]
       \/ Drop(j, "failed")
    /\ UNCHANGED <<remote, storeVars, refreshing, pending, open, joined, slot,
                   missed, viewVars, counts, faults>>

Install(j) ==
    /\ At(j, "listed")
    /\ cache' = jobs[j].seen
    /\ Goto(j, "cached")
    /\ UNCHANGED <<remote, disk, warning, refreshing, pending, open, joined,
                   slot, missed, viewVars, counts, faults>>

\* persist: the store's atomic write, then setDurabilityWarning.
Save(j) ==
    /\ At(j, "cached")
    /\ \/ /\ disk' = jobs[j].seen
          /\ Goto(j, "written")
          /\ UNCHANGED faults
       \/ /\ faults < MaxFaults
          /\ faults' = faults + 1
          /\ Goto(j, "unwritten")
          /\ UNCHANGED disk
    /\ UNCHANGED <<remote, cache, warning, refreshing, pending, open, joined,
                   slot, missed, viewVars, counts>>

\* Variant: a failed save sets no warning.
DurabilityIgnored(j) == warning /\ At(j, "unwritten")

DurabilityAfter(j) == At(j, "unwritten")

SetDurabilityWarning(j) ==
    /\ At(j, "written") \/ At(j, "unwritten")
    /\ warning' = DurabilityAfter(j)
    /\ Goto(j, IF At(j, "written") THEN "saved" ELSE "unsaved")
    /\ UNCHANGED <<remote, disk, cache, refreshing, pending, open, joined, slot,
                   missed, viewVars, counts, faults>>

(***************************************************************************)
(* publish, under subMu: sendLatest replaces what the subscriber has not   *)
(* received yet.                                                           *)
(***************************************************************************)
Outcome(j) ==
    IF At(j, "failed") THEN Failed ELSE Good(jobs[j].seen, At(j, "unsaved"))

\* Variant: publish does not take subMu.
SubMuIgnored == TRUE

SubMuFree == joined # "joining"

\* Why the newest published success will not reach the view.
MissedAfter(update) ==
    CASE update.kind = "good" -> IF joined = "yes" THEN "no" ELSE "unheard"
      [] update.kind = "failed" /\ joined = "yes" /\ slot.kind = "good" -> "replaced"
      [] OTHER -> missed

Publish(j) ==
    /\ At(j, "failed") \/ At(j, "saved") \/ At(j, "unsaved")
    /\ SubMuFree
    /\ slot' = IF joined \in {"joining", "yes"} THEN Outcome(j) ELSE slot
    /\ missed' = MissedAfter(Outcome(j))
    /\ outcome' = Outcome(j).kind
    /\ served' = covered
    /\ Drop(j, "published")
    /\ UNCHANGED <<remote, storeVars, refreshing, pending, open, joined,
                   viewVars, asked, begun, covered, wanted, faults>>

\* The locked end of runRefresh: one more refresh if another was requested.
Finish(j) ==
    /\ At(j, "published")
    /\ refreshing' = (pending /\ open)
    /\ pending' = FALSE
    /\ Drop(j, IF pending /\ open THEN "started" ELSE "idle")
    /\ UNCHANGED <<remote, storeVars, open, joined, slot, missed, viewVars,
                   counts, faults>>

(***************************************************************************)
(* Observe: registers the subscriber and, if a durability warning is set,  *)
(* sends it the cache, both under subMu, which the other writers of cache  *)
(* and warning do not take.                                                *)
(***************************************************************************)
Join ==
    /\ joined = "no"
    /\ joined' = IF ~open THEN "closed" ELSE IF warning THEN "joining" ELSE "yes"
    /\ UNCHANGED <<remote, storeVars, jobVars, open, slot, missed, viewVars,
                   counts, faults>>

SendWarning ==
    /\ joined = "joining"
    /\ slot' = Good(cache, TRUE)
    /\ missed' = "no"
    /\ joined' = "yes"
    /\ UNCHANGED <<remote, storeVars, jobVars, open, viewVars, counts, faults>>

\* The goroutine that ends the subscription.
Leave ==
    /\ joined = "yes"
    /\ ~open
    /\ joined' = "closed"
    /\ UNCHANGED <<remote, storeVars, jobVars, open, slot, missed, viewVars,
                   counts, faults>>

\* Close, once Agent View's Run has returned.
Close ==
    /\ open
    /\ open' = FALSE
    /\ pending' = FALSE
    /\ UNCHANGED <<remote, storeVars, refreshing, jobs, joined, slot, missed,
                   viewVars, counts, faults>>

-----------------------------------------------------------------------------
(***************************************************************************)
(* Agent View: Controller.Observe's goroutine takes an update and hands it *)
(* to the event loop, which applies it (applyObserverUpdate) when it is    *)
(* not running an Open or another blocking call; the reload's List reads   *)
(* the cache and is applied (applyLoadSnapshot).                           *)
(***************************************************************************)
TakeUpdate ==
    /\ held = NoUpdate
    /\ slot # NoUpdate
    /\ held' = slot
    /\ slot' = NoUpdate
    /\ UNCHANGED <<remote, storeVars, jobVars, open, joined, missed, list, view,
                   counts, faults>>

ObserverUpdateApplied(update) ==
    IF update = Failed
    THEN [view EXCEPT !.warning = "refresh"]
    ELSE [rows |-> update.rows, observed |-> TRUE,
          warning |-> IF update.warning THEN "durability" ELSE "none"]

ApplyUpdate ==
    /\ open
    /\ held # NoUpdate
    /\ view' = ObserverUpdateApplied(held)
    /\ held' = NoUpdate
    /\ UNCHANGED <<remote, storeVars, jobVars, open, joined, slot, missed, list,
                   counts, faults>>

ReadList ==
    /\ list.pc = "asked"
    /\ list' = [pc |-> "read", rows |-> cache]
    /\ UNCHANGED <<remote, storeVars, jobVars, open, joined, slot, missed, held,
                   view, counts, faults>>

ListApplied(rows) == IF view.observed THEN view ELSE [view EXCEPT !.rows = rows]

ApplyList ==
    /\ open
    /\ list.pc = "read"
    /\ view' = ListApplied(list.rows)
    /\ list' = NoList
    /\ UNCHANGED <<remote, storeVars, jobVars, open, joined, slot, missed, held,
                   counts, faults>>

-----------------------------------------------------------------------------
JobStep(j) ==
    \/ BeginEnumeration(j)
    \/ EndEnumeration(j)
    \/ Install(j)
    \/ Save(j)
    \/ SetDurabilityWarning(j)
    \/ Publish(j)
    \/ Finish(j)

Next ==
    \/ Edit \/ Restart \/ Close
    \/ Reload
    \/ \E j \in Jobs : JobStep(j)
    \/ Join \/ SendWarning \/ Leave
    \/ TakeUpdate \/ ApplyUpdate \/ ReadList \/ ApplyList

\* A started goroutine runs on: every bridge call and every enumeration has
\* its own deadline or bound, and the mutexes are held briefly.
Fairness ==
    /\ \A j \in Jobs : WF_vars(JobStep(j))
    /\ WF_vars(SendWarning)

Spec == Init /\ [][Next]_vars /\ Fairness

-----------------------------------------------------------------------------
(***************************************************************************)
(* Properties.                                                             *)
(***************************************************************************)

\* One runRefresh at a time, and refreshing says whether there is one, so
\* neither the enumeration nor the writes of cache and store ever overlap.
SingleFlight ==
    /\ Cardinality(Active) <= 1
    /\ refreshing <=> Active # {}

\* Without a durability warning the persisted catalog is the cached one,
\* except while the running refresh is between the two writes: no catalog
\* that would be lost on a restart goes unreported.
NoSilentLoss ==
    \/ warning
    \/ disk = cache
    \/ \E j \in Jobs : At(j, "cached") \/ At(j, "unwritten")

\* A reload that coalesced with a running refresh still sees its answer: at
\* rest after a success the cache is no older than the newest request.
AnswersEveryRequest ==
    ~refreshing /\ open /\ outcome = "good" => cache >= wanted

\* Neither the persisted catalog nor, until a restart, the cached one ever
\* goes back to an older version.
NeverOlder == [][disk' >= disk /\ (Restart \/ cache' >= cache)]_vars

\* No refresh runs and everything published and listed has been applied.
Settled ==
    /\ open /\ ~refreshing
    /\ asked > 0 /\ list = NoList
    /\ joined = "yes" /\ slot = NoUpdate /\ held = NoUpdate

\* At rest Agent View's rows are the provider's cache, and its warning the
\* provider's, in whatever order subscribing, publishing, listing and applying
\* interleaved -- unless the newest success was published before the
\* subscription or replaced in the slot by a failure.
ViewIsCurrent ==
    Settled /\ missed = "no" =>
        /\ view.rows = cache
        /\ outcome # "failed" =>
               view.warning = IF warning THEN "durability" ELSE "none"

\* The refresh state machine implements coalesced single-flight refreshing:
\* every request is answered by an enumeration begun after it.
Coalesced == INSTANCE CoalescedRefresh WITH running <- Enumerating # {}

RefinesCoalesced == Coalesced!Spec
=============================================================================
