--------------------------- MODULE AgentViewStore ---------------------------
(***************************************************************************)
(* The catalogs Agent View retains, one per provider, and everything that  *)
(* replaces them: reload cycles with their generations, the targeted       *)
(* refresh of a provider that lists a Starting session, and Observer       *)
(* publications (agentview_unix.go, transient_unix.go).                    *)
(*                                                                         *)
(* All of this state belongs to the event loop's goroutine, so one action  *)
(* is one case of its select.  What runs beside it are the providers' List *)
(* calls; each is a record in calls from its start until the event loop    *)
(* has received, or nobody will receive, what it returned.  The channels   *)
(* in between only forward, and are folded into "listed": LoadStream's     *)
(* channel is unbuffered, catalogCh is first in first out within a cycle,  *)
(* results has room for every provider.                                    *)
(*                                                                         *)
(* A provider's catalog is a version, which grows whenever its sessions    *)
(* change, and the name its sessions were last given from Agent View.      *)
(* Which of its rows the directory scope lets through is left out; the     *)
(* scope itself is kept.  The generation is the reload's number.           *)
(***************************************************************************)
EXTENDS Integers, FiniteSets

CONSTANTS
  Providers,              \* Controller.Providers
  Observers,              \* those that implement sessionctl.Observer
  Renamers,               \* those that implement sessionctl.Renamer
  StartingVersions,       \* pairs of a provider and a version of its
                          \* sessions with a Starting one among them
  MaxChanges,             \* bound on changes of the providers' sessions
  MaxReloads,             \* bound on reload cycles
  MaxTransientRefreshes   \* maxTransientRefreshes

ASSUME StoreAssumption ==
  /\ Providers # {}
  /\ IsFiniteSet(Providers)
  /\ Observers \subseteq Providers
  /\ Renamers \subseteq Providers
  /\ MaxChanges \in Nat
  /\ MaxReloads \in Nat \ {0}
  /\ MaxTransientRefreshes \in Nat \ {0}

VARIABLES
  native,           \* what each provider's List would return now
  changes,          \* how often any provider's has changed
  calls,            \* the List calls that are not settled
  catalogGen,       \* Runtime.catalogGen
  catalogLoading,   \* State.CatalogLoading
  scope,            \* State.Scope
  currentScope,     \* Runtime.currentScope
  store,            \* Runtime.providerSnapshots
  rows,             \* State.Rows, by provider
  tick,             \* transientRefresh.tick is armed
  attempts,         \* transientRefresh.attempts
  inFlight,         \* transientRefresh.inFlight, 0 for no entry
  asked             \* history: the versions when the newest reload began

transient == <<tick, attempts, inFlight>>
vars == <<native, changes, calls, catalogGen, catalogLoading, scope, currentScope,
          store, rows, tick, attempts, inFlight, asked>>

Scopes == {"same", "descendants", "all"}
Catalogs == [version : 0 .. MaxChanges + 1, name : 0 .. MaxChanges]
NothingListed == [version |-> 0, name |-> 0]

ProviderStates ==
  [rows : Catalogs, observed : BOOLEAN,
   listWarning : BOOLEAN, observerWarning : BOOLEAN]

\* round is 0 for a reload's List, else the number of the targeted round.
ListCalls ==
  [gen : 1 .. MaxReloads, round : 0 .. MaxTransientRefreshes,
   provider : Providers, scope : Scopes,
   phase : {"listing", "listed"}, failed : BOOLEAN, rows : Catalogs]

BeginList(g, r, p, s) ==
  [gen |-> g, round |-> r, provider |-> p, scope |-> s,
   phase |-> "listing", failed |-> FALSE, rows |-> NothingListed]

Starting(p, catalog) == <<p, catalog.version>> \in StartingVersions

-----------------------------------------------------------------------------

Current(c) == c.gen = catalogGen

\* Variant: a cycle ends only with a List that succeeded.
LastSuccess(c) ==
  ~c.failed /\ {d \in calls : d.gen = c.gen /\ d.round = 0} = {c}
\* No other arrival of c's cycle is outstanding: catalogEvent.done.
Last(c) == {d \in calls : d.gen = c.gen /\ d.round = 0} = {c}

\* Variant: a List replaces rows whoever owns them.
ListTakesBack(st, c) ==
  IF c.failed THEN [st EXCEPT !.listWarning = TRUE]
              ELSE [st EXCEPT !.listWarning = FALSE, !.rows = c.rows]
\* Variant: a failed List is not reported once there are rows.
ListFailsSilently(st, c) ==
  IF c.failed
  THEN [st EXCEPT !.listWarning = (st.rows = NothingListed)]
  ELSE [st EXCEPT !.listWarning = FALSE,
                  !.rows = IF st.observed THEN st.rows ELSE c.rows]
\* What a List's return makes of a provider's retained state.
ListApplied(st, c) ==
  IF c.failed
  THEN [st EXCEPT !.listWarning = TRUE]
  ELSE [st EXCEPT !.listWarning = FALSE,
                  !.rows = IF st.observed THEN st.rows ELSE c.rows]

Recomputed(snapshots) == [p \in Providers |-> snapshots[p].rows]

\* The providers the next targeted round is for.
Due(snapshots, running) ==
  {p \in Providers : running[p] = 0 /\ Starting(p, snapshots[p].rows)}

\* Variant: the arrival that ends a cycle is scheduled for while it loads.
ScheduledTooEarly(snapshots, running, loading) ==
  \/ tick
  \/ /\ ~catalogLoading
     /\ attempts < MaxTransientRefreshes
     /\ Due(snapshots, running) # {}
\* Whether a round is armed after schedule().
Scheduled(snapshots, running, loading) ==
  \/ tick
  \/ /\ ~loading
     /\ attempts < MaxTransientRefreshes
     /\ Due(snapshots, running) # {}

\* inFlight after the result of c.
Released(c) ==
  [inFlight EXCEPT ![c.provider] =
     IF inFlight[c.provider] = c.gen THEN 0 ELSE @]

\* inFlight after supersede().
Superseded == [p \in Providers |-> 0]

-----------------------------------------------------------------------------

Versions == [p \in Providers |-> native[p].version]

(* Run makes the first reload before it enters the event loop. *)
Init ==
  /\ native = [p \in Providers |-> [version |-> 1, name |-> 0]]
  /\ changes = 0
  /\ calls = {BeginList(1, 0, p, "same") : p \in Providers}
  /\ catalogGen = 1
  /\ catalogLoading = TRUE
  /\ scope = "same"
  /\ currentScope = "same"
  /\ store = [p \in Providers |->
                [rows |-> NothingListed, observed |-> FALSE,
                 listWarning |-> FALSE, observerWarning |-> FALSE]]
  /\ rows = [p \in Providers |-> NothingListed]
  /\ tick = FALSE
  /\ attempts = 0
  /\ inFlight = [p \in Providers |-> 0]
  /\ asked = Versions

(* Sessions of p change: anybody's dispatch, stop, archive, settling, ... *)
Change(p) ==
  /\ changes < MaxChanges
  /\ changes' = changes + 1
  /\ native' = [native EXCEPT ![p].version = @ + 1]
  /\ UNCHANGED <<calls, catalogGen, catalogLoading, scope, currentScope,
                 store, rows, transient, asked>>

NextScope(s) ==
  CASE s = "same" -> "descendants"
    [] s = "descendants" -> "all"
    [] s = "all" -> "same"

(* requestReload, with its supersede(): Ctrl+L, Ctrl+/ after it changed    *)
(* State.Scope, and every operation whose Result asks for a reload.        *)
Reload(s) ==
  /\ catalogGen < MaxReloads
  /\ scope' = s
  /\ inFlight' = Superseded
  /\ tick' = FALSE
  /\ attempts' = 0
  /\ catalogGen' = catalogGen + 1
  /\ catalogLoading' = TRUE
  /\ calls' = calls \cup {BeginList(catalogGen + 1, 0, p, s) : p \in Providers}
  /\ asked' = Versions
  /\ UNCHANGED <<native, changes, currentScope, store, rows>>

(* A List reads its provider's sessions, or fails; its context may be      *)
(* cancelled by now, which it may or may not notice.                       *)
ListReturns(c) ==
  /\ c.phase = "listing"
  /\ \E failed \in BOOLEAN :
       calls' = (calls \ {c}) \cup
                {[c EXCEPT !.phase = "listed", !.failed = failed,
                           !.rows = IF failed THEN @ ELSE native[c.provider]]}
  /\ UNCHANGED <<native, changes, catalogGen, catalogLoading, scope, currentScope,
                 store, rows, transient, asked>>

(* The event loop receives what a reload's List returned. *)
ApplyArrival(c) ==
  /\ c.phase = "listed"
  /\ c.round = 0
  /\ Current(c)
  /\ calls' = calls \ {c}
  /\ currentScope' = c.scope
  /\ store' = [store EXCEPT ![c.provider] = ListApplied(@, c)]
  /\ rows' = Recomputed(store')
  /\ catalogLoading' = (catalogLoading /\ ~Last(c))
  /\ tick' = Scheduled(store', inFlight, catalogLoading')
  /\ UNCHANGED <<native, changes, catalogGen, scope, attempts, inFlight, asked>>

(* What an earlier generation's List returned is not sent, since its       *)
(* context is cancelled, or is received and dropped.                       *)
DropStale(c) ==
  /\ c.phase = "listed"
  /\ ~Current(c)
  /\ calls' = calls \ {c}
  /\ UNCHANGED <<native, changes, catalogGen, catalogLoading, scope, currentScope,
                 store, rows, transient, asked>>

(* The timer of a round fires: transientRefresh.refresh. *)
BeginRound ==
  /\ tick
  /\ tick' = FALSE
  /\ LET targets == IF catalogLoading THEN {} ELSE Due(store, inFlight)
     IN  /\ attempts' = IF targets = {} THEN attempts ELSE attempts + 1
         /\ inFlight' = [p \in Providers |->
                           IF p \in targets THEN catalogGen ELSE inFlight[p]]
         /\ calls' = calls \cup
              {BeginList(catalogGen, attempts + 1, p, currentScope) : p \in targets}
  /\ UNCHANGED <<native, changes, catalogGen, catalogLoading, scope, currentScope,
                 store, rows, asked>>

(* The event loop receives a targeted List's result:                       *)
(* transientRefresh.apply.                                                 *)
ApplyTargeted(c) ==
  /\ c.phase = "listed"
  /\ c.round > 0
  /\ Current(c)
  /\ calls' = calls \ {c}
  /\ inFlight' = Released(c)
  /\ store' = [store EXCEPT ![c.provider] = ListApplied(@, c)]
  /\ rows' = Recomputed(store')
  /\ tick' = Scheduled(store', inFlight', catalogLoading)
  /\ UNCHANGED <<native, changes, catalogGen, catalogLoading, scope, currentScope,
                 attempts, asked>>

(* The catalogs an Observer may publish next: it publishes in order, which *)
(* is its own module's matter, and nothing its provider has not had.       *)
Publishable(p) ==
  {cat \in Catalogs :
     /\ cat.version \in 1 .. native[p].version
     /\ cat.name \in 0 .. native[p].name
     /\ store[p].observed => /\ cat.version >= store[p].rows.version
                             /\ cat.name >= store[p].rows.name}

(* A provider's successful Observer update, with or without a warning. *)
Observed(st, cat, warning) ==
  [st EXCEPT !.rows = cat, !.observed = TRUE, !.observerWarning = warning]
(* A failed one. *)
ObserverFailed(st) == [st EXCEPT !.observerWarning = TRUE]

ApplyObserverUpdate(p) ==
  /\ \/ \E cat \in Publishable(p), warning \in BOOLEAN :
          store' = [store EXCEPT ![p] = Observed(@, cat, warning)]
     \/ store' = [store EXCEPT ![p] = ObserverFailed(@)]
  /\ rows' = Recomputed(store')
  /\ tick' = Scheduled(store', inFlight, catalogLoading)
  /\ UNCHANGED <<native, changes, calls, catalogGen, catalogLoading, scope,
                 currentScope, attempts, inFlight, asked>>

(* A rename from Agent View: the provider has confirmed the name, and the  *)
(* patch changes the displayed rows.                                       *)
Rename(p) ==
  /\ rows[p].version > 0
  /\ changes < MaxChanges
  /\ changes' = changes + 1
  /\ native' = [native EXCEPT ![p].name = @ + 1]
  /\ rows' = [rows EXCEPT ![p].name = native'[p].name]
  /\ UNCHANGED <<calls, catalogGen, catalogLoading, scope, currentScope,
                 store, transient, asked>>

Next ==
  \/ \E p \in Providers : Change(p)
  \/ \E s \in {scope, NextScope(scope)} : Reload(s)
  \/ \E c \in calls : ListReturns(c)
  \/ \E c \in calls : ApplyArrival(c)
  \/ \E c \in calls : DropStale(c)
  \/ BeginRound
  \/ \E c \in calls : ApplyTargeted(c)
  \/ \E p \in Observers : ApplyObserverUpdate(p)
  \/ \E p \in Renamers : Rename(p)

Spec == Init /\ [][Next]_vars

(* The event loop keeps serving its channels, armed timers fire, and the   *)
(* commands behind the newest generation's Lists end: while there is any   *)
(* of it to do, some is done.  Nothing is said of obsolete Lists: such a   *)
(* one may hang for ever.                                                  *)
Served ==
  \/ \E c \in calls : \/ Current(c) /\ ListReturns(c)
                      \/ ApplyArrival(c)
                      \/ ApplyTargeted(c)
  \/ BeginRound

FairSpec == Spec /\ WF_vars(Served)

-----------------------------------------------------------------------------

TypeOK ==
  /\ native \in [Providers -> Catalogs]
  /\ changes \in 0 .. MaxChanges
  /\ calls \subseteq ListCalls
  /\ catalogGen \in 1 .. MaxReloads
  /\ catalogLoading \in BOOLEAN
  /\ scope \in Scopes
  /\ currentScope \in Scopes
  /\ store \in [Providers -> ProviderStates]
  /\ rows \in [Providers -> Catalogs]
  /\ tick \in BOOLEAN
  /\ attempts \in 0 .. MaxTransientRefreshes
  /\ inFlight \in [Providers -> 0 .. MaxReloads]
  /\ asked \in [Providers -> 0 .. MaxChanges + 1]

Warned(p) == store[p].listWarning \/ store[p].observerWarning

(* When a cycle has ended, every provider's rows are as new as the request *)
(* that began it, or the user is told that they may not be; the rows of a  *)
(* provider whose Observer owns them are the Observer's matter.  This is   *)
(* what "an arrival from a superseded cycle is dropped" (eventLoop) and    *)
(* the last-known-good rows on failure (applyLoadSnapshot) are for.        *)
FreshOrWarned ==
  ~catalogLoading =>
    \A p \in Providers :
      \/ rows[p].version >= asked[p]
      \/ store[p].observed
      \/ Warned(p)

(* When a cycle has ended, the displayed rows are filtered by the scope    *)
(* the user chose last, whichever arrivals of other cycles came first      *)
(* (catalogEvent.scope, Runtime.currentScope).                             *)
ScopeFollows == ~catalogLoading => currentScope = scope

(* A provider that shows a Starting session is not forgotten: a round is   *)
(* armed, its targeted List is outstanding, a cycle is loading, or the     *)
(* budget is spent (transientRefresh.schedule).                            *)
TransientArmed ==
  \A p \in Providers :
    Starting(p, rows[p]) =>
      \/ tick
      \/ catalogLoading
      \/ attempts = MaxTransientRefreshes
      \/ \E c \in calls : c.provider = p /\ c.round > 0 /\ Current(c)

(* A provider has one outstanding List of the newest generation at most,   *)
(* so an older answer cannot overtake a newer one (transientRefresh's      *)
(* inFlight, supersede, and no round while a cycle is loading).            *)
OneListAtATime ==
  \A c, d \in calls :
    c.provider = d.provider /\ Current(c) /\ Current(d) => c = d

(* The displayed sessions of a provider never go back to an older state,   *)
(* except once: when its Observer takes them over from List.               *)
NeverBack ==
  [][\A p \in Providers :
       p \notin Observers \/ store[p].observed
         => rows'[p].version >= rows[p].version]_vars

(* Providers are independent: a step that replaces no retained rows of p   *)
(* takes nothing from p's displayed rows                                   *)
(* (providersnapshot_test.go: a publication of one provider "must never    *)
(* touch" another's rows).                                                 *)
OthersUntouched ==
  [][\A p \in Providers :
       store'[p].rows = store[p].rows => rows'[p].name >= rows[p].name]_vars

(* The loading mark goes out, whatever fails and however often a cycle is  *)
(* superseded (eventLoop's done).                                          *)
LoadingEnds == []<>(~catalogLoading)

(* Targeted refresh comes to rest: in the end either no Starting session   *)
(* is shown, or the rounds are spent, and no List is outstanding that the  *)
(* event loop waits for (transientRefresh).                                *)
Settles ==
  <>[](/\ ~tick
       /\ \A c \in calls : ~Current(c)
       /\ \A p \in Providers :
            Starting(p, rows[p]) => attempts = MaxTransientRefreshes)
=============================================================================
