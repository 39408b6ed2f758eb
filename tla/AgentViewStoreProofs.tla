------------------------ MODULE AgentViewStoreProofs ------------------------
(***************************************************************************)
(* Proofs about AgentViewStore: types, one List at a time, displayed       *)
(* sessions that never go back, and what holds when a cycle has ended.     *)
(***************************************************************************)
EXTENDS AgentViewStore, TLAPS

-----------------------------------------------------------------------------
(***************************************************************************)
(* The inductive invariant.                                                *)
(***************************************************************************)

\* The List of the current cycle, or of a targeted round, that the event
\* loop still expects from p.
Expected(p) == \E c \in calls : c.provider = p /\ c.round = 0 /\ Current(c)
Targeted(p) == \E c \in calls : c.provider = p /\ c.round > 0 /\ Current(c)

\* Bounds that TypeOK needs.
Counted ==
  /\ \A p \in Providers : /\ native[p].version <= changes + 1
                          /\ native[p].name <= changes
  /\ tick => attempts < MaxTransientRefreshes

\* No call is of a generation that has not begun; the entries of inFlight
\* are the targeted Lists outstanding; no round while a cycle is loading.
Rounds ==
  /\ \A c \in calls : c.gen <= catalogGen
  /\ catalogLoading <=> \E p \in Providers : Expected(p)
  /\ catalogLoading => ~tick /\ \A p \in Providers : inFlight[p] = 0
  /\ \A p \in Providers : inFlight[p] = IF Targeted(p) THEN catalogGen ELSE 0

\* What is displayed is what is retained, and not newer than the sessions.
Displayed ==
  \A p \in Providers :
    /\ rows[p].version = store[p].rows.version
    /\ rows[p].version <= native[p].version
    /\ asked[p] <= native[p].version
    /\ store[p].observed => p \in Observers

\* What a current List returned is as new as the request, and, unless an
\* Observer publishes beside it, as what it will replace.
Answers ==
  \A c \in calls :
    Current(c) /\ c.phase = "listed" /\ ~c.failed =>
      /\ asked[c.provider] <= c.rows.version
      /\ c.rows.version <= native[c.provider].version
      /\ c.provider \notin Observers =>
           rows[c.provider].version <= c.rows.version

\* FreshOrWarned for each provider from its own arrival on.
FreshOnArrival ==
  \A p \in Providers :
    \/ Expected(p)
    \/ rows[p].version >= asked[p]
    \/ store[p].observed
    \/ Warned(p)

\* A cycle's arrivals carry the scope chosen last.
ScopeArrives ==
  /\ \A c \in calls : c.round = 0 /\ Current(c) => c.scope = scope
  /\ ScopeFollows

IInv ==
  /\ TypeOK
  /\ Counted
  /\ Rounds
  /\ OneListAtATime
  /\ Displayed
  /\ Answers
  /\ FreshOnArrival
  /\ ScopeArrives
  /\ TransientArmed

-----------------------------------------------------------------------------
(***************************************************************************)
(* What the operations do to one provider's state.                         *)
(***************************************************************************)

\* A List's result changes its own warning, and rows it may replace.
LEMMA ListAppliedFields ==
  ASSUME NEW st \in ProviderStates, NEW c \in ListCalls
  PROVE  LET new == ListApplied(st, c)
         IN  /\ new \in ProviderStates
             /\ new.observed <=> st.observed
             /\ new.observerWarning <=> st.observerWarning
             /\ new.listWarning <=> c.failed
             /\ new.rows = IF c.failed \/ st.observed THEN st.rows ELSE c.rows
<1>1. c.failed \in BOOLEAN /\ c.rows \in Catalogs
  BY DEF ListCalls
<1>2. st.observed \in BOOLEAN /\ st.rows \in Catalogs
  BY DEF ProviderStates
<1>3. ASSUME NEW w \in BOOLEAN
      PROVE  /\ [st EXCEPT !.listWarning = w] \in ProviderStates
             /\ \A cat \in Catalogs :
                  [st EXCEPT !.listWarning = w, !.rows = cat] \in ProviderStates
  BY DEF ProviderStates
<1>4. CASE c.failed
  <2>1. ListApplied(st, c) = [st EXCEPT !.listWarning = TRUE]
    BY <1>4 DEF ListApplied
  <2>2. ListApplied(st, c) \in ProviderStates
    BY <1>3, <2>1
  <2>3. ListApplied(st, c).rows = st.rows
    BY <2>1 DEF ProviderStates
  <2>4. /\ ListApplied(st, c).observed <=> st.observed
        /\ ListApplied(st, c).observerWarning <=> st.observerWarning
        /\ ListApplied(st, c).listWarning
    BY <2>1 DEF ProviderStates
  <2> QED
    BY <1>4, <2>2, <2>3, <2>4
<1>5. CASE ~c.failed
  <2> DEFINE kept == IF st.observed THEN st.rows ELSE c.rows
  <2>1. ListApplied(st, c) = [st EXCEPT !.listWarning = FALSE, !.rows = kept]
    BY <1>5 DEF ListApplied
  <2>2. kept \in Catalogs
    BY <1>1, <1>2
  <2> HIDE DEF kept
  <2>3. ListApplied(st, c) \in ProviderStates
    BY <1>3, <2>1, <2>2
  <2>4. ListApplied(st, c).rows = kept
    BY <2>1 DEF ProviderStates
  <2>5. /\ ListApplied(st, c).observed <=> st.observed
        /\ ListApplied(st, c).observerWarning <=> st.observerWarning
        /\ ~ListApplied(st, c).listWarning
    BY <2>1 DEF ProviderStates
  <2> QED
    BY <1>5, <2>3, <2>4, <2>5 DEF kept
<1> QED
  BY <1>1, <1>4, <1>5

\* An Observer's success replaces the rows and owns them.
LEMMA ObservedFields ==
  ASSUME NEW st \in ProviderStates, NEW cat \in Catalogs, NEW warning \in BOOLEAN
  PROVE  LET new == Observed(st, cat, warning)
         IN  /\ new \in ProviderStates
             /\ new.observed
             /\ new.rows = cat
<1>1. ASSUME NEW o \in BOOLEAN
      PROVE  [st EXCEPT !.rows = cat, !.observed = o, !.observerWarning = warning]
               \in ProviderStates
  BY DEF ProviderStates
<1>2. Observed(st, cat, warning) \in ProviderStates
  BY <1>1 DEF Observed
<1> QED
  BY <1>2 DEF Observed, ProviderStates

\* Its failure leaves a warning and the rest.
LEMMA ObserverFailedFields ==
  ASSUME NEW st \in ProviderStates
  PROVE  LET new == ObserverFailed(st)
         IN  /\ new \in ProviderStates
             /\ new.observed <=> st.observed
             /\ new.observerWarning
             /\ new.rows = st.rows
<1>1. ASSUME NEW w \in BOOLEAN
      PROVE  [st EXCEPT !.observerWarning = w] \in ProviderStates
  BY DEF ProviderStates
<1>2. ObserverFailed(st) \in ProviderStates
  BY <1>1 DEF ObserverFailed
<1> QED
  BY <1>2 DEF ObserverFailed, ProviderStates

\* A catalog's parts, and a call's.
LEMMA CatalogFields ==
  ASSUME NEW cat \in Catalogs
  PROVE  /\ cat.version \in Nat /\ cat.version <= MaxChanges + 1
         /\ cat.name \in Nat /\ cat.name <= MaxChanges
         /\ cat = [version |-> cat.version, name |-> cat.name]
BY StoreAssumption DEF Catalogs

LEMMA BegunList ==
  ASSUME NEW g \in 1 .. MaxReloads, NEW r \in 0 .. MaxTransientRefreshes,
         NEW p \in Providers, NEW s \in Scopes
  PROVE  LET c == BeginList(g, r, p, s)
         IN  /\ c \in ListCalls
             /\ c.gen = g /\ c.round = r /\ c.provider = p /\ c.scope = s
             /\ c.phase = "listing"
<1>1. NothingListed \in Catalogs
  BY StoreAssumption DEF NothingListed, Catalogs
<1> QED
  BY <1>1 DEF BeginList, ListCalls

\* What a List that has returned looks like.
ReturnedAs(c, failed) ==
  [c EXCEPT !.phase = "listed", !.failed = failed,
            !.rows = IF failed THEN @ ELSE native[c.provider]]

LEMMA ReturnedList ==
  ASSUME TypeOK, NEW c \in calls, NEW failed \in BOOLEAN
  PROVE  LET d == ReturnedAs(c, failed)
         IN  /\ d \in ListCalls
             /\ d.gen = c.gen /\ d.round = c.round /\ d.provider = c.provider
             /\ d.scope = c.scope /\ d.phase = "listed" /\ (d.failed <=> failed)
             /\ ~failed => d.rows = native[c.provider]
<1> DEFINE new == IF failed THEN c.rows ELSE native[c.provider]
<1>1. c \in ListCalls
  BY DEF TypeOK
<1>2. new \in Catalogs
  BY <1>1 DEF TypeOK, ListCalls
<1>3. ReturnedAs(c, failed) =
        [c EXCEPT !.phase = "listed", !.failed = failed, !.rows = new]
  BY DEF ReturnedAs
<1> HIDE DEF new
<1>4. ReturnedAs(c, failed) \in ListCalls
  BY <1>1, <1>2, <1>3 DEF ListCalls
<1>5. /\ ReturnedAs(c, failed).gen = c.gen
      /\ ReturnedAs(c, failed).round = c.round
      /\ ReturnedAs(c, failed).provider = c.provider
      /\ ReturnedAs(c, failed).scope = c.scope
      /\ ReturnedAs(c, failed).phase = "listed"
      /\ ReturnedAs(c, failed).rows = new
  BY <1>1, <1>3 DEF ListCalls
<1>6. ReturnedAs(c, failed).failed <=> failed
  BY <1>1, <1>3 DEF ListCalls
<1> QED
  BY <1>4, <1>5, <1>6 DEF new

LEMMA RecomputedFields ==
  ASSUME NEW snapshots \in [Providers -> ProviderStates]
  PROVE  /\ Recomputed(snapshots) \in [Providers -> Catalogs]
         /\ \A p \in Providers : Recomputed(snapshots)[p] = snapshots[p].rows
BY DEF Recomputed, ProviderStates

\* The event loop takes what c returned.
Taken(c) ==
  /\ calls' = calls \ {c}
  /\ store' = [store EXCEPT ![c.provider] = ListApplied(@, c)]
  /\ rows' = Recomputed(store')

LEMMA TakenFields ==
  ASSUME TypeOK, NEW c \in calls, Taken(c)
  PROVE  LET old == store[c.provider]
             new == store'[c.provider]
         IN  /\ c \in ListCalls
             /\ calls' \subseteq ListCalls
             /\ store' \in [Providers -> ProviderStates]
             /\ rows' \in [Providers -> Catalogs]
             /\ \A p \in Providers : rows'[p] = store'[p].rows
             /\ \A p \in Providers : p # c.provider => store'[p] = store[p]
             /\ new.observed <=> old.observed
             /\ new.observerWarning <=> old.observerWarning
             /\ new.listWarning <=> c.failed
             /\ new.rows = IF c.failed \/ old.observed THEN old.rows ELSE c.rows
<1>1. c \in ListCalls /\ calls' \subseteq ListCalls
  BY DEF TypeOK, Taken
<1>2. c.provider \in Providers /\ store[c.provider] \in ProviderStates
  BY <1>1 DEF TypeOK, ListCalls
<1>3. ListApplied(store[c.provider], c) \in ProviderStates
  BY <1>1, <1>2, ListAppliedFields
<1>4. /\ store' \in [Providers -> ProviderStates]
      /\ store'[c.provider] = ListApplied(store[c.provider], c)
      /\ \A p \in Providers : p # c.provider => store'[p] = store[p]
  BY <1>2, <1>3 DEF Taken, TypeOK
<1>5. /\ rows' \in [Providers -> Catalogs]
      /\ \A p \in Providers : rows'[p] = store'[p].rows
  BY <1>4, RecomputedFields DEF Taken
<1> QED
  BY <1>1, <1>2, <1>4, <1>5, ListAppliedFields

\* One provider's sessions change.
LEMMA ChangeFields ==
  ASSUME TypeOK, Counted, NEW p \in Providers, Change(p)
  PROVE  /\ native' \in [Providers -> Catalogs]
         /\ changes' \in 0 .. MaxChanges
         /\ \A q \in Providers : /\ native'[q].version \in native[q].version .. changes' + 1
                                 /\ native'[q].name <= changes'
<1>1. /\ native[p] \in Catalogs /\ native[p].version <= changes + 1
      /\ changes \in Nat /\ changes < MaxChanges /\ changes' = changes + 1
  BY DEF TypeOK, Counted, Change
<1> DEFINE new == [native[p] EXCEPT !.version = @ + 1]
<1>2. /\ native[p].version \in Nat /\ native[p].name \in Nat
      /\ native[p].name <= MaxChanges
      /\ native[p] = [version |-> native[p].version, name |-> native[p].name]
  BY <1>1, CatalogFields
<1>3. new = [version |-> native[p].version + 1, name |-> native[p].name]
  BY <1>2
<1>4. new \in Catalogs
  BY <1>1, <1>2, <1>3, StoreAssumption DEF Catalogs
<1>5. native' = [native EXCEPT ![p] = new]
  BY DEF Change
<1>6. new.version = native[p].version + 1 /\ new.name = native[p].name
  BY <1>3
<1> HIDE DEF new
<1>7. native' \in [Providers -> Catalogs]
  BY <1>4, <1>5 DEF TypeOK
<1>8. \A q \in Providers : native'[q] = IF q = p THEN new ELSE native[q]
  BY <1>5 DEF TypeOK
<1>9. \A q \in Providers : /\ native[q].version \in Nat /\ native[q].name \in Nat
                           /\ native[q].version <= changes + 1
                           /\ native[q].name <= changes
  BY CatalogFields DEF TypeOK, Counted
<1> QED
  BY <1>1, <1>6, <1>7, <1>8, <1>9, StoreAssumption

\* A rename changes one provider's names, here and there.
LEMMA RenameFields ==
  ASSUME TypeOK, Counted, NEW p \in Providers, Rename(p)
  PROVE  /\ native' \in [Providers -> Catalogs]
         /\ rows' \in [Providers -> Catalogs]
         /\ changes' \in 0 .. MaxChanges
         /\ \A q \in Providers : /\ native'[q].version = native[q].version
                                 /\ native'[q].name <= changes'
                                 /\ native'[q].version <= changes' + 1
                                 /\ rows'[q].version = rows[q].version
<1>1. /\ native[p] \in Catalogs /\ rows[p] \in Catalogs /\ native[p].name <= changes
      /\ changes \in Nat /\ changes < MaxChanges /\ changes' = changes + 1
  BY DEF TypeOK, Counted, Rename
<1> DEFINE named(cat, n) == [cat EXCEPT !.name = n]
<1>2. ASSUME NEW cat \in Catalogs, NEW n \in 0 .. MaxChanges
      PROVE  /\ named(cat, n) \in Catalogs
             /\ named(cat, n).version = cat.version
             /\ named(cat, n).name = n
  BY <1>1 DEF Catalogs
<1>3. native[p].name + 1 \in 0 .. MaxChanges
  BY <1>1, CatalogFields, StoreAssumption
<1>4. native' = [native EXCEPT ![p] = named(native[p], native[p].name + 1)]
  BY DEF Rename
<1>5. rows' = [rows EXCEPT ![p] = named(rows[p], native'[p].name)]
  BY DEF Rename
<1> HIDE DEF named
<1>6. /\ native' \in [Providers -> Catalogs]
      /\ \A q \in Providers : q # p => native'[q] = native[q]
      /\ native'[p].version = native[p].version
      /\ native'[p].name = native[p].name + 1
  BY <1>1, <1>2, <1>3, <1>4 DEF TypeOK
<1>7. /\ rows' \in [Providers -> Catalogs]
      /\ \A q \in Providers : q # p => rows'[q] = rows[q]
      /\ rows'[p].version = rows[p].version
  BY <1>1, <1>2, <1>3, <1>5, <1>6 DEF TypeOK
<1>8. \A q \in Providers : /\ native[q].version \in Nat /\ native[q].name \in Nat
                           /\ native[q].version <= changes + 1
                           /\ native[q].name <= changes
  BY CatalogFields DEF TypeOK, Counted
<1> QED
  BY <1>1, <1>6, <1>7, <1>8, StoreAssumption

-----------------------------------------------------------------------------
(***************************************************************************)
(* Each action keeps the invariant.                                        *)
(***************************************************************************)

\* The versions compared below are numbers.
LEMMA Numbers ==
  ASSUME TypeOK
  PROVE  /\ \A p \in Providers :
              /\ native[p].version \in Nat /\ rows[p].version \in Nat
              /\ asked[p] \in Nat /\ store[p].rows.version \in Nat
              /\ store[p].rows \in Catalogs /\ store[p] \in ProviderStates
         /\ \A c \in calls :
              /\ c.gen \in 1 .. MaxReloads /\ c.round \in Nat
              /\ c.provider \in Providers
              /\ c.rows \in Catalogs /\ c.rows.version \in Nat
<1>1. \A p \in Providers : store[p] \in ProviderStates /\ store[p].rows \in Catalogs
  BY DEF TypeOK, ProviderStates
<1>2. \A c \in calls : /\ c.gen \in 1 .. MaxReloads /\ c.round \in Nat
                       /\ c.provider \in Providers /\ c.rows \in Catalogs
  BY StoreAssumption DEF TypeOK, ListCalls
<1> QED
  BY <1>1, <1>2, CatalogFields DEF TypeOK

LEMMA VersionsAre ==
  ASSUME native \in [Providers -> Catalogs]
  PROVE  /\ Versions \in [Providers -> 0 .. MaxChanges + 1]
         /\ \A p \in Providers : Versions[p] = native[p].version
BY DEF Versions, Catalogs

LEMMA InitIInv == Init => IInv
<1> SUFFICES ASSUME Init PROVE IInv
  OBVIOUS
<1> USE StoreAssumption DEF Init
<1>1. NothingListed \in Catalogs /\ NothingListed.version = 0
  BY DEF NothingListed, Catalogs
<1>2. [version |-> 1, name |-> 0] \in Catalogs
  BY DEF Catalogs
<1>3. \A p \in Providers :
        LET c == BeginList(1, 0, p, "same")
        IN  /\ c \in ListCalls /\ c.gen = 1 /\ c.round = 0 /\ c.provider = p
            /\ c.scope = "same" /\ c.phase = "listing"
  BY BegunList DEF Scopes
<1>4. \A p \in Providers :
        store[p] \in ProviderStates /\ ~store[p].observed /\ store[p].rows = NothingListed
  <2>1. ASSUME NEW b \in BOOLEAN
        PROVE  [rows |-> NothingListed, observed |-> b,
                listWarning |-> b, observerWarning |-> b] \in ProviderStates
    BY <1>1 DEF ProviderStates
  <2>2. [rows |-> NothingListed, observed |-> FALSE,
         listWarning |-> FALSE, observerWarning |-> FALSE] \in ProviderStates
    BY <2>1
  <2> QED
    BY <2>2
<1>5. TypeOK
  <2>1. calls \subseteq ListCalls
    BY <1>3
  <2>2. store \in [Providers -> ProviderStates]
    BY <1>4
  <2>3. native \in [Providers -> Catalogs] /\ rows \in [Providers -> Catalogs]
    BY <1>1, <1>2
  <2>4. catalogLoading \in BOOLEAN /\ tick \in BOOLEAN
    OBVIOUS
  <2>5. asked \in [Providers -> 0 .. MaxChanges + 1] /\ inFlight \in [Providers -> 0 .. MaxReloads]
    BY <2>3, VersionsAre
  <2>6. /\ scope \in Scopes /\ currentScope \in Scopes /\ changes \in 0 .. MaxChanges
        /\ catalogGen \in 1 .. MaxReloads /\ attempts \in 0 .. MaxTransientRefreshes
    BY DEF Scopes
  <2> HIDE DEF Init
  <2> QED
    BY <2>1, <2>2, <2>3, <2>4, <2>5, <2>6 DEF TypeOK
<1>6. Counted
  BY DEF Counted
<1>7. \A p \in Providers : Expected(p) /\ ~Targeted(p)
  BY <1>3 DEF Expected, Targeted, Current
<1>8. Rounds
  BY <1>3, <1>7 DEF Rounds
<1>9. OneListAtATime
  BY <1>3 DEF OneListAtATime
<1>10. Displayed
  <2>1. \A p \in Providers : asked[p] = native[p].version
    BY <1>5, VersionsAre DEF TypeOK
  <2> QED
    BY <1>1, <1>4, <2>1 DEF Displayed
<1>11. Answers
  BY <1>3 DEF Answers
<1>12. FreshOnArrival
  BY <1>7 DEF FreshOnArrival
<1>13. ScopeArrives
  BY <1>3 DEF ScopeArrives, ScopeFollows
<1>14. TransientArmed
  BY DEF TransientArmed
<1> QED
  BY <1>5, <1>6, <1>8, <1>9, <1>10, <1>11, <1>12, <1>13, <1>14 DEF IInv

LEMMA ChangeKeeps ==
  ASSUME IInv, NEW p \in Providers, Change(p)
  PROVE  IInv'
<1> USE DEF IInv
<1>1. /\ native' \in [Providers -> Catalogs] /\ changes' \in 0 .. MaxChanges
      /\ \A q \in Providers : /\ native'[q].version \in native[q].version .. changes' + 1
                              /\ native'[q].name <= changes'
  BY ChangeFields
<1>2. UNCHANGED <<calls, catalogGen, catalogLoading, scope, currentScope,
                  store, rows, tick, attempts, inFlight, asked>>
  BY DEF Change, transient
<1>3. \A q \in Providers : /\ native'[q].version \in Nat
                           /\ native[q].version <= native'[q].version
                           /\ native'[q].version <= changes' + 1
  BY <1>1, Numbers, StoreAssumption
<1>4. TypeOK'
  BY <1>1, <1>2 DEF TypeOK
<1>5. Counted'
  BY <1>1, <1>2, <1>3 DEF Counted
<1>6. Rounds' /\ OneListAtATime' /\ FreshOnArrival' /\ ScopeArrives' /\ TransientArmed'
  BY <1>2 DEF Rounds, Expected, Targeted, Current, OneListAtATime, FreshOnArrival,
              Warned, ScopeArrives, ScopeFollows, TransientArmed
<1>7. Displayed'
  BY <1>2, <1>3, Numbers DEF Displayed
<1>8. Answers'
  BY <1>2, <1>3, Numbers DEF Answers, Current
<1> QED
  BY <1>4, <1>5, <1>6, <1>7, <1>8

LEMMA RenameKeeps ==
  ASSUME IInv, NEW p \in Providers, Rename(p)
  PROVE  IInv'
<1> USE DEF IInv
<1>1. /\ native' \in [Providers -> Catalogs] /\ rows' \in [Providers -> Catalogs]
      /\ changes' \in 0 .. MaxChanges
      /\ \A q \in Providers : /\ native'[q].version = native[q].version
                              /\ native'[q].name <= changes'
                              /\ native'[q].version <= changes' + 1
                              /\ rows'[q].version = rows[q].version
  BY RenameFields
<1>2. UNCHANGED <<calls, catalogGen, catalogLoading, scope, currentScope,
                  store, tick, attempts, inFlight, asked>>
  BY DEF Rename, transient
<1>3. TypeOK'
  BY <1>1, <1>2 DEF TypeOK
<1>4. Counted'
  BY <1>1, <1>2 DEF Counted
<1>5. Rounds' /\ OneListAtATime' /\ ScopeArrives'
  BY <1>2 DEF Rounds, Expected, Targeted, Current, OneListAtATime,
              ScopeArrives, ScopeFollows
<1>6. Displayed'
  BY <1>1, <1>2 DEF Displayed
<1>7. Answers'
  BY <1>1, <1>2, Numbers DEF Answers, Current
<1>8. FreshOnArrival'
  BY <1>1, <1>2 DEF FreshOnArrival, Expected, Current, Warned
<1>9. TransientArmed'
  BY <1>1, <1>2 DEF TransientArmed, Starting, Current
<1> QED
  BY <1>3, <1>4, <1>5, <1>6, <1>7, <1>8, <1>9

LEMMA ReloadKeeps ==
  ASSUME IInv, NEW s \in Scopes, Reload(s)
  PROVE  IInv'
<1> USE DEF IInv
<1>1. /\ catalogGen \in 1 .. MaxReloads /\ catalogGen < MaxReloads
      /\ catalogGen' = catalogGen + 1 /\ catalogGen' \in 1 .. MaxReloads
  BY StoreAssumption DEF TypeOK, Reload
<1> DEFINE begun(p) == BeginList(catalogGen + 1, 0, p, s)
<1>2. \A p \in Providers :
        /\ begun(p) \in ListCalls /\ begun(p).gen = catalogGen' /\ begun(p).round = 0
        /\ begun(p).provider = p /\ begun(p).scope = s /\ begun(p).phase = "listing"
  BY <1>1, BegunList, StoreAssumption
<1>3. calls' = calls \cup {begun(p) : p \in Providers}
  BY DEF Reload
<1> HIDE DEF begun
<1>4. \A c \in calls : c.gen # catalogGen' /\ c.gen <= catalogGen'
  BY <1>1, Numbers, StoreAssumption DEF Rounds
<1>5. /\ UNCHANGED <<native, changes, currentScope, store, rows>>
      /\ scope' = s /\ tick' = FALSE /\ attempts' = 0 /\ catalogLoading' = TRUE
      /\ asked' = Versions /\ inFlight' = [p \in Providers |-> 0]
  BY DEF Reload, Superseded
<1>6. \A c \in calls' : Current(c)' => \E p \in Providers : c = begun(p)
  BY <1>3, <1>4 DEF Current
<1>7. \A p \in Providers : Expected(p)' /\ ~Targeted(p)'
  BY <1>2, <1>3, <1>6 DEF Expected, Targeted, Current
<1>8. TypeOK'
  <2>1. calls' \subseteq ListCalls
    BY <1>2, <1>3 DEF TypeOK
  <2>2. /\ attempts' \in 0 .. MaxTransientRefreshes
        /\ inFlight' \in [Providers -> 0 .. MaxReloads]
    BY <1>5, StoreAssumption
  <2>3. catalogLoading' \in BOOLEAN /\ tick' \in BOOLEAN
    BY <1>5
  <2> QED
    BY <1>1, <1>5, <2>1, <2>2, <2>3, VersionsAre DEF TypeOK
<1>9. Counted'
  BY <1>5 DEF Counted
<1>10. Rounds'
  <2>1. \A c \in calls' : c.gen <= catalogGen'
    BY <1>1, <1>2, <1>3, <1>4, StoreAssumption
  <2> QED
    BY <1>5, <1>7, <2>1, StoreAssumption DEF Rounds
<1>11. OneListAtATime'
  BY <1>2, <1>6 DEF OneListAtATime
<1>12. Displayed'
  BY <1>5, Numbers, VersionsAre DEF Displayed, TypeOK
<1>13. Answers'
  BY <1>2, <1>6 DEF Answers
<1>14. FreshOnArrival'
  BY <1>7 DEF FreshOnArrival
<1>15. ScopeArrives'
  BY <1>2, <1>5, <1>6 DEF ScopeArrives, ScopeFollows
<1>16. TransientArmed'
  BY <1>5 DEF TransientArmed
<1> QED
  BY <1>8, <1>9, <1>10, <1>11, <1>12, <1>13, <1>14, <1>15, <1>16

LEMMA ListReturnsKeeps ==
  ASSUME IInv, NEW c \in calls, ListReturns(c)
  PROVE  IInv'
<1> USE DEF IInv
<1>1. PICK failed \in BOOLEAN : calls' = (calls \ {c}) \cup {ReturnedAs(c, failed)}
  BY DEF ListReturns, ReturnedAs
<1>2. UNCHANGED <<native, changes, catalogGen, catalogLoading, scope, currentScope,
                  store, rows, tick, attempts, inFlight, asked>>
  BY DEF ListReturns, transient
<1> DEFINE d == ReturnedAs(c, failed)
<1>3. /\ d \in ListCalls
      /\ d.gen = c.gen /\ d.round = c.round /\ d.provider = c.provider
      /\ d.scope = c.scope /\ d.phase = "listed" /\ (d.failed <=> failed)
      /\ ~failed => d.rows = native[c.provider]
  BY ReturnedList
<1> HIDE DEF d
<1>4. calls' = (calls \ {c}) \cup {d}
  BY <1>1 DEF d
<1>5. \A p \in Providers : /\ Expected(p)' <=> Expected(p)
                           /\ Targeted(p)' <=> Targeted(p)
  BY <1>2, <1>3, <1>4 DEF Expected, Targeted, Current
<1>6. TypeOK'
  BY <1>2, <1>3, <1>4 DEF TypeOK
<1>7. Counted' /\ Displayed'
  BY <1>2 DEF Counted, Displayed
<1>8. Rounds'
  BY <1>2, <1>3, <1>4, <1>5 DEF Rounds
<1>9. OneListAtATime'
  BY <1>2, <1>3, <1>4 DEF OneListAtATime, Current
<1>10. Answers'
  <2>1. SUFFICES ASSUME NEW e \in calls', Current(e)', e.phase = "listed", ~e.failed
                 PROVE  /\ asked'[e.provider] <= e.rows.version
                        /\ e.rows.version <= native'[e.provider].version
                        /\ e.provider \notin Observers =>
                             rows'[e.provider].version <= e.rows.version
    BY DEF Answers
  <2>2. CASE e \in calls
    BY <1>2, <2>1, <2>2 DEF Answers, Current
  <2>3. CASE e = d
    BY <1>2, <1>3, <2>1, <2>3, Numbers DEF Displayed
  <2> QED
    BY <1>4, <2>2, <2>3
<1>11. FreshOnArrival'
  BY <1>2, <1>5 DEF FreshOnArrival, Warned
<1>12. ScopeArrives'
  BY <1>2, <1>3, <1>4 DEF ScopeArrives, ScopeFollows, Current
<1>13. TransientArmed'
  BY <1>2, <1>5 DEF TransientArmed, Targeted
<1> QED
  BY <1>6, <1>7, <1>8, <1>9, <1>10, <1>11, <1>12, <1>13

LEMMA DropStaleKeeps ==
  ASSUME IInv, NEW c \in calls, DropStale(c)
  PROVE  IInv'
<1> USE DEF IInv
<1>1. /\ calls' = calls \ {c} /\ ~Current(c)
      /\ UNCHANGED <<native, changes, catalogGen, catalogLoading, scope, currentScope,
                     store, rows, tick, attempts, inFlight, asked>>
  BY DEF DropStale, transient
<1>2. \A p \in Providers : /\ Expected(p)' <=> Expected(p)
                           /\ Targeted(p)' <=> Targeted(p)
  BY <1>1 DEF Expected, Targeted, Current
<1>3. TypeOK'
  BY <1>1 DEF TypeOK
<1>4. Counted' /\ Displayed'
  BY <1>1 DEF Counted, Displayed
<1>5. Rounds'
  BY <1>1, <1>2 DEF Rounds
<1>6. OneListAtATime' /\ Answers'
  BY <1>1 DEF OneListAtATime, Answers, Current
<1>7. FreshOnArrival'
  BY <1>1, <1>2 DEF FreshOnArrival, Warned
<1>8. ScopeArrives'
  BY <1>1 DEF ScopeArrives, ScopeFollows, Current
<1>9. TransientArmed'
  BY <1>1, <1>2 DEF TransientArmed, Targeted
<1> QED
  BY <1>3, <1>4, <1>5, <1>6, <1>7, <1>8, <1>9

\* After schedule() no Starting session is forgotten.
LEMMA Rearmed ==
  ASSUME TypeOK', Rounds', tick' = Scheduled(store', inFlight', catalogLoading'),
         attempts' = attempts, \A p \in Providers : rows'[p] = store'[p].rows
  PROVE  TransientArmed'
<1> SUFFICES ASSUME NEW p \in Providers, Starting(p, rows'[p]),
                    ~tick', ~catalogLoading', ~Targeted(p)'
             PROVE  attempts' = MaxTransientRefreshes
  BY DEF TransientArmed, Targeted
<1>1. inFlight'[p] = 0
  BY DEF Rounds
<1>2. p \in Due(store', inFlight')
  BY <1>1 DEF Due
<1>3. ~(attempts < MaxTransientRefreshes)
  BY <1>2 DEF Scheduled
<1> QED
  BY <1>3, StoreAssumption DEF TypeOK

\* What both kinds of results do: the provider's List is no longer
\* outstanding, and its rows, if replaced, are replaced by newer ones.
LEMMA TakenKeeps ==
  ASSUME IInv, NEW c \in calls, c.phase = "listed", Current(c), Taken(c),
         UNCHANGED <<native, catalogGen, asked>>
  PROVE  /\ \A p \in Providers : p # c.provider => /\ Expected(p)' <=> Expected(p)
                                                   /\ Targeted(p)' <=> Targeted(p)
         /\ ~Expected(c.provider)' /\ ~Targeted(c.provider)'
         /\ OneListAtATime'
         /\ Displayed'
         /\ Answers'
         /\ FreshOnArrival'
<1> USE DEF IInv
<1> DEFINE q == c.provider
<1>1. /\ q \in Providers /\ calls' = calls \ {c}
      /\ \A d \in calls' : d \in calls /\ (Current(d)' <=> Current(d))
  BY Numbers DEF Taken, Current
<1>2. \A d \in calls' : Current(d) => d.provider # q
  BY <1>1 DEF OneListAtATime
<1>3. /\ \A p \in Providers : rows'[p] = store'[p].rows
      /\ \A p \in Providers : p # q => store'[p] = store[p]
      /\ store'[q].observed <=> store[q].observed
      /\ store'[q].listWarning <=> c.failed
      /\ store'[q].rows = IF c.failed \/ store[q].observed THEN store[q].rows ELSE c.rows
  BY TakenFields
<1>4. \A p \in Providers : p # q => /\ Expected(p)' <=> Expected(p)
                                    /\ Targeted(p)' <=> Targeted(p)
  BY <1>1 DEF Expected, Targeted, Current
<1>5. ~Expected(q)' /\ ~Targeted(q)'
  BY <1>1, <1>2 DEF Expected, Targeted
<1> HIDE DEF q
<1>6. OneListAtATime'
  BY <1>1 DEF OneListAtATime
<1>7. \A p \in Providers : p # q => rows'[p].version = rows[p].version
  BY <1>3 DEF Displayed
<1>8. /\ rows'[q].version <= native[q].version
      /\ ~c.failed => store'[q].observed \/ asked[q] <= rows'[q].version
  <2>1. ~c.failed => /\ asked[q] <= c.rows.version
                     /\ c.rows.version <= native[q].version
    BY DEF Answers, q
  <2> QED
    BY <1>1, <1>3, <2>1 DEF Displayed
<1>9. Displayed'
  <2>1. \A p \in Providers : store'[p].observed => p \in Observers
    BY <1>3 DEF Displayed
  <2> QED
    BY <1>3, <1>7, <1>8, <2>1 DEF Displayed
<1>10. Answers'
  BY <1>1, <1>2, <1>7, Numbers DEF Answers
<1>11. FreshOnArrival'
  <2>1. SUFFICES ASSUME NEW p \in Providers, ~Expected(p)', ~store'[p].observed,
                        ~Warned(p)'
                 PROVE  rows'[p].version >= asked[p]
    BY DEF FreshOnArrival
  <2>2. CASE p = q
    BY <1>3, <1>8, <1>9, <2>1, <2>2, Numbers DEF Warned, Displayed
  <2>3. CASE p # q
    BY <1>3, <1>4, <1>7, <2>1, <2>3 DEF FreshOnArrival, Warned
  <2> QED
    BY <2>2, <2>3
<1> QED
  BY <1>4, <1>5, <1>6, <1>9, <1>10, <1>11 DEF q

LEMMA ApplyArrivalKeeps ==
  ASSUME IInv, NEW c \in calls, ApplyArrival(c)
  PROVE  IInv'
<1> USE DEF IInv
<1>1. /\ c.phase = "listed" /\ c.round = 0 /\ Current(c) /\ Taken(c)
      /\ UNCHANGED <<native, changes, catalogGen, scope, attempts, inFlight, asked>>
      /\ currentScope' = c.scope
  BY DEF ApplyArrival, Taken
<1>2. catalogLoading' <=> catalogLoading /\ ~Last(c)
  BY DEF ApplyArrival
<1>3. /\ tick' = Scheduled(store', inFlight', catalogLoading')
      /\ catalogLoading' \in BOOLEAN
  BY <1>1 DEF ApplyArrival
<1>4. c.provider \in Providers /\ c.scope = scope
  BY <1>1, Numbers DEF ScopeArrives
<1>5. catalogLoading /\ ~tick /\ \A p \in Providers : inFlight[p] = 0
  BY <1>1, <1>4 DEF Rounds, Expected
<1>6. catalogGen # 0
  BY StoreAssumption DEF TypeOK
<1>7. /\ \A p \in Providers : p # c.provider => /\ Expected(p)' <=> Expected(p)
                                                /\ Targeted(p)' <=> Targeted(p)
      /\ ~Expected(c.provider)' /\ ~Targeted(c.provider)'
      /\ OneListAtATime' /\ Displayed' /\ Answers' /\ FreshOnArrival'
  BY <1>1, TakenKeeps
<1>8. catalogLoading' <=> \E p \in Providers : Expected(p)'
  <2>1. ~Last(c) <=> \E d \in calls : d # c /\ d.gen = c.gen /\ d.round = 0
    BY <1>1 DEF Last
  <2>2. \A d \in calls : d.gen = c.gen <=> Current(d)'
    BY <1>1 DEF Current
  <2>3. calls' = calls \ {c} /\ \A d \in calls : d.provider \in Providers
    BY <1>1, Numbers DEF Taken
  <2> QED
    BY <1>2, <1>5, <2>1, <2>2, <2>3 DEF Expected
<1>9. tick' => attempts < MaxTransientRefreshes /\ ~catalogLoading'
  BY <1>3, <1>5 DEF Scheduled
<1>10. TypeOK'
  <2>1. /\ calls' \subseteq ListCalls
        /\ store' \in [Providers -> ProviderStates]
        /\ rows' \in [Providers -> Catalogs]
    BY <1>1, TakenFields
  <2>2. tick' \in BOOLEAN
    BY <1>3 DEF Scheduled, TypeOK
  <2>3. currentScope' \in Scopes
    BY <1>1, <1>4 DEF TypeOK
  <2> QED
    BY <1>1, <1>3, <2>1, <2>2, <2>3 DEF TypeOK
<1>11. Counted'
  BY <1>1, <1>9 DEF Counted
<1>12. Rounds'
  <2>1. \A d \in calls' : d.gen <= catalogGen'
    BY <1>1 DEF Rounds, Taken
  <2>2. \A p \in Providers : inFlight'[p] = 0 /\ ~Targeted(p)'
    BY <1>1, <1>5, <1>6, <1>7 DEF Rounds
  <2> QED
    BY <1>8, <1>9, <2>1, <2>2 DEF Rounds
<1>13. ScopeArrives'
  BY <1>1, <1>4 DEF ScopeArrives, ScopeFollows, Taken, Current
<1>14. TransientArmed'
  BY <1>1, <1>3, <1>10, <1>12, TakenFields, Rearmed
<1> QED
  BY <1>7, <1>10, <1>11, <1>12, <1>13, <1>14

LEMMA ApplyTargetedKeeps ==
  ASSUME IInv, NEW c \in calls, ApplyTargeted(c)
  PROVE  IInv'
<1> USE DEF IInv
<1>1. /\ c.phase = "listed" /\ c.round > 0 /\ Current(c) /\ Taken(c)
      /\ UNCHANGED <<native, changes, catalogGen, catalogLoading, scope, currentScope,
                     attempts, asked>>
      /\ inFlight' = Released(c)
  BY DEF ApplyTargeted, Taken
<1>2. tick' = Scheduled(store', inFlight', catalogLoading')
  BY <1>1 DEF ApplyTargeted
<1>3. c.provider \in Providers /\ catalogGen \in 1 .. MaxReloads /\ catalogGen # 0
  BY Numbers, StoreAssumption DEF TypeOK
<1>4. Targeted(c.provider) /\ inFlight[c.provider] = c.gen
  BY <1>1, <1>3 DEF Targeted, Rounds, Current
<1>5. ~catalogLoading
  BY <1>1, <1>3, <1>4 DEF Rounds
<1>6. \A p \in Providers : inFlight'[p] = IF p = c.provider THEN 0 ELSE inFlight[p]
  BY <1>1, <1>3, <1>4 DEF Released, TypeOK
<1>7. /\ \A p \in Providers : p # c.provider => /\ Expected(p)' <=> Expected(p)
                                                /\ Targeted(p)' <=> Targeted(p)
      /\ ~Expected(c.provider)' /\ ~Targeted(c.provider)'
      /\ OneListAtATime' /\ Displayed' /\ Answers' /\ FreshOnArrival'
  BY <1>1, TakenKeeps
<1>8. TypeOK'
  <2>1. /\ calls' \subseteq ListCalls
        /\ store' \in [Providers -> ProviderStates]
        /\ rows' \in [Providers -> Catalogs]
    BY <1>1, TakenFields
  <2>2. tick' \in BOOLEAN
    BY <1>2 DEF Scheduled, TypeOK
  <2>3. inFlight' \in [Providers -> 0 .. MaxReloads]
    <3>1. inFlight' = [inFlight EXCEPT ![c.provider] = 0]
      BY <1>1, <1>4 DEF Released
    <3>2. 0 \in 0 .. MaxReloads /\ inFlight \in [Providers -> 0 .. MaxReloads]
      BY StoreAssumption DEF TypeOK
    <3> HIDE DEF IInv
    <3> QED
      BY <3>1, <3>2
  <2> QED
    BY <1>1, <2>1, <2>2, <2>3 DEF TypeOK
<1>9. Counted'
  BY <1>1, <1>2 DEF Counted, Scheduled
<1>10. Rounds'
  <2>1. \A d \in calls' : d.gen <= catalogGen'
    BY <1>1 DEF Rounds, Taken
  <2>2. \A p \in Providers : ~Expected(p)'
    BY <1>5, <1>7 DEF Rounds
  <2>3. \A p \in Providers : inFlight'[p] = IF Targeted(p)' THEN catalogGen' ELSE 0
    BY <1>1, <1>6, <1>7 DEF Rounds
  <2> QED
    BY <1>1, <1>5, <2>1, <2>2, <2>3 DEF Rounds
<1>11. ScopeArrives'
  BY <1>1 DEF ScopeArrives, ScopeFollows, Taken, Current
<1>12. TransientArmed'
  BY <1>1, <1>2, <1>8, <1>10, TakenFields, Rearmed
<1> QED
  BY <1>7, <1>8, <1>9, <1>10, <1>11, <1>12

LEMMA BeginRoundKeeps ==
  ASSUME IInv, BeginRound
  PROVE  IInv'
<1> USE DEF IInv
<1> DEFINE targets == Due(store, inFlight)
           begun(p) == BeginList(catalogGen, attempts + 1, p, currentScope)
<1>1. tick /\ ~catalogLoading /\ attempts < MaxTransientRefreshes
  BY DEF BeginRound, Rounds, Counted
<1>2. /\ ~tick'
      /\ attempts' = IF targets = {} THEN attempts ELSE attempts + 1
      /\ inFlight' = [p \in Providers |-> IF p \in targets THEN catalogGen ELSE inFlight[p]]
      /\ calls' = calls \cup {begun(p) : p \in targets}
      /\ UNCHANGED <<native, changes, catalogGen, catalogLoading, scope, currentScope,
                     store, rows, asked>>
  BY <1>1 DEF BeginRound
<1>3. /\ catalogGen \in 1 .. MaxReloads /\ catalogGen # 0
      /\ attempts + 1 \in 0 .. MaxTransientRefreshes /\ attempts + 1 > 0
  BY <1>1, StoreAssumption DEF TypeOK
<1>4. \A p \in targets :
        /\ p \in Providers /\ inFlight[p] = 0 /\ ~Targeted(p) /\ ~Expected(p)
  BY <1>1, <1>3 DEF Due, Rounds
<1>5. \A p \in targets :
        /\ begun(p) \in ListCalls /\ begun(p).gen = catalogGen
        /\ begun(p).round = attempts + 1 /\ begun(p).provider = p
        /\ begun(p).phase = "listing"
  BY <1>3, <1>4, BegunList DEF TypeOK
<1>6. \A p \in Providers : Starting(p, rows[p]) /\ inFlight[p] = 0 => p \in targets
  BY DEF Due, Starting, Displayed
<1> HIDE DEF targets, begun
<1>7. \A p \in Providers : /\ Expected(p)' <=> Expected(p)
                           /\ Targeted(p)' <=> (Targeted(p) \/ p \in targets)
  BY <1>2, <1>3, <1>4, <1>5 DEF Expected, Targeted, Current
<1>8. TypeOK'
  <2>1. calls' \subseteq ListCalls
    BY <1>2, <1>5 DEF TypeOK
  <2>2. attempts' \in 0 .. MaxTransientRefreshes
    BY <1>2, <1>3 DEF TypeOK
  <2>3. inFlight' \in [Providers -> 0 .. MaxReloads]
    BY <1>2, <1>3, StoreAssumption DEF TypeOK
  <2>4. tick' \in BOOLEAN
    BY DEF BeginRound
  <2> QED
    BY <1>2, <2>1, <2>2, <2>3, <2>4 DEF TypeOK
<1>9. Counted'
  BY <1>2 DEF Counted
<1>10. Rounds'
  <2>1. \A d \in calls' : d.gen <= catalogGen'
    BY <1>2, <1>3, <1>5, StoreAssumption DEF Rounds
  <2>2. \A p \in Providers : inFlight'[p] = IF Targeted(p)' THEN catalogGen' ELSE 0
    BY <1>2, <1>7 DEF Rounds
  <2> QED
    BY <1>1, <1>2, <1>7, <2>1, <2>2 DEF Rounds
<1>11. OneListAtATime'
  <2>1. SUFFICES ASSUME NEW a \in calls', NEW b \in calls', a.provider = b.provider,
                        Current(a)', Current(b)'
                 PROVE  a = b
    BY DEF OneListAtATime
  <2>2. CASE a \in calls /\ b \in calls
    BY <1>2, <2>1, <2>2 DEF OneListAtATime, Current
  <2>3. \A d \in calls : Current(d)' => d.provider \notin targets
    BY <1>2, <1>4, Numbers DEF Expected, Targeted, Current
  <2> QED
    BY <1>2, <1>5, <2>1, <2>2, <2>3
<1>12. Displayed'
  BY <1>2 DEF Displayed
<1>13. Answers'
  BY <1>2, <1>5 DEF Answers, Current
<1>14. FreshOnArrival'
  BY <1>2, <1>7 DEF FreshOnArrival, Warned
<1>15. ScopeArrives'
  BY <1>2, <1>3, <1>5 DEF ScopeArrives, ScopeFollows, Current
<1>16. TransientArmed'
  <2>1. SUFFICES ASSUME NEW p \in Providers, Starting(p, rows[p])
                 PROVE  Targeted(p)'
    BY <1>2 DEF TransientArmed, Targeted
  <2>2. inFlight[p] # 0 => Targeted(p)
    BY DEF Rounds
  <2> QED
    BY <1>6, <1>7, <2>1, <2>2
<1> QED
  BY <1>8, <1>9, <1>10, <1>11, <1>12, <1>13, <1>14, <1>15, <1>16

LEMMA ObserverFields ==
  ASSUME IInv, NEW p \in Observers, ApplyObserverUpdate(p)
  PROVE  /\ store' \in [Providers -> ProviderStates]
         /\ rows' \in [Providers -> Catalogs]
         /\ \A q \in Providers : rows'[q] = store'[q].rows
         /\ \A q \in Providers : q # p => store'[q] = store[q]
         /\ store'[p].observed \/ /\ ~store[p].observed
                                  /\ store'[p].observerWarning
                                  /\ store'[p].rows = store[p].rows
         /\ store'[p].rows.version \in Nat
         /\ store'[p].rows.version <= native[p].version
         /\ store[p].observed => store'[p].rows.version >= store[p].rows.version
<1> USE DEF IInv
<1>1. p \in Providers /\ store[p] \in ProviderStates /\ store \in [Providers -> ProviderStates]
  BY StoreAssumption DEF TypeOK
<1>2. /\ store[p].rows.version \in Nat /\ store[p].rows.version <= native[p].version
      /\ native[p].version \in Nat
  BY <1>1, Numbers DEF Displayed
<1>3. PICK new : /\ store' = [store EXCEPT ![p] = new]
                 /\ \/ \E cat \in Publishable(p), warning \in BOOLEAN :
                         new = Observed(store[p], cat, warning)
                    \/ new = ObserverFailed(store[p])
  BY DEF ApplyObserverUpdate
<1>4. /\ new \in ProviderStates
      /\ new.observed \/ /\ ~store[p].observed /\ new.observerWarning
                         /\ new.rows = store[p].rows
      /\ new.rows.version \in Nat /\ new.rows.version <= native[p].version
      /\ store[p].observed => new.rows.version >= store[p].rows.version
  <2>1. CASE \E cat \in Publishable(p), warning \in BOOLEAN :
               new = Observed(store[p], cat, warning)
    <3>1. PICK cat \in Publishable(p), warning \in BOOLEAN :
            new = Observed(store[p], cat, warning)
      BY <2>1
    <3>2. /\ cat \in Catalogs /\ cat.version \in 1 .. native[p].version
          /\ store[p].observed => cat.version >= store[p].rows.version
      BY DEF Publishable
    <3>3. new \in ProviderStates /\ new.observed /\ new.rows = cat
      BY <1>1, <3>1, <3>2, ObservedFields
    <3> QED
      BY <1>2, <3>2, <3>3
  <2>2. CASE new = ObserverFailed(store[p])
    <3>1. /\ new \in ProviderStates
          /\ new.observed <=> store[p].observed
          /\ new.observerWarning
          /\ new.rows = store[p].rows
      BY <1>1, <2>2, ObserverFailedFields
    <3> QED
      BY <1>2, <3>1
  <2> QED
    BY <1>3, <2>1, <2>2
<1>5. /\ store' \in [Providers -> ProviderStates] /\ store'[p] = new
      /\ \A q \in Providers : q # p => store'[q] = store[q]
  BY <1>1, <1>3, <1>4
<1>6. /\ rows' \in [Providers -> Catalogs]
      /\ \A q \in Providers : rows'[q] = store'[q].rows
  BY <1>5, RecomputedFields DEF ApplyObserverUpdate
<1> QED
  BY <1>4, <1>5, <1>6

LEMMA ApplyObserverUpdateKeeps ==
  ASSUME IInv, NEW p \in Observers, ApplyObserverUpdate(p)
  PROVE  IInv'
<1> USE DEF IInv
<1>1. /\ store' \in [Providers -> ProviderStates]
      /\ rows' \in [Providers -> Catalogs]
      /\ \A q \in Providers : rows'[q] = store'[q].rows
      /\ \A q \in Providers : q # p => store'[q] = store[q]
      /\ store'[p].observed \/ /\ ~store[p].observed
                               /\ store'[p].observerWarning
                               /\ store'[p].rows = store[p].rows
      /\ store'[p].rows.version <= native[p].version
  BY ObserverFields
<1>2. UNCHANGED <<native, changes, calls, catalogGen, catalogLoading, scope,
                  currentScope, attempts, inFlight, asked>>
  BY DEF ApplyObserverUpdate
<1>3. tick' = Scheduled(store', inFlight', catalogLoading')
  BY <1>2 DEF ApplyObserverUpdate
<1>4. p \in Providers
  BY StoreAssumption
<1>5. \A q \in Providers : q # p => rows'[q].version = rows[q].version
  BY <1>1 DEF Displayed
<1>6. TypeOK'
  <2>1. tick' \in BOOLEAN
    BY <1>3 DEF Scheduled, TypeOK
  <2> QED
    BY <1>1, <1>2, <2>1 DEF TypeOK
<1>7. Counted'
  BY <1>2, <1>3 DEF Counted, Scheduled
<1>8. \A q \in Providers : /\ Expected(q)' <=> Expected(q)
                           /\ Targeted(q)' <=> Targeted(q)
  BY <1>2 DEF Expected, Targeted, Current
<1>9. Rounds'
  BY <1>2, <1>3, <1>8 DEF Rounds, Scheduled
<1>10. OneListAtATime' /\ ScopeArrives'
  BY <1>2 DEF OneListAtATime, ScopeArrives, ScopeFollows, Current
<1>11. Displayed'
  <2>1. \A q \in Providers : store'[q].observed => q \in Observers
    BY <1>1 DEF Displayed
  <2> QED
    BY <1>1, <1>2, <1>5, <2>1 DEF Displayed
<1>12. Answers'
  BY <1>2, <1>5, Numbers DEF Answers, Current
<1>13. FreshOnArrival'
  <2>1. SUFFICES ASSUME NEW q \in Providers, ~Expected(q), ~store'[q].observed, ~Warned(q)'
                 PROVE  rows'[q].version >= asked[q]
    BY <1>2, <1>8 DEF FreshOnArrival
  <2>2. q # p
    BY <1>1, <2>1 DEF Warned
  <2> QED
    BY <1>1, <1>5, <2>1, <2>2 DEF FreshOnArrival, Warned
<1>14. TransientArmed'
  BY <1>1, <1>2, <1>3, <1>6, <1>9, Rearmed
<1> QED
  BY <1>6, <1>7, <1>9, <1>10, <1>11, <1>12, <1>13, <1>14

LEMMA NextKeeps == IInv /\ [Next]_vars => IInv'
<1> SUFFICES ASSUME IInv, [Next]_vars PROVE IInv'
  OBVIOUS
<1>1. ASSUME NEW p \in Providers, Change(p) PROVE IInv'
  BY <1>1, ChangeKeeps
<1>2. ASSUME NEW s \in {scope, NextScope(scope)}, Reload(s) PROVE IInv'
  <2>1. s \in Scopes
    BY DEF IInv, TypeOK, Scopes, NextScope
  <2> QED
    BY <1>2, <2>1, ReloadKeeps
<1>3. ASSUME NEW c \in calls, ListReturns(c) PROVE IInv'
  BY <1>3, ListReturnsKeeps
<1>4. ASSUME NEW c \in calls, ApplyArrival(c) PROVE IInv'
  BY <1>4, ApplyArrivalKeeps
<1>5. ASSUME NEW c \in calls, DropStale(c) PROVE IInv'
  BY <1>5, DropStaleKeeps
<1>6. ASSUME BeginRound PROVE IInv'
  BY <1>6, BeginRoundKeeps
<1>7. ASSUME NEW c \in calls, ApplyTargeted(c) PROVE IInv'
  BY <1>7, ApplyTargetedKeeps
<1>8. ASSUME NEW p \in Observers, ApplyObserverUpdate(p) PROVE IInv'
  BY <1>8, ApplyObserverUpdateKeeps
<1>9. ASSUME NEW p \in Renamers, Rename(p) PROVE IInv'
  BY <1>9, RenameKeeps, StoreAssumption
<1>10. ASSUME UNCHANGED vars PROVE IInv'
  <2>1. /\ TypeOK' /\ Counted' /\ Displayed'
    BY <1>10 DEF IInv, TypeOK, Counted, Displayed, vars, transient
  <2>2. \A p \in Providers : /\ Expected(p)' <=> Expected(p)
                             /\ Targeted(p)' <=> Targeted(p)
                             /\ Warned(p)' <=> Warned(p)
    BY <1>10 DEF Expected, Targeted, Warned, Current, vars
  <2>3. Rounds' /\ FreshOnArrival'
    BY <1>10, <2>2 DEF IInv, Rounds, FreshOnArrival, vars, transient
  <2>4. OneListAtATime' /\ Answers' /\ ScopeArrives' /\ TransientArmed'
    BY <1>10 DEF IInv, OneListAtATime, Answers, ScopeArrives, ScopeFollows,
                 TransientArmed, Current, vars, transient
  <2> QED
    BY <2>1, <2>3, <2>4 DEF IInv
<1> QED
  BY <1>1, <1>2, <1>3, <1>4, <1>5, <1>6, <1>7, <1>8, <1>9, <1>10 DEF Next

-----------------------------------------------------------------------------
(***************************************************************************)
(* The theorems.                                                           *)
(***************************************************************************)

\* The inductive invariant holds of every behaviour of the event loop.
THEOREM InvariantAlways == Spec => []IInv
BY InitIInv, NextKeeps, PTL DEF Spec

\* The retained catalogs, the Lists outstanding and the refresh counters
\* keep their types; in particular a round never exceeds the budget
\* (schedule's attempts < maxTransientRefreshes).
THEOREM TypeCorrect == Spec => []TypeOK
BY InvariantAlways, PTL DEF IInv

\* No two Lists of the newest generation run for one provider (supersede,
\* providers, and refresh's test of State.CatalogLoading).
THEOREM OneListAtATimeAlways == Spec => []OneListAtATime
BY InvariantAlways, PTL DEF IInv

\* A displayed Starting session is always followed up within the budget
\* (transientRefresh.schedule after every arrival).
THEOREM TransientArmedAlways == Spec => []TransientArmed
BY InvariantAlways, PTL DEF IInv

\* The rows of a finished cycle are filtered by the scope chosen last
\* (catalogEvent.scope).
THEOREM ScopeFollowsAlways == Spec => []ScopeFollows
BY InvariantAlways, PTL DEF IInv, ScopeArrives

\* A finished cycle has brought every provider's rows up to its request, or
\* says that it has not (eventLoop's generation test, applyLoadSnapshot).
THEOREM FreshOrWarnedAlways == Spec => []FreshOrWarned
<1>1. IInv => FreshOrWarned
  BY DEF IInv, Rounds, FreshOnArrival, FreshOrWarned
<1> QED
  BY <1>1, InvariantAlways, PTL

\* What NeverBack says of one step.
NoneBack ==
  \A p \in Providers :
    p \notin Observers \/ store[p].observed
      => rows'[p].version >= rows[p].version

\* A step that takes what a List returned takes no provider's rows back.
LEMMA TakenNeverBack ==
  ASSUME IInv, NEW c \in calls, Taken(c), Current(c), c.phase = "listed"
  PROVE  NoneBack
<1> SUFFICES ASSUME NEW p \in Providers, p \notin Observers \/ store[p].observed
             PROVE  rows'[p].version >= rows[p].version
  BY DEF NoneBack
<1>1. /\ rows[p].version \in Nat /\ c.rows.version \in Nat
      /\ rows[p].version = store[p].rows.version
      /\ rows'[p] = store'[p].rows
  BY Numbers, TakenFields DEF IInv, Displayed
<1>2. CASE p # c.provider
  BY <1>1, <1>2, TakenFields DEF IInv
<1>3. CASE p = c.provider /\ (c.failed \/ store[p].observed)
  BY <1>1, <1>3, TakenFields DEF IInv
<1>4. CASE p = c.provider /\ ~c.failed /\ ~store[p].observed
  <2>1. rows[p].version <= c.rows.version
    BY <1>4 DEF IInv, Answers
  <2>2. rows'[p] = c.rows
    BY <1>1, <1>4, TakenFields DEF IInv
  <2> QED
    BY <1>1, <2>1, <2>2
<1> QED
  BY <1>2, <1>3, <1>4

\* A provider's displayed sessions never go back, except when its Observer
\* takes them over (applyLoadSnapshot and applyObserverUpdate, in whatever
\* order Lists and publications arrive).
THEOREM NeverBackAlways == Spec => NeverBack
<1>1. IInv /\ [Next]_vars => [NoneBack]_vars
  <2> SUFFICES ASSUME IInv, [Next]_vars PROVE NoneBack \/ UNCHANGED vars
    OBVIOUS
  <2>1. \A p \in Providers : /\ rows[p].version \in Nat
                             /\ rows[p].version = store[p].rows.version
    BY Numbers DEF IInv, Displayed
  <2>2. rows' = rows => NoneBack
    BY <2>1 DEF NoneBack
  <2>3. ASSUME NEW c \in calls, ApplyArrival(c) \/ ApplyTargeted(c) PROVE NoneBack
    <3>1. Taken(c) /\ Current(c) /\ c.phase = "listed"
      BY <2>3 DEF ApplyArrival, ApplyTargeted, Taken
    <3> QED
      BY <3>1, TakenNeverBack
  <2>4. ASSUME NEW p \in Observers, ApplyObserverUpdate(p) PROVE NoneBack
    <3>1. /\ \A q \in Providers : rows'[q] = store'[q].rows
          /\ \A q \in Providers : q # p => store'[q] = store[q]
          /\ store[p].observed => store'[p].rows.version >= store[p].rows.version
      BY <2>4, ObserverFields
    <3> QED
      BY <2>1, <3>1 DEF NoneBack
  <2>5. ASSUME NEW p \in Renamers, Rename(p) PROVE NoneBack
    <3>1. \A q \in Providers : rows'[q].version = rows[q].version
      BY <2>5, RenameFields, StoreAssumption DEF IInv
    <3> QED
      BY <2>1, <3>1 DEF NoneBack
  <2>6. ASSUME NEW p \in Providers, Change(p) PROVE rows' = rows
    BY <2>6 DEF Change
  <2>7. ASSUME NEW s, Reload(s) PROVE rows' = rows
    BY <2>7 DEF Reload
  <2>8. ASSUME NEW c \in calls, ListReturns(c) \/ DropStale(c) PROVE rows' = rows
    BY <2>8 DEF ListReturns, DropStale
  <2>9. BeginRound => rows' = rows
    BY DEF BeginRound
  <2> QED
    BY <2>2, <2>3, <2>4, <2>5, <2>6, <2>7, <2>8, <2>9 DEF Next
<1> QED
  BY <1>1, InvariantAlways, PTL DEF Spec, NeverBack, NoneBack
=============================================================================
