------------------------- MODULE AgentViewSelection -------------------------
(***************************************************************************)
(* What Agent View's keys act on: the list of selectable items derived     *)
(* from the catalog and the groups' display state, the cursor on it, the   *)
(* selection a dispatch asked for, inline rename and the two-press Archive *)
(* confirmation (state.go, update.go, group.go, rename.go).                *)
(*                                                                         *)
(* All of it belongs to the event loop, and act() runs an operation to its *)
(* end before the loop looks at anything else: one action is one key with  *)
(* the operation it causes and its outcome, or one catalog installed by    *)
(* recomputeRows.  Which catalogs arrive is AgentViewStore's matter: here  *)
(* any may.                                                                *)
(*                                                                         *)
(* Sessions are numbered in the order they are created, so a larger number *)
(* is listed first.  The prompt is what the keys tell apart of it.  Keys   *)
(* that leave this state alone are left out: provider, scope and refresh   *)
(* keys, Open, and everything typed into the rename editor.  So is help,   *)
(* which takes one Esc and changes nothing else.                           *)
(***************************************************************************)
EXTENDS Integers, Sequences, FiniteSets, SequencesExt

CONSTANTS
  Directories,   \* the sessions' directories
  StartupCWD,    \* State.StartupCWD
  FirstDirs,     \* directories of the sessions there are when it starts
  MaxSessions,   \* bound on the sessions ever created
  MayPin,        \* sessions that may be found pinned
  MayRun,        \* sessions that may be found running: Ctrl+X stops them
  PageSize,      \* directoryPageSize
  Pinned,        \* groupID of the Pinned group
  NoSession      \* no rename target, request or confirmation

ASSUME SelectionAssumption ==
  /\ StartupCWD \in Directories
  /\ FirstDirs \in Seq(Directories)
  /\ MaxSessions \in Nat
  /\ Len(FirstDirs) <= MaxSessions
  /\ PageSize \in Nat \ {0}
  /\ Pinned \notin Directories
  /\ NoSession \notin Nat

VARIABLES
  dir,         \* the CWDs of all sessions created so far
  rows,        \* State.Rows: those shown, and which are pinned or running
  groups,      \* State.groupStates: which are folded, how many rows show; a
               \* visibleCount of 0 is read as directoryPageSize and is that here
  cursor,      \* State.cursor, None without hasCursor
  requested,   \* State.requested
  rename,      \* State.Rename.Target, NoSession unless Active
  confirming,  \* State.Confirmation.Key
  prompt,      \* State.Composer.Prompt
  archived     \* history: what the user archived

vars == <<dir, rows, groups, cursor, requested, rename, confirming, prompt,
          archived>>

Sessions == 1 .. MaxSessions
GroupIDs == Directories \cup {Pinned}
\* One of white space only, which Enter takes for an empty one, is left out.
Prompts == {"empty", "line", "lines"}

Session(k) == [kind |-> "session", of |-> k]
ShowMore(g) == [kind |-> "more", of |-> g]
ShowSessions(g) == [kind |-> "sessions", of |-> g]
None == [kind |-> "none", of |-> NoSession]
IsSession(item) == item.kind = "session"

-----------------------------------------------------------------------------
(* The list derived from catalog r and group states d.                     *)

\* What rank is defined on, the largest rank first.
Descending(rank) ==
  LET n == Cardinality(DOMAIN rank)
  IN  CHOOSE s \in [1 .. n -> DOMAIN rank] :
        \A i, j \in 1 .. n : i < j => rank[s[i]] > rank[s[j]]

\* SortOverview's order within Pinned and within a directory.
NewestFirst(S) == Descending([k \in S |-> k])

GroupOf(r, k) == IF k \in r.pinned THEN Pinned ELSE dir[k]
Members(r, g) == NewestFirst({k \in r.shown : GroupOf(r, k) = g})

\* Pinned comes first, a directory where its newest unpinned session is.
GroupOrder(r) ==
  Descending([g \in {GroupOf(r, k) : k \in r.shown} |->
                IF g = Pinned THEN MaxSessions + 1 ELSE Head(Members(r, g))])

Smaller(a, b) == IF a <= b THEN a ELSE b
Larger(a, b) == IF a >= b THEN a ELSE b
VisibleRows(r, d, g) ==
  IF g = Pinned THEN Len(Members(r, g))
                ELSE Smaller(d.count[g], Len(Members(r, g)))

GroupItems(r, d, g) ==
  LET members == Members(r, g)
      n == VisibleRows(r, d, g)
  IN  IF g \in d.folded THEN <<ShowSessions(g)>>
      ELSE [i \in 1 .. n |-> Session(members[i])]
             \o (IF n < Len(members) THEN <<ShowMore(g)>> ELSE <<>>)

Items(r, d) ==
  LET order == GroupOrder(r)
  IN  FlattenSeq([i \in 1 .. Len(order) |-> GroupItems(r, d, order[i])])

Listed(r, d) == ToSet(Items(r, d))

Position(seq, x) == CHOOSE i \in 1 .. Len(seq) : seq[i] = x

\* ensureSessionVisible: k's group opens as far as k.
Revealed(r, d, k) ==
  LET g == GroupOf(r, k)
      page == (Position(Members(r, g), k) - 1) \div PageSize + 1
  IN  [folded |-> d.folded \ {g},
       count |-> [d.count EXCEPT ![g] =
                    IF g = Pinned THEN PageSize ELSE Larger(@, page * PageSize)]]

-----------------------------------------------------------------------------
(* What a new catalog does to the selection: SetRows.                      *)

\* nearbySurvivingItem: the first after target that is still listed, else
\* the last before it, else the head of the list.
Nearby(old, new, target) ==
  LET at == IF target \in ToSet(old) THEN Position(old, target) ELSE 0
      alive == {i \in 1 .. Len(old) : at > 0 /\ old[i] \in ToSet(new)}
      after == {i \in alive : i > at}
  IN  IF after # {} THEN old[Min(after)]
      ELSE IF alive # {} THEN old[Max(alive)]
      ELSE IF new # <<>> THEN new[1] ELSE None

\* Variant: a request is resolved although a rename is active.
MutStealsFromRename(r, target) == requested \in r.shown
\* resolveRequestedSelection's condition; target is the rename's.
Resolves(r, target) == requested \in r.shown /\ target = NoSession

\* Variant: the cursor is tracked although a rename is active.
MutTracksCursor == cursor
\* The session r's arrival keeps selected, if it is still there.
Tracked == IF rename # NoSession THEN Session(rename) ELSE cursor

Select(r, k) ==
  /\ groups' = Revealed(r, groups, k)
  /\ cursor' = Session(k)

SetRows(r) ==
  /\ rows' = r
  /\ \/ /\ Resolves(r, rename)
        /\ Select(r, requested)
        /\ requested' = NoSession
     \/ /\ ~Resolves(r, rename)
        /\ IsSession(Tracked)
        /\ Tracked.of \in r.shown
        /\ Select(r, Tracked.of)
        /\ UNCHANGED requested
     \/ /\ ~Resolves(r, rename)
        /\ ~(IsSession(Tracked) /\ Tracked.of \in r.shown)
        /\ LET new == Items(r, groups)
           IN  cursor' = IF Tracked \in ToSet(new) THEN Tracked
                         ELSE Nearby(Items(rows, groups), new, Tracked)
        /\ UNCHANGED <<groups, requested>>

\* Any sessions may be listed, filtered or gone; an archived one does not
\* come back.
Catalogs ==
  [shown : SUBSET ((1 .. Len(dir)) \ (archived \ rows.shown)),
   pinned : SUBSET MayPin, busy : SUBSET MayRun]

CatalogArrives ==
  /\ \E r \in Catalogs :
       /\ r.pinned \subseteq r.shown
       /\ r.busy \subseteq r.shown
       /\ SetRows(r)
  /\ UNCHANGED <<dir, rename, confirming, prompt, archived>>

-----------------------------------------------------------------------------
(* Keys.                                                                   *)

Normal == rename = NoSession /\ confirming = NoSession

\* SelectedRow.
HasSelectedRow == IsSession(cursor) /\ cursor.of \in rows.shown
Selected == cursor.of

(* A key that moves the cursor to item, and drops a confirmation.          *)
MoveTo(item) ==
  /\ item # cursor
  /\ cursor' = item
  /\ confirming' = NoSession

\* Up and Down.
MoveSelection(delta) ==
  /\ rename = NoSession
  /\ prompt # "lines"
  /\ LET items == Items(rows, groups)
         next == Position(items, cursor) + delta
     IN  /\ cursor \in ToSet(items)
         /\ next \in 1 .. Len(items)
         /\ MoveTo(items[next])
  /\ UNCHANGED <<dir, rows, groups, requested, rename, prompt, archived>>

(* Up or Down that moves nothing, at an end of the list or inside a prompt *)
(* of several lines, and Esc: the confirmation is dropped all the same.    *)
DropConfirmation ==
  /\ rename = NoSession
  /\ confirming # NoSession
  /\ confirming' = NoSession
  /\ UNCHANGED <<dir, rows, groups, cursor, requested, rename, prompt, archived>>

CursorGroup == IF IsSession(cursor) THEN GroupOf(rows, cursor.of) ELSE cursor.of

(* { and } : to the neighbouring group, or to the end of the cursor's own. *)
MoveGroup(delta) ==
  LET order == GroupOrder(rows)
      target == Position(order, CursorGroup) + delta
      itemsOf(i) == GroupItems(rows, groups, order[i])
      \* moving up, the group's last item that is not its ShowMore
      entered == IF delta > 0 THEN Head(itemsOf(target))
                 ELSE itemsOf(target)[Max({i \in DOMAIN itemsOf(target) :
                                             itemsOf(target)[i].kind # "more"})]
      own == itemsOf(Position(order, CursorGroup))
  IN  /\ rename = NoSession
      /\ prompt = "empty"
      /\ cursor \in Listed(rows, groups)
      /\ MoveTo(IF target \in 1 .. Len(order) THEN entered
                ELSE IF delta > 0 THEN Last(own) ELSE Head(own))
      /\ UNCHANGED <<dir, rows, groups, requested, rename, prompt, archived>>

\* Variant: the page is folded away, the cursor stays on the session.
MutCursorStays(g, control) == cursor
\* Where the cursor is after its page was folded.
AfterFold(g, control) == control

(* Left: folds the first page with its group, a later page alone.          *)
FoldSelectedGroup ==
  LET g == CursorGroup
      position == Position(Members(rows, g), cursor.of) - 1
      whole == g = Pinned \/ position < PageSize
  IN  /\ rename = NoSession
      /\ prompt = "empty"
      /\ HasSelectedRow
      /\ cursor \in Listed(rows, groups)
      /\ groups' = [folded |-> IF whole THEN groups.folded \cup {g}
                                        ELSE groups.folded \ {g},
                    count |-> [groups.count EXCEPT ![g] =
                                 IF whole THEN @
                                 ELSE (position \div PageSize) * PageSize]]
      /\ cursor' = AfterFold(g, IF whole THEN ShowSessions(g) ELSE ShowMore(g))
      /\ confirming' = NoSession
      /\ UNCHANGED <<dir, rows, requested, rename, prompt, archived>>

(* Right or Enter: opens a group or its next page.                         *)
ExpandSelectedControl ==
  LET g == cursor.of
      members == Members(rows, g)
      n == VisibleRows(rows, groups, g)
  IN  /\ rename = NoSession
      /\ prompt = "empty"
      /\ cursor.kind \in {"more", "sessions"}
      /\ cursor \in Listed(rows, groups)
      /\ \/ /\ cursor.kind = "sessions"
            /\ groups' = [folded |-> groups.folded \ {g},
                          count |-> [groups.count EXCEPT ![g] =
                                       IF g = Pinned THEN @ ELSE PageSize]]
            /\ cursor' = Session(members[1])
         \/ /\ cursor.kind = "more"
            /\ groups' = [folded |-> groups.folded \ {g},
                          count |-> [groups.count EXCEPT ![g] = n + PageSize]]
            /\ cursor' = Session(members[n + 1])
      /\ confirming' = NoSession
      /\ UNCHANGED <<dir, rows, requested, rename, prompt, archived>>

Confirmed(k) == confirming = k

(* Ctrl+X on a running session: Stop, which succeeds or fails.             *)
Stop ==
  /\ rename = NoSession
  /\ HasSelectedRow
  /\ Selected \in rows.busy
  /\ confirming' = NoSession
  /\ UNCHANGED <<dir, rows, groups, cursor, requested, rename, prompt, archived>>

(* Ctrl+X on one at rest, once: the row says to press again.  (On one that *)
(* offers neither Stop nor Archive it changes nothing.)                    *)
ArmArchive ==
  /\ rename = NoSession
  /\ HasSelectedRow
  /\ Selected \notin rows.busy
  /\ ~Confirmed(Selected)
  /\ confirming' = Selected
  /\ UNCHANGED <<dir, rows, groups, cursor, requested, rename, prompt, archived>>

(* And again: Archive, which succeeds or fails.                            *)
Archive ==
  /\ rename = NoSession
  /\ HasSelectedRow
  /\ Selected \notin rows.busy
  /\ Confirmed(Selected)
  /\ confirming' = NoSession
  /\ \/ archived' = archived \cup {Selected}
     \/ UNCHANGED archived
  /\ UNCHANGED <<dir, rows, groups, cursor, requested, rename, prompt>>

(* Ctrl+T: TogglePin and its patch.  Another process may have toggled the  *)
(* same pin, so either value may come back.                                *)
Repinned(pin) ==
  [rows EXCEPT !.pinned = IF pin THEN @ \cup {Selected} ELSE @ \ {Selected}]

\* selectionReplacementForUnpin: the next pinned row, else the previous one,
\* else the head of the list there is without Pinned.
PinnedNeighbour ==
  LET items == GroupItems(rows, groups, Pinned)
      at == Position(items, cursor)
  IN  IF at < Len(items) THEN items[at + 1]
      ELSE IF at > 1 THEN items[at - 1]
      ELSE Head(Items(Repinned(FALSE), groups))

TogglePin(pin) ==
  /\ Normal
  /\ HasSelectedRow
  /\ rows' = Repinned(pin)
  /\ \/ /\ ~pin
        /\ Selected \in rows.pinned
        /\ cursor' = PinnedNeighbour
        /\ groups' = IF IsSession(cursor')
                     THEN Revealed(rows', groups, cursor'.of) ELSE groups
     \/ /\ pin \/ Selected \notin rows.pinned
        /\ Select(rows', Selected)
  /\ UNCHANGED <<dir, requested, rename, confirming, prompt, archived>>

(* Ctrl+R.                                                                 *)
StartRename ==
  /\ Normal
  /\ HasSelectedRow
  /\ rename' = Selected
  /\ UNCHANGED <<dir, rows, groups, cursor, requested, confirming, prompt, archived>>

\* Variant: a request deferred by the rename waits for the next catalog.
MutStaysDeferred(r) == FALSE
\* finishRename retries the request on the rows there are.
RetriesRequest(r) == requested \in r.shown

(* The rename succeeded, or Esc: finishRename.                             *)
FinishRename ==
  /\ rename # NoSession
  /\ rename' = NoSession
  /\ \/ /\ RetriesRequest(rows)
        /\ Select(rows, requested)
        /\ requested' = NoSession
     \/ /\ ~RetriesRequest(rows)
        /\ UNCHANGED <<groups, cursor, requested>>
  /\ UNCHANGED <<dir, rows, confirming, prompt, archived>>

ComposerCWD ==
  IF HasSelectedRow THEN dir[Selected]
  ELSE IF cursor.kind \in {"more", "sessions"} /\ cursor.of # Pinned THEN cursor.of
  ELSE StartupCWD

(* Enter on a prompt with text: Dispatch; when it fails nothing changes.   *)
Dispatch ==
  /\ Normal
  /\ prompt \in {"line", "lines"}
  /\ Len(dir) < MaxSessions
  /\ dir' = Append(dir, ComposerCWD)
  /\ requested' = Len(dir) + 1
  /\ prompt' = "empty"
  /\ UNCHANGED <<rows, groups, cursor, rename, confirming, archived>>

(* Every key that edits the prompt, a paste, the stash, Vim and Esc.       *)
EditPrompt ==
  /\ Normal
  /\ \E p \in Prompts \ {prompt} : prompt' = p
  /\ UNCHANGED <<dir, rows, groups, cursor, requested, rename, confirming, archived>>

(* NewState; the first catalog has not arrived.                            *)
Init ==
  /\ dir = FirstDirs
  /\ rows = [shown |-> {}, pinned |-> {}, busy |-> {}]
  /\ groups = [folded |-> {}, count |-> [g \in GroupIDs |-> PageSize]]
  /\ cursor = None
  /\ requested = NoSession
  /\ rename = NoSession
  /\ confirming = NoSession
  /\ prompt = "empty"
  /\ archived = {}

Next ==
  \/ CatalogArrives
  \/ \E delta \in {-1, 1} : MoveSelection(delta)
  \/ DropConfirmation
  \/ \E delta \in {-1, 1} : MoveGroup(delta)
  \/ FoldSelectedGroup
  \/ ExpandSelectedControl
  \/ Stop
  \/ ArmArchive
  \/ Archive
  \/ \E pin \in BOOLEAN : TogglePin(pin)
  \/ StartRename
  \/ FinishRename
  \/ Dispatch
  \/ EditPrompt

Spec == Init /\ [][Next]_vars

-----------------------------------------------------------------------------

TypeOK ==
  /\ dir \in Seq(Directories) /\ Len(dir) <= MaxSessions
  /\ rows \in [shown : SUBSET Sessions, pinned : SUBSET Sessions,
               busy : SUBSET Sessions]
  /\ rows.pinned \cup rows.busy \subseteq rows.shown
  /\ groups \in [folded : SUBSET GroupIDs,
                 count : [GroupIDs -> 1 .. MaxSessions + PageSize]]
  /\ {requested, rename, confirming} \subseteq Sessions \cup {NoSession}
  /\ prompt \in Prompts
  /\ archived \subseteq Sessions

(* The cursor is on an item of the list, and there is none only when the   *)
(* list is empty, whatever was folded, pinned, archived or replaced: off   *)
(* the list no key could move it again (moveSelection, moveGroup).         *)
CursorIsListed ==
  LET listed == Listed(rows, groups)
  IN  IF listed = {} THEN cursor = None ELSE cursor \in listed

(* A dispatched session waited for is not in the list yet: it has been     *)
(* selected as soon as it was, or as soon as a rename in progress ended    *)
(* (RequestSelection, finishRename).                                       *)
RequestIsAwaited == rename = NoSession => requested \notin rows.shown

(* A catalog never takes the cursor off a session it still lists, except   *)
(* for one the user dispatched ("unrelated snapshots never move the        *)
(* selection", SetRows).                                                   *)
SelectionHolds ==
  [][/\ rows' # rows
     /\ IsSession(cursor)
     /\ cursor.of \in rows'.shown
     /\ cursor.of \in rows.pinned => cursor.of \in rows'.pinned
     /\ rename \in {NoSession, cursor.of}
     => \/ cursor' = cursor
        \/ requested \in rows'.shown /\ rename = NoSession
             /\ cursor' = Session(requested)]_vars

(* While a session is renamed inline and the list has it, the cursor is on *)
(* it: also once a catalog that lacked it, and moved the cursor elsewhere,  *)
(* is followed by one that lists it again, and whatever was requested or   *)
(* pinned meanwhile (the rename target is what SetRows tracks).             *)
RenameKeepsItsRow == rename \in rows.shown => cursor = Session(rename)

=============================================================================
