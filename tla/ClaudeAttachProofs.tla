------------------------- MODULE ClaudeAttachProofs -------------------------
(***************************************************************************)
(* What Rename and Open promise through `claude attach`, for any calls,    *)
(* names, cancellations and `claude agents` that hang.                     *)
(***************************************************************************)
EXTENDS ClaudeAttach, SequenceTheorems, TLAPS

(* An Open is never where a Rename can be, nor the other way round.         *)
Places ==
    /\ \A o \in Opens : pc[o] \in {"idle", "open", "done"}
    /\ \A r \in Renames : pc[r] # "open"

(* A command that is about to be written, or waits in the pty of a client, *)
(* is for the worker the catalog reported live, which is still there: it   *)
(* would have taken an attached client with it, and overtaken another.     *)
OnTheWay(r) == (pc[r] = "write" /\ There(r)) \/ r \in pty

WriteIsLive ==
    \A r \in Renames : OnTheWay(r) => worker = "live" \/ r \in overtaken

(* Only a client that is there has something to read.                       *)
Queued == \A r \in pty : There(r) /\ pc[r] \in {"confirm", "done"}

(* While a Rename runs, its name is known to have been borne once the      *)
(* session has it.                                                          *)
Judged ==
    \A r \in Renames :
        /\ pc[r] = "idle" => named[r] = "asking"
        /\ Running(r) /\ name = Name[r] => r \in borne
        /\ named[r] = "yes" => r \in borne

(* A call that stopped asking its client to leave knows that it has left,  *)
(* never had one, or gave it up.                                           *)
Clients ==
    \A c \in Calls :
        /\ pc[c] = "idle" => client[c] = "none" /\ leave[c] = "no"
        /\ leave[c] = "left" => client[c] = "gone"
        /\ pc[c] = "confirm" /\ leave[c] = "no" => ~There(c)

IInv == TypeOK /\ Places /\ NotIntoEarlyCapture /\ WriteIsLive /\ Queued /\ Judged /\ Clients /\ NoClientLeft

(* The types in two groups: of the calls, and of the session.               *)
CallShapes ==
    /\ legacy \in BOOLEAN
    /\ pc \in [Calls -> {"idle", "ready", "write", "confirm", "open", "done"}]
    /\ leave \in [Calls -> Leaving \cup {"no", "left", "gave up", "hung up"}]
    /\ named \in [Renames -> {"asking", "yes", "no"}]
    /\ over \subseteq Cancelled /\ hung \subseteq MayHang

SessionShapes ==
    /\ worker \in {"none", "starting", "live"}
    /\ input \in Seq(Names)
    /\ name \in {NoName} \cup Names \cup Others
    /\ pty \subseteq Renames
    /\ client \in [Calls -> {"none", "starting", "attached", "gone"}]
    /\ early \subseteq Renames /\ overtaken \subseteq Renames /\ borne \subseteq Renames

LEMMA TypeParts == TypeOK <=> CallShapes /\ SessionShapes
<1> QED  BY DEF TypeOK, CallShapes, SessionShapes

LEMMA InitIInv == Init => IInv
<1> SUFFICES ASSUME Init PROVE IInv
    OBVIOUS
<1>1. CallShapes
    BY DEF Init, CallShapes
<1>2. SessionShapes
    BY DEF Init, SessionShapes
<1>3. Places /\ Judged /\ Clients /\ NoClientLeft
    BY AttachAssumption DEF Init, Places, Judged, Running, Clients, NoClientLeft, There, Calls
<1>4. NotIntoEarlyCapture /\ WriteIsLive /\ Queued
    BY DEF Init, NotIntoEarlyCapture, WriteIsLive, OnTheWay, Queued, Calls
<1> QED  BY <1>1, <1>2, <1>3, <1>4, TypeParts DEF IInv

LEMMA CallShapesStep == CallShapes /\ [Next]_vars => CallShapes'
<1> SUFFICES ASSUME CallShapes, [Next]_vars PROVE CallShapes'
    OBVIOUS
<1> USE DEF CallShapes, Calls, Leaving, waits
<1>1. CASE Claude \/ UNCHANGED vars
    BY <1>1 DEF Claude, vars
<1>2. ASSUME NEW c \in Calls, DetachStep(c) PROVE CallShapes'
    <2>1. leave[c] \in Leaving /\ leave' = [leave EXCEPT ![c] = Waited(c)]
        BY <1>2 DEF DetachStep
    <2>2. Waited(c) \in {"left", "gave up", "hup", "term"}
        BY <2>1 DEF Waited, Harder
    <2> QED  BY <1>2, <2>1, <2>2 DEF DetachStep
<1>3. ASSUME NEW c \in Calls, ContextEnds(c) PROVE CallShapes'
    BY <1>3 DEF ContextEnds
<1>4. ASSUME NEW r \in Renames, StartRename(r) \/ AgentsHangs(r) PROVE CallShapes'
    BY <1>4 DEF StartRename, AgentsHangs
<1>5. ASSUME NEW r \in Renames, SessionReady(r) \/ NotReady(r) \/ WriteCommand(r) PROVE CallShapes'
    BY <1>5 DEF SessionReady, NotReady, WriteCommand, CleanupBegins
<1>6. ASSUME NEW r \in Renames, Confirmed(r) \/ NotConfirmed(r) \/ ReturnRename(r)
      PROVE  CallShapes'
    BY <1>6 DEF Confirmed, NotConfirmed, ReturnRename
<1>7. ASSUME NEW o \in Opens, StartOpen(o) \/ DetachKey(o) \/ TerminalFails(o) \/ ReturnOpen(o)
      PROVE  CallShapes'
    BY <1>7 DEF StartOpen, DetachKey, TerminalFails, ReturnOpen
<1> QED
    BY <1>1, <1>2, <1>3, <1>4, <1>5, <1>6, <1>7 DEF Next, CallStep, RenameStep

LEMMA SessionShapesStep == SessionShapes /\ [Next]_vars => SessionShapes'
<1> SUFFICES ASSUME SessionShapes, [Next]_vars PROVE SessionShapes'
    OBVIOUS
<1> USE DEF SessionShapes, Calls
<1>1. CASE Mounted \/ Respawned
    BY <1>1 DEF Mounted, Respawned
<1>2. CASE Applies
    <2>1. name' \in Names /\ input' \in Seq(Names)
        BY <1>2, HeadTailProperties DEF Applies
    <2> QED  BY <1>2, <2>1 DEF Applies
<1>3. CASE RenamedElsewhere
    BY <1>3 DEF RenamedElsewhere
<1>4. CASE Ends
    <2>1. client' \in [Calls -> {"none", "starting", "attached", "gone"}]
        BY <1>4 DEF Ends
    <2>2. input' \in Seq(Names)
        <3>1. input' = <<>>
            BY <1>4 DEF Ends
        <3> QED  BY <3>1, EmptySeq
    <2> QED  BY <1>4, <2>1, <2>2 DEF Ends
<1>5. ASSUME NEW c \in Calls, Attaches(c) \/ Leaves(c) PROVE SessionShapes'
    BY <1>5 DEF Attaches, Leaves, Woken
<1>6. ASSUME NEW r \in Renames, Delivered(r) PROVE SessionShapes'
    <2>1. Append(input, Name[r]) \in Seq(Names)
        <3>1. Name[r] \in Names
            BY DEF Names
        <3> QED  BY <3>1, AppendProperties
    <2>2. input' = input \/ input' = Append(input, Name[r])
        BY <1>6 DEF Delivered
    <2>3. input' \in Seq(Names)
        BY <2>1, <2>2
    <2> QED  BY <1>6, <2>3 DEF Delivered
<1>7. ASSUME NEW r \in Renames, StartRename(r) \/ WriteCommand(r) PROVE SessionShapes'
    BY <1>7 DEF StartRename, WriteCommand
<1>8. ASSUME NEW o \in Opens, StartOpen(o) PROVE SessionShapes'
    BY <1>8 DEF StartOpen, claude
<1>9. CASE UNCHANGED <<claude, client>>
    BY <1>9 DEF claude
<1>10. ASSUME NEW r \in Renames,
              \/ SessionReady(r) \/ NotReady(r) \/ Confirmed(r) \/ NotConfirmed(r)
              \/ ReturnRename(r) \/ AgentsHangs(r)
       PROVE  UNCHANGED <<claude, client>>
    BY <1>10 DEF SessionReady, NotReady, Confirmed, NotConfirmed, ReturnRename, AgentsHangs
<1>11. ASSUME NEW o \in Opens, DetachKey(o) \/ TerminalFails(o) \/ ReturnOpen(o)
       PROVE  UNCHANGED <<claude, client>>
    BY <1>11 DEF DetachKey, TerminalFails, ReturnOpen
<1>12. ASSUME NEW c \in Calls, DetachStep(c) \/ ContextEnds(c) PROVE UNCHANGED <<claude, client>>
    BY <1>12 DEF DetachStep, ContextEnds
<1> QED
    BY <1>1, <1>2, <1>3, <1>4, <1>5, <1>6, <1>7, <1>8, <1>9, <1>10, <1>11, <1>12
    DEF Next, Claude, CallStep, RenameStep, vars

----------------------------------------------------------------------------
Rest == Places /\ NotIntoEarlyCapture /\ WriteIsLive /\ Queued /\ Judged /\ Clients /\ NoClientLeft

(* A step of the session that leaves the name alone, starts no client, and *)
(* queues nothing.                                                          *)
LEMMA ClaudeKeeps ==
    ASSUME IInv, UNCHANGED <<pc, leave, named, over>>,
           \A c \in Calls : client'[c] = client[c] \/ (There(c) /\ client'[c] = "gone")
                            \/ (client[c] = "starting" /\ client'[c] = "attached"),
           \A r \in pty' : r \in pty /\ There(r)',
           Judged', NotIntoEarlyCapture', overtaken \subseteq overtaken',
           worker = "live" => worker' = "live" \/
               \A r \in Renames : OnTheWay(r)' => r \in overtaken'
    PROVE  Rest'
<1> USE DEF IInv
<1>1. Places'
    BY DEF Places
<1>2. \A c \in Calls : There(c)' => There(c)
    BY DEF There
<1>3. WriteIsLive'
    <2>1. \A r \in Renames : OnTheWay(r)' => OnTheWay(r)
        BY <1>2 DEF OnTheWay, Calls
    <2> QED  BY <2>1 DEF WriteIsLive
<1>4. Queued'
    BY DEF Queued
<1>5. Clients'
    BY <1>2 DEF Clients, There
<1>6. NoClientLeft'
    BY <1>2 DEF NoClientLeft
<1> QED  BY <1>1, <1>3, <1>4, <1>5, <1>6 DEF Rest

LEMMA ClaudeStep == IInv /\ Claude => Rest'
<1> SUFFICES ASSUME IInv, Claude PROVE Rest'
    OBVIOUS
<1> USE DEF IInv
<1>0. UNCHANGED <<pc, leave, named, over>>
    BY DEF Claude, waits
<1>1. ASSUME UNCHANGED <<name, borne>> PROVE Judged'
    BY <1>0, <1>1 DEF Judged, Running
<1>2. CASE Mounted \/ Respawned
    <2>1. UNCHANGED <<name, borne, pty, client, early, overtaken>> /\ worker # "live"
        BY <1>2 DEF Mounted, Respawned
    <2>2. \A r \in pty' : r \in pty /\ There(r)'
        BY <2>1 DEF Queued, There
    <2> QED  BY <1>0, <1>1, <2>1, <2>2, ClaudeKeeps DEF NotIntoEarlyCapture
<1>3. CASE Applies \/ RenamedElsewhere
    <2>1. /\ UNCHANGED <<pty, client, early, overtaken, worker>>
          /\ borne' = borne \cup {r \in Renames : Running(r) /\ Name[r] = name'}
        BY <1>3 DEF Applies, RenamedElsewhere
    <2>2. Judged'
        BY <1>0, <2>1 DEF Judged, Running
    <2>3. \A r \in pty' : r \in pty /\ There(r)'
        BY <2>1 DEF Queued, There
    <2> QED  BY <1>0, <2>1, <2>2, <2>3, ClaudeKeeps DEF NotIntoEarlyCapture
<1>4. CASE Ends
    <2>1. /\ UNCHANGED <<name, borne, early>>
          /\ \A c \in Calls : client'[c] = IF client[c] = "attached" THEN "gone" ELSE client[c]
          /\ pty' = {r \in pty : client[r] # "attached"}
          /\ overtaken' = overtaken \cup {r \in Renames : client[r] = "starting" /\ (pc[r] = "write" \/ r \in pty)}
        BY <1>4 DEF Ends
    <2>2. \A r \in pty' : r \in pty /\ There(r)'
        BY <2>1 DEF Queued, There, TypeOK, Calls
    <2>3. \A r \in Renames : OnTheWay(r)' => r \in overtaken'
        BY <1>0, <2>1, <2>2 DEF OnTheWay, There, Calls
    <2>4. \A c \in Calls : client'[c] = client[c] \/ (There(c) /\ client'[c] = "gone")
        BY <2>1 DEF There
    <2> QED  BY <1>0, <1>1, <2>1, <2>2, <2>3, <2>4, ClaudeKeeps DEF NotIntoEarlyCapture
<1>5. ASSUME NEW c \in Calls, Attaches(c) PROVE Rest'
    <2>1. /\ UNCHANGED <<name, borne, early, pty, overtaken>>
          /\ client[c] = "starting" /\ client' = [client EXCEPT ![c] = "attached"]
          /\ worker = "live" => worker' = "live"
        BY <1>5 DEF Attaches, Woken
    <2>2. \A r \in pty' : r \in pty /\ There(r)'
        BY <2>1 DEF Queued, There, TypeOK, Calls
    <2>3. \A d \in Calls : client'[d] = client[d] \/ (client[d] = "starting" /\ client'[d] = "attached")
        BY <2>1 DEF TypeOK
    <2> QED  BY <1>0, <1>1, <2>1, <2>2, <2>3, ClaudeKeeps DEF NotIntoEarlyCapture
<1>6. ASSUME NEW c \in Calls, Leaves(c) PROVE Rest'
    <2>1. /\ UNCHANGED <<name, borne, early, overtaken, worker>>
          /\ There(c) /\ client' = [client EXCEPT ![c] = "gone"] /\ pty' = pty \ {c}
        BY <1>6 DEF Leaves
    <2>2. \A r \in pty' : r \in pty /\ There(r)'
        BY <2>1 DEF Queued, There, TypeOK, Calls
    <2>3. \A d \in Calls : client'[d] = client[d] \/ (There(d) /\ client'[d] = "gone")
        BY <2>1 DEF TypeOK
    <2> QED  BY <1>0, <1>1, <2>1, <2>2, <2>3, ClaudeKeeps DEF NotIntoEarlyCapture
<1>7. ASSUME NEW r \in Renames, Delivered(r) PROVE Rest'
    <2>1. /\ UNCHANGED <<name, borne, client, overtaken, worker>>
          /\ r \in pty /\ pty' = pty \ {r}
          /\ early' = IF Live THEN early ELSE early \cup {r}
        BY <1>7 DEF Delivered
    <2>2. Live \/ r \in overtaken
        BY <2>1 DEF WriteIsLive, OnTheWay, Live
    <2>3. \A q \in pty' : q \in pty /\ There(q)'
        BY <2>1 DEF Queued, There
    <2> QED  BY <1>0, <1>1, <2>1, <2>2, <2>3, ClaudeKeeps DEF NotIntoEarlyCapture
<1> QED  BY <1>2, <1>3, <1>4, <1>5, <1>6, <1>7 DEF Claude

----------------------------------------------------------------------------
(* What detachClaudeClient does, for a Rename and for an Open.              *)
LEMMA DetachKeeps ==
    ASSUME IInv, NEW c \in Calls, DetachStep(c)
    PROVE  Rest'
<1>1. /\ leave[c] \in Leaving /\ leave \in [Calls -> Leaving \cup {"no", "left", "gave up", "hung up"}]
      /\ UNCHANGED <<worker, name, pty, early, overtaken, borne, named, pc, client, over>>
    BY DEF DetachStep, IInv, TypeOK, claude, waits
<1>2. PICK l \in {"left", "hup", "term", "gave up"} :
          leave' = [leave EXCEPT ![c] = l] /\ (l = "left" => client[c] = "gone")
    <2>1. leave' = [leave EXCEPT ![c] = Waited(c)]
        BY DEF DetachStep
    <2>2. Waited(c) \in {"left", "hup", "term", "gave up"}
        BY <1>1 DEF Waited, Harder, Leaving
    <2>3. Waited(c) = "left" => client[c] = "gone"
        BY <1>1 DEF Waited, Harder, Leaving
    <2> QED  BY <2>1, <2>2, <2>3
<1>3. \A d \in Calls : leave'[d] = IF d = c THEN l ELSE leave[d]
    BY <1>1, <1>2
<1>4. \A d \in Calls : There(d)' <=> There(d)
    BY <1>1 DEF There
<1>5. Clients'
    <2> SUFFICES ASSUME NEW d \in Calls
                 PROVE  /\ pc[d] = "idle" => client[d] = "none" /\ leave'[d] = "no"
                        /\ leave'[d] = "left" => client[d] = "gone"
                        /\ pc[d] = "confirm" /\ leave'[d] = "no" => ~There(d)
        BY <1>1, <1>4 DEF Clients
    <2>1. CASE d = c
        BY <1>1, <1>2, <1>3, <2>1 DEF IInv, Clients, Leaving
    <2>2. CASE d # c
        BY <1>3, <2>2 DEF IInv, Clients
    <2> QED  BY <2>1, <2>2
<1>6. NoClientLeft'
    <2> SUFFICES ASSUME NEW d \in Calls, pc[d] = "done", There(d)
                 PROVE  leave'[d] \in {"gave up", "hung up"} \/ d \in over
        BY <1>1, <1>4 DEF NoClientLeft
    <2>1. leave[d] \in {"gave up", "hung up"} \/ d \in over
        BY DEF IInv, NoClientLeft
    <2> QED  BY <1>1, <1>3, <2>1 DEF Leaving
<1>7. Places' /\ WriteIsLive' /\ Queued' /\ Judged' /\ NotIntoEarlyCapture'
    BY <1>1 DEF IInv, Places, WriteIsLive, OnTheWay, Queued, There, Judged, Running, NotIntoEarlyCapture
<1> QED  BY <1>5, <1>6, <1>7 DEF Rest

(* A context ends, or a `claude agents` hangs.                              *)
LEMMA WaitsKeep ==
    ASSUME IInv, UNCHANGED <<claude, pc, client, leave, named>>, over \subseteq over'
    PROVE  Rest'
<1> USE DEF claude, IInv, Rest
<1>1. NoClientLeft'
    BY DEF NoClientLeft, There
<1>2. Places' /\ WriteIsLive' /\ Queued' /\ Judged' /\ Clients' /\ NotIntoEarlyCapture'
    BY DEF Places, WriteIsLive, OnTheWay, Queued, There, Judged, Running, Clients, NotIntoEarlyCapture
<1> QED  BY <1>1, <1>2

(* The steps of a Rename.                                                   *)
LEMMA RenameKeeps ==
    ASSUME IInv, NEW r \in Renames, StartRename(r) \/ RenameStep(r)
    PROVE  Rest'
<1> USE AttachAssumption DEF IInv, Rest, TypeOK, Calls, There, waits
<1>1. CASE StartRename(r)
    <2>1. Places' /\ NotIntoEarlyCapture'
        BY <1>1 DEF StartRename, Places, NotIntoEarlyCapture
    <2>2. r \notin pty
        BY <1>1 DEF StartRename, Queued
    <2>3. WriteIsLive' /\ Queued'
        BY <1>1, <2>2 DEF StartRename, WriteIsLive, OnTheWay, Queued
    <2>4. Judged'
        BY <1>1 DEF StartRename, Judged, Running
    <2>5. Clients' /\ NoClientLeft'
        BY <1>1 DEF StartRename, Clients, NoClientLeft
    <2> QED  BY <2>1, <2>3, <2>4, <2>5
<1>2. CASE SessionReady(r)
    <2>1. WriteIsLive'
        BY <1>2 DEF SessionReady, StatusReported, Live, WriteIsLive, OnTheWay, claude
    <2>2. Queued'
        BY <1>2 DEF SessionReady, Queued, claude
    <2>3. Clients' /\ NoClientLeft'
        BY <1>2 DEF SessionReady, Clients, NoClientLeft
    <2>4. Judged' /\ Places' /\ NotIntoEarlyCapture'
        BY <1>2 DEF SessionReady, Places, Judged, Running, NotIntoEarlyCapture, claude
    <2> QED  BY <2>1, <2>2, <2>3, <2>4
<1>3. CASE NotReady(r)
    <2>1. WriteIsLive' /\ Queued'
        BY <1>3 DEF NotReady, WriteIsLive, OnTheWay, Queued, claude
    <2>2. Clients' /\ NoClientLeft'
        BY <1>3 DEF NotReady, CleanupBegins, Clients, NoClientLeft
    <2>3. Judged' /\ Places' /\ NotIntoEarlyCapture'
        BY <1>3 DEF NotReady, Places, Judged, Running, NotIntoEarlyCapture, claude
    <2> QED  BY <2>1, <2>2, <2>3
<1>4. CASE WriteCommand(r)
    <2>1. WriteIsLive'
        BY <1>4 DEF WriteCommand, WriteIsLive, OnTheWay
    <2>2. Queued'
        BY <1>4 DEF WriteCommand, Queued
    <2>3. Clients' /\ NoClientLeft'
        BY <1>4 DEF WriteCommand, CleanupBegins, Clients, NoClientLeft
    <2>4. Judged' /\ Places' /\ NotIntoEarlyCapture'
        BY <1>4 DEF WriteCommand, Places, Judged, Running, NotIntoEarlyCapture
    <2> QED  BY <2>1, <2>2, <2>3, <2>4
<1>5. CASE Confirmed(r) \/ NotConfirmed(r)
    <2>1. Judged'
        BY <1>5 DEF Confirmed, NotConfirmed, NameReported, Judged, Running, claude
    <2>2. WriteIsLive' /\ Queued' /\ Clients' /\ NoClientLeft'
        BY <1>5 DEF Confirmed, NotConfirmed, WriteIsLive, OnTheWay, Queued, Clients, NoClientLeft, claude
    <2> QED  BY <1>5, <2>1, <2>2 DEF Confirmed, NotConfirmed, Places, NotIntoEarlyCapture, claude
<1>6. CASE ReturnRename(r)
    <2>1. Clients' /\ NoClientLeft'
        BY <1>6 DEF ReturnRename, BothEnded, Detached, Leaving, Clients, NoClientLeft
    <2>2. WriteIsLive' /\ Queued'
        BY <1>6 DEF ReturnRename, WriteIsLive, OnTheWay, Queued, claude
    <2>3. Judged' /\ Places' /\ NotIntoEarlyCapture'
        BY <1>6 DEF ReturnRename, Judged, Running, Places, NotIntoEarlyCapture, claude
    <2> QED  BY <2>1, <2>2, <2>3
<1> QED  BY <1>1, <1>2, <1>3, <1>4, <1>5, <1>6 DEF RenameStep

(* The steps of an Open, which no Rename's part of the invariant can see.   *)
LEMMA OpenKeeps ==
    ASSUME IInv, NEW o \in Opens,
           StartOpen(o) \/ DetachKey(o) \/ TerminalFails(o) \/ ReturnOpen(o)
    PROVE  Rest'
<1> USE AttachAssumption DEF IInv, Rest, TypeOK, Calls, There, waits
<1>1. /\ \A r \in Renames : pc'[r] = pc[r] /\ client'[r] = client[r]
      /\ UNCHANGED <<worker, name, pty, early, overtaken, borne, named>>
    BY DEF StartOpen, DetachKey, TerminalFails, ReturnOpen, claude
<1>2. WriteIsLive' /\ Queued' /\ Judged' /\ NotIntoEarlyCapture'
    BY <1>1 DEF WriteIsLive, OnTheWay, Queued, Judged, Running, NotIntoEarlyCapture
<1>3. Places'
    BY <1>1 DEF StartOpen, DetachKey, TerminalFails, ReturnOpen, Places
<1>4. Clients' /\ NoClientLeft'
    <2>1. CASE StartOpen(o)
        BY <2>1 DEF StartOpen, Clients, NoClientLeft
    <2>2. CASE DetachKey(o) \/ TerminalFails(o)
        BY <2>2 DEF DetachKey, TerminalFails, Clients, NoClientLeft
    <2>3. CASE ReturnOpen(o)
        BY <2>3 DEF ReturnOpen, Detached, Leaving, Clients, NoClientLeft
    <2> QED  BY <2>1, <2>2, <2>3
<1> QED  BY <1>2, <1>3, <1>4

LEMMA Inductive == IInv /\ [Next]_vars => IInv'
<1> SUFFICES ASSUME IInv, [Next]_vars PROVE IInv'
    OBVIOUS
<1>1. TypeOK'
    <2>1. CallShapes /\ SessionShapes
        BY TypeParts DEF IInv
    <2>2. CallShapes' /\ SessionShapes'
        BY <2>1, CallShapesStep, SessionShapesStep
    <2> QED  BY <2>2 DEF TypeOK, CallShapes, SessionShapes
<1>2. Rest'
    <2>1. CASE \/ UNCHANGED vars \/ \E r \in Renames : AgentsHangs(r)
               \/ \E c \in Calls : ContextEnds(c)
        BY <2>1, WaitsKeep DEF vars, waits, AgentsHangs, ContextEnds
    <2> QED
        BY <2>1, ClaudeStep, DetachKeeps, RenameKeeps, OpenKeeps DEF Next, CallStep
<1> QED  BY <1>1, <1>2 DEF IInv, Rest

LEMMA InvariantAlways == Spec => []IInv
<1> QED  BY InitIInv, Inductive, PTL DEF Spec

(* The types of the variables.                                              *)
THEOREM TypeCorrect == Spec => []TypeOK
<1>1. IInv => TypeOK
    BY DEF IInv
<1> QED  BY <1>1, InvariantAlways, PTL

(* A Rename's command reaches the early-input capture only if the worker   *)
(* that was reported live ended before the client attached, however late   *)
(* the client reads it (waitSessionLive, sendClaudeRename).                 *)
THEOREM NotIntoEarlyCaptureAlways == Spec => []NotIntoEarlyCapture
<1>1. IInv => NotIntoEarlyCapture
    BY DEF IInv
<1> QED  BY <1>1, InvariantAlways, PTL

(* A Rename that reports success was right, whoever else renames            *)
(* (confirmRenamed).                                                        *)
THEOREM ReportedNameWasTrueAlways == Spec => []ReportedNameWasTrue
<1>1. IInv => ReportedNameWasTrue
    BY DEF IInv, Judged, ReportedNameWasTrue
<1> QED  BY <1>1, InvariantAlways, PTL

(* No call returns while its client stays, unless the escalation ran out,  *)
(* its context ended or the terminal failed (detachClaudeClient).           *)
THEOREM NoClientLeftAlways == Spec => []NoClientLeft
<1>1. IInv => NoClientLeft
    BY DEF IInv
<1> QED  BY <1>1, InvariantAlways, PTL
=============================================================================
