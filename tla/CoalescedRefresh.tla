-------------------------- MODULE CoalescedRefresh --------------------------
(***************************************************************************)
(* What Provider.Refresh of internal/provider/chatgpt promises, without    *)
(* its state machine: requests are answered by enumerations that run one   *)
(* at a time, that are never more than the requests, and each request is   *)
(* answered by an enumeration begun after it.  Closing the provider ends   *)
(* the promise; a restarted process starts over.                           *)
(***************************************************************************)
EXTENDS Naturals

VARIABLES
    asked,   \* requests made
    begun,   \* enumerations begun
    covered, \* requests made before the newest enumeration began
    served,  \* requests made before the newest finished enumeration began
    running, \* an enumeration is running
    open     \* the provider is not closed

vars == <<asked, begun, covered, served, running, open>>

Fresh ==
    /\ asked = 0 /\ begun = 0 /\ covered = 0 /\ served = 0
    /\ running = FALSE
    /\ open = TRUE

Init == Fresh

Ask ==
    /\ open
    /\ asked' = asked + 1
    /\ UNCHANGED <<begun, covered, served, running, open>>

Begin ==
    /\ ~running
    /\ begun < asked
    /\ running' = TRUE
    /\ begun' = begun + 1
    /\ covered' = asked
    /\ UNCHANGED <<asked, served, open>>

End ==
    /\ running
    /\ running' = FALSE
    /\ served' = covered
    /\ UNCHANGED <<asked, begun, covered, open>>

Shut ==
    /\ open
    /\ open' = FALSE
    /\ UNCHANGED <<asked, begun, covered, served, running>>

Restart ==
    /\ asked' = 0 /\ begun' = 0 /\ covered' = 0 /\ served' = 0
    /\ running' = FALSE
    /\ open' = TRUE

Next == Ask \/ Begin \/ End \/ Shut \/ Restart

\* An open provider begins an enumeration for requests none has covered, and
\* every enumeration ends.
Fairness ==
    /\ WF_vars(open /\ covered < asked /\ Begin)
    /\ WF_vars(End)

Spec == Init /\ [][Next]_vars /\ Fairness
=============================================================================
