------------------------------ MODULE Approvals ------------------------------
(***************************************************************************)
(* What the two-step confirmation promises.  An approval is granted once,  *)
(* lets one run of its request through while it is open, and is closed by  *)
(* that or lapses.  Nothing opens it again but a restart of the server,    *)
(* which may forget which approvals were used, as the repository documents *)
(* (single use is kept in memory, CHANGELOG.md:279): it may reopen         *)
(* approvals that were granted, and no others.                             *)
(***************************************************************************)
EXTENDS Naturals

CONSTANTS
    Request,    \* what can be asked for
    Approval    \* the approvals that can be granted, each with its request

VARIABLES
    starts,     \* starts of the server so far
    open,       \* approvals that would let a call through
    granted,    \* approvals ever granted
    runs        \* runs of each request by an approval since the last start

vars == <<starts, open, granted, runs>>

Init ==
    /\ starts = 1
    /\ open = {} /\ granted = {}
    /\ runs = [r \in Request |-> 0]

\* Granting an approval a second time does not reopen it.
Grant(a) ==
    /\ open' = IF a \in granted THEN open ELSE open \cup {a}
    /\ granted' = granted \cup {a}
    /\ UNCHANGED <<starts, runs>>

\* A run and the closing of the approval it uses are one step.
Use(a) ==
    /\ a \in open
    /\ open' = open \ {a}
    /\ runs' = [runs EXCEPT ![a.request] = @ + 1]
    /\ UNCHANGED <<starts, granted>>

Lapse == open' \in SUBSET open /\ UNCHANGED <<starts, granted, runs>>

Restart ==
    /\ starts' = starts + 1
    /\ open' \in SUBSET granted
    /\ runs' = [r \in Request |-> 0]
    /\ UNCHANGED granted

Next == (\E a \in Approval : Grant(a) \/ Use(a)) \/ Lapse \/ Restart

Spec == Init /\ [][Next]_vars
=============================================================================
