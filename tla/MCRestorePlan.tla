---------------------------- MODULE MCRestorePlan ----------------------------
(* Model-checking instance of RestorePlan.                                 *)
EXTENDS RestorePlan

Kind(keyed, user, unique, singleton) ==
    [keyed |-> keyed, user |-> user, unique |-> unique, singleton |-> singleton]

\* ip/firewall/filter (comments may repeat), interface/bridge (unique names),
\* a section without semantic key but with unique names, user, ip/dns
AllPaths == {Kind(TRUE, FALSE, FALSE, FALSE), Kind(TRUE, FALSE, TRUE, FALSE),
             Kind(FALSE, FALSE, TRUE, FALSE), Kind(TRUE, TRUE, TRUE, FALSE),
             Kind(FALSE, FALSE, FALSE, TRUE)}
BridgeOnly == {Kind(TRUE, FALSE, TRUE, FALSE)}
FilterOnly == {Kind(TRUE, FALSE, FALSE, FALSE)}
=============================================================================
