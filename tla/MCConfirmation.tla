--------------------------- MODULE MCConfirmation ---------------------------
(* Model-checking instance of Confirmation: one request to a router, one   *)
(* to the fleet and one of an exempt caller.                               *)
EXTENDS Confirmation
=============================================================================
