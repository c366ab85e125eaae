------------------------------ MODULE MCWpaCtrl -----------------------------
(***************************************************************************)
(* WpaCtrl with timeouts of a few units, so that a loop of timed_send or   *)
(* timed_recv can go round twice before the request must end.              *)
(***************************************************************************)
EXTENDS WpaCtrl

=============================================================================
