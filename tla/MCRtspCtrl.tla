----------------------------- MODULE MCRtspCtrl -----------------------------
(***************************************************************************)
(* RtspCtrl with three connections, so that a callback can close and open  *)
(* in two dispatches in a row, two rounds of recv_all and two queued bytes.*)
(***************************************************************************)
EXTENDS RtspCtrl

=============================================================================
