---------------------------- MODULE MCDhcpClient ----------------------------
(***************************************************************************)
(* DhcpClient with two addresses and times in seconds, as in the code but  *)
(* for RENEW_MIN, DEFAULT_LEASE and the width of lease times.              *)
(***************************************************************************)
EXTENDS DhcpClient

=============================================================================
