------------------------------ MODULE MCIpv4ll ------------------------------
(* Two hosts and two link-local addresses.                                 *)
EXTENDS Ipv4ll
=============================================================================
