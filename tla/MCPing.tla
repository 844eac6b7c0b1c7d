------------------------------- MODULE MCPing -------------------------------
(***************************************************************************)
(* The instance of Ping that Ping.cfg gives to TLC.                        *)
(***************************************************************************)
EXTENDS Ping
=============================================================================
