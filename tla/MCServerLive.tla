---------------------------- MODULE MCServerLive ----------------------------
(* Two threads: enough for an erase to make the scan skip an entry, for     *)
(* both limits to be reached and for a signal to find threads in each       *)
(* stage of ending.  Ages go one past initial_router_time.                  *)
EXTENDS Server
=============================================================================
