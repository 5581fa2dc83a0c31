------------------------------ MODULE MCServer ------------------------------
(* Three threads for a maximum of two, which lets all three run, and two   *)
(* start-up slots: slots fill up while threads are left and the other way  *)
(* round, and a scan meets up to three entries.                            *)
EXTENDS Server
=============================================================================
