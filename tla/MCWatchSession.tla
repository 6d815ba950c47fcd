--------------------------- MODULE MCWatchSession ---------------------------
(* Small instances of a watch session. *)
EXTENDS WatchSessionProperties
=============================================================================
