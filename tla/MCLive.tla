--------------------------------- MODULE MCLive ---------------------------------
(* Live.tla for TLC. *)
EXTENDS Live, TLC
================================================================================
