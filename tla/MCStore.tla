-------------------------------- MODULE MCStore --------------------------------
(* Store.tla for TLC. *)
EXTENDS Store

================================================================================
