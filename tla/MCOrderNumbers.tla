--------------------------- MODULE MCOrderNumbers ---------------------------
(***************************************************************************)
(* OrderNumbers for TLC: every register prints the device_code that        *)
(* open_order takes when nobody gives it one.                              *)
(***************************************************************************)
EXTENDS OrderNumbers

MCCodeOf == [r \in Registers |-> "01"]
=============================================================================
