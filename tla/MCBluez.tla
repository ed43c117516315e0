------------------------------ MODULE MCBluez ------------------------------
(* An instance of Bluez for TLC: two adapters, and two devices of the first *)
(* one.                                                                     *)
EXTENDS Bluez

TwoAdapters == {"hci0", "hci1"}
TwoDevices == {"phone", "watch"}
SameAdapter == [d \in TwoDevices |-> "hci0"]
============================================================================
