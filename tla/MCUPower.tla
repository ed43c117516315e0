------------------------------ MODULE MCUPower ------------------------------
(* An instance of UPower for TLC: two batteries and a line power supply.    *)
EXTENDS UPower

SomeDevices == {"ac", "bat1", "bat2"}
SomeBatteries == {"bat1", "bat2"}
Charging == [pct |-> 504, toEmpty |-> 0, toFull |-> 30, state |-> "Charging"]
Full == [pct |-> 995, toEmpty |-> 0, toFull |-> 0, state |-> "FullyCharged"]
Discharging == [pct |-> 504, toEmpty |-> 90, toFull |-> 0, state |-> "Discharging"]
SomeReadings == {Charging, Discharging}
============================================================================
