---------------------------- MODULE MCProviders ----------------------------
(* An instance of Providers for TLC: two profiles, three input devices, and *)
(* two answers of the BME server.                                           *)
EXTENDS Providers

TwoProfiles == {"general", "silent"}
SomeDevices == {"kbd1", "kbd2", "mouse"}
SomeKeyboards == {"kbd1", "kbd2"}
OnMains == [charger |-> 1, bat |-> 2, pct |-> 80]
OnEmpty == [charger |-> 0, bat |-> 1, pct |-> 9]
SomeStatistics == {OnMains, OnEmpty}
============================================================================
