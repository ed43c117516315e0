----------------------------- MODULE MCConnman -----------------------------
(* An instance of Connman for TLC: two services and two technologies.       *)
EXTENDS Connman

SomeServices == {"s1", "s2"}
SomeTypes == [s1 |-> "wifi", s2 |-> "cellular"]
SomeTechnologies == {"wifi", "cellular"}

OneService == {"s1"}
OneType == [s1 |-> "wifi"]
NoTechnologies == {}
============================================================================
