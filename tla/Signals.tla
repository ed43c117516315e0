------------------------------ MODULE Signals ------------------------------
(***************************************************************************)
(* The queue of the signals that wait for the event loop of a bridge.      *)
(*                                                                         *)
(* A signal has a field "on" that says what it tells.  The signals for a   *)
(* proxy are lost with it; the others stay, in their order.                *)
(***************************************************************************)
EXTENDS Naturals, Sequences

\* what is left of the first n signals of s when those at the places keep stay
LeftOf(s, keep) ==
  LET left[n \in 0..Len(s)] ==
        IF n = 0 THEN <<>>
        ELSE IF n \in keep THEN Append(left[n - 1], s[n])
        ELSE left[n - 1]
  IN  left

SelectAt(s, keep) == LeftOf(s, keep)[Len(s)]

\* without the signals on kinds
Without(s, kinds) == SelectAt(s, {i \in 1..Len(s) : s[i].on \notin kinds})
=============================================================================
