------------------------------- MODULE Mirror -------------------------------
(***************************************************************************)
(* What a provider promises about one value of the daemon it mirrors.      *)
(*                                                                         *)
(* The values the daemon has had are numbered, truth is the number of the  *)
(* last.  What is shown is one of them, or Nothing: no value the daemon    *)
(* never had, and never an older one than has been shown before, whatever  *)
(* was read, signalled, lost or replaced on the way, and however often the *)
(* provider forgot all of it in between.                                   *)
(***************************************************************************)
EXTENDS Integers

VARIABLES truth,    \* the number of the daemon's last value
          shown,    \* the number of the one that is shown, or Nothing
          newest    \* the number of the last one that was shown

mirror == <<truth, shown, newest>>

Nothing == -1

Init == truth \in Nat /\ shown = Nothing /\ newest = Nothing

Change == truth' > truth /\ UNCHANGED <<shown, newest>>

Show == /\ shown' \in newest..truth
        /\ shown' # Nothing
        /\ newest' = shown'
        /\ UNCHANGED truth

Forget == shown' = Nothing /\ UNCHANGED <<truth, newest>>

Next == Change \/ Show \/ Forget

Spec == Init /\ [][Next]_mirror

TypeOK == /\ truth \in Nat
          /\ shown \in {Nothing, newest}
          /\ newest \in Nothing..truth
=============================================================================
