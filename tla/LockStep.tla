------------------------------ MODULE LockStep ------------------------------
(***************************************************************************)
(* What a battle over GGPO promises: frames that are final are those of a   *)
(* game in lock step, run once on what each player really did.             *)
(***************************************************************************)
EXTENDS Naturals, Sequences

CONSTANTS Players, Inputs

VARIABLES script,   \* what each player does, frame by frame
          final,    \* the inputs of the frames that are final
          left      \* players that left

vars == <<script, final, left>>

Extends(s, t) == Len(t) <= Len(s) /\ \A i \in 1..Len(t) : s[i] = t[i]

Init == script = [p \in Players |-> <<>>] /\ final = <<>> /\ left = {}

Act(p) == /\ Extends(script'[p], script[p])
          /\ \A o \in Players \ {p} : script'[o] = script[o]
          /\ UNCHANGED <<final, left>>

\* Some frames become final.  For a player that left they hold anything.
Commit == /\ Extends(final', final)
          /\ \A f \in (Len(final) + 1)..Len(final') : \A p \in Players \ left :
                 f <= Len(script[p]) /\ final'[f][p] = script[p][f]
          /\ UNCHANGED <<script, left>>

Leave(S) == left' = left \union S /\ UNCHANGED <<script, final>>

Restart == script' = [p \in Players |-> <<>>] /\ final' = <<>> /\ left' = {}

Next == Commit \/ Restart \/ (\E p \in Players : Act(p)) \/ \E S \in SUBSET Players : Leave(S)

Spec == Init /\ [][Next]_vars
=============================================================================
