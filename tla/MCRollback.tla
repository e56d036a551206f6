----------------------------- MODULE MCRollback -----------------------------
EXTENDS Rollback

\* Values for TLC: A's inputs are uncertain, the others do something in every
\* frame, and B plays with a frame delay.
CONSTANTS P1, P2, A, B

\* One page is written when somebody does something, one in every other frame.
MCDirty(h) == {p \in Pages : \/ p = P1 /\ \E q \in Players : h[Len(h)].in[q] # Neutral
                             \/ p = P2 /\ (Len(h) % 2 = 0 \/ h[Len(h)].skips > 0)}
MCMoves == [p \in Players |-> IF p = A THEN Inputs ELSE Inputs \ {Neutral}]
MCDelay == [p \in Players |-> IF p = B THEN 1 ELSE 0]
=============================================================================
