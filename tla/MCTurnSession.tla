--------------------------- MODULE MCTurnSession ----------------------------
(* Small instances of TurnSession for TLC.                                 *)
EXTENDS TurnSession, TLC

CONSTANTS w1, w2, t1, t2

HomeOfEach == [th \in Threads |-> IF th = t1 THEN w1 ELSE w2]
HomeOfAll == [th \in Threads |-> w1]
Symmetry == Permutations(Calls)

\* A run cannot have, at the same time, all that races: a new generation or an interrupt in
\* a behaviour together with a decision or a second turn.
Interrupting == \E c \in Calls : call[c].pc \in {"interruptReady", "interruptSent"}
Deciding ==
  \E t \in Turns : decision[t] # NoDecision \/ outcomes[t] # 0 \/ (t > 1 /\ srv[t] # NoTurn)
Apart == (generation = 1 /\ ~Interrupting) \/ ~Deciding
=============================================================================
