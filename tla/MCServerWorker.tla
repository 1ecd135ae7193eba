--------------------------- MODULE MCServerWorker ---------------------------
(* Instances of ServerWorker for TLC. *)
EXTENDS ServerWorker, TLC

CONSTANTS c1, c2

Symmetry == Permutations(Clients)

\* A task checked by one whole answer, then one that reads a stream or that
\* any input answers.
WholeThenStream == <<"whole", "stream">>
WholeThenFree == <<"whole", "free">>
TimedThenNot == <<TRUE, FALSE>>
AllTimed == [k \in Tasks |-> TRUE]
=============================================================================
