----------------------------- MODULE MCJobQueue -----------------------------
(* Model-checking instances of JobQueue: ids and tokens are model values,  *)
(* interchangeable in the safety runs.                                     *)
EXTENDS JobQueue, TLC

Interchangeable ==
    Permutations(Job) \cup Permutations(Token) \cup Permutations(Handler)

\* Also the workers, where none of them is special.
InterchangeableFleet == Interchangeable \cup Permutations(Worker)
=============================================================================
