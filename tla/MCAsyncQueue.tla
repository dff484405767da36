---------------------------- MODULE MCAsyncQueue ----------------------------
(* Values and symmetry for model checking AsyncQueue. *)
EXTENDS AsyncQueue, TLC

FineClock == {1}
CoarseClock == {0, 1}
WorkerSymmetry == Permutations(Workers)
=============================================================================
