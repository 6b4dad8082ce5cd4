------------------------------- MODULE MCSampleLog -------------------------------
(***************************************************************************)
(* A small instance of SampleLog: a wall clock that runs for several       *)
(* checkpoints and retention windows, and one that is set back.            *)
(***************************************************************************)
EXTENDS SampleLog

Clocks == {[stepBack |-> 0, until |-> 7], [stepBack |-> 2, until |-> 5]}

================================================================================
