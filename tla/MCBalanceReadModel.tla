------------------------- MODULE MCBalanceReadModel -------------------------
(***************************************************************************)
(* Small instances of BalanceReadModel for TLC.                            *)
(***************************************************************************)
EXTENDS BalanceReadModel, TLC

MCInitialBalance == [u \in Users |-> 3]
ColdHash == [u \in Users |-> Absent]
WarmHash == InitialBalance

Interchangeable == Permutations(Requests) \cup Permutations(Workers)
=============================================================================
