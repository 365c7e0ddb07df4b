---------------------------- MODULE MCTransferTx ----------------------------
(***************************************************************************)
(* Small instances of TransferTx for TLC.                                  *)
(***************************************************************************)
EXTENDS TransferTx, TLC

MCInitialBalance == [u \in Users |-> 2]

Pay(s, t, a) == [wellFormed |-> TRUE, sender |-> s, target |-> t, amount |-> a]

(* User 9 has no row.  Every way a payload can be refused, and two rows     *)
(* that debit, credit, overdraw and (with MaxBalance = 3) overflow each     *)
(* other.                                                                   *)
MixedPayloads ==
  {Pay(1, 2, 1), Pay(1, 2, 2), Pay(2, 1, 1), Pay(2, 1, 3), Pay(1, 1, 1), Pay(1, 9, 1), Pay(9, 1, 1),
   Pay(1, 2, 0), [Pay(1, 2, 1) EXCEPT !.wellFormed = FALSE]}

(* Two accounts paying each other, the shape in which locks taken in        *)
(* request order deadlock, and a third that pays one of them, so that       *)
(* requests wait in a chain.                                                *)
ContendedPayloads == {Pay(1, 2, 2), Pay(2, 1, 1), Pay(3, 2, 2)}
=============================================================================
