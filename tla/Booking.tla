------------------------------- MODULE Booking -------------------------------
(***************************************************************************)
(* What a caller of POST /api/transfers may rely on, with no trace of      *)
(* transactions, messages, replicas or timeouts.  A call is booked at most *)
(* once and never unbooked, and is answered at most once.  200 is for a    *)
(* call that was booked.  An answer in Negative is for a call that was not *)
(* booked and never will be.  An answer in Unsure leaves it open whether   *)
(* the call was booked, and a booking may still follow it.                 *)
(*                                                                         *)
(* TransferTx implements it towards the dispatcher, and RpcService, whose  *)
(* handler is an abstraction of TransferTx, towards the HTTP client.       *)
(***************************************************************************)
EXTENDS Naturals

CONSTANTS Calls,      \* of callers, each asking for one booking
          Negative,   \* answers that mean "not booked, and it never will be"
          Unsure      \* answers that mean "perhaps booked, perhaps later"

VARIABLES booked,   \* whether each call was booked
          answer    \* what each call was answered, 0 before

vars == <<booked, answer>>

Answers == {200} \cup Negative \cup Unsure

Init ==
  /\ booked = [c \in Calls |-> FALSE]
  /\ answer = [c \in Calls |-> 0]

Book(c) ==
  /\ ~booked[c] /\ booked'[c]
  /\ answer[c] \in {0} \cup Unsure
  /\ answer'[c] = answer[c]

Answer(c) ==
  /\ answer[c] = 0
  /\ answer'[c] \in Answers
  /\ answer'[c] = 200 => booked[c]
  /\ answer'[c] \in Negative => ~booked[c]
  /\ booked'[c] = booked[c]

(* The booking goes through and the caller is told of an error. *)
BookUnheard(c) ==
  /\ ~booked[c] /\ booked'[c]
  /\ answer[c] = 0 /\ answer'[c] \in Unsure

Quiet(c) == booked'[c] = booked[c] /\ answer'[c] = answer[c]

(* Several calls move at once when the process that served them ends. *)
Next ==
  /\ DOMAIN booked' = Calls /\ DOMAIN answer' = Calls
  /\ \A c \in Calls : Quiet(c) \/ Book(c) \/ Answer(c) \/ BookUnheard(c)

Spec == Init /\ [][Next]_vars
=============================================================================
