------------------------------- MODULE Ledger -------------------------------
(***************************************************************************)
(* What the transfer service promises its callers, with no trace of        *)
(* transactions, locks or retries: an account book in which a transfer     *)
(* happens in one step.  A request is booked at most once, never overdraws *)
(* the sender, moves exactly its amount, and gets a row identifier that    *)
(* grows along the history of each account it touches (identifiers come    *)
(* from a PostgreSQL sequence, so they need not grow globally and may      *)
(* have gaps).                                                             *)
(***************************************************************************)
EXTENDS Integers, Sequences

CONSTANTS Users,           \* users.id of every account
          Requests,        \* transfer requests that may be booked
          InitialBalance   \* users.balance at the start, per account

VARIABLES balance,   \* users.balance
          log        \* rows of the transfers table, in commit order

vars == <<balance, log>>

(* A row of the transfers table; "by" names the request that booked it. *)
Rows == [id: Nat \ {0}, from: Users, to: Users, amount: Nat \ {0}, by: Requests]

Shares(row1, row2) ==
  {row1.from, row1.to} \cap {row2.from, row2.to} # {}

Init ==
  /\ balance = InitialBalance
  /\ log = <<>>

Book(row) ==
  /\ row.from # row.to
  /\ balance[row.from] >= row.amount
  /\ \A i \in 1..Len(log) :
        /\ log[i].by # row.by
        /\ log[i].id # row.id
        /\ Shares(log[i], row) => log[i].id < row.id
  /\ balance' = [balance EXCEPT ![row.from] = @ - row.amount,
                                ![row.to]   = @ + row.amount]
  /\ log' = Append(log, row)

(* The row a step books is the one it leaves in the log. *)
Next == \E i \in 1..Len(log') : log'[i] \in Rows /\ Book(log'[i])

Spec == Init /\ [][Next]_vars
=============================================================================
