---------------------------- MODULE MCAuthService ----------------------------
(***************************************************************************)
(* Small instances of AuthService for TLC.                                 *)
(***************************************************************************)
EXTENDS AuthService, TLC

Body(phone, username, password) ==
  [wellFormed |-> TRUE, phone |-> phone, username |-> username, password |-> password]

Row(phone, username, account, password) ==
  [phone |-> phone, username |-> username, account |-> account, hash |-> HashPassword(password)]

NoRows == <<>>

(* Two users with one username, and two of whom one has no username. *)
Namesakes == <<Row("1", "ann", "a1", "pw1"), Row("2", "ann", "a2", "pw2")>>
TwoUsers  == <<Row("1", "ann", "a1", "pw1"), Row("2", "", "a2", "pw2")>>

(* Two bodies for one phone, a third that shares its username with the      *)
(* first, and one that is refused.                                          *)
MCRegPayloads ==
  {Body("1", "ann", "pw1"), Body("1", "bob", "pw2"), Body("2", "ann", "pw2"), Body("x", "ann", "pw1")}

(* By phone, by username and with a wrong password; the last two are        *)
(* refused.                                                                 *)
MCLoginPayloads ==
  {Body("1", "", "pw1"), Body("", "ann", "pw1"), Body("1", "", "pw2"), Body("2", "", "pw2"),
   Body("", "", "pw1"), Body("x", "", "pw1")}
FewLoginPayloads == {Body("1", "", "pw1"), Body("", "ann", "pw1"), Body("2", "", "pw2")}

OneOfEach == Permutations(Registrations) \cup Permutations(Logins) \cup Permutations(Calls)
==============================================================================
