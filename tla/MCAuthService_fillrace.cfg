CONSTANTS
  Phones = {"", "1", "2", "x"}
  DigitPhones = {"1", "2"}
  Usernames = {"", "ann", "bob"}
  Passwords = {"pw1", "pw2"}
  AccountNumbers = {"a1", "a2"}
  OpeningBalance = 1
  Amount = 1
  Registrations = {}
  Logins = {l1, l2}
  Calls = {c1}
  RegPayloads <- MCRegPayloads
  LoginPayloads <- FewLoginPayloads
  InitialUsers <- TwoUsers
  MaxInserts = 2
  MaxInFlight = 2
  Faults = FALSE
  Absent = Absent
SPECIFICATION Spec
INVARIANTS
  PhoneKeysFresh
CHECK_DEADLOCK FALSE
