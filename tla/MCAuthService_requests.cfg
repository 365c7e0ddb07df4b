CONSTANTS
  Phones = {"", "1", "2", "x"}
  DigitPhones = {"1", "2"}
  Usernames = {"", "ann", "bob"}
  Passwords = {"pw1", "pw2"}
  AccountNumbers = {"a1", "a2"}
  OpeningBalance = 1
  Amount = 1
  Registrations = {g1, g2}
  Logins = {l1}
  Calls = {c1}
  RegPayloads <- MCRegPayloads
  LoginPayloads <- FewLoginPayloads
  InitialUsers <- NoRows
  MaxInserts = 2
  MaxInFlight = 2
  Faults = TRUE
  Absent = Absent
SPECIFICATION FairSpec
INVARIANTS
  TypeOK
  RegisterTruthful
PROPERTIES
  RequestsAnswered
CHECK_DEADLOCK FALSE
