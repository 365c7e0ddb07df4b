CONSTANTS
  Phones = {"", "1", "2", "x"}
  DigitPhones = {"1", "2"}
  Usernames = {"", "ann", "bob"}
  Passwords = {"pw1", "pw2"}
  AccountNumbers = {"a1", "a2"}
  OpeningBalance = 1
  Amount = 1
  Registrations = {}
  Logins = {l1, l2}
  Calls = {c1, c2}
  RegPayloads <- MCRegPayloads
  LoginPayloads <- MCLoginPayloads
  InitialUsers <- Namesakes
  MaxInserts = 2
  MaxInFlight = 3
  Faults = TRUE
  Absent = Absent
SPECIFICATION Spec
SYMMETRY OneOfEach
INVARIANTS
  CacheGenuine
  SessionsBelong
CHECK_DEADLOCK FALSE
