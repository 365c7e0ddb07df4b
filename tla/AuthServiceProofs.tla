-------------------------- MODULE AuthServiceProofs --------------------------
(***************************************************************************)
(* AuthInv is inductive: the user cache, the sessions and the replies to   *)
(* registrations are sound for any number of users and requests.           *)
(***************************************************************************)
EXTENDS AuthService, TLAPS

(* What every step does to the users table: rows stay as they are, new ones *)
(* are appended, and no balance is forgotten.                               *)
Grows ==
  /\ Len(users) \in Nat /\ Len(users') \in Nat
  /\ Len(users) <= Len(users')
  /\ \A i \in Ids : users'[i] = users[i] /\ past[i] \subseteq past'[i]

PayloadsKept == \A l \in Logins : login'[l].payload = login[l].payload

-----------------------------------------------------------------------------
(* Updates of the progress of one request. *)

(* A login moves to another state and takes a copy of a row. *)
LEMMA LoginTakesCopy ==
  ASSUME login \in [Logins -> LoginRecords], NEW l \in Logins, NEW at \in LoginStates,
         NEW e \in CachedUsers \cup {Absent},
         login' = [login EXCEPT ![l].at = at, ![l].cached = e]
  PROVE  /\ login' \in [Logins -> LoginRecords]
         /\ \A m \in Logins \ {l} : login'[m] = login[m]
         /\ login'[l].payload = login[l].payload /\ login'[l].cached = e /\ login'[l].at = at
BY DEF LoginRecords

(* A login is answered. *)
LEMMA LoginAnswered ==
  ASSUME login \in [Logins -> LoginRecords], NEW l \in Logins, NEW at \in LoginStates,
         NEW s \in LoginReplies,
         login' = [login EXCEPT ![l].at = at, ![l].reply = s]
  PROVE  /\ login' \in [Logins -> LoginRecords]
         /\ \A m \in Logins \ {l} : login'[m] = login[m]
         /\ login'[l].payload = login[l].payload /\ login'[l].at = at
BY DEF LoginRecords

(* A registration has inserted its row and is answered. *)
LEMMA RegistrationInserted ==
  ASSUME reg \in [Registrations -> RegRecords], NEW r \in Registrations,
         NEW k \in Nat, NEW s \in RegReplies,
         reg' = [reg EXCEPT ![r].at = "done", ![r].row = k, ![r].reply = s]
  PROVE  /\ reg' \in [Registrations -> RegRecords]
         /\ \A q \in Registrations \ {r} : reg'[q] = reg[q]
         /\ reg'[r].payload = reg[r].payload /\ reg'[r].row = k /\ reg'[r].reply = s /\ reg'[r].at = "done"
BY DEF RegRecords, RegStates

-----------------------------------------------------------------------------
(* Frame lemmas: what a step that leaves a part alone keeps of AuthInv.      *)

(* A table that is not written only grows. *)
LEMMA SameTable ==
  ASSUME TypeOK, UNCHANGED <<users, balance, past>>
  PROVE  Grows
BY DEF Grows, TypeOK, Ids

(* The cache stays genuine while the table grows. *)
LEMMA KeepCache ==
  ASSUME AuthInv, Grows, UNCHANGED <<phoneKey, nameKey>>
  PROVE  CacheGenuine'
BY DEF AuthInv, CacheGenuine, GenuineCopy, Grows, Ids

(* So do the copies logins hold. *)
LEMMA KeepLogins ==
  ASSUME AuthInv, Grows, UNCHANGED login
  PROVE  LoginsGenuine'
BY DEF AuthInv, LoginsGenuine, GenuineCopy, Grows, Ids

(* So do the parties of calls. *)
LEMMA KeepCalls ==
  ASSUME AuthInv, Grows, UNCHANGED call
  PROVE  CallsGenuine'
BY DEF AuthInv, CallsGenuine, Grows, Ids

(* A user a login named and gave the password of stays so. *)
LEMMA KeepLoggedIn ==
  ASSUME Grows, PayloadsKept, NEW l \in Logins, NEW i, LoggedIn(l, i)
  PROVE  LoggedIn(l, i)'
BY DEF LoggedIn, Grows, PayloadsKept, Ids

(* Sessions keep their user while the table grows. *)
LEMMA KeepSessions ==
  ASSUME AuthInv, Grows, PayloadsKept, UNCHANGED <<sessions, call>>
  PROVE  SessionsBelong'
<1>1. ASSUME NEW l \in Logins, sessions[l] # 0 PROVE LoggedIn(l, sessions[l])'
  BY <1>1, KeepLoggedIn DEF AuthInv, SessionsBelong
<1>2. ASSUME NEW c \in Calls, call[c].session # Absent
      PROVE  LoggedIn(call[c].session, call[c].user)'
  BY <1>2, KeepLoggedIn DEF AuthInv, SessionsBelong, TypeOK, CallRecords
<1> QED
  BY <1>1, <1>2 DEF SessionsBelong

(* Registrations that are not touched keep what they were told. *)
LEMMA KeepRegistrations ==
  ASSUME AuthInv, Grows, UNCHANGED reg
  PROVE  RegProgress' /\ RegisterTruthful'
BY DEF AuthInv, RegProgress, RegisterTruthful, PhoneTaken, ValidRegistration, Grows, Ids

(* A step of a registration concerns only the table and the registration. *)
LEMMA RegistrationFrame ==
  ASSUME AuthInv, Grows, UNCHANGED <<phoneKey, nameKey, sessions, login, call>>
  PROVE  CacheGenuine' /\ LoginsGenuine' /\ CallsGenuine' /\ SessionsBelong'
<1>1. PayloadsKept
  BY DEF PayloadsKept
<1> QED
  BY <1>1, KeepCache, KeepLogins, KeepCalls, KeepSessions

-----------------------------------------------------------------------------
(* Registrations. *)

(* A step that inserts no row: the reply, if there is one, is not 201. *)
LEMMA NoInsertKeepsAuthInv ==
  ASSUME AuthInv, NEW r \in Registrations,
         \/ RegisterStart(r) \/ RegisterInvalid(r) \/ AccountCollision(r)
         \/ DuplicatePhone(r) \/ RegisterError(r)
  PROVE  AuthInv'
<1>1. UNCHANGED <<users, balance, past, phoneKey, nameKey, sessions, login, call>>
  BY DEF RegisterStart, RegisterInvalid, AccountCollision, DuplicatePhone, RegisterError, RegReply
<1>2. Grows
  BY <1>1, SameTable DEF AuthInv
<1>3. CacheGenuine' /\ LoginsGenuine' /\ CallsGenuine' /\ SessionsBelong'
  BY <1>1, <1>2, RegistrationFrame
<1>4. /\ reg \in [Registrations -> RegRecords]
      /\ reg[r] \in RegRecords
      /\ reg[r].at # "done" => reg[r].reply = 0 /\ reg[r].row = 0
      /\ reg[r].at = "insert" => ValidRegistration(reg[r].payload)
  BY DEF AuthInv, TypeOK, RegProgress
<1>5. /\ reg' \in [Registrations -> RegRecords]
      /\ \A q \in Registrations \ {r} : reg'[q] = reg[q]
      /\ reg[r].at # "done"
      /\ reg'[r].payload = reg[r].payload
      /\ reg'[r].row = reg[r].row
      /\ reg'[r].reply # 201
      /\ reg'[r].at # "done" => reg'[r].reply = 0
      /\ reg'[r].at = "insert" => ValidRegistration(reg[r].payload)
      /\ reg'[r].reply = 409 => PhoneTaken(reg[r].payload)
  <2>1. CASE RegisterStart(r)
    BY <1>4, <2>1 DEF RegisterStart, RegStates, RegRecords
  <2>2. CASE RegisterInvalid(r)
    BY <1>4, <2>2 DEF RegisterInvalid, RegReply, RegStates, RegReplies, RegRecords
  <2>3. CASE AccountCollision(r)
    <3>1. CASE reg[r].tries + 1 < MaxInserts
      <4>1. reg' = [reg EXCEPT ![r].tries = @ + 1] /\ reg[r].at = "insert"
        BY <2>3, <3>1 DEF AccountCollision
      <4>2. reg[r].tries + 1 \in 0..(MaxInserts - 1)
        <5>1. reg[r].tries \in 0..(MaxInserts - 1)
          BY <1>4 DEF RegRecords
        <5>2. MaxInserts \in Nat
          BY AuthAssumption
        <5> QED
          BY <3>1, <5>1, <5>2
      <4> QED
        BY <1>4, <4>1, <4>2 DEF RegRecords
    <3>2. CASE ~(reg[r].tries + 1 < MaxInserts)
      <4>1. RegReply(r, 503) /\ reg[r].at = "insert"
        BY <2>3, <3>2 DEF AccountCollision
      <4> QED
        BY <1>4, <4>1 DEF RegReply, RegStates, RegReplies, RegRecords
    <3> QED
      BY <3>1, <3>2
  <2>4. CASE DuplicatePhone(r)
    BY <1>4, <2>4 DEF DuplicatePhone, RegReply, RegStates, RegReplies, RegRecords
  <2>5. CASE RegisterError(r)
    BY <1>4, <2>5 DEF RegisterError, RegReply, RegStates, RegReplies, RegRecords
  <2> QED
    BY <2>1, <2>2, <2>3, <2>4, <2>5
<1>6. TypeOK' /\ BalancesRecorded'
  BY <1>1, <1>5 DEF AuthInv, TypeOK, BalancesRecorded, Ids
<1>7. RegProgress'
  BY <1>4, <1>5 DEF AuthInv, RegProgress
<1>8. RegisterTruthful'
  <2>1. \A p : PhoneTaken(p) => PhoneTaken(p)'
    BY <1>1 DEF PhoneTaken, Ids
  <2>2. ASSUME NEW q \in Registrations, q # r
        PROVE  /\ reg'[q].reply = 201 => reg'[q].row \in Ids' /\ users'[reg'[q].row].phone = reg'[q].payload.phone
               /\ reg'[q].reply \in {400, 409, 503} => reg'[q].row = 0
               /\ reg'[q].reply = 409 => PhoneTaken(reg[q].payload)'
    BY <1>1, <1>5, <2>1, <2>2 DEF AuthInv, RegisterTruthful, Ids
  <2> QED
    BY <1>4, <1>5, <2>1, <2>2 DEF RegisterTruthful
<1> QED
  BY <1>3, <1>6, <1>7, <1>8 DEF AuthInv

(* A step that inserts the row: a fresh id, the phone of the body, 201 or 500. *)
LEMMA InsertKeepsAuthInv ==
  ASSUME AuthInv, NEW r \in Registrations, InsertUser(r) \/ InsertAnswerLost(r)
  PROVE  AuthInv'
<1>1. PICK a \in AccountNumbers : AddRow(r, a)
  BY DEF InsertUser, InsertAnswerLost
<1>2. /\ reg \in [Registrations -> RegRecords]
      /\ reg[r] \in RegRecords
      /\ users \in Seq(UserRows)
      /\ balance \in [Ids -> Nat]
      /\ past \in [Ids -> SUBSET Nat]
      /\ Len(users) \in Nat
      /\ Ids = 1..Len(users)
  BY DEF AuthInv, TypeOK, Ids
<1>3. /\ reg[r].at = "insert"
      /\ UNCHANGED <<phoneKey, nameKey, sessions, login, call>>
  BY DEF InsertUser, InsertAnswerLost
<1> DEFINE p == reg[r].payload
           row == [phone |-> p.phone, username |-> p.username, account |-> a,
                   hash |-> HashPassword(p.password)]
<1>4. row \in UserRows
  <2>1. p \in RegPayloads /\ ValidRegistration(p)
    BY <1>2, <1>3 DEF AuthInv, RegProgress, RegRecords
  <2>2. p.username \in Usernames /\ p.password \in Passwords /\ p.phone \in DigitPhones
    BY <2>1, AuthAssumption DEF ValidRegistration
  <2> HIDE DEF p
  <2> QED
    BY <2>2 DEF UserRows
<1>5. users' = Append(users, row)
  BY <1>1 DEF AddRow
<1>6. /\ users' \in Seq(UserRows)
      /\ Len(users') = Len(users) + 1
      /\ Ids' = 1..(Len(users) + 1)
      /\ \A i \in Ids : users'[i] = users[i]
      /\ users'[Len(users) + 1] = row
  <2> HIDE DEF row
  <2> QED
    BY <1>2, <1>4, <1>5 DEF Ids
<1>7. balance' \in [Ids' -> Nat]
  BY <1>1, <1>2, <1>6, AuthAssumption DEF AddRow
<1>8. past' \in [Ids' -> SUBSET Nat] /\ \A i \in Ids : past'[i] = past[i]
  <2>1. past' = [i \in Ids' |-> IF i \in Ids THEN past[i] ELSE {OpeningBalance}]
    BY <1>1, <1>6 DEF AddRow
  <2>2. {OpeningBalance} \in SUBSET Nat
    BY AuthAssumption
  <2>3. Ids \subseteq Ids'
    BY <1>2, <1>6
  <2> QED
    BY <1>2, <2>1, <2>2, <2>3
<1>9. Grows
  BY <1>2, <1>6, <1>8 DEF Grows
<1>10. CacheGenuine' /\ LoginsGenuine' /\ CallsGenuine' /\ SessionsBelong'
  BY <1>3, <1>9, RegistrationFrame
<1>11. /\ reg' \in [Registrations -> RegRecords]
       /\ \A q \in Registrations \ {r} : reg'[q] = reg[q]
       /\ reg'[r].payload = reg[r].payload
       /\ reg'[r].row = Len(users) + 1
       /\ reg'[r].reply \in {201, 500}
       /\ reg'[r].at = "done"
  <2>1. PICK s \in {201, 500} :
          reg' = [reg EXCEPT ![r].at = "done", ![r].row = Len(users) + 1, ![r].reply = s]
    BY DEF InsertUser, InsertAnswerLost
  <2>2. Len(users) + 1 \in Nat /\ "done" \in RegStates /\ s \in RegReplies
    BY <1>2 DEF RegStates, RegReplies
  <2>3. reg \in [Registrations -> RegRecords]
    BY <1>2
  <2>4. PICK k \in Nat : k = Len(users) + 1
    BY <2>2
  <2>5. reg' = [reg EXCEPT ![r].at = "done", ![r].row = k, ![r].reply = s]
    BY <2>1, <2>4
  <2>6. s \in {201, 500}
    OBVIOUS
  <2>7. /\ reg' \in [Registrations -> RegRecords]
        /\ \A q \in Registrations \ {r} : reg'[q] = reg[q]
        /\ reg'[r].payload = reg[r].payload /\ reg'[r].row = k /\ reg'[r].reply = s /\ reg'[r].at = "done"
    BY <2>2, <2>3, <2>5, RegistrationInserted
  <2> QED
    BY <2>4, <2>6, <2>7
<1>12. TypeOK'
  BY <1>3, <1>6, <1>7, <1>8, <1>11 DEF AuthInv, TypeOK
<1>13. BalancesRecorded'
  <2>1. ASSUME NEW i \in Ids' PROVE balance'[i] \in past'[i]
    BY <1>1, <1>6 DEF AddRow, AuthInv, BalancesRecorded
  <2> QED
    BY <2>1 DEF BalancesRecorded
<1>14. RegProgress'
  BY <1>11 DEF AuthInv, RegProgress
<1>15. RegisterTruthful'
  <2>1. ASSUME NEW q, PhoneTaken(q) PROVE PhoneTaken(q)'
    BY <1>2, <1>6, <2>1 DEF PhoneTaken
  <2>2. ASSUME NEW q \in Registrations, q # r
        PROVE  /\ reg'[q].reply = 201 => reg'[q].row \in Ids' /\ users'[reg'[q].row].phone = reg'[q].payload.phone
               /\ reg'[q].reply \in {400, 409, 503} => reg'[q].row = 0
               /\ reg'[q].reply = 409 => PhoneTaken(reg[q].payload)'
    <3>1. reg'[q] = reg[q]
      BY <1>11, <2>2
    <3>2. /\ reg[q].reply = 201 => reg[q].row \in Ids /\ users[reg[q].row].phone = reg[q].payload.phone
          /\ reg[q].reply \in {400, 409, 503} => reg[q].row = 0
          /\ reg[q].reply = 409 => PhoneTaken(reg[q].payload)
      BY DEF AuthInv, RegisterTruthful
    <3>3. Ids \subseteq Ids'
      BY <1>2, <1>6
    <3>4. reg[q].reply = 409 => PhoneTaken(reg[q].payload)'
      <4>1. PICK pl : pl = reg[q].payload /\ pl = reg'[q].payload
        BY <3>1
      <4> QED
        BY <3>2, <2>1, <4>1 DEF PhoneTaken
    <3>5. \A i \in Ids : users'[i] = users[i]
      BY <1>6
    <3>6. reg'[q].reply = 201 => reg'[q].row \in Ids' /\ users'[reg'[q].row].phone = reg'[q].payload.phone
      <4> HIDE DEF row, p
      <4> QED
        BY <3>1, <3>2, <3>3, <3>5
    <3> QED
      BY <3>1, <3>2, <3>4, <3>6
  <2>3. reg'[r].row \in Ids' /\ users'[reg'[r].row].phone = reg'[r].payload.phone
    BY <1>2, <1>6, <1>11
  <2> QED
    BY <1>11, <2>1, <2>2, <2>3 DEF RegisterTruthful
<1> QED
  BY <1>10, <1>12, <1>13, <1>14, <1>15 DEF AuthInv

-----------------------------------------------------------------------------
(* Logins. *)

(* A step of login l that leaves a genuine copy with it, if any, keeps the   *)
(* rest of the invariant; the cache and the sessions are judged apart.       *)
LEMMA LoginFrame ==
  ASSUME AuthInv, NEW l \in Logins,
         UNCHANGED <<users, balance, past, reg, call>>,
         login' \in [Logins -> LoginRecords],
         \A m \in Logins \ {l} : login'[m] = login[m],
         login'[l].payload = login[l].payload,
         login'[l].at \in {"setPhone", "setName", "verify"} =>
           /\ login'[l].cached # Absent
           /\ GenuineCopy(login'[l].cached)
           /\ Names(login[l].payload, login'[l].cached.user),
         phoneKey' \in [Phones -> CachedUsers \cup {Absent}],
         nameKey' \in [Usernames -> CachedUsers \cup {Absent}],
         sessions' \in [Logins -> Nat],
         CacheGenuine',
         \A m \in Logins : sessions'[m] # 0 /\ sessions'[m] # sessions[m] =>
                             m = l /\ LoggedIn(l, sessions'[m])
  PROVE  AuthInv'
<1>1. Grows
  BY SameTable DEF AuthInv
<1>2. PayloadsKept
  BY DEF PayloadsKept
<1>3. TypeOK' /\ BalancesRecorded'
  BY DEF AuthInv, TypeOK, BalancesRecorded, Ids
<1>4. LoginsGenuine'
  <2>1. ASSUME NEW e, GenuineCopy(e) PROVE GenuineCopy(e)'
    BY <2>1, <1>1 DEF GenuineCopy, Grows, Ids
  <2> QED
    BY <2>1 DEF AuthInv, LoginsGenuine, GenuineCopy, Ids
<1>5. CallsGenuine' /\ RegProgress' /\ RegisterTruthful'
  BY <1>1, KeepCalls, KeepRegistrations
<1>6. SessionsBelong'
  <2>1. ASSUME NEW m \in Logins, sessions'[m] # 0 PROVE LoggedIn(m, sessions[m])'
    <3>1. PICK i : i = sessions'[m]
      OBVIOUS
    <3>2. LoggedIn(m, i)
      BY <2>1, <3>1 DEF AuthInv, SessionsBelong
    <3>3. LoggedIn(m, i)'
      BY <1>1, <1>2, <3>2, KeepLoggedIn
    <3> QED
      BY <3>1, <3>3 DEF LoggedIn
  <2>2. ASSUME NEW c \in Calls, call[c].session # Absent
        PROVE  LoggedIn(call[c].session, call[c].user)'
    BY <1>1, <1>2, <2>2, KeepLoggedIn DEF AuthInv, SessionsBelong, TypeOK, CallRecords
  <2> QED
    BY <2>1, <2>2 DEF SessionsBelong
<1> QED
  BY <1>3, <1>4, <1>5, <1>6 DEF AuthInv

(* A login that only moves on, or ends, with the copy it has. *)
LEMMA LoginMoves ==
  ASSUME AuthInv, NEW l \in Logins,
         UNCHANGED <<users, balance, past, phoneKey, nameKey, sessions, reg, call>>,
         login' \in [Logins -> LoginRecords],
         \A m \in Logins \ {l} : login'[m] = login[m],
         login'[l].payload = login[l].payload,
         login'[l].at \in {"setPhone", "setName", "verify"} =>
           /\ login'[l].cached # Absent
           /\ GenuineCopy(login'[l].cached)
           /\ Names(login[l].payload, login'[l].cached.user)
  PROVE  AuthInv'
<1>1. CacheGenuine'
  BY SameTable, KeepCache DEF AuthInv
<1>2. /\ phoneKey' \in [Phones -> CachedUsers \cup {Absent}]
      /\ nameKey' \in [Usernames -> CachedUsers \cup {Absent}]
      /\ sessions' \in [Logins -> Nat]
  BY DEF AuthInv, TypeOK
<1> QED
  BY <1>1, <1>2, LoginFrame

(* The checks before the cache, the cache, the query and every refusal. *)
LEMMA LoginMovesKeepAuthInv ==
  ASSUME AuthInv, NEW l \in Logins,
         \/ LoginInvalid(l) \/ CacheHit(l) \/ CacheMiss(l) \/ QueryUser(l) \/ UserNotFound(l)
         \/ WrongPassword(l) \/ SetUserCacheFails(l) \/ LoginError(l)
  PROVE  AuthInv'
<1>1. UNCHANGED <<users, balance, past, phoneKey, nameKey, sessions, reg, call>>
  BY DEF LoginInvalid, CacheHit, CacheMiss, QueryUser, UserNotFound, WrongPassword,
         SetUserCacheFails, LoginError, LoginReply
<1>2. login \in [Logins -> LoginRecords] /\ login[l] \in LoginRecords
  BY DEF AuthInv, TypeOK
<1>3. ASSUME NEW s \in LoginReplies, LoginReply(l, s) PROVE AuthInv'
  <2>1. /\ login' \in [Logins -> LoginRecords]
        /\ \A m \in Logins \ {l} : login'[m] = login[m]
        /\ login'[l].payload = login[l].payload
        /\ login'[l].at = "done"
    BY <1>2, <1>3, LoginAnswered DEF LoginReply, LoginStates
  <2> QED
    BY <1>1, <2>1, LoginMoves
<1>4. CASE LoginInvalid(l) \/ UserNotFound(l) \/ WrongPassword(l) \/ LoginError(l)
  BY <1>3, <1>4 DEF LoginInvalid, UserNotFound, WrongPassword, LoginError, LoginReplies
<1>5. CASE CacheHit(l)
  <2> DEFINE e == CacheEntry(login[l].payload)
  <2>1. e \in CachedUsers /\ e # Absent /\ GenuineCopy(e) /\ Names(login[l].payload, e.user)
    <3>1. ValidLogin(login[l].payload) /\ e # Absent
      BY <1>5 DEF CacheHit
    <3>2. login[l].payload.phone \in Phones /\ login[l].payload.username \in Usernames
      <4>1. login[l].payload \in LoginPayloads
        BY <1>2 DEF LoginRecords
      <4> QED
        BY <4>1, AuthAssumption
    <3>3. CASE ByPhone(login[l].payload)
      BY <3>1, <3>2, <3>3 DEF AuthInv, TypeOK, CacheGenuine, CacheEntry, Names
    <3>4. CASE ~ByPhone(login[l].payload)
      BY <3>1, <3>2, <3>4 DEF AuthInv, TypeOK, CacheGenuine, CacheEntry, Names
    <3> QED
      BY <3>3, <3>4
  <2>2. login' = [login EXCEPT ![l].at = "verify", ![l].cached = e]
    BY <1>5 DEF CacheHit
  <2> HIDE DEF e
  <2>3. /\ login' \in [Logins -> LoginRecords]
        /\ \A m \in Logins \ {l} : login'[m] = login[m]
        /\ login'[l].payload = login[l].payload
        /\ login'[l].cached = e
    BY <1>2, <2>1, <2>2, LoginTakesCopy DEF LoginStates
  <2> QED
    BY <1>1, <2>1, <2>3, LoginMoves
<1>6. CASE CacheMiss(l)
  <2>1. /\ login' \in [Logins -> LoginRecords]
        /\ \A m \in Logins \ {l} : login'[m] = login[m]
        /\ login'[l].payload = login[l].payload
        /\ login'[l].at = "query"
    BY <1>2, <1>6 DEF CacheMiss, LoginRecords, LoginStates
  <2> QED
    BY <1>1, <2>1, LoginMoves
<1>7. CASE QueryUser(l)
  <2>1. PICK i \in Ids :
          /\ Names(login[l].payload, users[i])
          /\ login' = [login EXCEPT ![l].at = "setPhone", ![l].cached = CachedUser(i)]
    BY <1>7 DEF QueryUser
  <2>2. /\ CachedUser(i) \in CachedUsers
        /\ GenuineCopy(CachedUser(i))
        /\ CachedUser(i).user = users[i]
    BY DEF AuthInv, TypeOK, BalancesRecorded, CachedUser, CachedUsers, GenuineCopy, Ids
  <2>3. CachedUser(i) # Absent
    BY <2>2, AuthAssumption DEF CachedUsers
  <2>4. /\ login' \in [Logins -> LoginRecords]
        /\ \A m \in Logins \ {l} : login'[m] = login[m]
        /\ login'[l].payload = login[l].payload
        /\ login'[l].cached = CachedUser(i)
    BY <1>2, <2>1, <2>2, LoginTakesCopy DEF LoginStates
  <2> QED
    BY <1>1, <2>1, <2>2, <2>3, <2>4, LoginMoves
<1>8. CASE SetUserCacheFails(l)
  <2>1. /\ login' \in [Logins -> LoginRecords]
        /\ \A m \in Logins \ {l} : login'[m] = login[m]
        /\ login'[l].payload = login[l].payload
        /\ login'[l].cached = login[l].cached
    BY <1>2, <1>8 DEF SetUserCacheFails, LoginRecords, LoginStates
  <2>2. /\ login[l].cached # Absent
        /\ GenuineCopy(login[l].cached)
        /\ Names(login[l].payload, login[l].cached.user)
    BY <1>8 DEF SetUserCacheFails, AuthInv, LoginsGenuine
  <2> QED
    BY <1>1, <2>1, <2>2, LoginMoves
<1> QED
  BY <1>4, <1>5, <1>6, <1>7, <1>8

(* A fill writes a genuine copy under the phone and the username of its row. *)
LEMMA CacheFillsKeepAuthInv ==
  ASSUME AuthInv, NEW l \in Logins, SetPhoneKey(l) \/ SetNameKey(l)
  PROVE  AuthInv'
<1> DEFINE e == login[l].cached
<1>1. login \in [Logins -> LoginRecords] /\ login[l] \in LoginRecords
  BY DEF AuthInv, TypeOK
<1>2. e # Absent /\ GenuineCopy(e) /\ Names(login[l].payload, e.user)
  BY DEF SetPhoneKey, SetNameKey, AuthInv, LoginsGenuine
<1>3. e \in CachedUsers
  BY <1>1, <1>2 DEF LoginRecords
<1>4. e.user.phone \in Phones /\ e.user.username \in Usernames
  <2>1. e.user \in UserRows
    BY <1>3 DEF CachedUsers
  <2>2. e.user.phone \in DigitPhones /\ e.user.username \in Usernames
    BY <2>1 DEF UserRows
  <2> QED
    BY <2>2, AuthAssumption
<1>5. UNCHANGED <<users, balance, past, sessions, reg, call>>
  BY DEF SetPhoneKey, SetNameKey
<1>6. PICK at \in LoginStates : login' = [login EXCEPT ![l].at = at]
  BY DEF SetPhoneKey, SetNameKey, LoginStates
<1>7. /\ login' \in [Logins -> LoginRecords]
      /\ \A m \in Logins \ {l} : login'[m] = login[m]
      /\ login'[l].payload = login[l].payload
      /\ login'[l].cached = e
  BY <1>1, <1>6 DEF LoginRecords
<1>8. /\ phoneKey \in [Phones -> CachedUsers \cup {Absent}]
      /\ nameKey \in [Usernames -> CachedUsers \cup {Absent}]
      /\ sessions' \in [Logins -> Nat]
      /\ CacheGenuine
  BY <1>5 DEF AuthInv, TypeOK
<1>9. ASSUME NEW d, GenuineCopy(d) PROVE GenuineCopy(d)'
  BY <1>5, <1>9 DEF GenuineCopy, Ids
<1>10. /\ phoneKey' \in [Phones -> CachedUsers \cup {Absent}]
       /\ \A q \in Phones : phoneKey'[q] = phoneKey[q] \/ (phoneKey'[q] = e /\ q = e.user.phone)
  <2>1. phoneKey' = phoneKey \/ phoneKey' = [phoneKey EXCEPT ![e.user.phone] = e]
    BY DEF SetPhoneKey, SetNameKey
  <2>2. PICK k : k = e.user.phone
    OBVIOUS
  <2>3. e \in CachedUsers \cup {Absent}
    BY <1>3
  <2> HIDE DEF e
  <2>4. CASE phoneKey' = phoneKey
    BY <1>8, <2>4
  <2>5. CASE phoneKey' = [phoneKey EXCEPT ![k] = e]
    BY <1>4, <1>8, <2>2, <2>3, <2>5
  <2> QED
    BY <2>1, <2>2, <2>4, <2>5
<1>11. /\ nameKey' \in [Usernames -> CachedUsers \cup {Absent}]
       /\ \A n \in Usernames : nameKey'[n] = nameKey[n] \/ (nameKey'[n] = e /\ n = e.user.username)
  <2>1. nameKey' = nameKey \/ nameKey' = [nameKey EXCEPT ![e.user.username] = e]
    BY DEF SetPhoneKey, SetNameKey
  <2>2. PICK k : k = e.user.username
    OBVIOUS
  <2>3. e \in CachedUsers \cup {Absent}
    BY <1>3
  <2> HIDE DEF e
  <2>4. CASE nameKey' = nameKey
    BY <1>8, <2>4
  <2>5. CASE nameKey' = [nameKey EXCEPT ![k] = e]
    BY <1>4, <1>8, <2>2, <2>3, <2>5
  <2> QED
    BY <2>1, <2>2, <2>4, <2>5
<1> HIDE DEF e
<1>12. CacheGenuine'
  BY <1>2, <1>5, <1>8, <1>10, <1>11 DEF CacheGenuine, GenuineCopy, Ids
<1> QED
  BY <1>2, <1>5, <1>7, <1>8, <1>10, <1>11, <1>12, LoginFrame

(* A session is created for the row whose hash matches the password. *)
LEMMA CreateSessionKeepsAuthInv ==
  ASSUME AuthInv, NEW l \in Logins, CreateSession(l)
  PROVE  AuthInv'
<1>1. login \in [Logins -> LoginRecords] /\ login[l] \in LoginRecords
  BY DEF AuthInv, TypeOK
<1>2. /\ login' = [login EXCEPT ![l].at = "done", ![l].reply = 200]
      /\ UNCHANGED <<users, balance, past, phoneKey, nameKey, reg, call>>
      /\ sessions' = [sessions EXCEPT ![l] = login[l].cached.id]
      /\ login[l].at = "verify"
      /\ PasswordMatches(l)
  BY DEF CreateSession, LoginReply
<1>3. /\ login' \in [Logins -> LoginRecords]
      /\ \A m \in Logins \ {l} : login'[m] = login[m]
      /\ login'[l].payload = login[l].payload
      /\ login'[l].at = "done"
  <2>1. "done" \in LoginStates /\ 200 \in LoginReplies
    BY DEF LoginStates, LoginReplies
  <2> QED
    BY <1>1, <1>2, <2>1, LoginAnswered
<1>4. /\ GenuineCopy(login[l].cached)
      /\ Names(login[l].payload, login[l].cached.user)
  BY <1>2 DEF AuthInv, LoginsGenuine
<1>5. LoggedIn(l, login[l].cached.id) /\ login[l].cached.id \in Nat
  BY <1>2, <1>4 DEF PasswordMatches, LoggedIn, GenuineCopy, Ids
<1>6. /\ sessions' \in [Logins -> Nat]
      /\ sessions'[l] = login[l].cached.id
      /\ \A m \in Logins \ {l} : sessions'[m] = sessions[m]
  BY <1>2, <1>5 DEF AuthInv, TypeOK
<1>7. CacheGenuine'
  BY <1>2, SameTable, KeepCache DEF AuthInv
<1>8. /\ phoneKey' \in [Phones -> CachedUsers \cup {Absent}]
      /\ nameKey' \in [Usernames -> CachedUsers \cup {Absent}]
  BY <1>2 DEF AuthInv, TypeOK
<1>9. LoggedIn(l, sessions'[l])
  BY <1>5, <1>6
<1> QED
  BY <1>2, <1>3, <1>6, <1>7, <1>8, <1>9, LoginFrame

-----------------------------------------------------------------------------
(* Calls and expiry. *)

(* A step of call c that leaves the table's rows, the logins and the         *)
(* registrations alone.                                                      *)
LEMMA CallFrame ==
  ASSUME AuthInv, NEW c \in Calls, Grows,
         UNCHANGED <<users, reg, login>>,
         balance' \in [Ids -> Nat], past' \in [Ids -> SUBSET Nat], BalancesRecorded',
         phoneKey' \in [Phones -> CachedUsers \cup {Absent}],
         \A p \in Phones : phoneKey'[p] \in {phoneKey[p], Absent},
         nameKey' = nameKey,
         sessions' \in [Logins -> Nat],
         \A l \in Logins : sessions'[l] \in {sessions[l], 0},
         call' \in [Calls -> CallRecords],
         \A d \in Calls \ {c} : call'[d] = call[d],
         call'[c].at \in {"logout", "transfer", "invalidate"} => call'[c].session \in Logins,
         call'[c].at = "invalidate" => call'[c].peer \in Ids,
         call'[c].session # Absent => LoggedIn(call'[c].session, call'[c].user)
  PROVE  AuthInv'
<1>1. PayloadsKept
  BY DEF PayloadsKept
<1>2. TypeOK'
  BY DEF AuthInv, TypeOK, Ids
<1>3. CacheGenuine'
  BY DEF AuthInv, CacheGenuine, GenuineCopy, Grows, Ids
<1>4. LoginsGenuine' /\ RegProgress' /\ RegisterTruthful'
  BY KeepLogins, KeepRegistrations
<1>5. CallsGenuine'
  BY DEF AuthInv, CallsGenuine, Grows, Ids
<1>6. SessionsBelong'
  <2>1. ASSUME NEW l \in Logins, sessions'[l] # 0 PROVE LoggedIn(l, sessions[l])'
    <3>1. PICK i : i = sessions'[l] /\ i = sessions[l]
      BY <2>1
    <3>2. LoggedIn(l, i)
      BY <2>1, <3>1 DEF AuthInv, SessionsBelong
    <3>3. LoggedIn(l, i)'
      BY <1>1, <3>2, KeepLoggedIn
    <3> QED
      BY <3>1, <3>3 DEF LoggedIn
  <2>2. ASSUME NEW d \in Calls, call'[d].session # Absent
        PROVE  LoggedIn(call[d].session, call[d].user)'
    <3>1. PICK l, i : l = call'[d].session /\ i = call'[d].user
      OBVIOUS
    <3>2. l \in Logins
      BY <2>2, <3>1 DEF CallRecords
    <3>3. LoggedIn(l, i)
      BY <2>2, <3>1 DEF AuthInv, SessionsBelong
    <3>4. LoggedIn(l, i)'
      BY <1>1, <3>2, <3>3, KeepLoggedIn
    <3> QED
      BY <3>1, <3>4 DEF LoggedIn
  <2> QED
    BY <2>1, <2>2 DEF SessionsBelong
<1> QED
  BY <1>2, <1>3, <1>4, <1>5, <1>6 DEF AuthInv

(* A transfer moves money between two users and keeps every past balance. *)
LEMMA CommitKeepsAuthInv ==
  ASSUME AuthInv, NEW c \in Calls, CommitTransfer(c)
  PROVE  AuthInv'
<1>1. PICK to \in Ids \ {call[c].user} :
        /\ balance' = [balance EXCEPT ![call[c].user] = @ - Amount, ![to] = @ + Amount]
        /\ call' = [call EXCEPT ![c].at = "invalidate", ![c].peer = to]
  BY DEF CommitTransfer
<1>2. /\ call[c].at = "transfer"
      /\ balance[call[c].user] >= Amount
      /\ past' = [i \in Ids |-> past[i] \cup {balance'[i]}]
      /\ UNCHANGED <<users, phoneKey, nameKey, sessions, reg, login>>
  BY DEF CommitTransfer
<1>3. /\ call \in [Calls -> CallRecords] /\ call[c] \in CallRecords
      /\ call[c].session \in Logins
      /\ balance \in [Ids -> Nat] /\ past \in [Ids -> SUBSET Nat]
      /\ Len(users) \in Nat
  BY <1>2 DEF AuthInv, TypeOK, CallsGenuine
<1>4. LoggedIn(call[c].session, call[c].user) /\ call[c].user \in Ids
  BY <1>3, AuthAssumption DEF AuthInv, SessionsBelong, LoggedIn
<1>5. balance' \in [Ids -> Nat]
  <2>1. Amount \in Nat
    BY AuthAssumption
  <2>2. PICK i \in Ids : i = call[c].user
    BY <1>4
  <2>3. /\ balance' = [balance EXCEPT ![i] = @ - Amount, ![to] = @ + Amount]
        /\ balance[i] >= Amount
        /\ i # to
    BY <1>1, <1>2, <2>2
  <2>4. balance[i] - Amount \in Nat /\ balance[to] + Amount \in Nat
    BY <1>3, <2>1, <2>3
  <2> QED
    BY <1>3, <2>3, <2>4
<1>6. past' \in [Ids -> SUBSET Nat] /\ \A i \in Ids : past[i] \subseteq past'[i] /\ balance'[i] \in past'[i]
  BY <1>2, <1>3, <1>5
<1>7. Grows /\ BalancesRecorded'
  BY <1>2, <1>3, <1>6 DEF Grows, BalancesRecorded, Ids
<1>8. /\ call' \in [Calls -> CallRecords]
      /\ \A d \in Calls \ {c} : call'[d] = call[d]
      /\ call'[c].session = call[c].session /\ call'[c].user = call[c].user /\ call'[c].peer = to
  <2>1. to \in Nat /\ "invalidate" \in CallStates
    BY <1>3 DEF Ids, CallStates
  <2> QED
    BY <1>1, <1>3, <2>1 DEF CallRecords
<1>9. /\ phoneKey' \in [Phones -> CachedUsers \cup {Absent}]
      /\ sessions' \in [Logins -> Nat]
  BY <1>2 DEF AuthInv, TypeOK
<1>10. /\ \A p \in Phones : phoneKey'[p] \in {phoneKey[p], Absent}
       /\ \A l \in Logins : sessions'[l] \in {sessions[l], 0}
       /\ nameKey' = nameKey
       /\ UNCHANGED <<users, reg, login>>
  BY <1>2
<1>11. /\ call'[c].session \in Logins
       /\ call'[c].peer \in Ids
       /\ LoggedIn(call'[c].session, call'[c].user)
  BY <1>3, <1>4, <1>8
<1>12. past' \in [Ids -> SUBSET Nat]
  BY <1>6
<1>13. /\ call' \in [Calls -> CallRecords]
       /\ \A d \in Calls \ {c} : call'[d] = call[d]
  BY <1>8
<1> QED
  BY <1>5, <1>7, <1>9, <1>10, <1>11, <1>12, <1>13, CallFrame

(* Every other step of a call, and every expiry, forgets entries or sessions. *)
LEMMA CallsKeepAuthInv ==
  ASSUME AuthInv, NEW c \in Calls,
         \/ Authorize(c) \/ Unauthorized(c) \/ DeleteSession(c) \/ DeletePhoneKeys(c)
         \/ DeletePhoneKeysFails(c) \/ CallFails(c)
  PROVE  AuthInv'
<1>1. UNCHANGED <<users, balance, past, nameKey, reg, login>>
  BY DEF Authorize, Unauthorized, DeleteSession, DeletePhoneKeys, DeletePhoneKeysFails, CallFails
<1>2. Grows
  BY <1>1, SameTable DEF AuthInv
<1>3. /\ balance' \in [Ids -> Nat]
      /\ past' \in [Ids -> SUBSET Nat]
      /\ BalancesRecorded'
  BY <1>1 DEF AuthInv, TypeOK, BalancesRecorded, Ids
<1>4. /\ call \in [Calls -> CallRecords] /\ call[c] \in CallRecords
      /\ sessions \in [Logins -> Nat]
      /\ phoneKey \in [Phones -> CachedUsers \cup {Absent}]
  BY DEF AuthInv, TypeOK
<1>5. /\ phoneKey' \in [Phones -> CachedUsers \cup {Absent}]
      /\ \A p \in Phones : phoneKey'[p] \in {phoneKey[p], Absent}
  BY <1>4 DEF Authorize, Unauthorized, DeleteSession, DeletePhoneKeys, DeletePhoneKeysFails, CallFails
<1>6. /\ sessions' \in [Logins -> Nat]
      /\ \A l \in Logins : sessions'[l] \in {sessions[l], 0}
  <2>1. sessions' = sessions \/ sessions' = [sessions EXCEPT ![call[c].session] = 0]
    BY DEF Authorize, Unauthorized, DeleteSession, DeletePhoneKeys, DeletePhoneKeysFails, CallFails
  <2> QED
    BY <1>4, <2>1
<1>7. CASE Authorize(c)
  <2>1. PICK l \in Logins, at \in {"logout", "transfer"} :
          /\ sessions[l] # 0
          /\ call' = [call EXCEPT ![c].at = at, ![c].session = l, ![c].user = sessions[l]]
    BY <1>7 DEF Authorize
  <2>2. LoggedIn(l, sessions[l])
    BY <2>1 DEF AuthInv, SessionsBelong
  <2>3. PICK i \in Nat : i = sessions[l]
    BY <1>4
  <2>4. call' = [call EXCEPT ![c].at = at, ![c].session = l, ![c].user = i]
    BY <2>1, <2>3
  <2>5. at \in CallStates /\ at # "invalidate"
    BY DEF CallStates
  <2>6. /\ call' \in [Calls -> CallRecords]
        /\ \A d \in Calls \ {c} : call'[d] = call[d]
        /\ call'[c].session = l /\ call'[c].user = i /\ call'[c].at = at
    BY <1>4, <2>4, <2>5 DEF CallRecords
  <2>7. LoggedIn(call'[c].session, call'[c].user)
    BY <2>2, <2>3, <2>6
  <2> QED
    BY <1>1, <1>2, <1>3, <1>5, <1>6, <2>5, <2>6, <2>7, CallFrame
<1>8. CASE ~Authorize(c)
  <2>1. call' = [call EXCEPT ![c].at = "done"]
    BY <1>8 DEF Unauthorized, DeleteSession, DeletePhoneKeys, DeletePhoneKeysFails, CallFails
  <2>2. /\ call' \in [Calls -> CallRecords]
        /\ \A d \in Calls \ {c} : call'[d] = call[d]
        /\ call'[c].session = call[c].session /\ call'[c].user = call[c].user /\ call'[c].at = "done"
    BY <1>4, <2>1 DEF CallRecords, CallStates
  <2>3. call'[c].session # Absent => LoggedIn(call'[c].session, call'[c].user)
    BY <2>2 DEF AuthInv, SessionsBelong
  <2> QED
    BY <1>1, <1>2, <1>3, <1>5, <1>6, <2>2, <2>3, CallFrame
<1> QED
  BY <1>7, <1>8

(* A time to live runs out. *)
LEMMA ExpiryKeepsAuthInv ==
  ASSUME AuthInv, Expiry
  PROVE  AuthInv'
<1>1. UNCHANGED <<users, balance, past, reg, login, call>>
  BY DEF Expiry, SessionExpires, PhoneKeyExpires, NameKeyExpires
<1>2. Grows /\ PayloadsKept
  BY <1>1, SameTable DEF AuthInv, PayloadsKept
<1>3. /\ phoneKey' \in [Phones -> CachedUsers \cup {Absent}]
      /\ \A p \in Phones : phoneKey'[p] \in {phoneKey[p], Absent}
  BY DEF AuthInv, TypeOK, Expiry, SessionExpires, PhoneKeyExpires, NameKeyExpires
<1>4. /\ nameKey' \in [Usernames -> CachedUsers \cup {Absent}]
      /\ \A n \in Usernames : nameKey'[n] \in {nameKey[n], Absent}
  BY DEF AuthInv, TypeOK, Expiry, SessionExpires, PhoneKeyExpires, NameKeyExpires
<1>5. /\ sessions' \in [Logins -> Nat]
      /\ \A l \in Logins : sessions'[l] \in {sessions[l], 0}
  <2>1. sessions \in [Logins -> Nat]
    BY DEF AuthInv, TypeOK
  <2>2. sessions' = sessions \/ \E l \in Logins : sessions' = [sessions EXCEPT ![l] = 0]
    BY DEF Expiry, SessionExpires, PhoneKeyExpires, NameKeyExpires
  <2> QED
    BY <2>1, <2>2
<1>6. TypeOK' /\ BalancesRecorded'
  BY <1>1, <1>3, <1>4, <1>5 DEF AuthInv, TypeOK, BalancesRecorded, Ids
<1>7. CacheGenuine'
  BY <1>1, <1>3, <1>4 DEF AuthInv, CacheGenuine, GenuineCopy, Ids
<1>8. LoginsGenuine' /\ CallsGenuine' /\ RegProgress' /\ RegisterTruthful'
  BY <1>1, <1>2, KeepLogins, KeepCalls, KeepRegistrations
<1>9. SessionsBelong'
  <2>1. ASSUME NEW l \in Logins, sessions'[l] # 0 PROVE LoggedIn(l, sessions[l])'
    <3>1. sessions'[l] = sessions[l] /\ LoggedIn(l, sessions[l])
      BY <1>5, <2>1 DEF AuthInv, SessionsBelong
    <3> QED
      BY <1>1, <3>1 DEF LoggedIn, Ids
  <2>2. ASSUME NEW c \in Calls, call[c].session # Absent
        PROVE  LoggedIn(call[c].session, call[c].user)'
    BY <1>1, <2>2 DEF AuthInv, SessionsBelong, LoggedIn, Ids
  <2> QED
    BY <1>1, <2>1, <2>2 DEF SessionsBelong
<1> QED
  BY <1>6, <1>7, <1>8, <1>9 DEF AuthInv

-----------------------------------------------------------------------------
(* AuthInv holds before any request. *)
LEMMA AuthInit ==
  Init => AuthInv
<1> SUFFICES ASSUME Init PROVE AuthInv
  OBVIOUS
<1>1. /\ users = InitialUsers /\ users \in Seq(UserRows)
      /\ Ids = 1..Len(InitialUsers)
  <2>1. InitialUsers \in Seq(UserRows)
    BY AuthAssumption
  <2>2. users = InitialUsers
    BY DEF Init
  <2> QED
    BY <2>1, <2>2 DEF Ids
<1>2. balance \in [Ids -> Nat] /\ past \in [Ids -> SUBSET Nat]
  <2>1. OpeningBalance \in Nat
    BY AuthAssumption
  <2> QED
    BY <1>1, <2>1 DEF Init
<1>3. /\ phoneKey \in [Phones -> CachedUsers \cup {Absent}]
      /\ nameKey \in [Usernames -> CachedUsers \cup {Absent}]
      /\ sessions \in [Logins -> Nat]
  BY DEF Init
<1>4. ASSUME NEW r \in Registrations
      PROVE  /\ reg[r] \in RegRecords
             /\ reg[r].at = "idle" /\ reg[r].row = 0 /\ reg[r].reply = 0
  <2>1. PICK p \in RegPayloads : reg[r] = NewReg(p)
    BY DEF Init
  <2>2. 0 \in 0..(MaxInserts - 1)
    <3>1. MaxInserts \in Nat /\ MaxInserts # 0
      BY AuthAssumption
    <3> QED
      BY <3>1
  <2> QED
    BY <2>1, <2>2 DEF NewReg, RegRecords, RegStates, RegReplies
<1>5. ASSUME NEW l \in Logins
      PROVE  login[l] \in LoginRecords /\ login[l].at = "idle"
  <2>1. PICK p \in LoginPayloads : login[l] = NewLogin(p)
    BY DEF Init
  <2> QED
    BY <2>1 DEF NewLogin, LoginRecords, LoginStates, LoginReplies
<1>6. ASSUME NEW c \in Calls
      PROVE  /\ call[c] \in CallRecords
             /\ call[c].at = "idle" /\ call[c].session = Absent
  BY DEF Init, NewCall, CallRecords, CallStates
<1>7. /\ reg \in [Registrations -> RegRecords]
      /\ login \in [Logins -> LoginRecords]
      /\ call \in [Calls -> CallRecords]
  BY <1>4, <1>5, <1>6 DEF Init
<1>8. TypeOK
  BY <1>1, <1>2, <1>3, <1>7 DEF TypeOK
<1>9. BalancesRecorded
  BY <1>1 DEF Init, BalancesRecorded
<1>10. CacheGenuine /\ LoginsGenuine
  BY <1>5 DEF Init, CacheGenuine, LoginsGenuine
<1>11. CallsGenuine /\ SessionsBelong
  BY <1>6 DEF Init, CallsGenuine, SessionsBelong
<1>12. RegProgress /\ RegisterTruthful
  BY <1>4 DEF RegProgress, RegisterTruthful
<1> QED
  BY <1>8, <1>9, <1>10, <1>11, <1>12 DEF AuthInv

(* Stuttering keeps it. *)
LEMMA StutterKeepsAuthInv ==
  ASSUME AuthInv, UNCHANGED vars
  PROVE  AuthInv'
<1>1. Grows /\ PayloadsKept
  BY SameTable DEF vars, AuthInv, PayloadsKept
<1>2. TypeOK' /\ BalancesRecorded'
  BY DEF vars, AuthInv, TypeOK, BalancesRecorded, Ids
<1> QED
  BY <1>1, <1>2, KeepCache, KeepLogins, KeepCalls, KeepSessions, KeepRegistrations DEF vars, AuthInv

(* Every step of auth-service, of the calls behind RequireSession and of     *)
(* Redis keeps AuthInv.                                                      *)
LEMMA AuthStep ==
  AuthInv /\ [Next]_vars => AuthInv'
<1> SUFFICES ASSUME AuthInv, [Next]_vars PROVE AuthInv'
  OBVIOUS
<1>1. ASSUME NEW r \in Registrations, RegStep(r) PROVE AuthInv'
  BY <1>1, NoInsertKeepsAuthInv, InsertKeepsAuthInv DEF RegStep
<1>2. ASSUME NEW l \in Logins, LoginStep(l) PROVE AuthInv'
  BY <1>2, LoginMovesKeepAuthInv, CacheFillsKeepAuthInv, CreateSessionKeepsAuthInv DEF LoginStep
<1>3. ASSUME NEW c \in Calls, Authorize(c) \/ Unauthorized(c) \/ CallStep(c) PROVE AuthInv'
  BY <1>3, CallsKeepAuthInv, CommitKeepsAuthInv DEF CallStep
<1>4. CASE Fault
  BY <1>4, NoInsertKeepsAuthInv, InsertKeepsAuthInv, LoginMovesKeepAuthInv, CallsKeepAuthInv DEF Fault
<1>5. CASE UNCHANGED vars
  BY <1>5, StutterKeepsAuthInv
<1> QED
  BY <1>1, <1>2, <1>3, <1>4, <1>5, ExpiryKeepsAuthInv DEF Next

(* For any number of users, registrations, logins, sessions and calls, with  *)
(* failures and expiries at any point, AuthInv holds.                        *)
THEOREM AuthInvariance ==
  Spec => []AuthInv
BY AuthInit, AuthStep, PTL DEF Spec

(* handleLogin and SetUserCache: the entry under a phone or a username is a  *)
(* copy of a row with that phone or username and a balance its user had.     *)
THEOREM CacheNeverConfusesUsers ==
  Spec => []CacheGenuine
<1>1. AuthInv => CacheGenuine
  BY DEF AuthInv
<1> QED
  BY <1>1, AuthInvariance, PTL

(* CreateSession and RequireSession: a session, and a call made with it, is  *)
(* of a user the login named and gave the password of.                       *)
THEOREM SessionsBelongToTheirUser ==
  Spec => []SessionsBelong
<1>1. AuthInv => SessionsBelong
  BY DEF AuthInv
<1> QED
  BY <1>1, AuthInvariance, PTL

(* handleRegister: 201 is for a row of this request, and 400, 409 and 503    *)
(* mean that this request inserted none.                                     *)
THEOREM RegistrationsAreTruthful ==
  Spec => []RegisterTruthful
<1>1. AuthInv => RegisterTruthful
  BY DEF AuthInv
<1> QED
  BY <1>1, AuthInvariance, PTL

(* handleRegister, handleLogin and the cache and session helpers keep every *)
(* request, row, entry and session well formed.                             *)
THEOREM AuthTypes ==
  Spec => []TypeOK
<1>1. AuthInv => TypeOK
  BY DEF AuthInv
<1> QED
  BY <1>1, AuthInvariance, PTL
==============================================================================
