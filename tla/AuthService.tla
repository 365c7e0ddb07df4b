----------------------------- MODULE AuthService -----------------------------
(***************************************************************************)
(* auth-service: registration, login through the two keys of the user      *)
(* cache, sessions and logout; and the session-protected calls that use    *)
(* what a login leaves behind (RequireSession).  The one call that touches *)
(* the cache is a transfer, whose post-commit pipeline deletes the phone   *)
(* keys of both parties.                                                   *)
(*                                                                         *)
(* Every request runs on a goroutine of its own: each Redis command and    *)
(* each SQL statement is a step.                                           *)
(***************************************************************************)
EXTENDS Integers, Sequences, FiniteSets

CONSTANTS Phones,           \* phone strings, "" included
          DigitPhones,      \* those isDigits accepts
          Usernames,        \* username strings, "" included
          Passwords,
          AccountNumbers,   \* what randomDigits(12) can return
          OpeningBalance,   \* DEFAULT of users.balance
          Amount,           \* the amount every transfer moves
          Registrations, Logins, Calls,   \* requests
          RegPayloads, LoginPayloads,     \* bodies of the first two
          InitialUsers,     \* rows already in the users table
          MaxInserts,       \* maxAttempts of handleRegister
          MaxInFlight,      \* bound: requests being served at once
          Faults,           \* TRUE when Redis and PostgreSQL may fail
          Absent            \* a key Redis does not have

HashPassword(pw) == [bcrypt |-> pw]
VerifyPassword(pw, hash) == hash = HashPassword(pw)

UserRows == [phone: DigitPhones, username: Usernames, account: AccountNumbers,
             hash: {HashPassword(pw) : pw \in Passwords}]

ASSUME AuthAssumption ==
  /\ DigitPhones \subseteq Phones \ {""}
  /\ OpeningBalance \in Nat
  /\ Amount \in Nat \ {0}
  /\ RegPayloads \subseteq [wellFormed: BOOLEAN, phone: Phones, username: Usernames, password: Passwords]
  /\ LoginPayloads \subseteq [wellFormed: BOOLEAN, phone: Phones, username: Usernames, password: Passwords]
  /\ InitialUsers \in Seq(UserRows)
  /\ \A i, j \in 1..Len(InitialUsers) :
        \/ InitialUsers[i].phone = InitialUsers[j].phone
        \/ InitialUsers[i].account = InitialUsers[j].account
        => i = j
  /\ MaxInserts \in Nat \ {0}
  /\ MaxInFlight \in Nat \ {0}
  /\ Faults \in BOOLEAN
  /\ Absent \notin [id: Nat, user: UserRows, balance: Nat] \cup Logins

VARIABLES
  users,      \* rows of the users table: users[i] has id i
  balance,    \* their balance column
  past,       \* every balance each user has had (history variable)
  phoneKey,   \* user_cache:phone:*
  nameKey,    \* user_cache:username:*
  sessions,   \* session:* by the login that created it; 0 when there is none
  reg,        \* progress of each registration
  login,      \* progress of each login
  call        \* progress of each session-protected call

vars == <<users, balance, past, phoneKey, nameKey, sessions, reg, login, call>>

-----------------------------------------------------------------------------
Ids == 1..Len(users)

(* CachedUser: a row as it was when it was read. *)
CachedUsers == [id: Nat, user: UserRows, balance: Nat]
CachedUser(i) == [id |-> i, user |-> users[i], balance |-> balance[i]]

RegStates   == {"idle", "insert", "done"}
LoginStates == {"idle", "query", "setPhone", "setName", "verify", "done"}
CallStates  == {"idle", "logout", "transfer", "invalidate", "done"}

NewReg(p)   == [at |-> "idle", payload |-> p, tries |-> 0, row |-> 0, reply |-> 0]
NewLogin(p) == [at |-> "idle", payload |-> p, cached |-> Absent, reply |-> 0]
NewCall     == [at |-> "idle", session |-> Absent, user |-> 0, peer |-> 0]

Init ==
  /\ users = InitialUsers
  /\ balance = [i \in 1..Len(InitialUsers) |-> OpeningBalance]
  /\ past = [i \in 1..Len(InitialUsers) |-> {OpeningBalance}]
  /\ phoneKey = [p \in Phones |-> Absent]
  /\ nameKey = [n \in Usernames |-> Absent]
  /\ sessions = [l \in Logins |-> 0]
  /\ reg \in [Registrations -> {NewReg(p) : p \in RegPayloads}]
  /\ login \in [Logins -> {NewLogin(p) : p \in LoginPayloads}]
  /\ call = [c \in Calls |-> NewCall]

Active == {r \in Registrations : reg[r].at = "insert"}
          \cup {l \in Logins : login[l].at \notin {"idle", "done"}}
          \cup {c \in Calls : call[c].at \notin {"idle", "done"}}

MayStart == Cardinality(Active) < MaxInFlight

-----------------------------------------------------------------------------
(* handleRegister. *)

RegReply(r, status) ==
  /\ reg' = [reg EXCEPT ![r].at = "done", ![r].reply = status]
  /\ UNCHANGED <<phoneKey, nameKey, sessions, login, call>>

ValidRegistration(p) == p.wellFormed /\ p.phone \in DigitPhones

RegisterStart(r) ==
  /\ reg[r].at = "idle"
  /\ MayStart
  /\ ValidRegistration(reg[r].payload)
  /\ reg' = [reg EXCEPT ![r].at = "insert"]
  /\ UNCHANGED <<users, balance, past, phoneKey, nameKey, sessions, login, call>>

RegisterInvalid(r) ==
  /\ reg[r].at = "idle"
  /\ ~ValidRegistration(reg[r].payload)
  /\ RegReply(r, 400)
  /\ UNCHANGED <<users, balance, past>>

PhoneTaken(p)   == \E i \in Ids : users[i].phone = p.phone
AccountTaken(a) == \E i \in Ids : users[i].account = a

AddRow(r, a) ==
  LET p == reg[r].payload IN
  /\ ~AccountTaken(a)
  /\ ~PhoneTaken(p)
  /\ users' = Append(users, [phone |-> p.phone, username |-> p.username, account |-> a,
                             hash |-> HashPassword(p.password)])
  /\ balance' = [i \in 1..(Len(users) + 1) |-> IF i \in Ids THEN balance[i] ELSE OpeningBalance]
  /\ past' = [i \in 1..(Len(users) + 1) |-> IF i \in Ids THEN past[i] ELSE {OpeningBalance}]

(* INSERT ... ON CONFLICT (account_number) DO NOTHING with a random number. *)
InsertUser(r) ==
  /\ reg[r].at = "insert"
  /\ \E a \in AccountNumbers : AddRow(r, a)
  /\ reg' = [reg EXCEPT ![r].at = "done", ![r].row = Len(users) + 1, ![r].reply = 201]
  /\ UNCHANGED <<phoneKey, nameKey, sessions, login, call>>

(* Mutant: the loop starts over when its attempts are used up. *)
AccountCollision_StartsOver(r) ==
  /\ reg[r].at = "insert"
  /\ \E a \in AccountNumbers : AccountTaken(a)
  /\ reg' = [reg EXCEPT ![r].tries = (@ + 1) % MaxInserts]
  /\ UNCHANGED <<users, balance, past, phoneKey, nameKey, sessions, login, call>>

(* Mutant: off by one, the loop makes one attempt too many. *)
AccountCollision_OneMore(r) ==
  /\ reg[r].at = "insert"
  /\ \E a \in AccountNumbers : AccountTaken(a)
  /\ IF reg[r].tries + 1 <= MaxInserts
       THEN /\ reg' = [reg EXCEPT ![r].tries = @ + 1]
            /\ UNCHANGED <<phoneKey, nameKey, sessions, login, call>>
       ELSE RegReply(r, 503)
  /\ UNCHANGED <<users, balance, past>>

(* The number is taken, whether or not the phone is: no row is returned,    *)
(* and the loop goes on until its attempts are used up.                     *)
AccountCollision(r) ==
  /\ reg[r].at = "insert"
  /\ \E a \in AccountNumbers : AccountTaken(a)
  /\ IF reg[r].tries + 1 < MaxInserts
       THEN /\ reg' = [reg EXCEPT ![r].tries = @ + 1]
            /\ UNCHANGED <<phoneKey, nameKey, sessions, login, call>>
       ELSE RegReply(r, 503)
  /\ UNCHANGED <<users, balance, past>>

(* 23505 on the phone. *)
DuplicatePhone(r) ==
  /\ reg[r].at = "insert"
  /\ PhoneTaken(reg[r].payload)
  /\ \E a \in AccountNumbers : ~AccountTaken(a)
  /\ RegReply(r, 409)
  /\ UNCHANGED <<users, balance, past>>

(* Mutant: after a lost answer the loop tries again. *)
InsertAnswerLost_Retried(r) ==
  /\ Faults
  /\ reg[r].at = "insert"
  /\ \E a \in AccountNumbers : AddRow(r, a)
  /\ reg' = [reg EXCEPT ![r].row = Len(users) + 1]
  /\ UNCHANGED <<phoneKey, nameKey, sessions, login, call>>

(* The row is inserted but the answer is lost: an error, not retried. *)
InsertAnswerLost(r) ==
  /\ Faults
  /\ reg[r].at = "insert"
  /\ \E a \in AccountNumbers : AddRow(r, a)
  /\ reg' = [reg EXCEPT ![r].at = "done", ![r].row = Len(users) + 1, ![r].reply = 500]
  /\ UNCHANGED <<phoneKey, nameKey, sessions, login, call>>

(* HashPassword or the INSERT fails (a password or a name that is too long, *)
(* no connection).                                                          *)
RegisterError(r) ==
  /\ reg[r].at = "insert"
  /\ RegReply(r, 500)
  /\ UNCHANGED <<users, balance, past>>

-----------------------------------------------------------------------------
(* handleLogin. *)

LoginReply(l, status) ==
  /\ login' = [login EXCEPT ![l].at = "done", ![l].reply = status]
  /\ UNCHANGED <<users, balance, past, phoneKey, nameKey, reg, call>>

ByPhone(p) == p.phone # ""
ValidLogin(p) ==
  /\ p.wellFormed
  /\ p.phone # "" \/ p.username # ""
  /\ ByPhone(p) => p.phone \in DigitPhones

LoginInvalid(l) ==
  /\ login[l].at = "idle"
  /\ ~ValidLogin(login[l].payload)
  /\ LoginReply(l, 400)
  /\ UNCHANGED sessions

CacheEntry(p) == IF ByPhone(p) THEN phoneKey[p.phone] ELSE nameKey[p.username]

(* The row the identifier names: phones are unique, usernames are not. *)
Names(p, row) == IF ByPhone(p) THEN row.phone = p.phone ELSE row.username = p.username

CacheHit(l) ==
  /\ login[l].at = "idle"
  /\ MayStart
  /\ ValidLogin(login[l].payload)
  /\ CacheEntry(login[l].payload) # Absent
  /\ login' = [login EXCEPT ![l].at = "verify", ![l].cached = CacheEntry(login[l].payload)]
  /\ UNCHANGED <<users, balance, past, phoneKey, nameKey, sessions, reg, call>>

CacheMiss(l) ==
  /\ login[l].at = "idle"
  /\ MayStart
  /\ ValidLogin(login[l].payload)
  /\ CacheEntry(login[l].payload) = Absent
  /\ login' = [login EXCEPT ![l].at = "query"]
  /\ UNCHANGED <<users, balance, past, phoneKey, nameKey, sessions, reg, call>>

QueryUser(l) ==
  /\ login[l].at = "query"
  /\ \E i \in Ids :
       /\ Names(login[l].payload, users[i])
       /\ login' = [login EXCEPT ![l].at = "setPhone", ![l].cached = CachedUser(i)]
  /\ UNCHANGED <<users, balance, past, phoneKey, nameKey, sessions, reg, call>>

UserNotFound(l) ==
  /\ login[l].at = "query"
  /\ \A i \in Ids : ~Names(login[l].payload, users[i])
  /\ LoginReply(l, 401)
  /\ UNCHANGED sessions

(* Mutant: the key is the phone the caller typed, empty in a login by name. *)
SetPhoneKey_FromPayload(l) ==
  /\ login[l].at = "setPhone"
  /\ phoneKey' = [phoneKey EXCEPT ![login[l].payload.phone] = login[l].cached]
  /\ login' = [login EXCEPT ![l].at = "setName"]
  /\ UNCHANGED <<users, balance, past, nameKey, sessions, reg, call>>

(* SetUserCache: two SET commands, the second only for a non-empty name. *)
SetPhoneKey(l) ==
  LET u == login[l].cached.user IN
  /\ login[l].at = "setPhone"
  /\ phoneKey' = [phoneKey EXCEPT ![u.phone] = login[l].cached]
  /\ login' = [login EXCEPT ![l].at = IF u.username # "" THEN "setName" ELSE "verify"]
  /\ UNCHANGED <<users, balance, past, nameKey, sessions, reg, call>>

SetNameKey(l) ==
  /\ login[l].at = "setName"
  /\ nameKey' = [nameKey EXCEPT ![login[l].cached.user.username] = login[l].cached]
  /\ login' = [login EXCEPT ![l].at = "verify"]
  /\ UNCHANGED <<users, balance, past, phoneKey, sessions, reg, call>>

(* SetUserCache fails and returns; the login goes on. *)
SetUserCacheFails(l) ==
  /\ Faults
  /\ login[l].at \in {"setPhone", "setName"}
  /\ login' = [login EXCEPT ![l].at = "verify"]
  /\ UNCHANGED <<users, balance, past, phoneKey, nameKey, sessions, reg, call>>

(* Mutant: the check of the password is missing. *)
PasswordMatches_Any(l) == login[l].cached # Absent

PasswordMatches(l) == VerifyPassword(login[l].payload.password, login[l].cached.user.hash)

WrongPassword(l) ==
  /\ login[l].at = "verify"
  /\ ~PasswordMatches(l)
  /\ LoginReply(l, 401)
  /\ UNCHANGED sessions

CreateSession(l) ==
  /\ login[l].at = "verify"
  /\ PasswordMatches(l)
  /\ sessions' = [sessions EXCEPT ![l] = login[l].cached.id]
  /\ LoginReply(l, 200)

(* GetUserCache, QueryUser or CreateSession fails. *)
LoginError(l) ==
  /\ Faults
  /\ \/ login[l].at = "idle" /\ ValidLogin(login[l].payload)
     \/ login[l].at = "query"
     \/ login[l].at = "verify" /\ PasswordMatches(l)
  /\ LoginReply(l, 500)
  /\ UNCHANGED sessions

-----------------------------------------------------------------------------
(* Calls behind RequireSession. *)

(* The session's user goes into the context: from here on the call is theirs, *)
(* even if the session ends meanwhile.                                        *)
Authorize(c) ==
  /\ call[c].at = "idle"
  /\ MayStart
  /\ \E l \in Logins, at \in {"logout", "transfer"} :
       /\ sessions[l] # 0
       /\ call' = [call EXCEPT ![c].at = at, ![c].session = l, ![c].user = sessions[l]]
  /\ UNCHANGED <<users, balance, past, phoneKey, nameKey, sessions, reg, login>>

(* No such session, or Redis does not answer. *)
Unauthorized(c) ==
  /\ call[c].at = "idle"
  /\ call' = [call EXCEPT ![c].at = "done"]
  /\ UNCHANGED <<users, balance, past, phoneKey, nameKey, sessions, reg, login>>

(* handleLogout. *)
DeleteSession(c) ==
  /\ call[c].at = "logout"
  /\ sessions' = [sessions EXCEPT ![call[c].session] = 0]
  /\ call' = [call EXCEPT ![c].at = "done"]
  /\ UNCHANGED <<users, balance, past, phoneKey, nameKey, reg, login>>

(* handleTransfer commits: one step of the account book (module Ledger). *)
CommitTransfer(c) ==
  LET from == call[c].user IN
  /\ call[c].at = "transfer"
  /\ balance[from] >= Amount
  /\ \E to \in Ids \ {from} :
       /\ balance' = [balance EXCEPT ![from] = @ - Amount, ![to] = @ + Amount]
       /\ call' = [call EXCEPT ![c].at = "invalidate", ![c].peer = to]
  /\ past' = [i \in Ids |-> past[i] \cup {balance'[i]}]
  /\ UNCHANGED <<users, phoneKey, nameKey, sessions, reg, login>>

PartyPhones(c) == {users[call[c].user].phone, users[call[c].peer].phone}

(* The DEL command of PublishTransferCompleted. *)
DeletePhoneKeys(c) ==
  /\ call[c].at = "invalidate"
  /\ phoneKey' = [p \in Phones |-> IF p \in PartyPhones(c) THEN Absent ELSE phoneKey[p]]
  /\ call' = [call EXCEPT ![c].at = "done"]
  /\ UNCHANGED <<users, balance, past, nameKey, sessions, reg, login>>

(* The pipeline fails and the transfer succeeds all the same. *)
DeletePhoneKeysFails(c) ==
  /\ Faults
  /\ call[c].at = "invalidate"
  /\ call' = [call EXCEPT ![c].at = "done"]
  /\ UNCHANGED <<users, balance, past, phoneKey, nameKey, sessions, reg, login>>

(* The transfer is refused or fails (module TransferTx), or DeleteSession does. *)
CallFails(c) ==
  /\ \/ call[c].at = "transfer"
     \/ Faults /\ call[c].at = "logout"
  /\ call' = [call EXCEPT ![c].at = "done"]
  /\ UNCHANGED <<users, balance, past, phoneKey, nameKey, sessions, reg, login>>

-----------------------------------------------------------------------------
(* SESSION_TTL_SECONDS and USER_CACHE_TTL_SECONDS. *)
SessionExpires(l) ==
  /\ sessions[l] # 0
  /\ sessions' = [sessions EXCEPT ![l] = 0]
  /\ UNCHANGED <<users, balance, past, phoneKey, nameKey, reg, login, call>>

PhoneKeyExpires(p) ==
  /\ phoneKey[p] # Absent
  /\ phoneKey' = [phoneKey EXCEPT ![p] = Absent]
  /\ UNCHANGED <<users, balance, past, nameKey, sessions, reg, login, call>>

NameKeyExpires(n) ==
  /\ nameKey[n] # Absent
  /\ nameKey' = [nameKey EXCEPT ![n] = Absent]
  /\ UNCHANGED <<users, balance, past, phoneKey, sessions, reg, login, call>>

-----------------------------------------------------------------------------
RegStep(r) ==
  \/ RegisterStart(r) \/ RegisterInvalid(r)
  \/ InsertUser(r) \/ AccountCollision(r) \/ DuplicatePhone(r)

LoginStep(l) ==
  \/ LoginInvalid(l) \/ CacheHit(l) \/ CacheMiss(l) \/ QueryUser(l) \/ UserNotFound(l)
  \/ SetPhoneKey(l) \/ SetNameKey(l) \/ WrongPassword(l) \/ CreateSession(l)

CallStep(c) == DeleteSession(c) \/ CommitTransfer(c) \/ DeletePhoneKeys(c) \/ CallFails(c)

Fault ==
  \/ \E r \in Registrations : InsertAnswerLost(r) \/ RegisterError(r)
  \/ \E l \in Logins : SetUserCacheFails(l) \/ LoginError(l)
  \/ \E c \in Calls : DeletePhoneKeysFails(c)

Expiry ==
  \/ \E l \in Logins : SessionExpires(l)
  \/ \E p \in Phones : PhoneKeyExpires(p)
  \/ \E n \in Usernames : NameKeyExpires(n)

Next ==
  \/ \E r \in Registrations : RegStep(r)
  \/ \E l \in Logins : LoginStep(l)
  \/ \E c \in Calls : Authorize(c) \/ Unauthorized(c) \/ CallStep(c)
  \/ Fault
  \/ Expiry

Spec == Init /\ [][Next]_vars

(* Every handler that has started keeps running, and so does every request  *)
(* that has arrived.                                                        *)
FairSpec ==
  /\ Spec
  /\ \A r \in Registrations : WF_vars(RegStep(r))
  /\ \A l \in Logins : WF_vars(LoginStep(l))
  /\ \A c \in Calls : WF_vars(CallStep(c))

-----------------------------------------------------------------------------
RegReplies   == {0, 201, 400, 409, 500, 503}
LoginReplies == {0, 200, 400, 401, 500}
RegRecords   == [at: RegStates, payload: RegPayloads, tries: 0..(MaxInserts - 1), row: Nat,
                 reply: RegReplies]
LoginRecords == [at: LoginStates, payload: LoginPayloads, cached: CachedUsers \cup {Absent},
                 reply: LoginReplies]
CallRecords  == [at: CallStates, session: Logins \cup {Absent}, user: Nat, peer: Nat]

TypeOK ==
  /\ users \in Seq(UserRows)
  /\ balance \in [Ids -> Nat]
  /\ past \in [Ids -> SUBSET Nat]
  /\ phoneKey \in [Phones -> CachedUsers \cup {Absent}]
  /\ nameKey \in [Usernames -> CachedUsers \cup {Absent}]
  /\ sessions \in [Logins -> Nat]
  /\ reg \in [Registrations -> RegRecords]
  /\ login \in [Logins -> LoginRecords]
  /\ call \in [Calls -> CallRecords]

(* A copy of a row is that row, with a balance the user really had. *)
GenuineCopy(e) ==
  /\ e.id \in Ids
  /\ e.user = users[e.id]
  /\ e.balance \in past[e.id]

(* The cache never confuses users: whatever fills, expiries and deletions   *)
(* interleave, the entry under a phone or a username is a copy of a row     *)
(* with that phone or username, with a balance that user really had.        *)
CacheGenuine ==
  /\ \A p \in Phones : phoneKey[p] # Absent => GenuineCopy(phoneKey[p]) /\ phoneKey[p].user.phone = p
  /\ \A n \in Usernames : nameKey[n] # Absent => GenuineCopy(nameKey[n]) /\ nameKey[n].user.username = n

(* i is a user the login named, with the password it gave. *)
LoggedIn(l, i) ==
  /\ i \in Ids
  /\ Names(login[l].payload, users[i])
  /\ VerifyPassword(login[l].payload.password, users[i].hash)

(* A session, and every call made with it, belongs to a user whose phone or *)
(* username and password the login gave, also when the row came from the    *)
(* cache.                                                                   *)
SessionsBelong ==
  /\ \A l \in Logins : sessions[l] # 0 => LoggedIn(l, sessions[l])
  /\ \A c \in Calls : call[c].session # Absent => LoggedIn(call[c].session, call[c].user)

(* A login that has a row holds a genuine copy of one its identifier names. *)
LoginsGenuine ==
  \A l \in Logins : login[l].at \in {"setPhone", "setName", "verify"} =>
    /\ login[l].cached # Absent
    /\ GenuineCopy(login[l].cached)
    /\ Names(login[l].payload, login[l].cached.user)

(* The history holds the balance of every row. *)
BalancesRecorded == \A i \in Ids : balance[i] \in past[i]

(* A call past RequireSession knows its session, and a transfer its parties. *)
CallsGenuine ==
  \A c \in Calls :
    /\ call[c].at \in {"logout", "transfer", "invalidate"} => call[c].session \in Logins
    /\ call[c].at = "invalidate" => call[c].peer \in Ids

(* The reply to a registration tells the truth: 201 for the row this        *)
(* request inserted, and 400, 409 or 503 only if it inserted none, so that  *)
(* "phone already registered" never refers to the request itself.           *)
RegisterTruthful ==
  \A r \in Registrations :
    /\ reg[r].reply = 201 => reg[r].row \in Ids /\ users[reg[r].row].phone = reg[r].payload.phone
    /\ reg[r].reply \in {400, 409, 503} => reg[r].row = 0
    /\ reg[r].reply = 409 => PhoneTaken(reg[r].payload)

(* A registration that is not finished has inserted nothing, and one that    *)
(* inserts has passed the checks of its body.                               *)
RegProgress ==
  \A r \in Registrations :
    /\ reg[r].at # "done" => reg[r].row = 0 /\ reg[r].reply = 0
    /\ reg[r].at = "insert" => ValidRegistration(reg[r].payload)

(* The inductive invariant behind CacheGenuine, SessionsBelong and          *)
(* RegisterTruthful: no step of any registration, login or call, failed or  *)
(* not, and no expiry leaves it.                                            *)
AuthInv ==
  /\ TypeOK
  /\ BalancesRecorded
  /\ CacheGenuine
  /\ LoginsGenuine
  /\ CallsGenuine
  /\ SessionsBelong
  /\ RegProgress
  /\ RegisterTruthful

(* No transfer waits for its invalidation and no login for its fill. *)
Quiet == Active = {}

(* Once nothing is under way the entry under a phone shows the user's       *)
(* balance ("the fix eliminates the window").                               *)
PhoneKeysFresh ==
  Quiet => \A p \in Phones : phoneKey[p] # Absent => phoneKey[p].balance = balance[phoneKey[p].id]

(* Every registration and every login is answered, and so is every call     *)
(* that got past RequireSession.                                            *)
RequestsAnswered ==
  /\ \A r \in Registrations : <>(reg[r].at = "done")
  /\ \A l \in Logins : <>(login[l].at = "done")
  /\ \A c \in Calls : (call[c].at # "idle") ~> (call[c].at = "done")
==============================================================================
