---------------------------- MODULE AdminQueries ----------------------------
(***************************************************************************)
(* The queries of account-service's admin pages against tables that grow   *)
(* meanwhile.  Each statement of a handler is a step with a snapshot of    *)
(* its own: the list handlers run outside any transaction, and the         *)
(* statistics run in one whose isolation level is PostgreSQL's default,    *)
(* READ COMMITTED.                                                         *)
(*                                                                         *)
(* An administrator asks for the statistics, or turns the pages of one     *)
(* list from the first to the last one the replies announce.  "base",      *)
(* "seen" and "late" are history: what the list held when it was opened,   *)
(* what was shown of it, and whether rows were committed between the COUNT *)
(* and the SELECT of the current request.  Amounts and balances are the    *)
(* subject of Ledger; here rows are only counted and listed.               *)
(***************************************************************************)
EXTENDS Integers, FiniteSets

CONSTANTS UserIds, TransferIds, NotificationIds,  \* what the sequences hand out
          InitialUsers,   \* rows of users at the start
          Matching,       \* users whose name, phone or account match the search
          Admins,         \* administrators, each with one page open
          AskedSizes,     \* the "size" they ask for; 0 is whatever Atoi refuses
          MaxSize, DefaultSize, MaxPage   \* 100, 20 and maxPage (200)

ASSUME AdminAssumption ==
  /\ \A ids \in {UserIds, TransferIds, NotificationIds} : ids \subseteq Nat /\ IsFiniteSet(ids)
  /\ InitialUsers \subseteq UserIds
  /\ AskedSizes \subseteq Int
  /\ MaxSize \in Nat
  /\ DefaultSize \in Nat \ {0}
  /\ MaxPage \in Nat \ {0}

VARIABLES rows,    \* committed ids of each table
          sides,   \* transfers.from_user and to_user
          at, list, want, size, total, got, named,  \* the request in progress, per administrator
          base, seen, late,
          stats    \* the counts of a statistics request

tables == <<rows, sides>>
walk   == <<at, list, want, size, total, got, named, base, seen, late>>
vars   == <<tables, walk, stats>>

Tables == {"users", "transfers", "notifications"}
Lists  == Tables \cup {"search"}
Stages == {"closed", "guard", "select", "count", "names", "reply", "done", "failed",
           "stats users", "stats transfers", "stats notifications", "stats done"}

-----------------------------------------------------------------------------
(* Mutant: a size of zero is accepted. *)
PageSize_Zero(asked) == IF asked >= 0 /\ asked <= MaxSize THEN asked ELSE DefaultSize

(* paginate: an unusable size means the default, a page is at most MaxPage. *)
PageSize(asked) == IF asked > 0 /\ asked <= MaxSize THEN asked ELSE DefaultSize
PageNumber(asked) ==
  LET page == IF asked > 0 THEN asked ELSE 1
  IN  IF page > MaxPage THEN MaxPage ELSE page

(* The rows a list is about: the WHERE clause of a search, or all of them. *)
Table(k) == IF k = "search" THEN rows["users"] \cap Matching ELSE rows[k]

(* The place of x in T ORDER BY id DESC, and LIMIT n OFFSET o over that order. *)
Place(x, T) == Cardinality({y \in T : y >= x})
Page(T, o, n) == {x \in T : o < Place(x, T) /\ Place(x, T) <= o + n}

(* Mutant: the first page is taken for page 0. *)
Offset_ZeroBased(a) == PageNumber(want[a]) * size[a]

Offset(a) == (PageNumber(want[a]) - 1) * size[a]
Pages(a)  == (total[a] + size[a] - 1) \div size[a]

-----------------------------------------------------------------------------
Init ==
  /\ rows = [t \in Tables |-> IF t = "users" THEN InitialUsers ELSE {}]
  /\ sides = [t \in {} |-> {}]
  /\ at = [a \in Admins |-> "closed"]
  /\ list = [a \in Admins |-> "users"]
  /\ want = [a \in Admins |-> 1]
  /\ size = [a \in Admins |-> DefaultSize]
  /\ total = [a \in Admins |-> 0]
  /\ got = [a \in Admins |-> {}]
  /\ named = [a \in Admins |-> {}]
  /\ base = [a \in Admins |-> {}]
  /\ seen = [a \in Admins |-> {}]
  /\ late = [a \in Admins |-> FALSE]
  /\ stats = [a \in Admins |-> [t \in Tables |-> 0]]

(* auth-service commits a new user. *)
Register(u) ==
  /\ u \in UserIds \ rows["users"]
  /\ rows' = [rows EXCEPT !["users"] = @ \cup {u}]
  /\ UNCHANGED <<sides, walk, stats>>

(* transfer-service commits a transfer and its two notifications.  The ids  *)
(* were drawn when the rows were inserted, so commits do not follow them.   *)
BookTransfer(from, to, t, n, m) ==
  /\ {from, to} \subseteq rows["users"] /\ from # to
  /\ t \in TransferIds \ rows["transfers"]
  /\ {n, m} \subseteq NotificationIds \ rows["notifications"] /\ n < m
  /\ rows' = [rows EXCEPT !["transfers"] = @ \cup {t}, !["notifications"] = @ \cup {n, m}]
  /\ sides' = [s \in DOMAIN sides \cup {t} |-> IF s = t THEN {from, to} ELSE sides[s]]
  /\ UNCHANGED <<walk, stats>>

-----------------------------------------------------------------------------
(* The page of a list is opened: its first request is sent. *)
OpenList(a) ==
  /\ at[a] = "closed"
  /\ \E k \in Lists, asked \in AskedSizes :
       /\ list' = [list EXCEPT ![a] = k]
       /\ size' = [size EXCEPT ![a] = PageSize(asked)]
       /\ base' = [base EXCEPT ![a] = Table(k)]
  /\ at' = [at EXCEPT ![a] = "guard"]
  /\ UNCHANGED <<tables, want, total, got, named, seen, late, stats>>

(* RequireAdmin lets the request through: the handler starts. *)
Admit(a) ==
  /\ at[a] = "guard"
  /\ at' = [at EXCEPT ![a] = IF list[a] = "transfers" THEN "count" ELSE "select"]
  /\ total' = [total EXCEPT ![a] = 0]
  /\ got' = [got EXCEPT ![a] = {}]
  /\ named' = [named EXCEPT ![a] = {}]
  /\ late' = [late EXCEPT ![a] = FALSE]
  /\ UNCHANGED <<tables, list, want, size, base, seen, stats>>

(* It answers 403, 401 or 500 instead, or a statement fails (500). *)
Fail(a) ==
  /\ at[a] \in {"guard", "select", "count", "names",
                "stats users", "stats transfers", "stats notifications"}
  /\ at' = [at EXCEPT ![a] = "failed"]
  /\ UNCHANGED <<tables, list, want, size, total, got, named, base, seen, late, stats>>

(* SELECT ... ORDER BY id DESC LIMIT OFFSET: after the COUNT for transfers, *)
(* before it for the other lists.                                           *)
SelectPage(a) ==
  /\ at[a] = "select"
  /\ got' = [got EXCEPT ![a] = Page(Table(list[a]), Offset(a), size[a])]
  /\ late' = [late EXCEPT ![a] = list[a] = "transfers" /\ Cardinality(Table(list[a])) > total[a]]
  /\ at' = [at EXCEPT ![a] = IF list[a] = "transfers" THEN "names" ELSE "count"]
  /\ UNCHANGED <<tables, list, want, size, total, named, base, seen, stats>>

(* Mutant: a last page that is not full is taken for a page beyond the end. *)
CountRows_SkipsLast(a) ==
  /\ at[a] = "count"
  /\ total' = [total EXCEPT ![a] = Cardinality(Table(list[a]))]
  /\ at' = [at EXCEPT ![a] = IF list[a] = "transfers" /\ Offset(a) + size[a] <= total'[a]
                               THEN "select" ELSE "reply"]
  /\ UNCHANGED <<tables, list, want, size, got, named, base, seen, late, stats>>

(* SELECT COUNT( * ).  For transfers a page beyond the last row is not read. *)
CountRows(a) ==
  /\ at[a] = "count"
  /\ total' = [total EXCEPT ![a] = Cardinality(Table(list[a]))]
  /\ at' = [at EXCEPT ![a] = IF list[a] = "transfers" /\ Offset(a) < total'[a]
                               THEN "select" ELSE "reply"]
  /\ UNCHANGED <<tables, list, want, size, got, named, base, seen, late, stats>>

(* Mutant: one party of each transfer is forgotten. *)
ResolveNames_OneParty(a) ==
  /\ at[a] = "names"
  /\ named' = [named EXCEPT ![a] = {CHOOSE u \in sides[t] : TRUE : t \in got[a]}]
  /\ at' = [at EXCEPT ![a] = "reply"]
  /\ UNCHANGED <<tables, list, want, size, total, got, base, seen, late, stats>>

(* resolveUserNames: one query for the parties of all transfers of the page. *)
ResolveNames(a) ==
  /\ at[a] = "names"
  /\ named' = [named EXCEPT ![a] = (UNION {sides[t] : t \in got[a]}) \cap rows["users"]]
  /\ at' = [at EXCEPT ![a] = "reply"]
  /\ UNCHANGED <<tables, list, want, size, total, got, base, seen, late, stats>>

(* The 200 is shown; the button for the next page is live while page < pages. *)
Reply(a) ==
  /\ at[a] = "reply"
  /\ seen' = [seen EXCEPT ![a] = @ \cup got[a]]
  /\ \/ /\ want[a] < Pages(a)
        /\ want' = [want EXCEPT ![a] = @ + 1]
        /\ at' = [at EXCEPT ![a] = "guard"]
     \/ /\ want[a] >= Pages(a)
        /\ at' = [at EXCEPT ![a] = "done"]
        /\ UNCHANGED want
  /\ UNCHANGED <<tables, list, size, total, got, named, base, late, stats>>

-----------------------------------------------------------------------------
(* handleAdminStats: three statements of one READ COMMITTED transaction,    *)
(* any of which may fail it (Fail).                                         *)
OpenStats(a) ==
  /\ at[a] = "closed"
  /\ at' = [at EXCEPT ![a] = "stats users"]
  /\ UNCHANGED <<tables, list, want, size, total, got, named, base, seen, late, stats>>

(* Mutant: notifications are counted before transfers. *)
CountTable_Swapped(a, t, from, to) ==
  LET s == [users |-> "users", transfers |-> "notifications", notifications |-> "transfers"][t]
  IN  /\ at[a] = from
      /\ at' = [at EXCEPT ![a] = to]
      /\ stats' = [stats EXCEPT ![a][s] = Cardinality(rows[s])]
      /\ UNCHANGED <<tables, list, want, size, total, got, named, base, seen, late>>

CountTable(a, t, from, to) ==
  /\ at[a] = from
  /\ at' = [at EXCEPT ![a] = to]
  /\ stats' = [stats EXCEPT ![a][t] = Cardinality(rows[t])]
  /\ UNCHANGED <<tables, list, want, size, total, got, named, base, seen, late>>

StatsUsers(a)         == CountTable(a, "users", "stats users", "stats transfers")
StatsTransfers(a)     == CountTable(a, "transfers", "stats transfers", "stats notifications")
StatsNotifications(a) == CountTable(a, "notifications", "stats notifications", "stats done")

Next ==
  \/ \E u \in UserIds : Register(u)
  \/ \E from, to \in UserIds, t \in TransferIds, n, m \in NotificationIds :
        BookTransfer(from, to, t, n, m)
  \/ \E a \in Admins : \/ OpenList(a) \/ Admit(a) \/ Fail(a) \/ SelectPage(a)
                       \/ CountRows(a) \/ ResolveNames(a) \/ Reply(a)
                       \/ OpenStats(a) \/ StatsUsers(a) \/ StatsTransfers(a)
                       \/ StatsNotifications(a)

Spec == Init /\ [][Next]_vars

-----------------------------------------------------------------------------
TypeOK ==
  /\ rows \in [Tables -> SUBSET Nat]
  /\ rows["users"] \subseteq UserIds
  /\ rows["transfers"] \subseteq TransferIds
  /\ rows["notifications"] \subseteq NotificationIds
  /\ DOMAIN sides = rows["transfers"]
  /\ \A t \in rows["transfers"] : sides[t] \in SUBSET UserIds
  /\ at \in [Admins -> Stages]
  /\ list \in [Admins -> Lists]
  /\ want \in [Admins -> Nat \ {0}]
  /\ size \in [Admins -> Nat \ {0}]
  /\ total \in [Admins -> Nat]
  /\ got \in [Admins -> SUBSET Nat]
  /\ named \in [Admins -> SUBSET UserIds]
  /\ base \in [Admins -> SUBSET Nat]
  /\ seen \in [Admins -> SUBSET Nat]
  /\ late \in [Admins -> BOOLEAN]
  /\ stats \in [Admins -> [Tables -> Nat]]

(* Turning the pages one after the other shows every row the list held      *)
(* when it was opened, although rows are committed between the requests and *)
(* between the two statements of each, and although OFFSET counts from the  *)
(* newest row (within the first MaxPage pages): rows only move towards      *)
(* later pages, and the COUNT after the SELECT announces as many pages.     *)
WalkComplete ==
  \A a \in Admins :
    at[a] = "done" /\ list[a] # "transfers" /\ want[a] <= MaxPage => base[a] \subseteq seen[a]

(* handleAdminTransfers counts first.  Its last page may then push a row    *)
(* out of sight, but only if transfers were committed between its COUNT and *)
(* its SELECT; skipping the query when the offset is beyond the count never *)
(* hides a row.                                                             *)
TransfersWalkComplete ==
  \A a \in Admins :
    at[a] = "done" /\ list[a] = "transfers" /\ want[a] <= MaxPage /\ ~late[a]
      => base[a] \subseteq seen[a]

(* Every transfer shown has the names of both parties, although the names   *)
(* are read by a later statement than the transfers.                        *)
NamesResolved ==
  \A a \in Admins :
    at[a] = "reply" /\ list[a] = "transfers" => \A t \in got[a] : sides[t] \subseteq named[a]

(* The three counts of handleAdminStats come from three snapshots, so they  *)
(* need not agree; but as the tables only grow and transfers are counted    *)
(* before notifications, no counted transfer lacks its two notifications.   *)
StatsOrdered ==
  \A a \in Admins : at[a] = "stats done" =>
    /\ 2 * stats[a]["transfers"] <= stats[a]["notifications"]
    /\ stats[a]["notifications"] <= 2 * Cardinality(rows["transfers"])
=============================================================================
