------------------------- MODULE AdminQueriesProofs -------------------------
(***************************************************************************)
(* What TLC checks of AdminQueries with a handful of rows, proved for      *)
(* tables of any size, any page size and any number of administrators.     *)
(* The tables only grow, so a row's place in a list only increases: that   *)
(* is what relates the pages already shown to those still to come.         *)
(***************************************************************************)
EXTENDS AdminQueries, FiniteSetTheorems, TLAPS

(* Arithmetic of pages. *)
LEMMA PageEnd ==
  ASSUME NEW w \in Nat \ {0}, NEW s \in Nat \ {0}
  PROVE  /\ (w - 1) * s \in Nat /\ w * s \in Nat
         /\ (w - 1) * s + s = w * s
OBVIOUS

LEMMA LastPage ==
  ASSUME NEW t \in Nat, NEW w \in Nat \ {0}, NEW s \in Nat \ {0}, w >= (t + s - 1) \div s
  PROVE  t <= w * s
<1> DEFINE n == t + s - 1
           q == n \div s
<1>1. n \in Nat /\ q \in Nat
  OBVIOUS
<1>2. n < q * s + s
  OBVIOUS
<1>3. q * s <= w * s
  BY <1>1
<1> QED
  BY <1>1, <1>2, <1>3

-----------------------------------------------------------------------------
(* Places. *)
LEMMA PlaceType ==
  ASSUME NEW T, IsFiniteSet(T), T \subseteq Nat, NEW x \in T
  PROVE  /\ Place(x, T) \in Nat /\ Cardinality(T) \in Nat
         /\ 0 < Place(x, T) /\ Place(x, T) <= Cardinality(T)
<1> DEFINE A == {y \in T : y >= x}
<1>1. A \subseteq T /\ x \in A
  OBVIOUS
<1>2. IsFiniteSet(A) /\ Cardinality(A) \in Nat /\ Cardinality(T) \in Nat /\ Cardinality(A) <= Cardinality(T)
  BY <1>1, FS_Subset, FS_CardinalityType
<1>3. Cardinality(A) # 0
  BY <1>1, <1>2, FS_EmptySet
<1> QED
  BY <1>2, <1>3 DEF Place

LEMMA PlaceGrows ==
  ASSUME NEW T, NEW U, IsFiniteSet(U), T \subseteq U, U \subseteq Nat, NEW x \in T
  PROVE  Place(x, T) <= Place(x, U)
<1> DEFINE A == {y \in T : y >= x}
           B == {y \in U : y >= x}
<1>1. A \subseteq B /\ B \subseteq U
  OBVIOUS
<1>2. IsFiniteSet(B)
  BY <1>1, FS_Subset
<1>3. Cardinality(A) <= Cardinality(B)
  BY <1>1, <1>2, FS_Subset
<1> QED
  BY <1>3 DEF Place

-----------------------------------------------------------------------------
(* The tables: every transfer has its parties and its two notifications.    *)
RowsOK ==
  /\ \A t \in rows["transfers"] : sides[t] \subseteq rows["users"]
  /\ Cardinality(rows["notifications"]) = 2 * Cardinality(rows["transfers"])

Names(a) ==
  list[a] = "transfers" =>
    /\ got[a] \subseteq rows["transfers"]
    /\ at[a] = "count" => got[a] = {}
    /\ at[a] = "reply" => \A t \in got[a] : sides[t] \subseteq named[a]

Counts(a) ==
  /\ at[a] \in {"stats notifications", "stats done"} =>
       stats[a]["transfers"] <= Cardinality(rows["transfers"])
  /\ at[a] = "stats done" =>
       /\ 2 * stats[a]["transfers"] <= stats[a]["notifications"]
       /\ stats[a]["notifications"] <= 2 * Cardinality(rows["transfers"])

(* The rows of base that are still to come are on the page asked for or on  *)
(* a later one, and then the page count says so.                            *)
Unread(a) == at[a] \in {"guard", "select"} \/ (at[a] = "count" /\ list[a] = "transfers")
Read(a)   == at[a] \in {"names", "reply"} \/ (at[a] = "count" /\ list[a] # "transfers")
Ahead(a)  == \A x \in base[a] :
               x \in seen[a] \/ Place(x, Table(list[a])) > (want[a] - 1) * size[a]
Beyond(a) == \A x \in base[a] :
               x \in seen[a] \cup got[a] \/ Place(x, Table(list[a])) > want[a] * size[a]
Told(a)   == \A x \in base[a] : x \in seen[a] \cup got[a] \/ total[a] > want[a] * size[a]

Stays(a) ==
  /\ base[a] \subseteq Table(list[a])
  /\ list[a] # "transfers" => ~late[a] /\ at[a] # "names"
  /\ at[a] = "closed" => want[a] = 1 /\ ~late[a] /\ got[a] = {}
Walk(a) ==
  want[a] <= MaxPage =>
    /\ Unread(a) => Ahead(a)
    /\ Read(a) => Beyond(a)
    /\ at[a] \in {"names", "reply"} /\ ~late[a] => Told(a)
    /\ at[a] = "done" /\ ~late[a] => base[a] \subseteq seen[a]

RequestOK(a) == Names(a) /\ Counts(a) /\ Stays(a) /\ Walk(a)
AdminInv == TypeOK /\ RowsOK /\ \A a \in Admins : RequestOK(a)

-----------------------------------------------------------------------------
LEMMA RowsFinite ==
  ASSUME NEW R \in [Tables -> SUBSET Nat], R["users"] \subseteq UserIds,
         R["transfers"] \subseteq TransferIds, R["notifications"] \subseteq NotificationIds
  PROVE  \A t \in Tables : \A T \in SUBSET R[t] : T \subseteq Nat /\ IsFiniteSet(T)
<1> SUFFICES ASSUME NEW t \in Tables, NEW T \in SUBSET R[t]
             PROVE  T \subseteq Nat /\ IsFiniteSet(T)
  OBVIOUS
<1>1. T \subseteq UserIds \/ T \subseteq TransferIds \/ T \subseteq NotificationIds
  BY DEF Tables
<1> QED
  BY <1>1, AdminAssumption, FS_Subset

LEMMA TablesFinite ==
  ASSUME TypeOK
  PROVE  /\ \A t \in Tables : IsFiniteSet(rows[t])
         /\ \A k \in Lists : Table(k) \subseteq Nat /\ IsFiniteSet(Table(k))
<1>1. \A t \in Tables : \A T \in SUBSET rows[t] : T \subseteq Nat /\ IsFiniteSet(T)
  BY RowsFinite DEF TypeOK
<1>2. \A k \in Lists : \E t \in Tables : Table(k) \in SUBSET rows[t]
  BY DEF Table, Lists, Tables
<1> QED
  BY <1>1, <1>2

LEMMA NewTablesFinite ==
  ASSUME TypeOK'
  PROVE  /\ \A t \in Tables : IsFiniteSet(rows'[t])
         /\ \A k \in Lists : Table(k)' \subseteq Nat /\ IsFiniteSet(Table(k)')
<1>1. \A t \in Tables : \A T \in SUBSET rows'[t] : T \subseteq Nat /\ IsFiniteSet(T)
  BY RowsFinite DEF TypeOK
<1>2. \A k \in Lists : \E t \in Tables : Table(k)' \in SUBSET rows'[t]
  BY DEF Table, Lists, Tables
<1> QED
  BY <1>1, <1>2

LEMMA AdminInit == Init => AdminInv
<1> SUFFICES ASSUME Init PROVE AdminInv
  OBVIOUS
<1>1. TypeOK
  BY AdminAssumption DEF Init, TypeOK, Tables, Lists, Stages
<1>2. RowsOK
  BY FS_EmptySet DEF Init, RowsOK, Tables
<1>3. ASSUME NEW a \in Admins
      PROVE  RequestOK(a)
  BY <1>3 DEF Init, RequestOK, Names, Counts, Stays, Walk, Unread, Read
<1> QED
  BY <1>1, <1>2, <1>3 DEF AdminInv

-----------------------------------------------------------------------------
(* Commits of other services: the tables grow. *)
Grown ==
  /\ \A t \in Tables : rows[t] \subseteq rows'[t]
  /\ \A t \in rows["transfers"] : sides'[t] = sides[t]

LEMMA RegisterRows ==
  ASSUME TypeOK, RowsOK, NEW u \in UserIds, Register(u)
  PROVE  TypeOK' /\ RowsOK' /\ Grown
<1>1. /\ rows' = [rows EXCEPT !["users"] = rows["users"] \cup {u}]
      /\ UNCHANGED <<sides, at, list, want, size, total, got, named, base, seen, late, stats>>
  BY DEF Register, walk
<1>2. TypeOK'
  BY <1>1, AdminAssumption DEF TypeOK, Tables
<1>3. RowsOK' /\ Grown
  BY <1>1 DEF TypeOK, RowsOK, Grown, Tables
<1> QED
  BY <1>2, <1>3

LEMMA BookRows ==
  ASSUME TypeOK, RowsOK,
         NEW from \in UserIds, NEW to \in UserIds, NEW t \in TransferIds,
         NEW n \in NotificationIds, NEW m \in NotificationIds,
         BookTransfer(from, to, t, n, m)
  PROVE  TypeOK' /\ RowsOK' /\ Grown
<1> DEFINE R == rows["transfers"]
           N == rows["notifications"]
<1>1. /\ rows' = [rows EXCEPT !["transfers"] = R \cup {t}, !["notifications"] = N \cup {n, m}]
      /\ sides' = [x \in DOMAIN sides \cup {t} |-> IF x = t THEN {from, to} ELSE sides[x]]
      /\ UNCHANGED <<at, list, want, size, total, got, named, base, seen, late, stats>>
  BY DEF BookTransfer, walk
<1>2. /\ t \notin R /\ n \notin N /\ m \notin N /\ n # m
      /\ from \in rows["users"] /\ to \in rows["users"]
  BY AdminAssumption DEF BookTransfer
<1>3. /\ rows'["users"] = rows["users"] /\ rows'["transfers"] = R \cup {t}
      /\ rows'["notifications"] = N \cup {n, m}
      /\ rows' \in [Tables -> SUBSET Nat]
  BY <1>1, AdminAssumption DEF TypeOK, Tables
<1>4. Cardinality(rows'["notifications"]) = 2 * Cardinality(rows'["transfers"])
  <2>1. IsFiniteSet(R) /\ IsFiniteSet(N)
    BY TablesFinite DEF Tables
  <2>2. Cardinality(R \cup {t}) = Cardinality(R) + 1
    BY <1>2, <2>1, FS_AddElement
  <2>3. IsFiniteSet(N \cup {n}) /\ Cardinality(N \cup {n}) = Cardinality(N) + 1
    BY <1>2, <2>1, FS_AddElement
  <2>4. Cardinality((N \cup {n}) \cup {m}) = Cardinality(N \cup {n}) + 1
    <3>1. m \notin N \cup {n}
      BY <1>2
    <3> QED
      BY <2>3, <3>1, FS_AddElement
  <2>5. (N \cup {n}) \cup {m} = N \cup {n, m}
    OBVIOUS
  <2>6. Cardinality(N) = 2 * Cardinality(R) /\ Cardinality(R) \in Nat /\ Cardinality(N) \in Nat
    BY <2>1, FS_CardinalityType DEF RowsOK
  <2>7. Cardinality(N) + 1 + 1 = 2 * (Cardinality(R) + 1)
    BY <2>6
  <2>8. Cardinality(N \cup {n, m}) = Cardinality(N) + 1 + 1
    BY <2>3, <2>4, <2>5
  <2> QED
    BY <1>3, <2>2, <2>7, <2>8
<1>5. DOMAIN sides = R /\ \A x \in R : sides[x] \in SUBSET UserIds
  BY DEF TypeOK
<1>6. TypeOK'
  <2>1. DOMAIN sides' = R \cup {t} /\ \A x \in R \cup {t} : sides'[x] \in SUBSET UserIds
    BY <1>1, <1>5
  <2>2. rows'["users"] \subseteq UserIds /\ rows'["transfers"] \subseteq TransferIds
        /\ rows'["notifications"] \subseteq NotificationIds
    BY <1>3 DEF TypeOK
  <2> QED
    BY <1>1, <1>3, <2>1, <2>2 DEF TypeOK
<1>7. RowsOK'
  BY <1>1, <1>2, <1>3, <1>4, <1>5 DEF RowsOK
<1>8. Grown
  BY <1>1, <1>2, <1>3, <1>5 DEF Grown, Tables
<1> QED
  BY <1>6, <1>7, <1>8

LEMMA GrowthKeeps ==
  ASSUME AdminInv, TypeOK', RowsOK', Grown, UNCHANGED <<walk, stats>>
  PROVE  AdminInv'
<1>1. ASSUME NEW k \in Lists
      PROVE  Table(k) \subseteq Table(k)'
  BY DEF Grown, Table, Lists, Tables
<1>2. UNCHANGED <<at, list, want, size, total, got, named, base, seen, late, stats>>
  BY DEF walk
<1>3. ASSUME NEW a \in Admins
      PROVE  RequestOK(a)'
  <2>1. RequestOK(a) /\ list[a] \in Lists /\ want[a] \in Nat \ {0} /\ size[a] \in Nat \ {0}
    BY DEF AdminInv, TypeOK
  <2>2. Names(a)'
    BY <1>2, <2>1 DEF RequestOK, Names, Grown, Tables
  <2>3. Counts(a)'
    <3>1. rows["transfers"] \in SUBSET rows'["transfers"] /\ IsFiniteSet(rows'["transfers"])
          /\ IsFiniteSet(rows["transfers"])
      BY TablesFinite, NewTablesFinite DEF AdminInv, Grown, Tables
    <3>2. /\ Cardinality(rows["transfers"]) <= Cardinality(rows'["transfers"])
          /\ Cardinality(rows["transfers"]) \in Nat /\ Cardinality(rows'["transfers"]) \in Nat
      BY <3>1, FS_Subset, FS_CardinalityType
    <3>3. stats[a]["transfers"] \in Nat /\ stats[a]["notifications"] \in Nat
      BY DEF AdminInv, TypeOK, Tables
    <3>4. ASSUME NEW p \in Nat, NEW q \in Nat, NEW i \in Nat, NEW j \in Nat, i <= j
          PROVE  (p <= i => p <= j) /\ (q <= 2 * i => q <= 2 * j)
      BY <3>4
    <3> QED
      BY <1>2, <2>1, <3>2, <3>3, <3>4 DEF RequestOK, Counts
  <2>4. Stays(a)'
    BY <1>1, <1>2, <2>1 DEF RequestOK, Stays
  <2>5. ASSUME NEW x \in base[a]
        PROVE  /\ Place(x, Table(list[a])) <= Place(x, Table(list[a])')
               /\ Place(x, Table(list[a])) \in Nat /\ Place(x, Table(list[a])') \in Nat
    <3> DEFINE T == Table(list[a])
               U == Table(list[a])'
    <3>1. x \in T /\ T \subseteq U
      BY <1>1, <1>2, <2>1 DEF RequestOK, Stays, Table
    <3>2. IsFiniteSet(T) /\ T \subseteq Nat
      BY <2>1, TablesFinite DEF AdminInv
    <3>0. IsFiniteSet(U) /\ U \subseteq Nat
      BY <1>2, <2>1, NewTablesFinite DEF Table
    <3> HIDE DEF T, U
    <3>3. Place(x, T) <= Place(x, U) /\ Place(x, T) \in Nat /\ Place(x, U) \in Nat
      BY <3>0, <3>1, <3>2, PlaceGrows, PlaceType
    <3> QED
      BY <3>3 DEF T, U
  <2>6. (Ahead(a) => Ahead(a)') /\ (Beyond(a) => Beyond(a)') /\ (Told(a) => Told(a)')
    <3>1. (want[a] - 1) * size[a] \in Nat /\ want[a] * size[a] \in Nat
      BY <2>1, PageEnd
    <3> QED
      BY <1>2, <2>5, <3>1 DEF Ahead, Beyond, Told
  <2>7. Walk(a)'
    BY <1>2, <2>1, <2>6 DEF RequestOK, Walk, Unread, Read
  <2> QED
    BY <2>2, <2>3, <2>4, <2>7 DEF RequestOK
<1> QED
  BY <1>3 DEF AdminInv

-----------------------------------------------------------------------------
(* A step of one administrator's request leaves the others' alone. *)
Others(a) ==
  /\ rows' = rows /\ sides' = sides
  /\ \A b \in Admins \ {a} :
       UNCHANGED <<at[b], list[b], want[b], size[b], total[b], got[b], named[b], base[b], seen[b],
                   late[b], stats[b]>>

LEMMA OthersKeep ==
  ASSUME AdminInv, NEW a \in Admins, Others(a), TypeOK', RequestOK(a)'
  PROVE  AdminInv'
<1>1. RowsOK'
  BY DEF Others, AdminInv, RowsOK
<1>2. ASSUME NEW b \in Admins \ {a}
      PROVE  RequestOK(b)'
  <2>1. RequestOK(b)
    BY DEF AdminInv
  <2>2. /\ UNCHANGED <<at[b], list[b], want[b], size[b], total[b], got[b], named[b], base[b],
                       seen[b], late[b], stats[b]>>
        /\ rows' = rows /\ sides' = sides
    BY DEF Others
  <2>3. Table(list[b])' = Table(list[b])
    BY <2>2 DEF Table
  <2>4. Names(b)' /\ Counts(b)' /\ Stays(b)'
    BY <2>1, <2>2, <2>3 DEF RequestOK, Names, Counts, Stays
  <2>5. Walk(b)'
    BY <2>1, <2>2, <2>3 DEF RequestOK, Walk, Unread, Read, Ahead, Beyond, Told
  <2> QED
    BY <2>4, <2>5 DEF RequestOK
<1> QED
  BY <1>1, <1>2 DEF AdminInv

LEMMA OpenListKeeps ==
  ASSUME AdminInv, NEW a \in Admins, OpenList(a)
  PROVE  AdminInv'
<1>1. PICK k \in Lists, asked \in AskedSizes :
         /\ list' = [list EXCEPT ![a] = k]
         /\ size' = [size EXCEPT ![a] = PageSize(asked)]
         /\ base' = [base EXCEPT ![a] = Table(k)]
  BY DEF OpenList
<1>2. /\ at[a] = "closed" /\ at' = [at EXCEPT ![a] = "guard"]
      /\ UNCHANGED <<rows, sides, want, total, got, named, seen, late, stats>>
  BY DEF OpenList, tables
<1>3. PageSize(asked) \in Nat \ {0}
  BY AdminAssumption DEF PageSize
<1>4. Table(k) \subseteq Nat /\ IsFiniteSet(Table(k))
  BY TablesFinite DEF AdminInv
<1>5. TypeOK'
  BY <1>1, <1>2, <1>3, <1>4 DEF AdminInv, TypeOK, Stages
<1>6. /\ at'[a] = "guard" /\ list'[a] = k /\ base'[a] = Table(k) /\ size'[a] = PageSize(asked)
      /\ UNCHANGED <<rows, want[a], seen[a], late[a], got[a]>>
  BY <1>1, <1>2 DEF AdminInv, TypeOK
<1>7. RequestOK(a) /\ want[a] = 1 /\ ~late[a] /\ got[a] = {}
  BY <1>2 DEF AdminInv, RequestOK, Stays
<1>8. Table(list[a])' = Table(k)
  BY <1>6 DEF Table
<1>9. RequestOK(a)'
  <2>1. Stays(a)'
    BY <1>6, <1>7, <1>8 DEF Stays
  <2>2. Ahead(a)'
    <3>1. \A x \in Table(k) : Place(x, Table(k)) > 0
      BY <1>4, PlaceType
    <3>2. (1 - 1) * PageSize(asked) = 0
      BY <1>3
    <3> QED
      BY <1>6, <1>7, <1>8, <3>1, <3>2 DEF Ahead
  <2>3. Walk(a)'
    BY <1>6, <2>2 DEF Walk, Unread, Read
  <2>4. Counts(a)'
    BY <1>6 DEF Counts
  <2>5. Names(a)'
    BY <1>6, <1>7 DEF Names
  <2> QED
    BY <2>1, <2>3, <2>4, <2>5 DEF RequestOK
<1>10. Others(a)
  BY <1>1, <1>2 DEF Others, AdminInv, TypeOK
<1> QED
  BY <1>5, <1>9, <1>10, OthersKeep

LEMMA AdmitKeeps ==
  ASSUME AdminInv, NEW a \in Admins, Admit(a)
  PROVE  AdminInv'
<1>1. /\ at[a] = "guard"
      /\ at' = [at EXCEPT ![a] = IF list[a] = "transfers" THEN "count" ELSE "select"]
      /\ total' = [total EXCEPT ![a] = 0] /\ got' = [got EXCEPT ![a] = {}]
      /\ named' = [named EXCEPT ![a] = {}] /\ late' = [late EXCEPT ![a] = FALSE]
      /\ UNCHANGED <<rows, sides, list, want, size, base, seen, stats>>
  BY DEF Admit, tables
<1>2. TypeOK'
  BY <1>1 DEF AdminInv, TypeOK, Stages
<1>3. /\ at'[a] = (IF list[a] = "transfers" THEN "count" ELSE "select")
      /\ got'[a] = {} /\ late'[a] = FALSE
      /\ UNCHANGED <<rows, list[a], want[a], size[a], base[a], seen[a]>>
  BY <1>1 DEF AdminInv, TypeOK
<1>4. RequestOK(a)
  BY DEF AdminInv
<1>5. Table(list[a])' = Table(list[a])
  BY <1>3 DEF Table
<1>6. RequestOK(a)'
  <2>1. Names(a)' /\ Counts(a)' /\ Stays(a)'
    BY <1>3, <1>4, <1>5 DEF RequestOK, Names, Counts, Stays
  <2>2. Walk(a)'
    BY <1>1, <1>3, <1>4, <1>5 DEF RequestOK, Walk, Unread, Read, Ahead
  <2> QED
    BY <2>1, <2>2 DEF RequestOK
<1>7. Others(a)
  BY <1>1 DEF Others, AdminInv, TypeOK
<1> QED
  BY <1>2, <1>6, <1>7, OthersKeep

(* A request fails, or the statistics are opened: only the stage changes. *)
LEMMA StageKeeps ==
  ASSUME AdminInv, NEW a \in Admins, Fail(a) \/ OpenStats(a)
  PROVE  AdminInv'
<1>1. PICK to \in {"failed", "stats users"} :
         /\ at' = [at EXCEPT ![a] = to]
         /\ UNCHANGED <<rows, sides, list, want, size, total, got, named, base, seen, late, stats>>
  BY DEF Fail, OpenStats, tables
<1>2. TypeOK'
  BY <1>1 DEF AdminInv, TypeOK, Stages
<1>3. at'[a] = to
  BY <1>1 DEF AdminInv, TypeOK
<1>4. RequestOK(a)
  BY DEF AdminInv
<1>5. Table(list[a])' = Table(list[a])
  BY <1>1 DEF Table
<1>6. RequestOK(a)'
  <2>1. Names(a)' /\ Counts(a)' /\ Stays(a)'
    BY <1>1, <1>3, <1>4, <1>5 DEF RequestOK, Names, Counts, Stays
  <2>2. Walk(a)'
    BY <1>1, <1>3 DEF Walk, Unread, Read
  <2> QED
    BY <2>1, <2>2 DEF RequestOK
<1>7. Others(a)
  BY <1>1 DEF Others, AdminInv, TypeOK
<1> QED
  BY <1>2, <1>6, <1>7, OthersKeep

LEMMA SelectPageKeeps ==
  ASSUME AdminInv, NEW a \in Admins, SelectPage(a)
  PROVE  AdminInv'
<1> DEFINE T == Table(list[a])
           P == Page(T, Offset(a), size[a])
           L == list[a] = "transfers" /\ Cardinality(T) > total[a]
<1>1. /\ at[a] = "select"
      /\ got' = [got EXCEPT ![a] = P] /\ late' = [late EXCEPT ![a] = L]
      /\ at' = [at EXCEPT ![a] = IF list[a] = "transfers" THEN "names" ELSE "count"]
      /\ UNCHANGED <<rows, sides, list, want, size, total, named, base, seen, stats>>
  BY DEF SelectPage, tables
<1>2. T \subseteq Nat /\ IsFiniteSet(T)
  BY TablesFinite DEF AdminInv, TypeOK
<1>3. P \subseteq T
  BY DEF Page
<1>4. L \in BOOLEAN
  OBVIOUS
<1> HIDE DEF L, P
<1>5. TypeOK'
  <2>1. got' \in [Admins -> SUBSET Nat]
    BY <1>1, <1>2, <1>3 DEF AdminInv, TypeOK
  <2>2. late' \in [Admins -> BOOLEAN]
    BY <1>1, <1>4 DEF AdminInv, TypeOK
  <2> QED
    BY <1>1, <2>1, <2>2 DEF AdminInv, TypeOK, Stages
<1>6. /\ at'[a] = (IF list[a] = "transfers" THEN "names" ELSE "count")
      /\ got'[a] = P /\ late'[a] = L
      /\ UNCHANGED <<rows, list[a], want[a], size[a], base[a], seen[a], total[a]>>
  BY <1>1 DEF AdminInv, TypeOK
<1>7. RequestOK(a) /\ want[a] \in Nat \ {0} /\ size[a] \in Nat \ {0} /\ total[a] \in Nat
  BY DEF AdminInv, TypeOK
<1>8. Table(list[a])' = T
  BY <1>6 DEF Table
<1>9. Names(a)' /\ Counts(a)' /\ Stays(a)'
  <2>1. list[a] = "transfers" => T = rows["transfers"]
    BY DEF Table
  <2>2. list[a] # "transfers" => ~L
    BY DEF L
  <2>3. Stays(a)'
    BY <1>6, <1>7, <1>8, <2>2 DEF RequestOK, Stays
  <2> QED
    BY <1>3, <1>6, <2>1, <2>3 DEF Names, Counts
<1>10. Walk(a)'
  <2> SUFFICES ASSUME want[a] <= MaxPage
               PROVE  Beyond(a)' /\ (list[a] = "transfers" /\ ~L => Told(a)')
    BY <1>6 DEF Walk, Unread, Read
  <2>1. /\ Offset(a) = (want[a] - 1) * size[a]
        /\ Offset(a) \in Nat /\ want[a] * size[a] \in Nat
        /\ Offset(a) + size[a] = want[a] * size[a]
    <3>1. PageNumber(want[a]) = want[a]
      BY <1>7, AdminAssumption DEF PageNumber
    <3> QED
      BY <1>7, <3>1, PageEnd DEF Offset
  <2>2. ASSUME NEW x \in base[a]
        PROVE  x \in seen[a] \cup P \/ Place(x, T) > want[a] * size[a]
    <3>1. x \in T /\ Place(x, T) \in Nat
      BY <1>2, <1>7, PlaceType DEF RequestOK, Stays
    <3>2. x \in seen[a] \/ Place(x, T) > Offset(a)
      BY <1>1, <1>7, <2>1 DEF RequestOK, Walk, Unread, Ahead
    <3> QED
      BY <2>1, <3>1, <3>2 DEF P, Page
  <2>3. Beyond(a)'
    BY <1>6, <1>8, <2>2 DEF Beyond
  <2>4. ASSUME list[a] = "transfers", ~L
        PROVE  Told(a)'
    <3> SUFFICES ASSUME NEW x \in base[a], x \notin seen[a] \cup P
                 PROVE  total[a] > want[a] * size[a]
      BY <1>6 DEF Told
    <3>1. /\ Place(x, T) \in Nat /\ Cardinality(T) \in Nat /\ Place(x, T) <= Cardinality(T)
      BY <1>2, <1>7, PlaceType DEF RequestOK, Stays
    <3>2. Cardinality(T) <= total[a]
      BY <1>7, <2>4, <3>1 DEF L
    <3> QED
      BY <1>7, <2>1, <2>2, <3>1, <3>2
  <2> QED
    BY <2>3, <2>4
<1>11. Others(a)
  BY <1>1 DEF Others, AdminInv, TypeOK
<1> QED
  BY <1>5, <1>9, <1>10, <1>11, OthersKeep DEF RequestOK

LEMMA CountRowsKeeps ==
  ASSUME AdminInv, NEW a \in Admins, CountRows(a)
  PROVE  AdminInv'
<1> DEFINE T == Table(list[a])
           n == Cardinality(T)
<1>1. /\ at[a] = "count"
      /\ total' = [total EXCEPT ![a] = n]
      /\ at' = [at EXCEPT ![a] = IF list[a] = "transfers" /\ Offset(a) < total'[a]
                                   THEN "select" ELSE "reply"]
      /\ UNCHANGED <<rows, sides, list, want, size, got, named, base, seen, late, stats>>
  BY DEF CountRows, tables
<1>2. T \subseteq Nat /\ IsFiniteSet(T) /\ n \in Nat
  BY TablesFinite, FS_CardinalityType DEF AdminInv, TypeOK
<1>3. total'[a] = n
  BY <1>1 DEF AdminInv, TypeOK
<1> HIDE DEF n
<1>4. TypeOK'
  BY <1>1, <1>2 DEF AdminInv, TypeOK, Stages
<1>5. /\ at'[a] = (IF list[a] = "transfers" /\ Offset(a) < n THEN "select" ELSE "reply")
      /\ UNCHANGED <<rows, sides, list[a], want[a], size[a], base[a], seen[a], got[a], named[a],
                     late[a]>>
  BY <1>1, <1>3 DEF AdminInv, TypeOK
<1>6. RequestOK(a) /\ want[a] \in Nat \ {0} /\ size[a] \in Nat \ {0}
  BY DEF AdminInv, TypeOK
<1>7. Table(list[a])' = T
  BY <1>5 DEF Table
<1>8. Names(a)' /\ Counts(a)' /\ Stays(a)'
  <2>1. Names(a)'
    BY <1>1, <1>5, <1>6 DEF RequestOK, Names
  <2>2. Counts(a)'
    BY <1>5 DEF Counts
  <2>3. Stays(a)'
    BY <1>5, <1>6, <1>7 DEF RequestOK, Stays
  <2> QED
    BY <2>1, <2>2, <2>3
<1>9. ASSUME NEW x \in base[a]
      PROVE  Place(x, T) \in Nat /\ Place(x, T) <= n
  BY <1>2, <1>6, PlaceType DEF RequestOK, Stays, n
<1>10. Walk(a)'
  <2> SUFFICES ASSUME want[a] <= MaxPage
               PROVE  /\ at'[a] = "select" => Ahead(a)'
                      /\ at'[a] = "reply" => Beyond(a)' /\ Told(a)'
    BY <1>5 DEF Walk, Unread, Read
  <2>1. want[a] * size[a] \in Nat /\ (want[a] - 1) * size[a] \in Nat
    BY <1>6, PageEnd
  <2>2. CASE list[a] # "transfers"
    <3>1. Beyond(a)
      BY <1>1, <1>6, <2>2 DEF RequestOK, Walk, Read
    <3>2. Beyond(a)'
      BY <1>5, <1>7, <3>1 DEF Beyond
    <3>3. Told(a)'
      BY <1>3, <1>5, <1>9, <1>2, <2>1, <3>1 DEF Told, Beyond
    <3> QED
      BY <1>5, <2>2, <3>2, <3>3
  <2>3. CASE list[a] = "transfers"
    <3>1. Ahead(a)
      BY <1>1, <1>6, <2>3 DEF RequestOK, Walk, Unread
    <3>2. Ahead(a)'
      BY <1>5, <1>7, <3>1 DEF Ahead
    <3>3. ASSUME at'[a] = "reply"
          PROVE  base[a] \subseteq seen[a]
      <4>1. Offset(a) = (want[a] - 1) * size[a]
        BY <1>6, AdminAssumption DEF Offset, PageNumber
      <4>2. n <= (want[a] - 1) * size[a]
        BY <1>2, <1>5, <2>1, <2>3, <3>3, <4>1
      <4> QED
        BY <1>2, <1>9, <2>1, <3>1, <4>2 DEF Ahead
    <3> QED
      BY <1>5, <3>2, <3>3 DEF Beyond, Told
  <2> QED
    BY <2>2, <2>3
<1>11. Others(a)
  BY <1>1 DEF Others, AdminInv, TypeOK
<1> QED
  BY <1>4, <1>8, <1>10, <1>11, OthersKeep DEF RequestOK

LEMMA ResolveNamesKeeps ==
  ASSUME AdminInv, NEW a \in Admins, ResolveNames(a)
  PROVE  AdminInv'
<1> DEFINE N == (UNION {sides[t] : t \in got[a]}) \cap rows["users"]
<1>1. /\ at[a] = "names"
      /\ named' = [named EXCEPT ![a] = N]
      /\ at' = [at EXCEPT ![a] = "reply"]
      /\ UNCHANGED <<rows, sides, list, want, size, total, got, base, seen, late, stats>>
  BY DEF ResolveNames, tables
<1>2. RequestOK(a) /\ list[a] = "transfers"
  BY <1>1 DEF AdminInv, RequestOK, Stays
<1>3. \A t \in got[a] : sides[t] \subseteq N
  <2> SUFFICES ASSUME NEW t \in got[a]
               PROVE  sides[t] \subseteq N
    OBVIOUS
  <2>1. sides[t] \subseteq rows["users"]
    BY <1>2 DEF AdminInv, RowsOK, RequestOK, Names
  <2>2. sides[t] \in {sides[u] : u \in got[a]}
    OBVIOUS
  <2>3. sides[t] \subseteq UNION {sides[u] : u \in got[a]}
    BY <2>2
  <2> QED
    BY <2>1, <2>3
<1>4. N \subseteq UserIds
  <2>1. N \subseteq rows["users"]
    OBVIOUS
  <2> HIDE DEF N
  <2> QED
    BY <2>1 DEF AdminInv, TypeOK
<1> HIDE DEF N
<1>5. TypeOK'
  BY <1>1, <1>4 DEF AdminInv, TypeOK, Stages
<1>6. /\ at'[a] = "reply" /\ named'[a] = N
      /\ UNCHANGED <<rows, sides, list[a], want[a], size[a], base[a], seen[a], got[a], total[a],
                     late[a]>>
  BY <1>1 DEF AdminInv, TypeOK
<1>7. Table(list[a])' = Table(list[a])
  BY <1>6 DEF Table
<1>8. Names(a)' /\ Counts(a)' /\ Stays(a)'
  BY <1>2, <1>3, <1>6, <1>7 DEF RequestOK, Names, Counts, Stays
<1>9. Walk(a)'
  BY <1>1, <1>2, <1>6, <1>7 DEF RequestOK, Walk, Unread, Read, Beyond, Told
<1>10. Others(a)
  BY <1>1 DEF Others, AdminInv, TypeOK
<1> QED
  BY <1>5, <1>8, <1>9, <1>10, OthersKeep DEF RequestOK

LEMMA ReplyKeeps ==
  ASSUME AdminInv, NEW a \in Admins, Reply(a)
  PROVE  AdminInv'
<1>0. /\ RequestOK(a) /\ want[a] \in Nat \ {0} /\ size[a] \in Nat \ {0} /\ total[a] \in Nat
      /\ got[a] \subseteq Nat /\ seen[a] \subseteq Nat
  BY DEF AdminInv, TypeOK
<1>1. /\ at[a] = "reply"
      /\ seen' = [seen EXCEPT ![a] = seen[a] \cup got[a]]
      /\ UNCHANGED <<rows, sides, list, size, total, got, named, base, late, stats>>
  BY DEF Reply, tables
<1>2. PICK w \in {want[a], want[a] + 1}, to \in {"guard", "done"} :
        /\ want' = [want EXCEPT ![a] = w] /\ at' = [at EXCEPT ![a] = to]
        /\ to = "guard" => w = want[a] + 1
        /\ to = "done" => w = want[a] /\ want[a] >= Pages(a)
  BY <1>0 DEF Reply, AdminInv, TypeOK
<1>3. w \in Nat \ {0} /\ w >= want[a]
  BY <1>0
<1>4. TypeOK'
  <2>1. want' \in [Admins -> Nat \ {0}]
    BY <1>2, <1>3 DEF AdminInv, TypeOK
  <2>2. seen' \in [Admins -> SUBSET Nat]
    BY <1>0, <1>1 DEF AdminInv, TypeOK
  <2>3. at' \in [Admins -> Stages]
    BY <1>2 DEF AdminInv, TypeOK, Stages
  <2> QED
    BY <1>1, <2>1, <2>2, <2>3 DEF AdminInv, TypeOK
<1>5. /\ at'[a] = to /\ want'[a] = w /\ seen'[a] = seen[a] \cup got[a]
      /\ UNCHANGED <<rows, sides, list[a], size[a], base[a], got[a], named[a], total[a], late[a]>>
  BY <1>1, <1>2 DEF AdminInv, TypeOK
<1>6. Table(list[a])' = Table(list[a])
  BY <1>5 DEF Table
<1>7. Names(a)' /\ Counts(a)' /\ Stays(a)'
  BY <1>0, <1>5, <1>6 DEF RequestOK, Names, Counts, Stays
<1>8. Walk(a)'
  <2> SUFFICES ASSUME w <= MaxPage
               PROVE  /\ to = "guard" => Ahead(a)'
                      /\ to = "done" /\ ~late[a] => base[a] \subseteq seen[a] \cup got[a]
    BY <1>5 DEF Walk, Unread, Read
  <2>1. Beyond(a) /\ (~late[a] => Told(a))
    BY <1>0, <1>1, <1>3, AdminAssumption DEF RequestOK, Walk, Read
  <2>2. ASSUME to = "guard"
        PROVE  Ahead(a)'
    <3>1. w - 1 = want[a]
      BY <1>0, <1>2, <2>2
    <3> QED
      BY <1>5, <1>6, <2>1, <3>1 DEF Ahead, Beyond
  <2>3. ASSUME to = "done", ~late[a]
        PROVE  base[a] \subseteq seen[a] \cup got[a]
    <3>1. total[a] <= want[a] * size[a]
      BY <1>0, <1>2, <2>3, LastPage DEF Pages
    <3>2. want[a] * size[a] \in Nat
      BY <1>0, PageEnd
    <3> QED
      BY <1>0, <2>1, <2>3, <3>1, <3>2 DEF Told
  <2> QED
    BY <2>2, <2>3
<1>9. Others(a)
  BY <1>1, <1>2 DEF Others, AdminInv, TypeOK
<1> QED
  BY <1>4, <1>7, <1>8, <1>9, OthersKeep DEF RequestOK

LEMMA StatsKeep ==
  ASSUME AdminInv, NEW a \in Admins,
         StatsUsers(a) \/ StatsTransfers(a) \/ StatsNotifications(a)
  PROVE  AdminInv'
<1>1. PICK t \in Tables, from \in Stages, to \in Stages :
        /\ CountTable(a, t, from, to)
        /\ \/ t = "users" /\ from = "stats users" /\ to = "stats transfers"
           \/ t = "transfers" /\ from = "stats transfers" /\ to = "stats notifications"
           \/ t = "notifications" /\ from = "stats notifications" /\ to = "stats done"
  BY DEF StatsUsers, StatsTransfers, StatsNotifications, Tables, Stages
<1> DEFINE n == Cardinality(rows[t])
<1>2. /\ at[a] = from /\ at' = [at EXCEPT ![a] = to]
      /\ stats' = [stats EXCEPT ![a] = [stats[a] EXCEPT ![t] = n]]
      /\ UNCHANGED <<rows, sides, list, want, size, total, got, named, base, seen, late>>
  BY <1>1 DEF CountTable, tables
<1>3. n \in Nat
  BY TablesFinite, FS_CardinalityType DEF AdminInv
<1>4. RequestOK(a) /\ stats[a] \in [Tables -> Nat]
  BY DEF AdminInv, TypeOK
<1> HIDE DEF n
<1>5. TypeOK'
  <2>1. stats' \in [Admins -> [Tables -> Nat]]
    BY <1>2, <1>3, <1>4 DEF AdminInv, TypeOK
  <2>2. at' \in [Admins -> Stages]
    BY <1>2 DEF AdminInv, TypeOK
  <2> QED
    BY <1>2, <2>1, <2>2 DEF AdminInv, TypeOK
<1>6. /\ at'[a] = to /\ stats'[a] = [stats[a] EXCEPT ![t] = n]
  BY <1>2 DEF AdminInv, TypeOK
<1>7. Table(list[a])' = Table(list[a])
  BY <1>2 DEF Table
<1>8. Names(a)' /\ Stays(a)'
  BY <1>1, <1>2, <1>4, <1>6, <1>7 DEF RequestOK, Names, Stays
<1>9. Walk(a)'
  BY <1>1, <1>2, <1>6 DEF Walk, Unread, Read
<1>10. Counts(a)'
  <2>1. CASE t = "users"
    BY <1>1, <1>6, <2>1 DEF Counts
  <2>2. CASE t = "transfers"
    <3>1. stats'[a]["transfers"] = n /\ to = "stats notifications"
      BY <1>1, <1>4, <1>6, <2>2
    <3>2. n = Cardinality(rows'["transfers"]) /\ n <= n
      BY <1>2, <1>3, <2>2 DEF n
    <3> QED
      BY <1>6, <3>1, <3>2 DEF Counts
  <2>3. CASE t = "notifications"
    <3>1. stats'[a]["notifications"] = n /\ stats'[a]["transfers"] = stats[a]["transfers"]
      BY <1>4, <1>6, <2>3 DEF Tables
    <3>2. at[a] = "stats notifications"
      BY <1>1, <1>2, <2>3
    <3>3. /\ stats[a]["transfers"] \in Nat /\ Cardinality(rows["transfers"]) \in Nat
          /\ n = 2 * Cardinality(rows["transfers"])
          /\ stats[a]["transfers"] <= Cardinality(rows["transfers"])
      <4>1. Cardinality(rows["transfers"]) \in Nat /\ stats[a]["transfers"] \in Nat
        BY <1>4, TablesFinite, FS_CardinalityType DEF AdminInv, Tables
      <4> QED
        BY <1>4, <2>3, <3>2, <4>1 DEF AdminInv, RowsOK, RequestOK, Counts, n
    <3>4. 2 * stats[a]["transfers"] <= n
      BY <3>3
    <3>5. Cardinality(rows'["transfers"]) = Cardinality(rows["transfers"]) /\ n <= n
      BY <1>2, <1>3
    <3> QED
      BY <3>1, <3>3, <3>4, <3>5 DEF Counts
  <2> QED
    BY <1>1, <2>1, <2>2, <2>3
<1>11. Others(a)
  BY <1>2 DEF Others, AdminInv, TypeOK
<1> QED
  BY <1>5, <1>8, <1>9, <1>10, <1>11, OthersKeep DEF RequestOK

-----------------------------------------------------------------------------
LEMMA AdminStep == AdminInv /\ [Next]_vars => AdminInv'
<1> SUFFICES ASSUME AdminInv, [Next]_vars
             PROVE  AdminInv'
  OBVIOUS
<1>1. CASE UNCHANGED vars
  <2>1. TypeOK' /\ RowsOK' /\ Grown /\ UNCHANGED <<walk, stats>>
    BY <1>1 DEF vars, tables, walk, AdminInv, TypeOK, RowsOK, Grown
  <2> QED
    BY <2>1, GrowthKeeps
<1>2. ASSUME NEW u \in UserIds, Register(u)
      PROVE  AdminInv'
  BY <1>2, RegisterRows, GrowthKeeps DEF AdminInv, Register
<1>3. ASSUME NEW from \in UserIds, NEW to \in UserIds, NEW t \in TransferIds,
             NEW n \in NotificationIds, NEW m \in NotificationIds,
             BookTransfer(from, to, t, n, m)
      PROVE  AdminInv'
  BY <1>3, BookRows, GrowthKeeps DEF AdminInv, BookTransfer
<1> QED
  BY <1>1, <1>2, <1>3, OpenListKeeps, AdmitKeeps, StageKeeps, SelectPageKeeps, CountRowsKeeps,
     ResolveNamesKeeps, ReplyKeeps, StatsKeep DEF Next

(* Whatever is committed between and during the requests of the admin pages, *)
(* the rows still to be shown lie on the pages still to be asked for.        *)
THEOREM AdminInvariance == Spec => []AdminInv
BY AdminInit, AdminStep, PTL DEF Spec

(* paginate never lets a page size of zero through, and counts, rows and     *)
(* names of the replies are well formed.                                     *)
THEOREM AdminTypes == Spec => []TypeOK
<1>1. AdminInv => TypeOK
  BY DEF AdminInv
<1> QED
  BY <1>1, AdminInvariance, PTL

(* handleAdminUsers and handleAdminNotifications, which SELECT and then      *)
(* COUNT: turning the pages up to the last one announced misses no row.      *)
THEOREM WalksAreComplete == Spec => []WalkComplete
<1>1. AdminInv => WalkComplete
  BY DEF AdminInv, RequestOK, Stays, Walk, WalkComplete
<1> QED
  BY <1>1, AdminInvariance, PTL

(* handleAdminTransfers, which counts first: no row is missed either, unless *)
(* transfers were committed between COUNT and SELECT of the last page.       *)
THEOREM TransferWalksAreComplete == Spec => []TransfersWalkComplete
<1>1. AdminInv => TransfersWalkComplete
  BY DEF AdminInv, RequestOK, Walk, TransfersWalkComplete
<1> QED
  BY <1>1, AdminInvariance, PTL

(* resolveUserNames finds the names of both parties of every transfer shown. *)
THEOREM NamesAreResolved == Spec => []NamesResolved
<1>1. AdminInv => NamesResolved
  BY DEF AdminInv, RequestOK, Names, NamesResolved
<1> QED
  BY <1>1, AdminInvariance, PTL

(* handleAdminStats: three snapshots, taken in this order, never show fewer  *)
(* than two notifications per transfer.                                      *)
THEOREM StatsAreOrdered == Spec => []StatsOrdered
<1>1. AdminInv => StatsOrdered
  BY DEF AdminInv, RequestOK, Counts, StatsOrdered
<1> QED
  BY <1>1, AdminInvariance, PTL
=============================================================================
