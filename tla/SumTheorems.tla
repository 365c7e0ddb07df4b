----------------------------- MODULE SumTheorems -----------------------------
(***************************************************************************)
(* Facts about finite sums of integers, by induction on the number of      *)
(* terms.  The induction is over a set of numbers (SetInduction), from the *)
(* well-foundedness of < on Nat: a set is a plain value that the provers   *)
(* can instantiate, where a predicate is not.                              *)
(***************************************************************************)
EXTENDS Sums, WellFoundedInduction, TLAPS

(* A set that holds 0, and n + 1 whenever it holds n, holds every number. *)
LEMMA SetInduction ==
  ASSUME NEW S, 0 \in S, \A n \in Nat : n \in S => n + 1 \in S
  PROVE  Nat \subseteq S
<1> DEFINE T == Nat \ S
<1> SUFFICES ASSUME T # {} PROVE FALSE
  OBVIOUS
<1>1. T \subseteq Nat
  OBVIOUS
<1> HIDE DEF T
<1>2. \E m \in T : \A y \in T : ~(<<y, m>> \in OpToRel(<, Nat))
  BY <1>1, NatLessThanWellFounded, WFMin
<1>3. PICK m \in T : \A y \in T : ~(<<y, m>> \in OpToRel(<, Nat))
  BY <1>2
<1>4. \A y \in T : ~(y < m)
  BY <1>1, <1>3 DEF OpToRel
<1>5. m # 0 /\ m \in Nat
  BY <1>1, <1>3 DEF T
<1>6. m - 1 \in Nat /\ m - 1 \in S
  BY <1>4, <1>5 DEF T
<1>7. m \in S
  BY <1>5, <1>6
<1>8. QED
  BY <1>3, <1>7 DEF T

-----------------------------------------------------------------------------
(* s[k] is the sum of the first k terms. *)
PartialSums(s, term, n) ==
  /\ s \in [0..n -> Int]
  /\ s[0] = 0
  /\ \A k \in 1..n : s[k] = s[k - 1] + term[k]

(* The recursion has a solution ... *)
LEMMA SumsExist ==
  ASSUME NEW n \in Nat, NEW term \in [1..n -> Int]
  PROVE  \E s : PartialSums(s, term, n)
<1> DEFINE S == {k \in Nat : k <= n => \E s : PartialSums(s, term, k)}
<1>1. 0 \in S
  <2>1. PartialSums([i \in 0..0 |-> 0], term, 0)
    BY DEF PartialSums
  <2>2. QED
    BY <2>1
<1>2. ASSUME NEW k \in Nat, k \in S PROVE k + 1 \in S
  <2> SUFFICES ASSUME k + 1 <= n PROVE \E s : PartialSums(s, term, k + 1)
    OBVIOUS
  <2>1. PICK s : PartialSums(s, term, k)
    BY <1>2
  <2> DEFINE t == [i \in 0..(k + 1) |-> IF i = k + 1 THEN s[k] + term[k + 1] ELSE s[i]]
  <2>2. t \in [0..(k+1) -> Int]
    BY <2>1 DEF PartialSums
  <2>3. PartialSums(t, term, k + 1)
    BY <2>1, <2>2 DEF PartialSums
  <2>4. QED
    BY <2>3
<1> HIDE DEF S
<1>3. Nat \subseteq S
  BY <1>1, <1>2, SetInduction
<1>4. QED
  BY <1>3 DEF S

(* ... and only one. *)
LEMMA SumsUnique ==
  ASSUME NEW n \in Nat, NEW term, NEW s, NEW t, NEW m \in Nat, m >= n,
         PartialSums(s, term, n), PartialSums(t, term, m)
  PROVE  s[n] = t[n]
<1> DEFINE S == {k \in Nat : k <= n => s[k] = t[k]}
<1>1. 0 \in S
  BY DEF PartialSums
<1>2. ASSUME NEW k \in Nat, k \in S PROVE k + 1 \in S
  <2> SUFFICES ASSUME k + 1 <= n PROVE s[k + 1] = t[k + 1]
    OBVIOUS
  <2>1. k + 1 \in 1..n /\ k + 1 \in 1..m /\ (k + 1) - 1 = k
    OBVIOUS
  <2>2. s[k + 1] = s[k] + term[k + 1] /\ t[k + 1] = t[k] + term[k + 1]
    BY <2>1 DEF PartialSums
  <2>3. QED
    BY <1>2, <2>2
<1> HIDE DEF S
<1>3. Nat \subseteq S
  BY <1>1, <1>2, SetInduction
<1>4. QED
  BY <1>3 DEF S

(* SumOf, which picks a solution of its recursion, picks the partial sums. *)
LEMMA SumOfDef ==
  ASSUME NEW n \in Nat, NEW term \in [1..n -> Int]
  PROVE  \E s : PartialSums(s, term, n) /\ SumOf(term, n) = s[n]
<1> DEFINE Fix(g) == g = [k \in 0..n |-> IF k = 0 THEN 0 ELSE g[k - 1] + term[k]]
<1>1. PICK s : PartialSums(s, term, n)
  BY SumsExist
<1>2. Fix(s)
  BY <1>1 DEF PartialSums
<1>3. Fix(CHOOSE g : Fix(g))
  BY <1>2
<1> DEFINE t == CHOOSE g : Fix(g)
<1>5. SumOf(term, n) = t[n]
  BY DEF SumOf
<1> HIDE DEF t
<1>4. Fix(t)
  BY <1>3 DEF t
<1>6. PartialSums(t, term, n)
  <2>1. t[0] = 0 /\ \A k \in 1..n : t[k] = t[k - 1] + term[k]
    BY <1>4
  <2> DEFINE S == {k \in Nat : k <= n => t[k] = s[k]}
  <2>2. 0 \in S
    BY <2>1, <1>1 DEF PartialSums
  <2>3. ASSUME NEW k \in Nat, k \in S PROVE k + 1 \in S
    <3> SUFFICES ASSUME k + 1 <= n PROVE t[k + 1] = s[k + 1]
      OBVIOUS
    <3>1. k + 1 \in 1..n /\ (k + 1) - 1 = k
      OBVIOUS
    <3>2. s[k + 1] = s[k] + term[k + 1] /\ t[k + 1] = t[k] + term[k + 1]
      BY <2>1, <3>1, <1>1 DEF PartialSums
    <3>3. QED
      BY <2>3, <3>2
  <2> HIDE DEF S
  <2>4. Nat \subseteq S
    BY <2>2, <2>3, SetInduction
  <2>5. \A k \in 0..n : t[k] = s[k]
    BY <2>4 DEF S
  <2>6. t \in [0..n -> Int]
    BY <2>5, <1>1, <1>4 DEF PartialSums
  <2>7. QED
    BY <2>1, <2>6 DEF PartialSums
<1>7. QED
  BY <1>5, <1>6

-----------------------------------------------------------------------------
(* A sum of integers is an integer. *)
LEMMA SumOfInt ==
  ASSUME NEW n \in Nat, NEW term \in [1..n -> Int]
  PROVE  SumOf(term, n) \in Int
BY SumOfDef DEF PartialSums

(* Whatever has the shape of the partial sums ends in the sum. *)
LEMMA SumOfAt ==
  ASSUME NEW n \in Nat, NEW term \in [1..n -> Int], NEW s, PartialSums(s, term, n)
  PROVE  SumOf(term, n) = s[n]
BY SumOfDef, SumsUnique

(* The empty sum. *)
LEMMA SumOfNone ==
  ASSUME NEW term \in [1..0 -> Int]
  PROVE  SumOf(term, 0) = 0
BY SumOfDef DEF PartialSums

(* One more term. *)
LEMMA SumOfNext ==
  ASSUME NEW n \in Nat, NEW term \in [1..n -> Int], NEW more \in [1..(n + 1) -> Int],
         \A i \in 1..n : more[i] = term[i]
  PROVE  SumOf(more, n + 1) = SumOf(term, n) + more[n + 1]
<1>1. PICK s : PartialSums(s, more, n + 1) /\ SumOf(more, n + 1) = s[n + 1]
  <2>1. n + 1 \in Nat
    OBVIOUS
  <2> QED
    BY <2>1, SumOfDef
<1> DEFINE t == [i \in 0..n |-> s[i]]
<1>2. PartialSums(t, term, n)
  BY <1>1 DEF PartialSums
<1>3. SumOf(term, n) = t[n]
  BY <1>2, SumOfAt
<1>4. s[n + 1] = s[n] + more[n + 1]
  <2>1. n + 1 \in 1..(n + 1) /\ (n + 1) - 1 = n
    OBVIOUS
  <2> QED
    BY <1>1, <2>1 DEF PartialSums
<1> QED
  BY <1>1, <1>3, <1>4

(* The sum of sums taken term by term. *)
LEMMA SumOfSum ==
  ASSUME NEW n \in Nat, NEW a \in [1..n -> Int], NEW b \in [1..n -> Int],
         NEW c \in [1..n -> Int], \A i \in 1..n : c[i] = a[i] + b[i]
  PROVE  SumOf(c, n) = SumOf(a, n) + SumOf(b, n)
<1>1. PICK s : PartialSums(s, a, n) /\ SumOf(a, n) = s[n]
  BY SumOfDef
<1>2. PICK t : PartialSums(t, b, n) /\ SumOf(b, n) = t[n]
  BY SumOfDef
<1> DEFINE u == [i \in 0..n |-> s[i] + t[i]]
<1>3. PartialSums(u, c, n)
  <2>1. u \in [0..n -> Int] /\ u[0] = 0
    BY <1>1, <1>2 DEF PartialSums
  <2>2. ASSUME NEW k \in 1..n PROVE u[k] = u[k - 1] + c[k]
    <3>1. k \in 0..n /\ k - 1 \in 0..n
      OBVIOUS
    <3>2. s[k] = s[k - 1] + a[k] /\ t[k] = t[k - 1] + b[k]
      BY <1>1, <1>2 DEF PartialSums
    <3>3. s[k - 1] \in Int /\ t[k - 1] \in Int /\ a[k] \in Int /\ b[k] \in Int
      BY <1>1, <1>2, <3>1 DEF PartialSums
    <3> QED
      BY <3>1, <3>2, <3>3
  <2> QED
    BY <2>1, <2>2 DEF PartialSums
<1>4. SumOf(c, n) = u[n]
  BY <1>3, SumOfAt
<1> QED
  BY <1>1, <1>2, <1>4

(* Only one term is not 0. *)
LEMMA SumOfOne ==
  ASSUME NEW n \in Nat, NEW p \in 1..n, NEW x \in Int
  PROVE  SumOf([i \in 1..n |-> IF i = p THEN x ELSE 0], n) = x
<1> DEFINE term == [i \in 1..n |-> IF i = p THEN x ELSE 0]
           s == [i \in 0..n |-> IF i >= p THEN x ELSE 0]
<1>1. term \in [1..n -> Int]
  OBVIOUS
<1>2. PartialSums(s, term, n)
  BY DEF PartialSums
<1>3. SumOf(term, n) = s[n]
  BY <1>1, <1>2, SumOfAt
<1> QED
  BY <1>3
=============================================================================
