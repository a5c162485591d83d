-------------------------- MODULE ConfigToolProofs --------------------------
(* ConfigTool, for any configurations and firmwares, any number of workers and *)
(* whatever the user does: after "Finished Successfully" the firmware on the   *)
(* board reads every item as it was left in the editor, starts with it, and    *)
(* does to its pins what the string for them says; the file of a configuration *)
(* is read back.                                                               *)
(*                                                                             *)
(* At first what the operators compute, bottom up: sorting and recursion, the  *)
(* commands for the pins (GpioInit), images and hex files (FirmwareImage), the *)
(* table in the firmware (ExtData), the file and the editor (ConfigFile).      *)
(* Then the two inductive invariants of ConfigTool: IInv, what the steps of    *)
(* workers, user and board do to the flash memory whatever is in it, and       *)
(* DataInv, of what the data are.                                              *)
EXTENDS ConfigTool, FiniteSetTheorems, SequenceTheorems, WellFoundedInduction, TLAPS

(* Sets of numbers, and induction.                                           *)

(* Sets of numbers have a least element: the numbers up to one of them are   *)
(* ordered by inclusion.                                                     *)
LEMMA Least == ASSUME NEW S \in SUBSET Nat, S # {}
               PROVE  \E m \in S : \A y \in S : m <= y
<1> PICK n \in S : TRUE
  OBVIOUS
<1> DEFINE T == { 0 .. m : m \in { i \in S : i <= n } }
           R == StrictSubsetOrdering(0 .. n)
<1>1. T \subseteq SUBSET (0 .. n) /\ T # {}
  OBVIOUS
<1>2. IsWellFoundedOn(R, SUBSET (0 .. n))
  <2>1. IsFiniteSet(0 .. n)
    BY FS_Interval
  <2>2. FiniteSubsetsOf(0 .. n) = SUBSET (0 .. n)
    BY <2>1, FS_FiniteSubsetsOfFinite
  <2> QED BY <2>2, FS_StrictSubsetOrderingWellFounded, Zenon
<1>3. PICK x \in T : \A y \in T : <<y, x>> \notin R
  <2> HIDE DEF T, R
  <2> QED BY <1>1, <1>2, WFMin
<1>4. PICK m \in S : m <= n /\ x = 0 .. m
  OBVIOUS
<1>5. ASSUME NEW y \in S, y < m PROVE FALSE
  <2>1. 0 .. y \in T
    BY <1>4, <1>5
  <2>2. 0 .. y \subseteq x /\ 0 .. y # x /\ x \subseteq 0 .. n
    BY <1>4, <1>5
  <2>3. <<0 .. y, x>> \in R
    BY <2>2 DEF StrictSubsetOrdering
  <2> QED BY <1>3, <2>1, <2>3
<1> QED BY <1>5

LEMMA MinIs == ASSUME NEW S \in SUBSET Nat, S # {}
               PROVE  Min(S) \in S /\ \A y \in S : Min(S) <= y
BY Least DEF Min

\* Min and Max of the community modules, of sets that have one.
LEMMA MaxIs == ASSUME NEW S \in SUBSET Int, S # {}, NEW b \in Int, \A x \in S : x <= b
               PROVE  Max(S) \in S /\ \A y \in S : y <= Max(S)
<1> DEFINE D == { b - x : x \in S }
<1>1. PICK d \in D : \A y \in D : d <= y
  <2>1. \A d \in D : d \in Nat
    OBVIOUS
  <2>2. \E x \in S : b - x \in D
    OBVIOUS
  <2> HIDE DEF D
  <2> QED BY <2>1, <2>2, Least
<1>2. PICK m \in S : d = b - m
  OBVIOUS
<1>3. \A y \in S : m >= y
  <2> SUFFICES ASSUME NEW y \in S PROVE m >= y
    OBVIOUS
  <2>1. b - y \in D
    OBVIOUS
  <2>2. d <= b - y
    BY <1>1, <2>1
  <2> QED BY <1>2, <2>2
<1> QED BY <1>3 DEF Max

(* Induction, without an operator for what is proved by it.                  *)
LEMMA Induct == ASSUME NEW T, 0 \in T, \A n \in Nat : n \in T => n + 1 \in T
                PROVE  \A n \in Nat : n \in T
<1> SUFFICES ASSUME NEW k \in Nat, k \notin T PROVE FALSE
  OBVIOUS
<1>1. PICK m \in { n \in Nat : n \notin T } : \A y \in { n \in Nat : n \notin T } : m <= y
  <2> DEFINE S == { n \in Nat : n \notin T }
  <2>1. S \in SUBSET Nat /\ S # {}
    OBVIOUS
  <2> HIDE DEF S
  <2>2. \E m \in S : \A y \in S : m <= y
    BY <2>1, Least
  <2> QED BY <2>2 DEF S
<1>2. m # 0 /\ m - 1 \in Nat /\ m - 1 \in T
  BY <1>1
<1> QED BY <1>1, <1>2

\* A function on 1 .. n is a sequence.
LEMMA SeqIs == ASSUME NEW n \in Nat, NEW S, NEW s \in [1 .. n -> S]
               PROVE  s \in Seq(S) /\ Len(s) = n /\ DOMAIN s = 1 .. n
OBVIOUS
-----------------------------------------------------------------------------
(* A finite set of numbers in order.                                         *)

UpTo(S, e) == { x \in S : x <= e }

\* A bounded set of numbers is finite.
LEMMA Finite == ASSUME NEW S \in SUBSET Nat, NEW b \in Nat, \A x \in S : x <= b
                PROVE  IsFiniteSet(S) /\ Cardinality(S) \in Nat
BY FS_BoundedSetOfNaturals, FS_CardinalityType

\* The greater an element, the more elements up to it.
LEMMA RankGrows ==
  ASSUME NEW S \in SUBSET Nat, NEW d \in S, NEW e \in S, d < e
  PROVE  /\ Cardinality(UpTo(S, d)) \in Nat /\ Cardinality(UpTo(S, e)) \in Nat
         /\ Cardinality(UpTo(S, d)) < Cardinality(UpTo(S, e))
<1>1. \A x \in UpTo(S, e) : x <= e
  BY DEF UpTo
<1>2. IsFiniteSet(UpTo(S, e)) /\ Cardinality(UpTo(S, e)) \in Nat
  BY <1>1, Finite DEF UpTo
<1>3. UpTo(S, d) \in SUBSET UpTo(S, e) /\ UpTo(S, d) # UpTo(S, e)
  <2>1. e \in UpTo(S, e) /\ e \notin UpTo(S, d)
    BY DEF UpTo
  <2>2. \A x \in UpTo(S, d) : x \in UpTo(S, e)
    BY DEF UpTo
  <2> QED BY <2>1, <2>2
<1>4. IsFiniteSet(UpTo(S, d)) /\ Cardinality(UpTo(S, d)) \in Nat
  BY <1>2, <1>3, FS_Subset, FS_CardinalityType
<1> QED BY <1>2, <1>3, <1>4, FS_Subset

\* There is an element of each rank.
LEMMA Ranked ==
  ASSUME NEW S \in SUBSET Nat, NEW b \in Nat, \A x \in S : x <= b,
         NEW k \in 1 .. Cardinality(S)
  PROVE  \E e \in S : Cardinality(UpTo(S, e)) = k
<1> DEFINE High == { e \in S : Cardinality(UpTo(S, e)) >= k }
<1>1. IsFiniteSet(S) /\ Cardinality(S) \in Nat
  BY Finite
<1>2. S # {}
  BY <1>1, FS_EmptySet
<1>3. Max(S) \in S /\ \A y \in S : y <= Max(S)
  BY <1>2, MaxIs
<1>4. UpTo(S, Max(S)) = S
  BY <1>3 DEF UpTo
<1>5. High \in SUBSET Nat /\ Max(S) \in High
  <2>1. Cardinality(UpTo(S, Max(S))) = Cardinality(S)
    BY <1>4
  <2>2. Cardinality(UpTo(S, Max(S))) >= k
    BY <1>1, <2>1
  <2> QED BY <1>3, <2>2
<1>6. PICK m \in High : \A y \in High : m <= y
  <2> HIDE DEF High
  <2> QED BY <1>5, Least
<1>7. m \in S /\ Cardinality(UpTo(S, m)) >= k
  OBVIOUS
<1> DEFINE Below == UpTo(S, m) \ {m}
<1>8. /\ IsFiniteSet(UpTo(S, m)) /\ Cardinality(UpTo(S, m)) \in Nat
      /\ IsFiniteSet(Below) /\ Cardinality(Below) = Cardinality(UpTo(S, m)) - 1
  <2>1. UpTo(S, m) \in SUBSET S /\ m \in UpTo(S, m)
    BY <1>7 DEF UpTo
  <2>2. IsFiniteSet(UpTo(S, m)) /\ Cardinality(UpTo(S, m)) \in Nat
    BY <1>1, <2>1, FS_Subset, FS_CardinalityType
  <2> QED BY <2>1, <2>2, FS_RemoveElement
<1>9. ASSUME Cardinality(UpTo(S, m)) > k PROVE FALSE
  <2>1. Below # {}
    BY <1>8, <1>9, FS_EmptySet
  <2>2. Below \in SUBSET S /\ \A x \in Below : x <= b
    BY DEF UpTo
  <2>3. Max(Below) \in Below /\ \A y \in Below : y <= Max(Below)
    <3> HIDE DEF Below
    <3> QED BY <2>1, <2>2, MaxIs
  <2> DEFINE e == Max(Below)
  <2>4. e \in S /\ e <= m /\ e # m
    BY <2>3 DEF UpTo
  <2>5. \A x \in Below : x \in S /\ x <= e
    BY <2>3 DEF UpTo
  <2> HIDE DEF e
  <2>6. \A x \in S : x <= e => x \in Below
    BY <2>4 DEF UpTo
  <2> HIDE DEF Below
  <2>7. UpTo(S, e) = Below
    BY <2>5, <2>6 DEF UpTo
  <2>8. e \in High
    BY <1>8, <1>9, <2>4, <2>7
  <2> QED BY <1>6, <2>4, <2>8
<1> QED BY <1>7, <1>8, <1>9

\* Sorted: all the elements, each once, in order.
LEMMA SortedIs ==
  ASSUME NEW S \in SUBSET Nat, NEW b \in Nat, \A x \in S : x <= b
  PROVE  /\ Cardinality(S) \in Nat
         /\ Sorted(S) \in Seq(S)
         /\ Len(Sorted(S)) = Cardinality(S) /\ DOMAIN Sorted(S) = 1 .. Cardinality(S)
         /\ \A k \in 1 .. Cardinality(S) : /\ Sorted(S)[k] \in S
                                           /\ Cardinality(UpTo(S, Sorted(S)[k])) = k
         /\ \A j, k \in 1 .. Cardinality(S) : j < k => Sorted(S)[j] < Sorted(S)[k]
         /\ \A e \in S : \E k \in 1 .. Cardinality(S) : Sorted(S)[k] = e
<1> DEFINE n == Cardinality(S)
<1>1. IsFiniteSet(S) /\ n \in Nat
  BY Finite
<1>2. \A k \in 1 .. n : Sorted(S)[k] \in S /\ Cardinality(UpTo(S, Sorted(S)[k])) = k
  <2> SUFFICES ASSUME NEW k \in 1 .. n
               PROVE  Sorted(S)[k] \in S /\ Cardinality(UpTo(S, Sorted(S)[k])) = k
    OBVIOUS
  <2>1. Sorted(S)[k] = CHOOSE e \in S : Cardinality(UpTo(S, e)) = k
    BY DEF Sorted, UpTo
  <2> QED BY <2>1, Ranked
<1>3. DOMAIN Sorted(S) = 1 .. n /\ Sorted(S) = [k \in 1 .. n |-> Sorted(S)[k]]
  BY DEF Sorted
<1>4. Sorted(S) \in [1 .. n -> S]
  BY <1>2, <1>3
<1>5. Sorted(S) \in Seq(S) /\ Len(Sorted(S)) = n
  BY <1>1, <1>4, SeqIs
<1>6. \A j, k \in 1 .. n : j < k => Sorted(S)[j] < Sorted(S)[k]
  <2> SUFFICES ASSUME NEW j \in 1 .. n, NEW k \in 1 .. n, j < k, ~(Sorted(S)[j] < Sorted(S)[k])
               PROVE  FALSE
    OBVIOUS
  <2> DEFINE d == Sorted(S)[j]
             e == Sorted(S)[k]
  <2>1. d \in S /\ e \in S /\ Cardinality(UpTo(S, d)) = j /\ Cardinality(UpTo(S, e)) = k
    BY <1>2
  <2> HIDE DEF d, e
  <2>2. d # e
    BY <2>1
  <2>3. e < d
    <3>1. ~(d < e)
      BY DEF d, e
    <3> QED BY <2>1, <2>2, <3>1
  <2> QED BY <2>1, <2>3, RankGrows
<1>7. \A e \in S : \E k \in 1 .. n : Sorted(S)[k] = e
  <2> SUFFICES ASSUME NEW e \in S PROVE \E k \in 1 .. n : Sorted(S)[k] = e
    OBVIOUS
  <2> DEFINE k == Cardinality(UpTo(S, e))
  <2>1. UpTo(S, e) \in SUBSET S /\ UpTo(S, e) # {}
    BY DEF UpTo
  <2>2. k \in 1 .. n
    <3>1. IsFiniteSet(UpTo(S, e)) /\ k \in Nat /\ k <= n
      BY <1>1, <2>1, FS_Subset, FS_CardinalityType
    <3>2. k # 0
      BY <2>1, <3>1, FS_EmptySet
    <3> QED BY <1>1, <3>1, <3>2
  <2> DEFINE d == Sorted(S)[k]
  <2>3. d \in S /\ Cardinality(UpTo(S, d)) = k
    BY <1>2, <2>2
  <2>4. d = e
    <3> HIDE DEF d
    <3>1. ~(d < e) /\ ~(e < d)
      BY <2>3, RankGrows
    <3> QED BY <2>3, <3>1
  <2> QED BY <2>2, <2>4
<1> QED BY <1>1, <1>2, <1>3, <1>5, <1>6, <1>7

\* A sequence of all the elements of a set, each once, is as long as the set has elements.
LEMMA Counts ==
  ASSUME NEW n \in Nat, NEW U, NEW f, f \in [1 .. n -> U],
         \A j \in 1 .. n : \A k \in 1 .. n : f[j] = f[k] => j = k,
         \A e \in U : \E k \in 1 .. n : f[k] = e
  PROVE  IsFiniteSet(U) /\ Cardinality(U) = n
<1>1. f \in Injection(1 .. n, U)
  BY Zenon DEF Injection, IsInjective
<1>2. f \in Surjection(1 .. n, U)
  BY Zenon DEF Surjection
<1>3. ExistsBijection(1 .. n, U)
  BY <1>1, <1>2, Zenon DEF Bijection, ExistsBijection
<1>4. IsFiniteSet(1 .. n) /\ Cardinality(1 .. n) = n
  BY FS_Interval
<1> QED BY <1>3, <1>4, FS_Bijection

\* A sequence of all the elements in order is the one that Sorted gives.
LEMMA SortedUnique ==
  ASSUME NEW S \in SUBSET Nat, NEW b \in Nat, \A x \in S : x <= b,
         NEW n \in Nat, NEW f \in [1 .. n -> S],
         \A j \in 1 .. n : \A k \in 1 .. n : j < k => f[j] < f[k],
         \A e \in S : \E k \in 1 .. n : f[k] = e
  PROVE  Cardinality(S) = n /\ Sorted(S) = f
<1>0. \A j \in 1 .. n : f[j] \in S /\ f[j] \in Nat
  OBVIOUS
<1>i. \A j \in 1 .. n : \A k \in 1 .. n : f[j] = f[k] => j = k
  <2> SUFFICES ASSUME NEW j \in 1 .. n, NEW k \in 1 .. n, f[j] = f[k], j # k PROVE FALSE
    OBVIOUS
  <2>1. j < k \/ k < j
    OBVIOUS
  <2>2. j < k => f[j] < f[k]
    OBVIOUS
  <2>3. k < j => f[k] < f[j]
    OBVIOUS
  <2>4. f[j] \in Nat
    BY <1>0
  <2> QED BY <2>1, <2>2, <2>3, <2>4
<1>1. Cardinality(S) = n
  BY <1>i, Counts
<1>2. \A k \in 1 .. n : Cardinality(UpTo(S, f[k])) = k
  <2> SUFFICES ASSUME NEW k \in 1 .. n PROVE Cardinality(UpTo(S, f[k])) = k
    OBVIOUS
  <2> DEFINE g == [i \in 1 .. k |-> f[i]]
             U == UpTo(S, f[k])
  <2>1. \A i \in 1 .. k : f[i] \in S /\ f[i] <= f[k]
    <3> SUFFICES ASSUME NEW i \in 1 .. k PROVE f[i] \in S /\ f[i] <= f[k]
      OBVIOUS
    <3>1. f[i] \in Nat /\ f[k] \in Nat /\ f[i] \in S
      BY <1>0
    <3>2. i < k => f[i] < f[k]
      OBVIOUS
    <3> QED BY <3>1, <3>2
  <2>2. g \in [1 .. k -> U]
    BY <2>1 DEF UpTo
  <2>3. \A i \in 1 .. k : \A j \in 1 .. k : g[i] = g[j] => i = j
    BY <1>i
  <2>4. \A e \in U : \E i \in 1 .. k : g[i] = e
    <3> SUFFICES ASSUME NEW e \in S, e <= f[k] PROVE \E i \in 1 .. k : g[i] = e
      BY DEF UpTo
    <3>1. PICK i \in 1 .. n : f[i] = e
      OBVIOUS
    <3>2. ~(k < i)
      <4>1. f[k] \in Nat /\ f[i] \in Nat
        BY <1>0
      <4>2. k < i => f[k] < f[i]
        OBVIOUS
      <4> QED BY <3>1, <4>1, <4>2
    <3> QED BY <3>1, <3>2
  <2>5. k \in Nat
    OBVIOUS
  <2> HIDE DEF g, U
  <2> QED BY <2>2, <2>3, <2>4, <2>5, Counts DEF U
<1>3. \A k \in 1 .. n : Sorted(S)[k] = f[k]
  <2> SUFFICES ASSUME NEW k \in 1 .. n PROVE Sorted(S)[k] = f[k]
    OBVIOUS
  <2> DEFINE d == Sorted(S)[k]
             e == f[k]
  <2>1. d \in S /\ Cardinality(UpTo(S, d)) = k
    BY <1>1, SortedIs
  <2>2. e \in S /\ Cardinality(UpTo(S, e)) = k
    BY <1>2
  <2> HIDE DEF d, e
  <2>3. ~(d < e) /\ ~(e < d)
    BY <2>1, <2>2, RankGrows
  <2>4. d = e
    BY <2>1, <2>2, <2>3
  <2> QED BY <2>4 DEF d, e
<1>4. Sorted(S) = [k \in 1 .. n |-> f[k]]
  <2>1. Sorted(S) \in [1 .. n -> S]
    <3>1. DOMAIN Sorted(S) = 1 .. n /\ Sorted(S) \in Seq(S)
      BY <1>1, SortedIs
    <3> QED BY <3>1
  <2> HIDE DEF Sorted
  <2> QED BY <2>1, <1>3
<1> QED BY <1>1, <1>4

\* A greater element goes to the end.
LEMMA SortedGrows ==
  ASSUME NEW S \in SUBSET Nat, NEW x \in Nat, \A y \in S : y < x
  PROVE  Sorted(S \union {x}) = Append(Sorted(S), x)
<1> DEFINE n == Cardinality(S)
           s == Sorted(S)
           f == Append(s, x)
           T == S \union {x}
<1>1. \A y \in S : y <= x
  OBVIOUS
<1>2. /\ n \in Nat /\ s \in Seq(S) /\ Len(s) = n
      /\ \A k \in 1 .. n : s[k] \in S
      /\ \A j \in 1 .. n : \A k \in 1 .. n : j < k => s[j] < s[k]
      /\ \A e \in S : \E k \in 1 .. n : s[k] = e
  BY <1>1, SortedIs
<1> HIDE DEF s, n
<1>3. /\ f \in [1 .. n + 1 -> T] /\ f[n + 1] = x
      /\ \A k \in 1 .. n : f[k] = s[k]
  <2>1. s \in Seq(T) /\ x \in T
    <3>1. s = [k \in 1 .. n |-> s[k]]
      BY <1>2
    <3> QED BY <1>2, <3>1, SeqIs
  <2> HIDE DEF T
  <2>2. /\ f \in Seq(T) /\ Len(f) = Len(s) + 1 /\ f[Len(s) + 1] = x
        /\ \A i \in 1 .. Len(s) : f[i] = s[i]
    BY <2>1, AppendProperties
  <2> HIDE DEF f
  <2> QED BY <1>2, <2>2
<1> HIDE DEF f
<1>4. \A j \in 1 .. n + 1 : \A k \in 1 .. n + 1 : j < k => f[j] < f[k]
  <2> SUFFICES ASSUME NEW j \in 1 .. n, NEW k \in 1 .. n + 1, j < k PROVE f[j] < f[k]
    BY <1>2
  <2>1. f[j] = s[j] /\ s[j] \in S
    BY <1>2, <1>3
  <2>2. CASE k = n + 1
    BY <1>3, <2>1, <2>2
  <2>3. CASE k \in 1 .. n
    BY <1>2, <1>3, <2>3
  <2> QED BY <1>2, <2>2, <2>3
<1>5. \A e \in T : \E k \in 1 .. n + 1 : f[k] = e
  BY <1>2, <1>3
<1>6. T \in SUBSET Nat /\ (\A y \in T : y <= x) /\ n + 1 \in Nat
  BY <1>1, <1>2
<1> HIDE DEF T
<1> QED BY <1>3, <1>4, <1>5, <1>6, SortedUnique DEF f, s, T
-----------------------------------------------------------------------------
(* Functions defined by recursion on the numbers up to a bound.              *)

\* Induction up to a bound, on the set of the numbers for which something holds.
LEMMA InductTo ==
  ASSUME NEW L \in Nat, NEW T, 0 \in T, \A n \in 1 .. L : n - 1 \in T => n \in T
  PROVE  \A n \in 0 .. L : n \in T
<1> DEFINE U == { n \in Nat : n <= L => n \in T }
<1>1. 0 \in U
  OBVIOUS
<1>2. \A n \in Nat : n \in U => n + 1 \in U
  <2> SUFFICES ASSUME NEW n \in Nat, n \in U, n + 1 <= L PROVE n + 1 \in T
    OBVIOUS
  <2>1. n + 1 \in 1 .. L /\ (n + 1) - 1 = n /\ n \in T
    OBVIOUS
  <2> QED BY <2>1
<1> HIDE DEF U
<1>3. \A n \in Nat : n \in U
  BY <1>1, <1>2, Induct
<1> QED BY <1>3 DEF U

Steps(V, L, v, F) == L \in Nat /\ v \in V /\ \A n \in 1 .. L : \A u \in V : F[n][u] \in V
Follows(f, V, L, v, F) == /\ f \in [0 .. L -> V] /\ f[0] = v
                          /\ \A n \in 1 .. L : f[n] = F[n][f[n - 1]]

\* A function that is defined by recursion up to a bound exists.
LEMMA Recursion == ASSUME NEW V, NEW L, NEW v, NEW F, Steps(V, L, v, F)
                   PROVE  \E f : Follows(f, V, L, v, F)
<1> USE DEF Steps, Follows
<1> DEFINE Upto(m, f) == /\ f \in [0 .. m -> V] /\ f[0] = v
                         /\ \A n \in 1 .. m : f[n] = F[n][f[n - 1]]
           T == { m \in 0 .. L : \E f : Upto(m, f) }
<1>1. 0 \in T
  <2> DEFINE g == [n \in 0 .. 0 |-> v]
  <2>1. g \in [0 .. 0 -> V] /\ g[0] = v
    OBVIOUS
  <2>2. \A n \in 1 .. 0 : g[n] = F[n][g[n - 1]]
    OBVIOUS
  <2> HIDE DEF g
  <2>3. Upto(0, g)
    BY <2>1, <2>2
  <2> QED BY <2>3
<1>2. \A m \in 1 .. L : m - 1 \in T => m \in T
  <2> SUFFICES ASSUME NEW m \in 1 .. L, m - 1 \in T PROVE m \in T
    OBVIOUS
  <2>0. \A i : i \in T <=> i \in 0 .. L /\ \E f : Upto(i, f)
    BY Zenon
  <2> HIDE DEF T, Upto
  <2>1. PICK f : Upto(m - 1, f)
    BY <2>0
  <2> USE DEF Upto
  <2> DEFINE g == [n \in 0 .. m |-> IF n = m THEN F[m][f[m - 1]] ELSE f[n]]
  <2>2. f[m - 1] \in V /\ F[m][f[m - 1]] \in V
    BY <2>1
  <2>3. g \in [0 .. m -> V] /\ g[0] = v
    BY <2>1, <2>2
  <2>4. \A n \in 1 .. m : g[n] = F[n][g[n - 1]]
    BY <2>1
  <2>5. Upto(m, g)
    BY <2>3, <2>4
  <2> HIDE DEF Upto, g
  <2>6. m \in 0 .. L
    OBVIOUS
  <2> QED BY <2>0, <2>5, <2>6
<1>3. L \in T
  <2> HIDE DEF T
  <2>1. \A m \in 0 .. L : m \in T
    BY <1>1, <1>2, InductTo
  <2> QED BY <2>1
<1> QED BY <1>3, Zenon
-----------------------------------------------------------------------------
(* The initialisation string of the pins (GpioInit).                         *)

\* processGpioCommand, for a pause: it is good if the command is valid, and waits.
LEMMA PauseRuns ==
  ASSUME NEW cmd \in Seq(Byte), Len(cmd) <= CommandSize, NEW errors_only \in BOOLEAN,
         Len(cmd) > 0, cmd[1] = PAUSE
  PROVE  /\ ProcessGpioCommand(cmd, errors_only) =
              IF ValidCommand(cmd)
              THEN Good(IF errors_only THEN <<>> ELSE << CommandMeaning(cmd) >>)
              ELSE Bad
<1>1. Len(cmd) \in Nat /\ CommandSize \in Nat
  BY CommandAssumption
<1>2. ValidCommand(cmd) <=> ~(Len(cmd) < 2)
  BY <1>1 DEF ValidCommand
<1>3. CommandMeaning(cmd) = Delay(ParseNumber(Tail(cmd)))
  BY DEF CommandMeaning
<1> QED BY <1>2, <1>3, Zenon DEF ProcessGpioCommand

\* What a command for a pin means.
LEMMA DriveIs ==
  ASSUME NEW cmd, cmd[1] # PAUSE
  PROVE  CommandMeaning(cmd) = Drive(cmd[1], Bitmask(cmd[2]), cmd[3] \in {PLUS, CARET},
                                     cmd[3] \in {PLUS, MINUS})
<1> DEFINE high == cmd[3] \in {PLUS, CARET}
           out == cmd[3] \in {PLUS, MINUS}
<1>1. CommandMeaning(cmd) = [port |-> cmd[1], bits |-> Bitmask(cmd[2]),
                             out |-> out, high |-> high]
  BY Zenon DEF CommandMeaning
<1> HIDE DEF high, out
<1>2. CommandMeaning(cmd) = Drive(cmd[1], Bitmask(cmd[2]), high, out)
  BY <1>1 DEF Drive
<1> QED BY <1>2, Zenon DEF high, out

\* processGpioCommand, for a command that names a port.
LEMMA PortRuns ==
  ASSUME NEW cmd \in Seq(Byte), Len(cmd) <= CommandSize, NEW errors_only \in BOOLEAN,
         ~(Len(cmd) > 0 /\ cmd[1] = PAUSE)
  PROVE  ProcessGpioCommand(cmd, errors_only) =
              IF ValidCommand(cmd)
              THEN Good(IF errors_only THEN <<>> ELSE << CommandMeaning(cmd) >>)
              ELSE Bad
<1>1. Len(cmd) \in Nat /\ CommandSize \in Nat
  BY CommandAssumption
<1>2. ProcessGpioCommand(cmd, errors_only) = ProcessPortCommand(cmd, errors_only)
  BY Zenon DEF ProcessGpioCommand
<1>3. ValidCommand(cmd) <=> ~(Len(cmd) # 3 \/ cmd[1] \notin Ports
                                \/ cmd[3] \notin {PLUS, MINUS, TILDE, CARET})
  BY <1>1 DEF ValidCommand, Ports, PAUSE
<1>4. ASSUME ValidCommand(cmd)
      PROVE  CommandMeaning(cmd) = Drive(cmd[1], Bitmask(cmd[2]), cmd[3] \in {PLUS, CARET},
                                         cmd[3] \in {PLUS, MINUS})
  <2>1. cmd[1] # PAUSE
    BY <1>1, <1>3, <1>4
  <2> QED BY <2>1, DriveIs, Zenon
<1> QED BY <1>2, <1>3, <1>4, Zenon DEF ProcessPortCommand

\* processGpioCommand does what the command means, if it is valid.
LEMMA CommandRuns ==
  ASSUME NEW cmd \in Seq(Byte), Len(cmd) <= CommandSize, NEW errors_only \in BOOLEAN
  PROVE  /\ ProcessGpioCommand(cmd, errors_only).ok \in BOOLEAN
         /\ ProcessGpioCommand(cmd, errors_only).ok <=> ValidCommand(cmd)
         /\ ProcessGpioCommand(cmd, errors_only).did =
              IF ~errors_only /\ ValidCommand(cmd) THEN << CommandMeaning(cmd) >> ELSE <<>>
<1>1. ProcessGpioCommand(cmd, errors_only) =
              IF ValidCommand(cmd)
              THEN Good(IF errors_only THEN <<>> ELSE << CommandMeaning(cmd) >>)
              ELSE Bad
  BY PauseRuns, PortRuns, Zenon
<1>2. Bad.ok = FALSE /\ Bad.did = <<>>
  BY DEF Bad
<1>3. \A did : Good(did).ok = TRUE /\ Good(did).did = did
  BY DEF Good
<1> HIDE DEF Bad, Good
<1>4. CASE ValidCommand(cmd)
  BY <1>1, <1>3, <1>4, Zenon
<1>5. CASE ~ValidCommand(cmd)
  BY <1>1, <1>2, <1>5, Zenon
<1> QED BY <1>4, <1>5

(* Where the command begins that the n-th character belongs to, what is in the      *)
(* buffer after it, the bad commands, and the good ones before any of them.  *)
Before(str, n) == Max({0} \union { i \in 1 .. n : str[i] = COMMA })
Partial(str, n) == SubSeq(str, Before(str, n) + 1, n)
BadEnds(str) == { e \in CommandEnds(str) : ~ValidCommand(Command(str, e)) }
GoodEnds(str) == { e \in CommandEnds(str) : \A b \in BadEnds(str) : e < b }

\* The last comma before a character.
LEMMA BeforeIs ==
  ASSUME NEW str \in Seq(Byte), NEW n \in 0 .. Len(str)
  PROVE  /\ Before(str, n) \in 0 .. n
         /\ n = 0 => Before(str, n) = 0
         /\ n # 0 /\ str[n] = COMMA => Before(str, n) = n
         /\ n # 0 /\ str[n] # COMMA => Before(str, n) = Before(str, n - 1)
<1> DEFINE S(m) == {0} \union { i \in 1 .. m : str[i] = COMMA }
<1>1. \A m \in Nat : Max(S(m)) \in S(m) /\ \A y \in S(m) : y <= Max(S(m))
  <2> SUFFICES ASSUME NEW m \in Nat
               PROVE  Max(S(m)) \in S(m) /\ \A y \in S(m) : y <= Max(S(m))
    OBVIOUS
  <2>1. S(m) \in SUBSET Int /\ S(m) # {} /\ \A x \in S(m) : x <= m
    OBVIOUS
  <2>2. m \in Int
    OBVIOUS
  <2> HIDE DEF S
  <2> QED BY <2>1, <2>2, MaxIs
<1>2. \A m : Before(str, m) = Max(S(m))
  BY DEF Before
<1>3. n \in Nat /\ Max(S(n)) \in S(n)
  BY <1>1
<1>4. Max(S(n)) \in 0 .. n
  BY <1>3
<1>5. n = 0 => Max(S(n)) = 0
  BY <1>3
<1>6. n # 0 /\ str[n] = COMMA => Max(S(n)) = n
  <2> SUFFICES ASSUME n # 0, str[n] = COMMA PROVE Max(S(n)) = n
    OBVIOUS
  <2>1. n \in S(n)
    OBVIOUS
  <2> QED BY <1>1, <1>3, <1>4, <2>1
<1>7. n # 0 /\ str[n] # COMMA => S(n) = S(n - 1)
  OBVIOUS
<1> HIDE DEF S
<1> QED BY <1>2, <1>4, <1>5, <1>6, <1>7

\* A command is what stands between two commas.
LEMMA CommandIs ==
  ASSUME NEW str \in Seq(Byte), NEW e \in CommandEnds(str)
  PROVE  /\ e \in 1 .. Len(str)
         /\ Command(str, e) =
              SubSeq(str, Before(str, e - 1) + 1, IF str[e] = COMMA THEN e - 1 ELSE e)
         /\ Len(Command(str, e)) = (IF str[e] = COMMA THEN e - 1 ELSE e) - Before(str, e - 1)
<1>1. e \in 1 .. Len(str) /\ Len(str) \in Nat
  BY DEF CommandEnds
<1>2. Command(str, e) =
              SubSeq(str, Before(str, e - 1) + 1, IF str[e] = COMMA THEN e - 1 ELSE e)
  BY DEF Command, Before
<1>3. Before(str, e - 1) \in 0 .. e - 1
  BY <1>1, BeforeIs
<1>4. Len(Command(str, e)) = (IF str[e] = COMMA THEN e - 1 ELSE e) - Before(str, e - 1)
  BY <1>1, <1>2, <1>3
<1> QED BY <1>1, <1>2, <1>4

(* What is in the buffer before and after a character.                       *)
LEMMA PartialIs ==
  ASSUME NEW str \in Seq(Byte), NEW n \in 1 .. Len(str)
  PROVE  /\ Partial(str, n - 1) \in Seq(Byte)
         /\ Partial(str, 0) = <<>>
         /\ str[n] = COMMA => Partial(str, n) = <<>>
         /\ str[n] # COMMA => Partial(str, n) = Append(Partial(str, n - 1), str[n])
         /\ str[n] # COMMA => Len(Partial(str, n)) = n - Before(str, n - 1)
<1>1. Len(str) \in Nat /\ str[n] \in Byte
  OBVIOUS
<1>2. /\ Before(str, n - 1) \in 0 .. n - 1 /\ Before(str, 0) = 0
      /\ str[n] = COMMA => Before(str, n) = n
      /\ str[n] # COMMA => Before(str, n) = Before(str, n - 1)
  BY <1>1, BeforeIs
<1> DEFINE b == Before(str, n - 1)
<1> HIDE DEF b
<1>3. \A i \in 1 .. Len(str) : str[i] \in Byte
  OBVIOUS
<1>4. SubSeq(str, b + 1, n - 1) = [k \in 1 .. n - 1 - b |-> str[b + k]]
  BY <1>1, <1>2 DEF b
<1>5. SubSeq(str, b + 1, n) = [k \in 1 .. n - b |-> str[b + k]]
  BY <1>1, <1>2 DEF b
<1>6. /\ SubSeq(str, b + 1, n - 1) \in Seq(Byte)
      /\ Len(SubSeq(str, b + 1, n - 1)) = n - 1 - b
  BY <1>1, <1>2, <1>3, <1>4, SeqIs DEF b
<1>7. Append(SubSeq(str, b + 1, n - 1), str[n]) = [k \in 1 .. n - b |-> str[b + k]]
  <2> DEFINE s == SubSeq(str, b + 1, n - 1)
             t == Append(s, str[n])
             u == [k \in 1 .. n - b |-> str[b + k]]
  <2>1. /\ t \in Seq(Byte) /\ Len(t) = n - b /\ t[n - b] = str[n]
        /\ \A k \in 1 .. n - 1 - b : t[k] = s[k]
    <3> HIDE DEF s
    <3>1. /\ t \in Seq(Byte) /\ Len(t) = Len(s) + 1 /\ t[Len(s) + 1] = str[n]
          /\ \A k \in 1 .. Len(s) : t[k] = s[k]
      BY <1>1, <1>6, AppendProperties DEF s
    <3> HIDE DEF t
    <3> QED BY <1>2, <1>6, <3>1 DEF s, b
  <2>2. \A k \in 1 .. n - b : t[k] = u[k]
    <3> HIDE DEF t, s
    <3>1. \A k \in 1 .. n - 1 - b : s[k] = str[b + k]
      BY <1>4 DEF s
    <3>2. b + (n - b) = n
      BY <1>2 DEF b
    <3> QED BY <1>2, <2>1, <3>1, <3>2 DEF b
  <2>3. t = [k \in 1 .. n - b |-> t[k]]
    <3> HIDE DEF t
    <3>1. t \in [1 .. Len(t) -> Byte]
      BY <2>1
    <3> QED BY <2>1, <3>1
  <2>4. [k \in 1 .. n - b |-> t[k]] = [k \in 1 .. n - b |-> u[k]]
    <3> HIDE DEF t, u
    <3> QED BY <2>2
  <2>5. t = [k \in 1 .. n - b |-> str[b + k]]
    <3> HIDE DEF t
    <3>1. \A k \in 1 .. n - b : t[k] = str[b + k]
      BY <2>2
    <3> QED BY <2>3, <3>1
  <2> QED BY <2>5, Zenon
<1>8. Partial(str, n - 1) = SubSeq(str, b + 1, n - 1)
  BY DEF Partial, b
<1>9. str[n] # COMMA => Partial(str, n) = SubSeq(str, b + 1, n)
  BY <1>2 DEF Partial, b
<1>10. Partial(str, 0) = <<>> /\ (str[n] = COMMA => Partial(str, n) = <<>>)
  <2>1. Partial(str, 0) = <<>>
    BY <1>2 DEF Partial
  <2>2. str[n] = COMMA => SubSeq(str, n + 1, n) = <<>>
    BY <1>1
  <2> QED BY <1>2, <2>1, <2>2 DEF Partial
<1>11. str[n] # COMMA => Len(Partial(str, n)) = n - b
  <2>1. [k \in 1 .. n - b |-> str[b + k]] \in [1 .. n - b -> Byte]
    BY <1>1, <1>2, <1>3 DEF b
  <2>2. n - b \in Nat
    BY <1>2 DEF b
  <2> QED BY <1>5, <1>9, <2>1, <2>2, SeqIs
<1> QED BY <1>5, <1>6, <1>7, <1>8, <1>9, <1>10, <1>11 DEF b

Deeds == { CommandMeaning(cmd) : cmd \in Seq(Byte) }
GpioState == [command : Seq(Byte), ok : BOOLEAN, did : Seq(Deeds)]

(* What a character does, by the cases of GpioChar.                          *)
CharDoes(run, c, last, errors_only, command, next) ==
    /\ next \in GpioState
    /\ ~run.ok => next = run
    /\ run.ok /\ Len(command) > CommandSize => ~next.ok /\ next.did = run.did
    /\ run.ok /\ ~(Len(command) > CommandSize) /\ ~(c = COMMA \/ last) =>
         next.command = command /\ next.ok /\ next.did = run.did
    /\ run.ok /\ ~(Len(command) > CommandSize) /\ (c = COMMA \/ last) =>
         /\ next.command = <<>> /\ (next.ok <=> ValidCommand(command))
         /\ next.did = IF ~errors_only /\ ValidCommand(command)
                       THEN Append(run.did, CommandMeaning(command)) ELSE run.did

\* GpioChar is one of these cases.
LEMMA GpioCharIs ==
  ASSUME NEW run \in GpioState, NEW c \in Byte, NEW last \in BOOLEAN,
         NEW errors_only \in BOOLEAN, NEW command \in Seq(Byte),
         command = IF c = COMMA THEN run.command ELSE Append(run.command, c),
         NEW next, next = GpioChar(run, c, last, errors_only)
  PROVE  CharDoes(run, c, last, errors_only, command, next)
<1> USE DEF CharDoes
<1> DEFINE result == ProcessGpioCommand(command, errors_only)
<1>1. next = CASE ~run.ok -> run
               [] run.ok /\ Len(command) > CommandSize -> [run EXCEPT !.ok = FALSE]
               [] OTHER -> IF c = COMMA \/ last
                           THEN [command |-> <<>>, ok |-> result.ok,
                                 did |-> run.did \o result.did]
                           ELSE [run EXCEPT !.command = command]
  BY Zenon DEF GpioChar
<1>2. run = [command |-> run.command, ok |-> run.ok, did |-> run.did]
      /\ run.command \in Seq(Byte) /\ run.ok \in BOOLEAN /\ run.did \in Seq(Deeds)
  BY DEF GpioState
<1>3. CASE ~run.ok
  <2>1. next = run
    BY <1>1, <1>3, Zenon
  <2> QED BY <1>3, <2>1, Zenon
<1>4. CASE run.ok /\ Len(command) > CommandSize
  <2>1. next = [run EXCEPT !.ok = FALSE]
    BY <1>1, <1>4, Zenon
  <2>2. next \in GpioState /\ next.ok = FALSE /\ next.did = run.did
    BY <1>2, <2>1 DEF GpioState
  <2> QED BY <1>4, <2>2, Zenon
<1>5. CASE run.ok /\ ~(Len(command) > CommandSize) /\ ~(c = COMMA \/ last)
  <2>1. next = [run EXCEPT !.command = command]
    BY <1>1, <1>5, Zenon
  <2>2. /\ next \in GpioState /\ next.command = command
        /\ next.ok = run.ok /\ next.did = run.did
    BY <1>2, <2>1 DEF GpioState
  <2> QED BY <1>5, <2>2, Zenon
<1>6. CASE run.ok /\ ~(Len(command) > CommandSize) /\ (c = COMMA \/ last)
  <2>1. next = [command |-> <<>>, ok |-> result.ok, did |-> run.did \o result.did]
    BY <1>1, <1>6, Zenon
  <2>2. Len(command) <= CommandSize
    <3>1. Len(command) \in Nat /\ CommandSize \in Nat
      BY CommandAssumption
    <3> QED BY <1>6, <3>1
  <2>3. /\ result.ok \in BOOLEAN /\ (result.ok <=> ValidCommand(command))
        /\ result.did = IF ~errors_only /\ ValidCommand(command)
                        THEN << CommandMeaning(command) >> ELSE <<>>
    BY <2>2, CommandRuns, Zenon
  <2>4. CommandMeaning(command) \in Deeds
    BY Zenon DEF Deeds
  <2>5. ~(~errors_only /\ ValidCommand(command)) => run.did \o result.did = run.did
    <3> SUFFICES ASSUME ~(~errors_only /\ ValidCommand(command))
                 PROVE  run.did \o result.did = run.did
      OBVIOUS
    <3>1. result.did = <<>>
      BY <2>3, Zenon
    <3> HIDE DEF result
    <3> QED BY <1>2, <3>1, ConcatEmptySeq
  <2>6. ~errors_only /\ ValidCommand(command) =>
          run.did \o result.did = Append(run.did, CommandMeaning(command))
    <3> SUFFICES ASSUME ~errors_only /\ ValidCommand(command)
                 PROVE  run.did \o result.did = Append(run.did, CommandMeaning(command))
      OBVIOUS
    <3>1. result.did = << CommandMeaning(command) >>
      BY <2>3, Zenon
    <3> HIDE DEF result
    <3> QED BY <1>2, <2>4, <3>1, AppendIsConcat
  <2>7. Append(run.did, CommandMeaning(command)) \in Seq(Deeds)
    BY <1>2, <2>4, AppendProperties
  <2>8. run.did \o result.did = IF ~errors_only /\ ValidCommand(command)
                                THEN Append(run.did, CommandMeaning(command)) ELSE run.did
    BY <2>5, <2>6, Zenon
  <2>9. run.did \o result.did \in Seq(Deeds)
    BY <1>2, <2>7, <2>8, Zenon
  <2> DEFINE did == run.did \o result.did
             ok == result.ok
  <2>10. ok \in BOOLEAN /\ did \in Seq(Deeds) /\ next = [command |-> <<>>, ok |-> ok, did |-> did]
    BY <2>1, <2>3, <2>9, Zenon
  <2> HIDE DEF did, ok
  <2>11. next \in GpioState /\ next.command = <<>> /\ next.ok = ok /\ next.did = did
    BY <2>10 DEF GpioState
  <2> QED BY <1>6, <2>3, <2>8, <2>11, Zenon DEF did, ok
<1> QED BY <1>3, <1>4, <1>5, <1>6

GpioRun(str, errors_only) ==
    CHOOSE run : run = [n \in 0 .. Len(str) |->
        IF n = 0 THEN [command |-> <<>>, ok |-> TRUE, did |-> <<>>]
        ELSE GpioChar(run[n - 1], str[n], n = Len(str), errors_only)]

\* The recursion over the string: one step for each character.
LEMMA GpioRunIs ==
  ASSUME NEW str \in Seq(Byte), NEW errors_only \in BOOLEAN
  PROVE  /\ CustomGpioInit(str, errors_only) = GpioRun(str, errors_only)[Len(str)]
         /\ GpioRun(str, errors_only)[0] = [command |-> <<>>, ok |-> TRUE, did |-> <<>>]
         /\ \A n \in 1 .. Len(str) :
              GpioRun(str, errors_only)[n] =
                  GpioChar(GpioRun(str, errors_only)[n - 1], str[n], n = Len(str), errors_only)
         /\ \A n \in 0 .. Len(str) : GpioRun(str, errors_only)[n] \in GpioState
<1> DEFINE L == Len(str)
           init == [command |-> <<>>, ok |-> TRUE, did |-> <<>>]
           run == GpioRun(str, errors_only)
           F == [n \in 1 .. L |-> [u \in GpioState |-> GpioChar(u, str[n], n = L, errors_only)]]
<1>1. CustomGpioInit(str, errors_only) = run[L]
  BY DEF CustomGpioInit, GpioRun
<1>2. L \in Nat /\ init \in GpioState /\ \A n \in 1 .. L : str[n] \in Byte
  <2>1. <<>> \in Seq(Byte) /\ <<>> \in Seq(Deeds)
    OBVIOUS
  <2> QED BY <2>1 DEF GpioState
<1>3. \A n \in 1 .. L : \A u \in GpioState :
        GpioChar(u, str[n], n = L, errors_only) \in GpioState
  <2> SUFFICES ASSUME NEW n \in 1 .. L, NEW u \in GpioState
               PROVE  GpioChar(u, str[n], n = L, errors_only) \in GpioState
    OBVIOUS
  <2> DEFINE command == IF str[n] = COMMA THEN u.command ELSE Append(u.command, str[n])
             last == n = L
  <2>1. str[n] \in Byte /\ last \in BOOLEAN
    BY <1>2
  <2>2. command \in Seq(Byte)
    <3>1. u.command \in Seq(Byte)
      BY DEF GpioState
    <3>2. Append(u.command, str[n]) \in Seq(Byte)
      BY <2>1, <3>1, AppendProperties
    <3> QED BY <3>1, <3>2
  <2> DEFINE c == str[n]
             next == GpioChar(u, c, last, errors_only)
  <2>3. c \in Byte /\ command \in Seq(Byte) /\ last \in BOOLEAN
        /\ command = IF c = COMMA THEN u.command ELSE Append(u.command, c)
    BY <2>1, <2>2, Zenon
  <2> HIDE DEF last, c, command
  <2>4. next = GpioChar(u, c, last, errors_only)
    OBVIOUS
  <2> HIDE DEF next
  <2>5. next \in GpioState
    BY <2>3, <2>4, GpioCharIs DEF CharDoes
  <2> QED BY <2>5, Zenon DEF last, c, next
<1> HIDE DEF init
<1>4. \A n \in 1 .. L : \A u \in GpioState :
        F[n][u] = GpioChar(u, str[n], n = L, errors_only)
  BY Zenon
<1>5. \E f : Follows(f, GpioState, L, init, F)
  <2> HIDE DEF F, L
  <2>1. \A n \in 1 .. L : \A u \in GpioState : F[n][u] \in GpioState
    BY <1>3, <1>4, Zenon DEF L
  <2>2. L \in Nat /\ init \in GpioState
    BY <1>2 DEF L
  <2>3. Steps(GpioState, L, init, F)
    BY <2>1, <2>2, Zenon DEF Steps
  <2> QED BY <2>3, Recursion, Zenon
<1>6. PICK f \in [0 .. L -> GpioState] :
        f[0] = init /\ \A n \in 1 .. L : f[n] = F[n][f[n - 1]]
  BY <1>5, Zenon DEF Follows
<1>7. \A n \in 1 .. L : n - 1 \in 0 .. L /\ n # 0 /\ n \in 0 .. L
  BY <1>2
<1>8. f = [n \in 0 .. L |-> IF n = 0 THEN init
                            ELSE GpioChar(f[n - 1], str[n], n = L, errors_only)]
  <2> HIDE DEF L
  <2>1. \A n \in 0 .. L : f[n] =
                          (IF n = 0 THEN init
                            ELSE GpioChar(f[n - 1], str[n], n = L, errors_only))
    <3> SUFFICES ASSUME NEW n \in 0 .. L, n # 0
                 PROVE  f[n] = GpioChar(f[n - 1], str[n], n = L, errors_only)
      BY <1>6, Zenon
    <3>1. n \in 1 .. L /\ n - 1 \in 0 .. L
      BY <1>2
    <3>2. f[n - 1] \in GpioState
      BY <3>1
    <3> QED BY <1>4, <1>6, <3>1, <3>2, Zenon DEF L
  <2> HIDE DEF F
  <2>2. f = [n \in 0 .. L |-> f[n]]
    OBVIOUS
  <2> QED BY <2>1, <2>2, Zenon
<1>9. run = [n \in 0 .. L |-> IF n = 0 THEN init
                              ELSE GpioChar(run[n - 1], str[n], n = L, errors_only)]
  BY <1>8, Zenon DEF GpioRun, init
<1> HIDE DEF run
<1>10. run[0] = init
  <2>1. 0 \in 0 .. L
    BY <1>2
  <2> HIDE DEF L
  <2> QED BY <1>9, <2>1, Zenon
<1>11. \A n \in 1 .. L : run[n] = GpioChar(run[n - 1], str[n], n = L, errors_only)
  <2> HIDE DEF L
  <2> QED BY <1>7, <1>9, Zenon
<1>12. \A n \in 0 .. L : run[n] \in GpioState
  <2> DEFINE T == { n \in 0 .. L : run[n] \in GpioState }
  <2>1. 0 \in T
    BY <1>2, <1>10
  <2>2. \A n \in 1 .. L : n - 1 \in T => n \in T
    <3> SUFFICES ASSUME NEW n \in 1 .. L, n - 1 \in T PROVE n \in T
      OBVIOUS
    <3>1. run[n - 1] \in GpioState
      OBVIOUS
    <3>2. run[n] \in GpioState
      BY <1>3, <1>11, <3>1, Zenon
    <3> QED BY <1>7, <3>2
  <2> HIDE DEF T
  <2>3. \A n \in 0 .. L : n \in T
    BY <1>2, <2>1, <2>2, InductTo
  <2> QED BY <2>3 DEF T
<1> QED BY <1>1, <1>10, <1>11, <1>12, Zenon DEF init, run

(* What the good commands up to a character mean.                            *)
GoodUpTo(str, n) == { e \in GoodEnds(str) : e <= n }
MeaningUpTo(str, n) ==
    [k \in DOMAIN Sorted(GoodUpTo(str, n)) |->
        CommandMeaning(Command(str, Sorted(GoodUpTo(str, n))[k]))]

\* The ends of commands are places in the string.
LEMMA EndsAre ==
  ASSUME NEW str \in Seq(Byte)
  PROVE  /\ Len(str) \in Nat /\ CommandSize \in Nat
         /\ CommandEnds(str) \in SUBSET (1 .. Len(str))
         /\ BadEnds(str) \in SUBSET CommandEnds(str)
         /\ GoodEnds(str) \in SUBSET CommandEnds(str)
         /\ Len(str) # 0 => Len(str) \in CommandEnds(str)
         /\ \A n \in 1 .. Len(str) : n \in CommandEnds(str) <=> str[n] = COMMA \/ n = Len(str)
BY CommandAssumption DEF CommandEnds, BadEnds, GoodEnds

\* A character that does not end a good command adds nothing to what the string means ...
LEMMA MeaningStays ==
  ASSUME NEW str \in Seq(Byte), NEW n \in 1 .. Len(str), n \notin GoodEnds(str)
  PROVE  MeaningUpTo(str, n) = MeaningUpTo(str, n - 1)
<1>1. \A e \in GoodEnds(str) : e <= n <=> e <= n - 1
  BY EndsAre
<1>2. GoodUpTo(str, n) = GoodUpTo(str, n - 1)
  BY <1>1 DEF GoodUpTo
<1> QED BY <1>2 DEF MeaningUpTo

\* ... and one that does adds the command's meaning.
LEMMA MeaningGrows ==
  ASSUME NEW str \in Seq(Byte), NEW n \in 1 .. Len(str), n \in GoodEnds(str)
  PROVE  MeaningUpTo(str, n) = Append(MeaningUpTo(str, n - 1), CommandMeaning(Command(str, n)))
<1> DEFINE S == GoodUpTo(str, n - 1)
           T == GoodUpTo(str, n)
           s == Sorted(S)
           m == Cardinality(S)
<1>0. \A e \in GoodEnds(str) : e \in Nat /\ (e <= n <=> e <= n - 1 \/ e = n)
  BY EndsAre
<1>1. T = S \union {n}
  BY <1>0 DEF GoodUpTo
<1>2. /\ S \in SUBSET Nat /\ (\A y \in S : y < n) /\ (\A y \in S : y <= n)
      /\ n \in Nat /\ n - 1 \in Nat
  <2>1. n \in Nat /\ n - 1 \in Nat
    BY EndsAre
  <2>2. \A y \in S : y \in Nat /\ y <= n - 1
    BY <1>0 DEF GoodUpTo
  <2> HIDE DEF S
  <2> QED BY <2>1, <2>2
<1>3. Sorted(T) = Append(s, n)
  <2> HIDE DEF S, T
  <2> QED BY <1>1, <1>2, SortedGrows
<1>4. m \in Nat /\ s \in Seq(S) /\ Len(s) = m /\ DOMAIN s = 1 .. m
  <2> HIDE DEF S
  <2> QED BY <1>2, SortedIs
<1> DEFINE meaning(e) == CommandMeaning(Command(str, e))
           old == [k \in 1 .. m |-> meaning(s[k])]
           new == [k \in 1 .. m + 1 |-> meaning(Append(s, n)[k])]
<1>5. MeaningUpTo(str, n - 1) = old
  BY <1>4 DEF MeaningUpTo
<1> HIDE DEF s, m
<1>6. DOMAIN Append(s, n) = 1 .. m + 1 /\ Append(s, n)[m + 1] = n
      /\ \A k \in 1 .. m : Append(s, n)[k] = s[k]
  <2>1. s \in Seq(Nat)
    BY <1>2, <1>4
  <2>2. /\ Append(s, n) \in Seq(Nat) /\ Len(Append(s, n)) = Len(s) + 1
        /\ Append(s, n)[Len(s) + 1] = n
        /\ \A i \in 1 .. Len(s) : Append(s, n)[i] = s[i]
    BY <1>2, <2>1, AppendProperties
  <2> QED BY <1>4, <2>2
<1>7. MeaningUpTo(str, n) = new
  BY <1>3, <1>6 DEF MeaningUpTo
<1> HIDE DEF meaning
<1> DEFINE V == { meaning(e) : e \in Nat }
<1>8. old \in Seq(V) /\ Len(old) = m
  <2>1. \A k \in 1 .. m : meaning(s[k]) \in V
    <3>1. \A k \in 1 .. m : s[k] \in Nat
      BY <1>2, <1>4
    <3> QED BY <3>1
  <2> HIDE DEF V
  <2>2. old \in [1 .. m -> V]
    BY <2>1
  <2> HIDE DEF old
  <2> QED BY <1>4, <2>2, SeqIs
<1>9. new = Append(old, meaning(n))
  <2>1. meaning(n) \in V
    BY <1>2
  <2> DEFINE t == Append(old, meaning(n))
  <2>2. \A k \in 1 .. m : old[k] = meaning(s[k])
    OBVIOUS
  <2> HIDE DEF V, old
  <2>3. t \in Seq(V) /\ Len(t) = m + 1 /\ t[m + 1] = meaning(n)
        /\ \A k \in 1 .. m : t[k] = old[k]
    <3>1. /\ t \in Seq(V) /\ Len(t) = Len(old) + 1 /\ t[Len(old) + 1] = meaning(n)
          /\ \A k \in 1 .. Len(old) : t[k] = old[k]
      BY <1>8, <2>1, AppendProperties
    <3> HIDE DEF t
    <3> QED BY <1>8, <3>1
  <2> HIDE DEF t
  <2>4. \A k \in 1 .. m + 1 : meaning(Append(s, n)[k]) = t[k]
    <3> SUFFICES ASSUME NEW k \in 1 .. m + 1 PROVE meaning(Append(s, n)[k]) = t[k]
      OBVIOUS
    <3>1. CASE k = m + 1
      BY <1>6, <2>3, <3>1
    <3>2. CASE k \in 1 .. m
      <4>1. Append(s, n)[k] = s[k] /\ t[k] = old[k] /\ old[k] = meaning(s[k])
        BY <1>6, <2>2, <2>3, <3>2
      <4> QED BY <4>1
    <3> QED BY <1>4, <3>1, <3>2
  <2>5. t = [k \in 1 .. m + 1 |-> t[k]]
    BY <2>3
  <2>6. new = t
    BY <2>4, <2>5
  <2> QED BY <2>6 DEF t
<1> QED BY <1>5, <1>7, <1>9 DEF meaning

(* A command that is too long for the buffer is bad, where it ends.          *)
LEMMA TooLong ==
  ASSUME NEW str \in Seq(Byte), NEW n \in 1 .. Len(str), str[n] # COMMA,
         Len(Partial(str, n)) > CommandSize
  PROVE  \E b \in BadEnds(str) : \A e \in CommandEnds(str) : e >= n => b <= e
<1> DEFINE S == { e \in CommandEnds(str) : e >= n }
<1>1. S \in SUBSET Nat /\ Len(str) \in S
  BY EndsAre
<1>2. PICK b \in S : \A e \in S : b <= e
  <2> HIDE DEF S
  <2> QED BY <1>1, Least
<1>3. b \in CommandEnds(str) /\ b \in 1 .. Len(str) /\ b >= n
  BY EndsAre
<1>4. \A i \in n .. b - 1 : str[i] # COMMA
  <2> SUFFICES ASSUME NEW i \in n .. b - 1, str[i] = COMMA PROVE FALSE
    OBVIOUS
  <2>1. i \in CommandEnds(str) /\ i >= n /\ i < b
    BY <1>3, EndsAre
  <2> QED BY <1>2, <1>3, <2>1
<1>5. Before(str, b - 1) = Before(str, n - 1)
  <2> DEFINE T == { j \in 0 .. b - n : Before(str, n - 1 + j) = Before(str, n - 1) }
  <2>1. b - n \in Nat /\ n - 1 + 0 = n - 1
    BY <1>3
  <2>2. 0 \in T
    BY <2>1
  <2>3. \A j \in 1 .. b - n : j - 1 \in T => j \in T
    <3> SUFFICES ASSUME NEW j \in 1 .. b - n, j - 1 \in T PROVE j \in T
      OBVIOUS
    <3> DEFINE m == n - 1 + j
    <3>1. m \in n .. b - 1 /\ m \in 1 .. Len(str) /\ m - 1 = n - 1 + (j - 1)
      BY <1>3
    <3>2. Before(str, m) = Before(str, m - 1)
      <4> HIDE DEF m
      <4>1. str[m] # COMMA /\ m # 0 /\ m \in 0 .. Len(str)
        BY <1>4, <3>1
      <4> QED BY <4>1, BeforeIs
    <3>3. Before(str, m - 1) = Before(str, n - 1)
      BY <3>1
    <3> QED BY <3>2, <3>3
  <2>4. b - n \in T
    <3> HIDE DEF T
    <3>1. \A j \in 0 .. b - n : j \in T
      BY <2>1, <2>2, <2>3, InductTo
    <3> QED BY <2>1, <3>1
  <2>5. n - 1 + (b - n) = b - 1
    BY <1>3
  <2> QED BY <2>4, <2>5
<1>6. Len(Partial(str, n)) = n - Before(str, n - 1) /\ Before(str, n - 1) \in 0 .. n - 1
  <2>1. n - 1 \in 0 .. Len(str) /\ n - 1 \in Nat
    BY EndsAre
  <2>2. Len(Partial(str, n)) = n - Before(str, n - 1)
    BY PartialIs
  <2>3. Before(str, n - 1) \in 0 .. n - 1
    BY <2>1, BeforeIs
  <2> QED BY <2>2, <2>3
<1>7. Len(Command(str, b)) = (IF str[b] = COMMA THEN b - 1 ELSE b) - Before(str, b - 1)
  BY <1>3, CommandIs
<1>8. str[b] = COMMA => b # n
  OBVIOUS
<1>9. Len(Command(str, b)) > CommandSize /\ Len(Command(str, b)) \in Nat
  BY <1>3, <1>5, <1>6, <1>7, <1>8, EndsAre
<1>10. ~ValidCommand(Command(str, b))
  BY <1>9, EndsAre DEF ValidCommand
<1> QED BY <1>2, <1>3, <1>10 DEF BadEnds

GpioInv(str, errors_only, n) ==
    LET run == GpioRun(str, errors_only)[n]
    IN  /\ run.ok => \A b \in BadEnds(str) : b > n
        /\ run.ok /\ (n < Len(str) \/ n = 0) =>
             run.command = Partial(str, n) /\ Len(Partial(str, n)) <= CommandSize
        /\ ~run.ok => BadEnds(str) # {} /\ \A e \in GoodEnds(str) : e <= n
        /\ run.did = IF errors_only THEN <<>> ELSE MeaningUpTo(str, n)

\* Before the first character.
LEMMA GpioInvInit ==
  ASSUME NEW str \in Seq(Byte), NEW errors_only \in BOOLEAN
  PROVE  GpioInv(str, errors_only, 0)
<1> DEFINE run == GpioRun(str, errors_only)[0]
<1>1. run.ok = TRUE /\ run.command = <<>> /\ run.did = <<>>
  <2>1. run = [command |-> <<>>, ok |-> TRUE, did |-> <<>>]
    BY GpioRunIs
  <2> QED BY <2>1
<1>2. \A b \in BadEnds(str) : b > 0
  BY EndsAre
<1>3. Partial(str, 0) = <<>> /\ Len(Partial(str, 0)) <= CommandSize
  <2>1. 0 \in 0 .. Len(str)
    BY EndsAre
  <2>2. Before(str, 0) = 0
    BY <2>1, BeforeIs
  <2>3. Partial(str, 0) = <<>>
    BY <2>2 DEF Partial
  <2> QED BY <2>3, EndsAre
<1>4. MeaningUpTo(str, 0) = <<>>
  <2>1. GoodUpTo(str, 0) = {}
    BY EndsAre DEF GoodUpTo
  <2>2. DOMAIN Sorted({}) = 1 .. 0
    BY FS_EmptySet DEF Sorted
  <2> DEFINE s == Sorted(GoodUpTo(str, 0))
             meaning(k) == CommandMeaning(Command(str, s[k]))
  <2>3. MeaningUpTo(str, 0) = [k \in DOMAIN s |-> meaning(k)]
    BY Zenon DEF MeaningUpTo
  <2>4. DOMAIN s = 1 .. 0
    BY <2>1, <2>2
  <2> HIDE DEF meaning, s
  <2> QED BY <2>3, <2>4
<1> HIDE DEF run
<1>5. /\ run.ok => \A b \in BadEnds(str) : b > 0
      /\ run.ok /\ (0 < Len(str) \/ 0 = 0) =>
           run.command = Partial(str, 0) /\ Len(Partial(str, 0)) <= CommandSize
      /\ ~run.ok => BadEnds(str) # {} /\ \A e \in GoodEnds(str) : e <= 0
      /\ run.did = IF errors_only THEN <<>> ELSE MeaningUpTo(str, 0)
  BY <1>1, <1>2, <1>3, <1>4
<1> QED BY <1>5, Zenon DEF GpioInv, run

\* From one character to the next.
LEMMA GpioInvNext ==
  ASSUME NEW str \in Seq(Byte), NEW errors_only \in BOOLEAN, NEW n \in 1 .. Len(str),
         GpioInv(str, errors_only, n - 1)
  PROVE  GpioInv(str, errors_only, n)
<1> DEFINE L == Len(str)
           c == str[n]
           last == n = L
           run == GpioRun(str, errors_only)[n - 1]
           next == GpioRun(str, errors_only)[n]
           command == IF c = COMMA THEN run.command ELSE Append(run.command, c)
           part == Partial(str, n - 1)
           Inv(r, m) == /\ r.ok => \A b \in BadEnds(str) : b > m
                        /\ r.ok /\ (m < Len(str) \/ m = 0) =>
                             r.command = Partial(str, m) /\ Len(Partial(str, m)) <= CommandSize
                        /\ ~r.ok => BadEnds(str) # {} /\ \A e \in GoodEnds(str) : e <= m
                        /\ r.did = IF errors_only THEN <<>> ELSE MeaningUpTo(str, m)
<1>0. /\ L \in Nat /\ CommandSize \in Nat /\ c \in Byte /\ n \in Nat /\ n - 1 \in 0 .. L
      /\ n \in 0 .. L /\ n - 1 < L /\ n # 0
  BY EndsAre
<1>1. Inv(run, n - 1)
  BY Zenon DEF GpioInv
<1>2. SUFFICES Inv(next, n)
  BY Zenon DEF GpioInv
<1>3. run \in GpioState /\ run.ok \in BOOLEAN /\ run.command \in Seq(Byte)
  <2>1. run \in GpioState
    BY <1>0, GpioRunIs
  <2> HIDE DEF run
  <2> QED BY <2>1 DEF GpioState
<1>4. next = GpioChar(run, c, last, errors_only)
  BY GpioRunIs, Zenon
<1>5. command \in Seq(Byte) /\ last \in BOOLEAN
      /\ command = IF c = COMMA THEN run.command ELSE Append(run.command, c)
  <2>1. Append(run.command, c) \in Seq(Byte)
    BY <1>0, <1>3, AppendProperties
  <2> QED BY <1>3, <2>1, Zenon
<1> HIDE DEF run, next, command, last
<1>6. /\ next \in GpioState
      /\ ~run.ok => next = run
      /\ run.ok /\ Len(command) > CommandSize => ~next.ok /\ next.did = run.did
      /\ run.ok /\ ~(Len(command) > CommandSize) /\ ~(c = COMMA \/ last) =>
           next.command = command /\ next.ok /\ next.did = run.did
      /\ run.ok /\ ~(Len(command) > CommandSize) /\ (c = COMMA \/ last) =>
           /\ next.command = <<>> /\ (next.ok <=> ValidCommand(command))
           /\ next.did = IF ~errors_only /\ ValidCommand(command)
                         THEN Append(run.did, CommandMeaning(command)) ELSE run.did
  <2>1. c \in Byte
    BY <1>0
  <2> HIDE DEF c
  <2>2. command \in Seq(Byte) /\ last \in BOOLEAN
    BY <1>5
  <2>3. command = IF c = COMMA THEN run.command ELSE Append(run.command, c)
    BY <1>5
  <2>4. run \in GpioState
    BY <1>3
  <2>5. CharDoes(run, c, last, errors_only, command, next)
    BY <1>4, <2>1, <2>2, <2>3, <2>4, GpioCharIs, Zenon
  <2> QED BY <2>5, Zenon DEF CharDoes
<1>7. last <=> n = L
  BY DEF last
<1>8. c = COMMA \/ last <=> n \in CommandEnds(str)
  BY <1>7, EndsAre
\* What is in the buffer.
<1>9. run.ok => /\ Len(part) <= CommandSize
                /\ c = COMMA => command = part /\ Partial(str, n) = <<>>
                /\ c # COMMA => command = Partial(str, n)
  <2>1. run.ok => run.command = part /\ Len(part) <= CommandSize
    BY <1>0, <1>1
  <2>2. /\ c = COMMA => Partial(str, n) = <<>>
        /\ c # COMMA => Partial(str, n) = Append(part, c)
    BY PartialIs
  <2> QED BY <1>5, <2>1, <2>2
<1>10. run.ok /\ n \in CommandEnds(str) => command = Command(str, n)
  <2> SUFFICES ASSUME run.ok, n \in CommandEnds(str) PROVE command = Command(str, n)
    OBVIOUS
  <2>1. Command(str, n) = SubSeq(str, Before(str, n - 1) + 1, IF c = COMMA THEN n - 1 ELSE n)
    BY CommandIs
  <2>2. c # COMMA => Before(str, n) = Before(str, n - 1)
    BY <1>0, BeforeIs
  <2>3. CASE c = COMMA
    BY <1>9, <2>1, <2>3 DEF Partial
  <2>4. CASE c # COMMA
    BY <1>9, <2>1, <2>2, <2>4 DEF Partial
  <2> QED BY <2>3, <2>4
<1> DEFINE stays == n \notin GoodEnds(str) /\ next.did = run.did
<1>11. stays => next.did = IF errors_only THEN <<>> ELSE MeaningUpTo(str, n)
  <2> SUFFICES ASSUME stays PROVE next.did = IF errors_only THEN <<>> ELSE MeaningUpTo(str, n)
    OBVIOUS
  <2>1. MeaningUpTo(str, n) = MeaningUpTo(str, n - 1)
    BY MeaningStays
  <2> QED BY <1>1, <2>1
<1>12. CASE ~run.ok
  <2>1. next = run
    BY <1>6, <1>12
  <2>2. BadEnds(str) # {} /\ \A e \in GoodEnds(str) : e <= n - 1
    BY <1>1, <1>12
  <2>3. (\A e \in GoodEnds(str) : e <= n) /\ n \notin GoodEnds(str)
    BY <1>0, <2>2, EndsAre
  <2> QED BY <1>11, <1>12, <2>1, <2>2, <2>3
<1>13. CASE run.ok /\ Len(command) > CommandSize
  <2>1. c # COMMA /\ Len(Partial(str, n)) > CommandSize
    <3>1. Len(part) \in Nat
      BY PartialIs
    <3> QED BY <1>0, <1>9, <1>13, <3>1
  <2>2. PICK b \in BadEnds(str) : \A e \in CommandEnds(str) : e >= n => b <= e
    BY <2>1, TooLong
  <2>3. \A e \in GoodEnds(str) : e < n
    <3> SUFFICES ASSUME NEW e \in GoodEnds(str), ~(e < n) PROVE FALSE
      OBVIOUS
    <3>1. e \in CommandEnds(str) /\ e \in Nat /\ b \in Nat /\ e < b
      BY EndsAre DEF GoodEnds
    <3>2. e >= n
      BY <1>0, <3>1
    <3> QED BY <2>2, <3>1, <3>2
  <2>4. (\A e \in GoodEnds(str) : e <= n) /\ n \notin GoodEnds(str)
    BY <1>0, <2>3, EndsAre
  <2> QED BY <1>6, <1>11, <1>13, <2>2, <2>4
<1>14. CASE run.ok /\ ~(Len(command) > CommandSize) /\ n \notin CommandEnds(str)
  <2>1. next.command = command /\ next.ok /\ next.did = run.did
    BY <1>6, <1>8, <1>14
  <2>2. n \notin GoodEnds(str) /\ n \notin BadEnds(str)
    BY <1>14, EndsAre
  <2>3. \A b \in BadEnds(str) : b > n
    BY <1>0, <1>1, <1>14, <2>2, EndsAre
  <2>4. command = Partial(str, n) /\ Len(Partial(str, n)) <= CommandSize
    <3>1. Len(command) \in Nat
      BY <1>5
    <3> QED BY <1>0, <1>8, <1>9, <1>14, <3>1
  <2> QED BY <1>11, <2>1, <2>2, <2>3, <2>4
<1>15. CASE run.ok /\ ~(Len(command) > CommandSize) /\ n \in CommandEnds(str)
  <2>1. /\ next.command = <<>> /\ (next.ok <=> ValidCommand(command))
        /\ next.did = IF ~errors_only /\ ValidCommand(command)
                      THEN Append(run.did, CommandMeaning(command)) ELSE run.did
    BY <1>6, <1>8, <1>15
  <2>2. command = Command(str, n)
    BY <1>10, <1>15
  <2>3. \A b \in BadEnds(str) : b > n - 1
    BY <1>1, <1>15
  <2>4. CASE ValidCommand(command)
    <3>1. n \notin BadEnds(str)
      BY <2>2, <2>4 DEF BadEnds
    <3>2. \A b \in BadEnds(str) : b > n
      BY <1>0, <2>3, <3>1, EndsAre
    <3>3. n \in GoodEnds(str)
      BY <1>0, <1>15, <3>2 DEF GoodEnds
    <3>4. MeaningUpTo(str, n) = Append(MeaningUpTo(str, n - 1), CommandMeaning(command))
      BY <2>2, <3>3, MeaningGrows
    <3>5. next.did = IF errors_only THEN <<>> ELSE MeaningUpTo(str, n)
      BY <1>1, <2>1, <2>4, <3>4
    <3>6. n < Len(str) => Partial(str, n) = <<>>
      BY <1>0, <1>7, <1>8, <1>9, <1>15
    <3>7. n < Len(str) => next.command = Partial(str, n) /\ Len(Partial(str, n)) <= CommandSize
      BY <1>0, <2>1, <3>6
    <3> QED BY <1>0, <2>1, <2>4, <3>2, <3>5, <3>7
  <2>5. CASE ~ValidCommand(command)
    <3>1. n \in BadEnds(str)
      BY <1>15, <2>2, <2>5 DEF BadEnds
    <3>2. \A e \in GoodEnds(str) : e < n
      BY <3>1 DEF GoodEnds
    <3>3. (\A e \in GoodEnds(str) : e <= n) /\ n \notin GoodEnds(str)
      BY <1>0, <3>2, EndsAre
    <3>4. next.did = run.did
      BY <2>1, <2>5
    <3> QED BY <1>11, <2>1, <2>5, <3>1, <3>3, <3>4
  <2> QED BY <2>4, <2>5
<1> QED BY <1>12, <1>13, <1>14, <1>15

(* A run does what the string means, and is good if the string is.           *)
LEMMA RunMeans ==
  ASSUME NEW str \in Seq(Byte), NEW errors_only \in BOOLEAN
  PROVE  /\ CustomGpioInit(str, errors_only).ok \in BOOLEAN
         /\ CustomGpioInit(str, errors_only).ok <=> ValidString(str)
         /\ CustomGpioInit(str, errors_only).did =
              IF errors_only THEN <<>> ELSE StringMeaning(str)
<1> DEFINE L == Len(str)
           T == { n \in 0 .. L : GpioInv(str, errors_only, n) }
           run == GpioRun(str, errors_only)[L]
<1>1. L \in Nat
  OBVIOUS
<1>2. 0 \in T
  BY <1>1, GpioInvInit
<1>3. \A n \in 1 .. L : n - 1 \in T => n \in T
  BY <1>1, GpioInvNext
<1>4. L \in T
  <2> HIDE DEF T, L
  <2>1. \A n \in 0 .. L : n \in T
    BY <1>1, <1>2, <1>3, InductTo
  <2> QED BY <1>1, <2>1
<1>5. CustomGpioInit(str, errors_only) = run /\ run.ok \in BOOLEAN
  <2>1. CustomGpioInit(str, errors_only) = run /\ run \in GpioState
    BY <1>1, GpioRunIs
  <2> HIDE DEF run
  <2> QED BY <2>1 DEF GpioState
<1>6. /\ run.ok => \A b \in BadEnds(str) : b > L
      /\ ~run.ok => BadEnds(str) # {}
      /\ run.did = IF errors_only THEN <<>> ELSE MeaningUpTo(str, L)
  BY <1>4, Zenon DEF GpioInv
<1> HIDE DEF run
<1>7. run.ok <=> BadEnds(str) = {}
  BY <1>1, <1>6, EndsAre
<1>8. BadEnds(str) = {} <=> ValidString(str)
  BY DEF BadEnds, ValidString
<1>9. MeaningUpTo(str, L) = StringMeaning(str)
  <2>1. GoodUpTo(str, L) = GoodEnds(str)
    BY <1>1, EndsAre DEF GoodUpTo
  <2> QED BY <2>1 DEF MeaningUpTo, StringMeaning, GoodEnds, BadEnds
<1> QED BY <1>5, <1>6, <1>7, <1>8, <1>9
-----------------------------------------------------------------------------
(* Images (FirmwareImage).                                                   *)

Images == { img \in [byte : [Address -> Byte], mask : SUBSET Address, max : Nat, min : Nat] :
              \A a \in img.mask : img.min <= a /\ a <= img.max }
Pieces == [at : Nat, data : Seq(Byte)]
Covers(p, x) == x \in Span(p.at, Len(p.data))

\* Bytes and words, as numbers with a bound.
LEMMA ByteIs == \A b \in Byte : b \in Nat /\ b <= 255
BY DEF Byte

Words == 0 .. 65535

LEMMA WordIs == \A a \in Nat : a <= 65535 => a \in Words
<1> SUFFICES ASSUME NEW a \in Nat, a <= 65535 PROVE a \in Words
  OBVIOUS
<1> DEFINE n == 65535
<1>1. Words = 0 .. n /\ a <= n /\ n \in Int
  BY SMT DEF Words
<1> HIDE DEF n
<1> QED BY <1>1

LEMMA WordsAre == \A a \in Words : a \in Nat /\ a <= 65535
BY SMT DEF Words

\* The parts of a line of a hex file.
LEMMA HexLinesIs ==
  HexLines = [type : Byte, address : Words, data : Seq(Byte), checksum : Byte]
BY SMT DEF HexLines, Words, Byte

\* Finitely many numbers have a bound.
LEMMA Bounded ==
  ASSUME NEW n \in Nat, NEW f, \A k \in 1 .. n : f[k] \in Int
  PROVE  \E b \in Nat : \A k \in 1 .. n : f[k] <= b
<1> DEFINE T == { m \in 0 .. n : \E b \in Nat : \A k \in 1 .. m : f[k] <= b }
<1>1. 0 \in T
  BY 0 \in Nat
<1>2. \A m \in 1 .. n : m - 1 \in T => m \in T
  <2> SUFFICES ASSUME NEW m \in 1 .. n, m - 1 \in T PROVE m \in T
    OBVIOUS
  <2>0. \A i : i \in T <=> i \in 0 .. n /\ \E b \in Nat : \A k \in 1 .. i : f[k] <= b
    BY Zenon
  <2> HIDE DEF T
  <2>1. PICK b \in Nat : \A k \in 1 .. m - 1 : f[k] <= b
    BY <2>0
  <2>2. f[m] \in Int
    OBVIOUS
  <2> DEFINE c == IF f[m] <= b THEN b ELSE f[m]
  <2>3. c \in Nat /\ b <= c /\ f[m] <= c
    BY <2>2
  <2>4. \A k \in 1 .. m : f[k] <= c
    <3> SUFFICES ASSUME NEW k \in 1 .. m PROVE f[k] <= c
      OBVIOUS
    <3>1. CASE k = m
      BY <2>3, <3>1
    <3>2. CASE k # m
      <4>1. k \in 1 .. m - 1 /\ f[k] \in Int
        BY <3>2
      <4> HIDE DEF c
      <4> QED BY <2>1, <2>3, <4>1
    <3> QED BY <3>1, <3>2
  <2>5. m \in 0 .. n
    OBVIOUS
  <2> HIDE DEF c
  <2> QED BY <2>0, <2>3, <2>4, <2>5
<1>3. n \in T
  <2> HIDE DEF T
  <2>1. \A m \in 0 .. n : m \in T
    BY <1>1, <1>2, InductTo
  <2> QED BY <2>1
<1> QED BY <1>3

\* What PutAll does: of the pieces over an address a later one counts.
Puts(img, pieces, new) ==
    /\ new \in Images
    /\ \A x \in Address :
         (\A k \in 1 .. Len(pieces) : ~Covers(pieces[k], x)) => new.byte[x] = img.byte[x]
    /\ \A x \in Address : \A k \in 1 .. Len(pieces) : Covers(pieces[k], x) =>
         \E j \in k .. Len(pieces) :
           Covers(pieces[j], x) /\ new.byte[x] = pieces[j].data[x - pieces[j].at + 1]
    /\ \A x \in Address : x \in new.mask <=>
         x \in img.mask \/ \E k \in 1 .. Len(pieces) : Covers(pieces[k], x)
    /\ img.max <= new.max
    /\ \A k \in 1 .. Len(pieces) : pieces[k].at + Len(pieces[k].data) - 1 <= new.max

\* putByte, putUInt16 and putData: what the image then is.
LEMMA PutAllIs ==
  ASSUME NEW img \in Images, NEW pieces \in Seq(Pieces), NEW new, new = PutAll(img, pieces)
  PROVE  Puts(img, pieces, new)
<1> DEFINE L == Len(pieces)
           Over(x) == { k \in DOMAIN pieces : x \in Span(pieces[k].at, Len(pieces[k].data)) }
           put == { x \in Address : Over(x) # {} }
           ByteOf(p, x) == p.data[x - p.at + 1]
           Highs == {img.max} \union { p.at + Len(p.data) - 1 : p \in Range(pieces) }
           Lows == {img.min} \union { p.at : p \in Range(pieces) }
           byte == [x \in Address |-> IF x \in put THEN ByteOf(pieces[Max(Over(x))], x)
                                      ELSE img.byte[x]]
           mask == img.mask \union put
           max == Max(Highs)
           min == Min(Lows)
<1>1. new = [byte |-> byte, mask |-> mask, max |-> max, min |-> min]
  BY DEF PutAll
<1>2. /\ L \in Nat /\ DOMAIN pieces = 1 .. L
      /\ \A k \in 1 .. L : /\ pieces[k] \in Pieces /\ pieces[k].at \in Nat
                           /\ pieces[k].data \in Seq(Byte) /\ Len(pieces[k].data) \in Nat
      /\ Range(pieces) = { pieces[k] : k \in 1 .. L }
  <2>1. L \in Nat /\ DOMAIN pieces = 1 .. L /\ \A k \in 1 .. L : pieces[k] \in Pieces
    OBVIOUS
  <2>2. \A p \in Pieces : p.at \in Nat /\ p.data \in Seq(Byte) /\ Len(p.data) \in Nat
    BY DEF Pieces
  <2>3. Range(pieces) = { pieces[k] : k \in DOMAIN pieces }
    BY Zenon DEF Range
  <2> QED BY <2>1, <2>2, <2>3
<1>3. /\ img.byte \in [Address -> Byte] /\ img.mask \in SUBSET Address
      /\ img.max \in Nat /\ img.min \in Nat
      /\ \A a \in img.mask : img.min <= a /\ a <= img.max
  BY DEF Images
<1>4. MemorySize \in Nat /\ Address \subseteq Nat
  BY ImageAssumption DEF Address
<1>5. \A x : \A k : k \in Over(x) <=> k \in 1 .. L /\ Covers(pieces[k], x)
  BY <1>2, Zenon DEF Covers
<1> HIDE DEF Over
<1>6. \A x : Over(x) # {} => Max(Over(x)) \in Over(x) /\ \A k \in Over(x) : k <= Max(Over(x))
  <2> SUFFICES ASSUME NEW x, Over(x) # {}
               PROVE  Max(Over(x)) \in Over(x) /\ \A k \in Over(x) : k <= Max(Over(x))
    OBVIOUS
  <2>1. Over(x) \in SUBSET Int /\ (\A k \in Over(x) : k <= L) /\ L \in Int
    BY <1>2, <1>5
  <2> QED BY <2>1, MaxIs
<1>7. \A k \in 1 .. L : \A x : Covers(pieces[k], x) =>
         /\ x \in Nat /\ pieces[k].at <= x /\ x <= pieces[k].at + Len(pieces[k].data) - 1
         /\ pieces[k].data[x - pieces[k].at + 1] \in Byte
  BY <1>2 DEF Covers, Span
<1>8. \A x \in Address : byte[x] \in Byte
  <2> SUFFICES ASSUME NEW x \in Address PROVE byte[x] \in Byte
    OBVIOUS
  <2>1. CASE x \in put
    <3> DEFINE k == Max(Over(x))
    <3>1. k \in 1 .. L /\ Covers(pieces[k], x)
      BY <1>5, <1>6, <2>1
    <3>2. byte[x] = pieces[k].data[x - pieces[k].at + 1]
      BY <2>1
    <3> HIDE DEF k, byte
    <3> QED BY <1>7, <3>1, <3>2
  <2>2. CASE x \notin put
    <3>1. byte[x] = img.byte[x]
      BY <2>2
    <3> HIDE DEF byte
    <3> QED BY <1>3, <3>1
  <2> QED BY <2>1, <2>2
<1>9. byte \in [Address -> Byte]
  BY <1>8
<1>10. \A x \in Address : /\ x \notin put => byte[x] = img.byte[x]
                          /\ x \in put => byte[x] = ByteOf(pieces[Max(Over(x))], x)
  OBVIOUS
<1>11. \A x \in Address : x \in put <=> \E k \in 1 .. L : Covers(pieces[k], x)
  BY <1>5
<1>12. max \in Nat /\ img.max <= max
       /\ \A k \in 1 .. L : pieces[k].at + Len(pieces[k].data) - 1 <= max
  <2> DEFINE f == [k \in 1 .. L |-> pieces[k].at + Len(pieces[k].data) - 1]
  <2>1. \A k \in 1 .. L : f[k] \in Int
    BY <1>2
  <2>2. \A e \in Highs : e = img.max \/ \E k \in 1 .. L : e = f[k]
    BY <1>2
  <2>3. /\ img.max \in Highs
        /\ \A k \in 1 .. L : f[k] \in Highs /\ f[k] = pieces[k].at + Len(pieces[k].data) - 1
    BY <1>2
  <2> HIDE DEF f
  <2>4. PICK b \in Nat : \A k \in 1 .. L : f[k] <= b
    BY <1>2, <2>1, Bounded
  <2> HIDE DEF Highs
  <2>5. Highs \in SUBSET Int /\ Highs # {}
    BY <1>3, <2>1, <2>2, <2>3
  <2>6. \A e \in Highs : e <= b + img.max
    BY <1>3, <2>1, <2>2, <2>4
  <2>7. Max(Highs) \in Highs /\ \A e \in Highs : e <= Max(Highs)
    <3>1. b + img.max \in Int
      BY <1>3
    <3> QED BY <2>5, <2>6, <3>1, MaxIs
  <2> QED BY <1>3, <2>3, <2>5, <2>7
<1>13. min \in Nat /\ min <= img.min /\ \A k \in 1 .. L : min <= pieces[k].at
  <2>1. Lows \in SUBSET Nat /\ img.min \in Lows /\ \A k \in 1 .. L : pieces[k].at \in Lows
    BY <1>2, <1>3
  <2> HIDE DEF Lows
  <2>2. Lows # {}
    BY <2>1
  <2> QED BY <2>1, <2>2, MinIs
<1>14. mask \in SUBSET Address
  BY <1>3
<1>15. \A a \in mask : min <= a /\ a <= max
  <2> SUFFICES ASSUME NEW a \in mask PROVE min <= a /\ a <= max
    OBVIOUS
  <2>0. a \in Nat
    BY <1>4, <1>14
  <2>1. CASE a \in img.mask
    BY <1>3, <1>12, <1>13, <2>0, <2>1
  <2>2. CASE a \in put
    <3>1. PICK k \in 1 .. L : Covers(pieces[k], a)
      BY <1>11, <2>2
    <3> HIDE DEF min, max
    <3> QED BY <1>2, <1>7, <1>12, <1>13, <2>0, <3>1
  <2> QED BY <2>1, <2>2
<1>16. \A x \in Address : x \in mask <=>
          x \in img.mask \/ \E k \in 1 .. L : Covers(pieces[k], x)
  <2> HIDE DEF put
  <2>1. \A x : x \in mask <=> x \in img.mask \/ x \in put
    OBVIOUS
  <2> HIDE DEF mask
  <2> QED BY <1>11, <2>1
<1> HIDE DEF byte, mask, max, min
<1>17. new.byte = byte /\ new.mask = mask /\ new.max = max /\ new.min = min
  BY <1>1
<1>18. new \in Images
  BY <1>1, <1>9, <1>12, <1>13, <1>14, <1>15 DEF Images
<1>19. ASSUME NEW x \in Address, NEW k \in 1 .. L, Covers(pieces[k], x)
       PROVE  \E j \in k .. L :
                Covers(pieces[j], x) /\ byte[x] = pieces[j].data[x - pieces[j].at + 1]
  <2> DEFINE j == Max(Over(x))
  <2>1. k \in Over(x)
    BY <1>5, <1>19
  <2>2. j \in 1 .. L /\ Covers(pieces[j], x) /\ k <= j
    BY <1>5, <1>6, <2>1
  <2>3. byte[x] = pieces[j].data[x - pieces[j].at + 1]
    BY <1>10, <1>11, <1>19, Zenon
  <2> HIDE DEF j
  <2> QED BY <1>2, <2>2, <2>3
<1> HIDE DEF put
<1>20. \A x \in Address :
         (\A k \in 1 .. L : ~Covers(pieces[k], x)) => byte[x] = img.byte[x]
  BY <1>10, <1>11
<1>21. \A x \in Address : \A k \in 1 .. L : Covers(pieces[k], x) =>
         \E j \in k .. L : Covers(pieces[j], x) /\ byte[x] = pieces[j].data[x - pieces[j].at + 1]
  BY <1>19
<1> QED BY <1>12, <1>16, <1>17, <1>18, <1>20, <1>21, Zenon DEF Puts

(* Intel Hex files: a line's checksum fits it.                               *)
Summed(kind, a, data) ==
    CHOOSE sum : sum = [n \in 0 .. Len(data) |->
        IF n = 0 THEN Len(data) + (a \div 256) + (a % 256) + kind ELSE sum[n - 1] + data[n]]

\* The recursion over the bytes of a line has a sum.
LEMMA LineSumIs ==
  ASSUME NEW kind \in Byte, NEW a \in Words, NEW data \in Seq(Byte)
  PROVE  LineSum(kind, a, data) \in Nat
<1> DEFINE L == Len(data)
           init == L + (a \div 256) + (a % 256) + kind
           sum == Summed(kind, a, data)
           F == [n \in 1 .. L |-> [u \in Nat |-> u + data[n]]]
<1>1. LineSum(kind, a, data) = sum[L]
  BY DEF LineSum, Summed
<1>2. L \in Nat /\ \A n \in 1 .. L : data[n] \in Byte
  OBVIOUS
<1>3. init \in Nat
  <2>1. a \in Nat /\ kind \in Nat
    BY ByteIs, WordsAre
  <2>2. a \div 256 \in Nat /\ a % 256 \in Nat
    BY <2>1
  <2> HIDE DEF L
  <2> QED BY <1>2, <2>1, <2>2
<1> HIDE DEF init
<1>4. Steps(Nat, L, init, F)
  <2>1. \A n \in 1 .. L : \A u \in Nat : F[n][u] \in Nat
    BY <1>2, ByteIs
  <2> QED BY <1>2, <1>3, <2>1 DEF Steps
<1>5. PICK f : Follows(f, Nat, L, init, F)
  <2> HIDE DEF F, L
  <2> QED BY <1>4, Recursion, Zenon
<1>6. f = [n \in 0 .. L |-> IF n = 0 THEN init ELSE f[n - 1] + data[n]]
  <2>1. f \in [0 .. L -> Nat] /\ f[0] = init /\ \A n \in 1 .. L : f[n] = F[n][f[n - 1]]
    BY <1>5, Zenon DEF Follows
  <2>2. \A n \in 1 .. L : f[n] = f[n - 1] + data[n]
    <3> SUFFICES ASSUME NEW n \in 1 .. L PROVE f[n] = f[n - 1] + data[n]
      OBVIOUS
    <3>1. n - 1 \in 0 .. L
      BY <1>2
    <3>2. f[n - 1] \in Nat
      BY <2>1, <3>1
    <3> QED BY <2>1, <3>2
  <2> HIDE DEF F
  <2>3. \A n \in 0 .. L : f[n] = IF n = 0 THEN init ELSE f[n - 1] + data[n]
    BY <1>2, <2>1, <2>2
  <2>4. f = [n \in 0 .. L |-> f[n]]
    BY <2>1
  <2> QED BY <2>3, <2>4
<1>7. sum = [n \in 0 .. L |-> IF n = 0 THEN init ELSE sum[n - 1] + data[n]]
  BY <1>6, Zenon DEF Summed, init
<1> HIDE DEF sum, F
<1> DEFINE T == { n \in 0 .. L : sum[n] \in Nat }
<1>8. 0 \in T
  BY <1>2, <1>3, <1>7
<1>9. \A n \in 1 .. L : n - 1 \in T => n \in T
  <2> SUFFICES ASSUME NEW n \in 1 .. L, n - 1 \in T PROVE n \in T
    OBVIOUS
  <2>1. n # 0 /\ n \in 0 .. L
    BY <1>2
  <2>2. sum[n] = sum[n - 1] + data[n]
    BY <1>7, <2>1
  <2> QED BY <1>2, <2>1, <2>2, ByteIs
<1>10. L \in T
  <2> HIDE DEF T
  <2>1. \A n \in 0 .. L : n \in T
    BY <1>2, <1>8, <1>9, InductTo
  <2> QED BY <1>2, <2>1
<1> QED BY <1>1, <1>10

\* A line has a checksum that is right.
LEMMA HexLineIs ==
  ASSUME NEW kind \in Byte, NEW a \in Words, NEW data \in Seq(Byte)
  PROVE  /\ HexLine(kind, a, data) \in HexLines
         /\ HexLine(kind, a, data).type = kind /\ HexLine(kind, a, data).address = a
         /\ HexLine(kind, a, data).data = data
         /\ ChecksumOK(HexLine(kind, a, data))
<1> DEFINE sum == LineSum(kind, a, data)
           line == HexLine(kind, a, data)
           check == (256 - (sum % 256)) % 256
<1>1. sum \in Nat
  BY LineSumIs
<1> HIDE DEF sum
<1>2. check \in 0 .. 255 /\ (sum + check) % 256 = 0
  BY <1>1
<1>3. line = [type |-> kind, address |-> a, data |-> data, checksum |-> check]
  BY DEF HexLine, sum
<1> HIDE DEF check, line
<1>4. line \in HexLines /\ line.type = kind /\ line.address = a /\ line.data = data
      /\ line.checksum = check
  <2>1. check \in Byte
    BY <1>2, SMT DEF Byte
  <2> QED BY <1>3, <2>1, HexLinesIs
<1>5. ChecksumOK(line)
  BY <1>2, <1>4 DEF ChecksumOK, sum
<1> QED BY <1>4, <1>5 DEF line

\* A piece of data for an image.
LEMMA PieceIs ==
  ASSUME NEW a \in Nat, NEW data \in Seq(Byte)
  PROVE  /\ Piece(a, data) \in Pieces
         /\ Piece(a, data).at = a /\ Piece(a, data).data = data
BY DEF Piece, Pieces

\* The image before anything is put into it.
LEMMA ResetIs == ResetImage \in Images /\ ResetImage.mask = {} /\ ResetImage.max = 0
BY ImageAssumption DEF ResetImage, Images, Byte, Address
-----------------------------------------------------------------------------
(* The lines of a file one after the other.                                  *)
LoadState == [ok : BOOLEAN, ended : BOOLEAN, base : Int, pieces : Seq(Pieces)]

\* A line of data adds its piece, and one of type 1 ends the file.
LEMMA LoadLineIs ==
  ASSUME NEW load \in LoadState, NEW line \in HexLines, NEW next, next = LoadLine(load, line)
  PROVE  /\ next \in LoadState
         /\ load.ok /\ ~load.ended /\ ChecksumOK(line) /\ line.type = 0 /\
            load.base + line.address >= 0 /\
            load.base + line.address + Len(line.data) <= MemorySize =>
              /\ next.ok /\ ~next.ended /\ next.base = load.base
              /\ next.pieces = Append(load.pieces, Piece(load.base + line.address, line.data))
         /\ load.ok /\ ~load.ended /\ ChecksumOK(line) /\ line.type = 1 =>
              next.ok /\ next.ended /\ next.pieces = load.pieces
<1> DEFINE good == load.ok /\ ChecksumOK(line)
           at == load.base + line.address
           fits == good /\ line.type = 0 /\ ~load.ended
                   /\ at >= 0 /\ at + Len(line.data) <= MemorySize
           ends == good /\ line.type = 1
           based == good /\ line.type = 2 /\ ~load.ended /\ line.address = 0 /\ Len(line.data) = 2
           piece == Piece(at, line.data)
           base == SegmentBase(line.data)
<1>1. /\ line.data \in Seq(Byte) /\ line.address \in Nat
  <2>1. line.data \in Seq(Byte) /\ line.address \in Words
    BY HexLinesIs
  <2> QED BY <2>1, WordsAre
<1>2. /\ load.ok \in BOOLEAN /\ load.ended \in BOOLEAN /\ load.base \in Int
      /\ load.pieces \in Seq(Pieces)
      /\ load = [ok |-> load.ok, ended |-> load.ended, base |-> load.base, pieces |-> load.pieces]
  BY DEF LoadState
<1>3. fits => Append(load.pieces, piece) \in Seq(Pieces)
  <2> SUFFICES ASSUME fits PROVE Append(load.pieces, piece) \in Seq(Pieces)
    OBVIOUS
  <2>1. at \in Nat
    BY <1>1, <1>2
  <2>2. piece \in Pieces
    BY <1>1, <2>1, PieceIs
  <2> HIDE DEF piece
  <2> QED BY <1>2, <2>2, AppendProperties
<1>4. based => base \in Int
  <2> SUFFICES ASSUME based PROVE base \in Int
    OBVIOUS
  <2>1. Len(line.data) = 2
    OBVIOUS
  <2>2. line.data[1] \in Byte /\ line.data[2] \in Byte
    BY <1>1, <2>1
  <2> DEFINE x == line.data[1]
             y == line.data[2]
  <2>3. /\ base = 16 * JavaByte(y) + (IF y < 128 THEN 4096 * JavaByte(x) ELSE 0)
        /\ x \in Byte /\ y \in Byte
    BY <2>2 DEF SegmentBase
  <2> HIDE DEF x, y, base
  <2>4. x \in Int /\ y \in Int
    BY <2>3, ByteIs
  <2>5. JavaByte(x) \in Int /\ JavaByte(y) \in Int
    BY <2>4 DEF JavaByte
  <2> QED BY <2>3, <2>4, <2>5
<1>5. next = CASE fits -> [load EXCEPT !.pieces = Append(@, piece)]
               [] ends -> [load EXCEPT !.ended = TRUE]
               [] based -> [load EXCEPT !.base = base]
               [] OTHER -> [load EXCEPT !.ok = FALSE]
  BY Zenon DEF LoadLine
<1>6. ~(fits /\ ends) /\ ~(fits /\ based) /\ ~(ends /\ based)
  OBVIOUS
<1> HIDE DEF piece, base, based
<1>7. CASE fits
  <2> HIDE DEF ends, fits
  <2>1. next = [load EXCEPT !.pieces = Append(@, piece)]
    BY <1>5, <1>6, <1>7, Zenon
  <2>2. /\ next \in LoadState /\ next.ok = load.ok /\ next.ended = load.ended
        /\ next.base = load.base /\ next.pieces = Append(load.pieces, piece)
    BY <1>2, <1>3, <1>7, <2>1 DEF LoadState
  <2>3. load.ok /\ ~load.ended /\ line.type = 0
    BY <1>7 DEF fits
  <2> QED BY <2>2, <2>3 DEF piece
<1>8. CASE ends
  <2>1. ~fits
    BY <1>6, <1>8
  <2> HIDE DEF ends, fits
  <2>2. next = [load EXCEPT !.ended = TRUE]
    BY <1>5, <1>6, <1>8, <2>1, Zenon
  <2>3. /\ next \in LoadState /\ next.ok = load.ok /\ next.ended = TRUE
        /\ next.pieces = load.pieces
    BY <1>2, <2>2 DEF LoadState
  <2>4. load.ok /\ line.type = 1
    BY <1>8 DEF ends
  <2> QED BY <2>3, <2>4
<1>9. CASE based
  <2>1. ~fits /\ ~ends
    BY <1>6, <1>9
  <2>2. line.type = 2
    BY <1>9 DEF based
  <2> HIDE DEF ends, fits
  <2>3. next = [load EXCEPT !.base = base]
    BY <1>5, <1>9, <2>1, Zenon
  <2>4. next \in LoadState
    BY <1>2, <1>4, <1>9, <2>3 DEF LoadState
  <2> QED BY <2>2, <2>4
<1>10. CASE ~fits /\ ~ends /\ ~based
  <2>1. ~(load.ok /\ ~load.ended /\ ChecksumOK(line) /\ line.type = 0 /\
            load.base + line.address >= 0 /\
            load.base + line.address + Len(line.data) <= MemorySize)
    BY <1>10
  <2>2. ~(load.ok /\ ~load.ended /\ ChecksumOK(line) /\ line.type = 1)
    BY <1>10
  <2> HIDE DEF ends, fits
  <2>3. next = [load EXCEPT !.ok = FALSE]
    BY <1>5, <1>10, Zenon
  <2>4. next \in LoadState
    BY <1>2, <2>3 DEF LoadState
  <2> QED BY <2>1, <2>2, <2>4
<1> QED BY <1>7, <1>8, <1>9, <1>10

Loading(lines) ==
    CHOOSE after : after = [n \in 0 .. Len(lines) |->
        IF n = 0 THEN [ok |-> TRUE, ended |-> FALSE, base |-> 0, pieces |-> <<>>]
        ELSE LoadLine(after[n - 1], lines[n])]

\* The recursion over the lines: one step for each.
LEMMA LoadingIs ==
  ASSUME NEW lines \in Seq(HexLines)
  PROVE  /\ Loading(lines)[0] = [ok |-> TRUE, ended |-> FALSE, base |-> 0, pieces |-> <<>>]
         /\ \A n \in 1 .. Len(lines) :
              Loading(lines)[n] = LoadLine(Loading(lines)[n - 1], lines[n])
         /\ \A n \in 0 .. Len(lines) : Loading(lines)[n] \in LoadState
<1> DEFINE L == Len(lines)
           init == [ok |-> TRUE, ended |-> FALSE, base |-> 0, pieces |-> <<>>]
           after == Loading(lines)
           F == [n \in 1 .. L |-> [u \in LoadState |-> LoadLine(u, lines[n])]]
<1>1. L \in Nat /\ init \in LoadState /\ \A n \in 1 .. L : lines[n] \in HexLines
  <2>1. <<>> \in Seq(Pieces)
    OBVIOUS
  <2> QED BY <2>1 DEF LoadState
<1> HIDE DEF init
<1>2. \A n \in 1 .. L : \A u \in LoadState : LoadLine(u, lines[n]) \in LoadState
  BY <1>1, LoadLineIs
<1>3. \A n \in 1 .. L : \A u \in LoadState : F[n][u] = LoadLine(u, lines[n])
  BY Zenon
<1>4. Steps(LoadState, L, init, F)
  <2> HIDE DEF F, L
  <2>1. \A n \in 1 .. L : \A u \in LoadState : F[n][u] \in LoadState
    BY <1>2, <1>3, Zenon
  <2> QED BY <1>1, <2>1, Zenon DEF Steps
<1>5. PICK f : Follows(f, LoadState, L, init, F)
  <2> HIDE DEF F, L
  <2> QED BY <1>4, Recursion, Zenon
<1>6. f = [n \in 0 .. L |-> IF n = 0 THEN init ELSE LoadLine(f[n - 1], lines[n])]
  <2> HIDE DEF F, L
  <2>1. /\ f \in [0 .. L -> LoadState] /\ f[0] = init
        /\ \A n \in 1 .. L : f[n] = F[n][f[n - 1]]
    BY <1>5, Zenon DEF Follows
  <2>2. \A n \in 1 .. L : f[n] = LoadLine(f[n - 1], lines[n])
    <3> SUFFICES ASSUME NEW n \in 1 .. L PROVE f[n] = LoadLine(f[n - 1], lines[n])
      OBVIOUS
    <3>1. n - 1 \in 0 .. L
      BY <1>1
    <3>2. f[n - 1] \in LoadState
      BY <2>1, <3>1
    <3> QED BY <1>3, <2>1, <3>2, Zenon
  <2>3. \A n \in 0 .. L : f[n] = IF n = 0 THEN init ELSE LoadLine(f[n - 1], lines[n])
    <3>1. \A n \in 0 .. L : n # 0 => n \in 1 .. L
      BY <1>1
    <3> QED BY <2>1, <2>2, <3>1, Zenon
  <2>4. f = [n \in 0 .. L |-> f[n]]
    BY <2>1
  <2> QED BY <2>3, <2>4, Zenon
<1>7. after = [n \in 0 .. L |-> IF n = 0 THEN init ELSE LoadLine(after[n - 1], lines[n])]
  BY <1>6, Zenon DEF Loading, init
<1> HIDE DEF after, F
<1>8. after[0] = init
  <2>1. 0 \in 0 .. L
    BY <1>1
  <2> HIDE DEF L
  <2> QED BY <1>7, <2>1, Zenon
<1>9. \A n \in 1 .. L : n \in 0 .. L /\ after[n] = LoadLine(after[n - 1], lines[n])
  <2>1. \A n \in 1 .. L : n \in 0 .. L /\ n # 0
    BY <1>1
  <2> HIDE DEF L
  <2> QED BY <1>7, <2>1, Zenon
<1> DEFINE T == { n \in 0 .. L : after[n] \in LoadState }
<1>10. 0 \in T
  BY <1>1, <1>8
<1>11. \A n \in 1 .. L : n - 1 \in T => n \in T
  <2> SUFFICES ASSUME NEW n \in 1 .. L, n - 1 \in T PROVE n \in T
    OBVIOUS
  <2>1. after[n] \in LoadState
    BY <1>2, <1>9
  <2> QED BY <1>9, <2>1
<1>12. \A n \in 0 .. L : after[n] \in LoadState
  <2> HIDE DEF T
  <2>1. \A n \in 0 .. L : n \in T
    BY <1>1, <1>10, <1>11, InductTo
  <2> QED BY <2>1 DEF T
<1> QED BY <1>8, <1>9, <1>12, Zenon DEF after, init

\* loadIntelHex: an image, whatever the lines are.
LEMMA LoadIntelHexIs ==
  ASSUME NEW lines \in Seq(HexLines)
  PROVE  LET load == Loading(lines)[Len(lines)]
         IN  /\ load \in LoadState
             /\ LoadIntelHex(lines) = [ok |-> load.ok /\ load.ended,
                                       image |-> PutAll(ResetImage, load.pieces)]
             /\ LoadIntelHex(lines).image = PutAll(ResetImage, load.pieces)
             /\ LoadIntelHex(lines).image \in Images
<1> DEFINE load == Loading(lines)[Len(lines)]
           image == PutAll(ResetImage, load.pieces)
<1>1. load \in LoadState
  BY LoadingIs
<1>2. LoadIntelHex(lines) = [ok |-> load.ok /\ load.ended, image |-> image]
  BY DEF LoadIntelHex, Loading
<1>3. load.pieces \in Seq(Pieces)
  <2> HIDE DEF load
  <2> QED BY <1>1 DEF LoadState
<1>4. image \in Images
  BY <1>3, ResetIs, PutAllIs DEF Puts
<1>5. LoadIntelHex(lines).image = image
  <2> DEFINE ok == load.ok /\ load.ended
  <2> HIDE DEF ok, image
  <2> QED BY <1>2 DEF ok
<1> QED BY <1>1, <1>2, <1>4, <1>5

(* generateIntelHex: the lines cover the defined bytes.                      *)
LEMMA MemoryIs == /\ MemorySize \in Nat /\ MemorySize <= 65536
                  /\ BytesPerLine \in Nat /\ BytesPerLine > 0
BY SMT, ImageAssumption

LEMMA AddressIs == \A a : a \in Address <=> a \in Nat /\ a < MemorySize
BY MemoryIs DEF Address

LEMMA AddressFits == \A a \in Address : a \in Words
<1> SUFFICES ASSUME NEW a \in Address PROVE a \in Words
  OBVIOUS
<1>1. a \in Nat /\ a < MemorySize
  BY AddressIs
<1>2. a <= 65535
  BY <1>1, MemoryIs
<1> QED BY <1>1, <1>2, WordIs

\* The parts of an image.
LEMMA MaskIs ==
  ASSUME NEW img \in Images
  PROVE  /\ \A a \in img.mask : /\ a \in Address /\ a \in Nat /\ a < MemorySize
                                /\ img.byte[a] \in Byte /\ img.min <= a /\ a <= img.max
         /\ img.mask \in SUBSET Nat /\ img.byte \in [Address -> Byte]
         /\ img.max \in Nat /\ img.min \in Nat
BY AddressIs DEF Images

\* The run of defined bytes that one is in.
LEMMA RunStartIs ==
  ASSUME NEW img \in Images, NEW a \in img.mask, NEW s, s = RunStart(img, a)
  PROVE  /\ s \in Nat /\ s <= a /\ s - 1 \notin img.mask
         /\ \A t \in 0 .. a : t - 1 \notin img.mask => t <= s
         /\ \A x \in s .. a : x \in img.mask
<1> DEFINE S == { t \in 0 .. a : t - 1 \notin img.mask }
<1>1. a \in Nat /\ \A x \in img.mask : x \in Nat
  BY MaskIs
<1>2. S \in SUBSET Int /\ 0 \in S /\ \A t \in S : t <= a
  BY <1>1
<1>3. s \in S /\ \A t \in S : t <= s
  <2>1. s = Max(S)
    BY DEF RunStart
  <2> HIDE DEF S
  <2>2. S # {} /\ a \in Int
    BY <1>1, <1>2
  <2> QED BY <1>2, <2>1, <2>2, MaxIs
<1>4. s \in Nat /\ s <= a /\ s - 1 \notin img.mask
  BY <1>1, <1>3
<1>5. \A t \in 0 .. a : t - 1 \notin img.mask => t <= s
  BY <1>3
<1>6. \A x \in s .. a : x \in img.mask
  <2> SUFFICES ASSUME NEW x \in s .. a, x \notin img.mask PROVE FALSE
    OBVIOUS
  <2>1. x # a /\ x + 1 \in 0 .. a /\ (x + 1) - 1 = x /\ x + 1 > s
    BY <1>1, <1>4
  <2> HIDE DEF S
  <2> QED BY <1>4, <1>5, <2>1
<1> QED BY <1>4, <1>5, <1>6

\* A line is as long as the bytes are defined, up to BytesPerLine.
LEMMA LineLengthIs ==
  ASSUME NEW img \in Images, NEW a \in img.mask, NEW n, n = LineLength(img, a)
  PROVE  /\ n \in 1 .. BytesPerLine
         /\ \A x \in a .. a + n - 1 : x \in img.mask
         /\ \A m \in 1 .. BytesPerLine :
              (\A x \in a .. a + m - 1 : x \in img.mask) => m <= n
<1> DEFINE S == { m \in 1 .. BytesPerLine : Span(a, m) \subseteq img.mask }
<1>1. a \in Nat /\ BytesPerLine \in Nat /\ BytesPerLine > 0
  BY MaskIs, MemoryIs
<1>2. \A m : m \in S <=> m \in 1 .. BytesPerLine /\ \A x \in a .. a + m - 1 : x \in img.mask
  BY Zenon DEF Span
<1> HIDE DEF S
<1>3. 1 \in S
  <2>1. \A x \in a .. a + 1 - 1 : x = a
    BY <1>1
  <2>2. 1 \in 1 .. BytesPerLine
    BY <1>1
  <2> QED BY <1>2, <2>1, <2>2
<1>4. S \in SUBSET Int /\ S # {} /\ \A m \in S : m <= BytesPerLine
  BY <1>1, <1>2, <1>3
<1>5. n \in S /\ \A m \in S : m <= n
  <2>1. n = Max(S)
    BY DEF LineLength, S
  <2>2. BytesPerLine \in Int
    BY <1>1
  <2> QED BY <1>4, <2>1, <2>2, MaxIs
<1> QED BY <1>2, <1>5

\* Each defined byte is in a line.
LEMMA LineOf ==
  ASSUME NEW img \in Images, NEW x \in img.mask
  PROVE  \E a \in LineStarts(img) : a \in Nat /\ a <= x /\ x < a + LineLength(img, a)
<1> DEFINE s == RunStart(img, x)
           d == (x - s) % BytesPerLine
           a == x - d
<1>1. /\ s \in Nat /\ s <= x /\ s - 1 \notin img.mask
      /\ \A t \in 0 .. x : t - 1 \notin img.mask => t <= s
      /\ \A y \in s .. x : y \in img.mask
  BY RunStartIs
<1> HIDE DEF s
<1>2. x \in Nat /\ BytesPerLine \in Nat /\ BytesPerLine > 0
  BY MaskIs, MemoryIs
<1>3. d \in Nat /\ d < BytesPerLine /\ d <= x - s /\ (x - s - d) % BytesPerLine = 0
  <2> DEFINE y == x - s
             q == y \div BytesPerLine
  <2>1. y \in Nat
    BY <1>1, <1>2
  <2>2. d = y % BytesPerLine
    OBVIOUS
  <2> HIDE DEF y, d
  <2>3. q \in Nat /\ d \in Nat /\ d < BytesPerLine /\ y = BytesPerLine * q + d
    BY <1>2, <2>1, <2>2
  <2>4. (BytesPerLine * q) % BytesPerLine = 0
    <3> HIDE DEF q
    <3> QED BY <1>2, <2>3
  <2> HIDE DEF q
  <2>5. y - d = BytesPerLine * q /\ BytesPerLine * q \in Nat
    BY <1>2, <2>1, <2>3
  <2>6. (y - d) % BytesPerLine = 0 /\ d <= y
    BY <2>1, <2>3, <2>4, <2>5
  <2> QED BY <2>3, <2>6 DEF y
<1> HIDE DEF d
<1>4. a \in Nat /\ s <= a /\ a <= x /\ a \in img.mask
  BY <1>1, <1>2, <1>3
<1>5. RunStart(img, a) = s
  <2> DEFINE r == RunStart(img, a)
  <2>1. /\ r \in Nat /\ r <= a /\ r - 1 \notin img.mask
        /\ \A t \in 0 .. a : t - 1 \notin img.mask => t <= r
    <3> HIDE DEF a
    <3> QED BY <1>4, RunStartIs
  <2> HIDE DEF r
  <2>2. s \in 0 .. a /\ r \in 0 .. x
    BY <1>1, <1>2, <1>4, <2>1
  <2>3. s <= r /\ r <= s
    BY <1>1, <2>1, <2>2
  <2> QED BY <1>1, <2>1, <2>3 DEF r
<1>6. a \in LineStarts(img)
  <2>1. (a - RunStart(img, a)) % BytesPerLine = 0
    <3>1. a - s = x - s - d
      BY <1>1, <1>2, <1>3
    <3> HIDE DEF a
    <3> QED BY <1>3, <1>5, <3>1
  <2> HIDE DEF a
  <2> QED BY <1>4, <2>1 DEF LineStarts
<1>7. x < a + LineLength(img, a)
  <2> DEFINE n == LineLength(img, a)
  <2>1. /\ n \in 1 .. BytesPerLine
        /\ \A m \in 1 .. BytesPerLine :
              (\A y \in a .. a + m - 1 : y \in img.mask) => m <= n
    <3> HIDE DEF a
    <3> QED BY <1>4, LineLengthIs
  <2> HIDE DEF n
  <2>2. d + 1 \in 1 .. BytesPerLine
    BY <1>2, <1>3
  <2>3. \A y \in a .. a + (d + 1) - 1 : y \in s .. x
    BY <1>1, <1>2, <1>3, <1>4
  <2>4. d + 1 <= n
    BY <1>1, <2>1, <2>2, <2>3
  <2> QED BY <1>2, <1>3, <2>1, <2>4 DEF n
<1> QED BY <1>4, <1>6, <1>7

\* getData, of bytes that are defined.
LEMMA GetDataIs ==
  ASSUME NEW img \in Images, NEW a \in Nat, NEW n \in Nat,
         \A x \in a .. a + n - 1 : x \in img.mask, NEW data, data = GetData(img, a, n)
  PROVE  /\ data \in Seq(Byte) /\ Len(data) = n
         /\ \A i \in 1 .. n : data[i] = img.byte[a + i - 1]
<1>1. data = [i \in 1 .. n |-> img.byte[a + i - 1]]
  BY DEF GetData
<1>2. \A i \in 1 .. n : img.byte[a + i - 1] \in Byte
  <2> SUFFICES ASSUME NEW i \in 1 .. n PROVE img.byte[a + i - 1] \in Byte
    OBVIOUS
  <2>1. a + i - 1 \in a .. a + n - 1
    OBVIOUS
  <2> QED BY <2>1, MaskIs
<1>3. data \in [1 .. n -> Byte]
  BY <1>1, <1>2
<1> QED BY <1>1, <1>3, SeqIs

(* What is written as a hex file is read back from it.                       *)
LineData(img, a) == GetData(img, a, LineLength(img, a))

\* The data of a line fit it, and the memory.
LEMMA LineIs ==
  ASSUME NEW img \in Images, NEW a \in LineStarts(img)
  PROVE  /\ a \in img.mask /\ a \in Nat /\ a \in Words
         /\ LineData(img, a) \in Seq(Byte) /\ Len(LineData(img, a)) = LineLength(img, a)
         /\ LineLength(img, a) \in Nat /\ a + LineLength(img, a) <= MemorySize
         /\ \A i \in 1 .. LineLength(img, a) : LineData(img, a)[i] = img.byte[a + i - 1]
<1> DEFINE n == LineLength(img, a)
<1>1. a \in img.mask
  BY DEF LineStarts
<1>2. a \in Nat /\ a \in Words /\ MemorySize \in Nat
  BY <1>1, MaskIs, AddressFits, MemoryIs
<1>3. n \in 1 .. BytesPerLine /\ \A x \in a .. a + n - 1 : x \in img.mask
  BY <1>1, LineLengthIs
<1> HIDE DEF n
<1>4. n \in Nat /\ n > 0
  BY <1>3, MemoryIs
<1>5. a + n - 1 \in a .. a + n - 1
  BY <1>2, <1>4
<1>6. a + n - 1 < MemorySize
  BY <1>3, <1>5, MaskIs
<1>7. /\ GetData(img, a, n) \in Seq(Byte) /\ Len(GetData(img, a, n)) = n
      /\ \A i \in 1 .. n : GetData(img, a, n)[i] = img.byte[a + i - 1]
  BY <1>2, <1>3, <1>4, GetDataIs
<1>8. a + n <= MemorySize
  BY <1>2, <1>4, <1>6
<1> QED BY <1>1, <1>2, <1>4, <1>7, <1>8 DEF n, LineData

\* The lines begin where LineStarts says, each once.
LEMMA StartsAre ==
  ASSUME NEW img \in Images, NEW starts, starts = Sorted(LineStarts(img))
  PROVE  /\ starts \in Seq(LineStarts(img))
         /\ Len(starts) \in Nat /\ DOMAIN starts = 1 .. Len(starts)
         /\ \A k \in 1 .. Len(starts) : starts[k] \in LineStarts(img)
         /\ \A a \in LineStarts(img) : \E k \in 1 .. Len(starts) : starts[k] = a
<1> DEFINE S == LineStarts(img)
<1>1. S \in SUBSET Nat /\ \A a \in S : a <= MemorySize
  <2> SUFFICES ASSUME NEW a \in S PROVE a \in Nat /\ a <= MemorySize
    OBVIOUS
  <2>1. a \in img.mask
    BY DEF LineStarts
  <2> QED BY <2>1, MaskIs, MemoryIs
<1> HIDE DEF S
<1>2. MemorySize \in Nat
  BY MemoryIs
<1>3. starts = Sorted(S)
  BY DEF S
<1>4. /\ Cardinality(S) \in Nat /\ Sorted(S) \in Seq(S)
      /\ Len(Sorted(S)) = Cardinality(S) /\ DOMAIN Sorted(S) = 1 .. Cardinality(S)
      /\ \A k \in 1 .. Cardinality(S) : Sorted(S)[k] \in S
      /\ \A e \in S : \E k \in 1 .. Cardinality(S) : Sorted(S)[k] = e
  BY <1>1, <1>2, SortedIs
<1>5. /\ Cardinality(S) \in Nat /\ starts \in Seq(S)
      /\ Len(starts) = Cardinality(S) /\ DOMAIN starts = 1 .. Cardinality(S)
      /\ \A k \in 1 .. Cardinality(S) : starts[k] \in S
      /\ \A e \in S : \E k \in 1 .. Cardinality(S) : starts[k] = e
  BY <1>3, <1>4
<1> QED BY <1>5 DEF S

\* generateIntelHex: a line for each start, and the end of the file.
LEMMA HexFileIs ==
  ASSUME NEW img \in Images, NEW starts, starts = Sorted(LineStarts(img)),
         NEW lines, lines = LinesOf(img)
  PROVE  /\ lines \in Seq(HexLines) /\ Len(lines) = Len(starts) + 1 /\ Len(starts) \in Nat
         /\ \A k \in 1 .. Len(starts) : lines[k] = HexLine(0, starts[k], LineData(img, starts[k]))
         /\ lines[Len(starts) + 1] = HexLine(1, 0, <<>>)
<1> DEFINE n == Len(starts)
           data == [i \in 1 .. n |-> HexLine(0, starts[i], LineData(img, starts[i]))]
           end == HexLine(1, 0, <<>>)
<1>1. n \in Nat /\ DOMAIN starts = 1 .. n /\ \A k \in 1 .. n : starts[k] \in LineStarts(img)
  BY StartsAre
<1>2. lines = data \o << end >>
  BY <1>1 DEF LinesOf, LineData
<1>3. 0 \in Byte /\ 1 \in Byte /\ 0 \in Words
  BY SMT DEF Byte, Words
<1>4. \A k \in 1 .. n : HexLine(0, starts[k], LineData(img, starts[k])) \in HexLines
  <2> SUFFICES ASSUME NEW k \in 1 .. n
               PROVE  HexLine(0, starts[k], LineData(img, starts[k])) \in HexLines
    OBVIOUS
  <2> DEFINE a == starts[k]
  <2>1. a \in LineStarts(img)
    BY <1>1
  <2> HIDE DEF a
  <2>2. a \in Words /\ LineData(img, a) \in Seq(Byte)
    BY <2>1, LineIs
  <2>3. HexLine(0, a, LineData(img, a)) \in HexLines
    BY <1>3, <2>2, HexLineIs
  <2> QED BY <2>3 DEF a
<1>5. end \in HexLines
  <2>1. <<>> \in Seq(Byte)
    OBVIOUS
  <2> QED BY <1>3, <2>1, HexLineIs
<1>6. data \in Seq(HexLines) /\ Len(data) = n
      /\ \A k \in 1 .. n : data[k] = HexLine(0, starts[k], LineData(img, starts[k]))
  <2>1. data \in [1 .. n -> HexLines]
    BY <1>4
  <2> HIDE DEF n
  <2>2. \A k \in 1 .. n : data[k] = HexLine(0, starts[k], LineData(img, starts[k]))
    BY Zenon
  <2> HIDE DEF data
  <2> QED BY <1>1, <2>1, <2>2, SeqIs
<1> HIDE DEF data, end
<1>7. lines = Append(data, end)
  BY <1>2, <1>5, <1>6, AppendIsConcat
<1>8. /\ lines \in Seq(HexLines) /\ Len(lines) = Len(data) + 1 /\ lines[Len(data) + 1] = end
      /\ \A i \in 1 .. Len(data) : lines[i] = data[i]
  BY <1>5, <1>6, <1>7, AppendProperties
<1> QED BY <1>1, <1>6, <1>8 DEF end

\* Reading what was written: a piece for each line.
LEMMA HexLoads ==
  ASSUME NEW img \in Images, NEW starts, starts = Sorted(LineStarts(img)),
         NEW lines, lines = LinesOf(img)
  PROVE  LET load == Loading(lines)[Len(lines)]
         IN  /\ load.ok /\ load.ended /\ load.pieces \in Seq(Pieces)
             /\ Len(load.pieces) = Len(starts)
             /\ \A k \in 1 .. Len(starts) :
                  load.pieces[k] = Piece(starts[k], LineData(img, starts[k]))
<1> DEFINE n == Len(starts)
           after == Loading(lines)
           Read(pieces, m) ==
               /\ Len(pieces) = m
               /\ \A j \in 1 .. m : pieces[j] = Piece(starts[j], LineData(img, starts[j]))
           T == { m \in 0 .. n : /\ after[m].ok /\ ~after[m].ended /\ after[m].base = 0
                                 /\ Read(after[m].pieces, m) }
<1>1. /\ lines \in Seq(HexLines) /\ Len(lines) = n + 1 /\ n \in Nat
      /\ \A k \in 1 .. n : lines[k] = HexLine(0, starts[k], LineData(img, starts[k]))
      /\ lines[n + 1] = HexLine(1, 0, <<>>)
  BY HexFileIs
<1>2. \A k \in 1 .. n : starts[k] \in LineStarts(img)
  BY StartsAre
<1> HIDE DEF n
<1>3. /\ after[0] = [ok |-> TRUE, ended |-> FALSE, base |-> 0, pieces |-> <<>>]
      /\ \A m \in 1 .. n + 1 : after[m] = LoadLine(after[m - 1], lines[m])
      /\ \A m \in 0 .. n + 1 : after[m] \in LoadState
      /\ \A m \in 1 .. n + 1 : lines[m] \in HexLines
  BY <1>1, LoadingIs
<1> HIDE DEF after
<1>4. 0 \in Byte /\ 1 \in Byte /\ 0 \in Words
  BY SMT DEF Byte, Words
<1>5. 0 \in T
  <2>1. 0 \in 0 .. n
    BY <1>1
  <2> QED BY <1>3, <2>1
<1>6. \A m \in 1 .. n : m - 1 \in T => m \in T
  <2> SUFFICES ASSUME NEW m \in 1 .. n, m - 1 \in T PROVE m \in T
    OBVIOUS
  <2>0. \A i : i \in T <=> /\ i \in 0 .. n /\ after[i].ok /\ ~after[i].ended /\ after[i].base = 0
                           /\ Read(after[i].pieces, i)
    BY Zenon
  <2> HIDE DEF T, Read
  <2> DEFINE load == after[m - 1]
             line == lines[m]
             next == after[m]
             a == starts[m]
             data == LineData(img, a)
  <2>1. load.ok /\ ~load.ended /\ load.base = 0 /\ Read(load.pieces, m - 1)
    BY <2>0
  <2>2. load \in LoadState /\ line \in HexLines /\ next = LoadLine(load, line)
    <3>1. m - 1 \in 0 .. n + 1 /\ m \in 1 .. n + 1
      BY <1>1
    <3> QED BY <1>3, <3>1
  <2>3. /\ a \in Nat /\ a \in Words /\ data \in Seq(Byte) /\ Len(data) \in Nat
        /\ a + Len(data) <= MemorySize
    <3>1. a \in LineStarts(img)
      BY <1>2
    <3> HIDE DEF a
    <3> QED BY <3>1, LineIs
  <2>4. line = HexLine(0, a, data)
    BY <1>1
  <2> HIDE DEF load, line, next, a, data
  <2>5. line.type = 0 /\ line.address = a /\ line.data = data /\ ChecksumOK(line)
    BY <1>4, <2>3, <2>4, HexLineIs
  <2>6. load.base + line.address = a /\ a >= 0 /\ a + Len(line.data) <= MemorySize
    BY <2>1, <2>3, <2>5
  <2>7. /\ next.ok /\ ~next.ended /\ next.base = load.base
        /\ next.pieces = Append(load.pieces, Piece(a, data))
    BY <2>1, <2>2, <2>5, <2>6, LoadLineIs
  <2>8. Read(next.pieces, m)
    <3> DEFINE p == load.pieces
               q == Piece(a, data)
    <3>1. p \in Seq(Pieces) /\ q \in Pieces
      BY <2>2, <2>3, PieceIs DEF LoadState
    <3>2. /\ Len(p) = m - 1
          /\ \A j \in 1 .. m - 1 : p[j] = Piece(starts[j], LineData(img, starts[j]))
      BY <2>1 DEF Read
    <3>3. q = Piece(starts[m], LineData(img, starts[m]))
      BY DEF a, data
    <3> HIDE DEF p, q
    <3>4. next.pieces = Append(p, q)
      BY <2>7 DEF p, q
    <3>5. /\ Len(next.pieces) = Len(p) + 1 /\ next.pieces[Len(p) + 1] = q
          /\ \A i \in 1 .. Len(p) : next.pieces[i] = p[i]
      BY <3>1, <3>4, AppendProperties
    <3>6. Len(next.pieces) = m
      BY <3>2, <3>5
    <3>7. \A j \in 1 .. m : next.pieces[j] = Piece(starts[j], LineData(img, starts[j]))
      <4> SUFFICES ASSUME NEW j \in 1 .. m
                   PROVE  next.pieces[j] = Piece(starts[j], LineData(img, starts[j]))
        OBVIOUS
      <4>1. CASE j = m
        BY <3>2, <3>3, <3>5, <4>1
      <4>2. CASE j # m
        <5>1. j \in 1 .. m - 1
          BY <4>2
        <5> QED BY <3>2, <3>5, <5>1
      <4> QED BY <4>1, <4>2
    <3> QED BY <3>6, <3>7 DEF Read
  <2>9. m \in 0 .. n
    OBVIOUS
  <2> QED BY <2>0, <2>1, <2>7, <2>8, <2>9 DEF next
<1>7. n \in T
  <2> HIDE DEF T
  <2>1. \A m \in 0 .. n : m \in T
    BY <1>1, <1>5, <1>6, InductTo
  <2> QED BY <1>1, <2>1
<1>8. after[n].ok /\ ~after[n].ended /\ Read(after[n].pieces, n)
  BY <1>7
<1> HIDE DEF T, Read
<1> DEFINE load == after[n]
           line == lines[n + 1]
           next == after[n + 1]
<1>9. load \in LoadState /\ line \in HexLines /\ next = LoadLine(load, line) /\ next \in LoadState
  <2>1. n \in 0 .. n + 1 /\ n + 1 \in 1 .. n + 1 /\ n + 1 \in 0 .. n + 1 /\ n + 1 - 1 = n
    BY <1>1
  <2> QED BY <1>3, <2>1
<1>10. line = HexLine(1, 0, <<>>)
  BY <1>1
<1>11. load.ok /\ ~load.ended /\ Read(load.pieces, n)
  BY <1>8
<1> HIDE DEF load, line, next
<1>12. line.type = 1 /\ ChecksumOK(line)
  <2>1. <<>> \in Seq(Byte)
    OBVIOUS
  <2> QED BY <1>4, <1>10, <2>1, HexLineIs
<1>13. next.ok /\ next.ended /\ next.pieces = load.pieces
  BY <1>9, <1>11, <1>12, LoadLineIs
<1>14. next.pieces \in Seq(Pieces) /\ Read(next.pieces, n)
  BY <1>9, <1>11, <1>13 DEF LoadState
<1>15. next = Loading(lines)[Len(lines)]
  BY <1>1 DEF next, after
<1> QED BY <1>13, <1>14, <1>15 DEF Read, n

\* The lines of an image are read without an exception, and give back what is defined.
LEMMA LinesRead ==
  ASSUME NEW img \in Images
  PROVE  LET load == LoadIntelHex(LinesOf(img))
         IN  /\ LinesOf(img) \in Seq(HexLines)
             /\ load.ok /\ load.image \in Images
             /\ \A a \in img.mask : a \in load.image.mask /\ load.image.byte[a] = img.byte[a]
<1> DEFINE starts == Sorted(LineStarts(img))
           lines == LinesOf(img)
           load == LoadIntelHex(lines)
           last == Loading(lines)[Len(lines)]
           new == load.image
           pieces == last.pieces
<1>1. lines \in Seq(HexLines)
  BY HexFileIs
<1>2. /\ last.ok /\ last.ended /\ pieces \in Seq(Pieces) /\ Len(pieces) = Len(starts)
      /\ \A k \in 1 .. Len(starts) : pieces[k] = Piece(starts[k], LineData(img, starts[k]))
  BY HexLoads
<1>3. /\ load.ok /\ new = PutAll(ResetImage, pieces) /\ new \in Images
  <2> HIDE DEF lines
  <2>1. /\ load = [ok |-> last.ok /\ last.ended, image |-> PutAll(ResetImage, last.pieces)]
        /\ load.image = PutAll(ResetImage, last.pieces) /\ load.image \in Images
    BY <1>1, LoadIntelHexIs
  <2> HIDE DEF load
  <2> DEFINE ok == last.ok /\ last.ended
             p == PutAll(ResetImage, last.pieces)
  <2>2. load = [ok |-> ok, image |-> p] /\ ok
    BY <1>2, <2>1
  <2> HIDE DEF ok, p
  <2>3. load.ok = ok
    BY <2>2
  <2> QED BY <2>1, <2>2, <2>3
<1>4. /\ \A k \in 1 .. Len(starts) : starts[k] \in LineStarts(img)
      /\ \A a \in LineStarts(img) : \E k \in 1 .. Len(starts) : starts[k] = a
  BY StartsAre
<1> HIDE DEF starts, lines, load, last, pieces
<1>5. \A a \in img.mask : a \in new.mask /\ new.byte[a] = img.byte[a]
  <2> SUFFICES ASSUME NEW a \in img.mask PROVE a \in new.mask /\ new.byte[a] = img.byte[a]
    OBVIOUS
  <2>1. a \in Address /\ a \in Nat
    BY MaskIs
  <2>2. \A k \in 1 .. Len(starts) : Covers(pieces[k], a) =>
           pieces[k].data[a - pieces[k].at + 1] = img.byte[a]
    <3> SUFFICES ASSUME NEW k \in 1 .. Len(starts), Covers(pieces[k], a)
                 PROVE  pieces[k].data[a - pieces[k].at + 1] = img.byte[a]
      OBVIOUS
    <3> DEFINE s == starts[k]
               data == LineData(img, s)
               n == LineLength(img, s)
    <3>1. /\ s \in Nat /\ n \in Nat /\ data \in Seq(Byte) /\ Len(data) = n
          /\ \A i \in 1 .. n : data[i] = img.byte[s + i - 1]
      <4>1. s \in LineStarts(img)
        BY <1>4
      <4> HIDE DEF s
      <4> QED BY <4>1, LineIs
    <3>2. pieces[k] = Piece(s, data)
      BY <1>2
    <3> HIDE DEF s, data, n
    <3>3. pieces[k].at = s /\ pieces[k].data = data
      BY <3>1, <3>2, PieceIs
    <3>4. a - s + 1 \in 1 .. n
      BY <2>1, <3>1, <3>3 DEF Covers, Span
    <3>5. s + (a - s + 1) - 1 = a
      BY <2>1, <3>1
    <3> QED BY <3>1, <3>3, <3>4, <3>5
  <2>3. \E k \in 1 .. Len(starts) : Covers(pieces[k], a)
    <3>1. PICK s \in LineStarts(img) : s \in Nat /\ s <= a /\ a < s + LineLength(img, s)
      BY LineOf
    <3>2. PICK k \in 1 .. Len(starts) : starts[k] = s
      BY <1>4
    <3>3. LineData(img, s) \in Seq(Byte) /\ Len(LineData(img, s)) = LineLength(img, s)
          /\ LineLength(img, s) \in Nat
      BY LineIs
    <3>4. pieces[k].at = s /\ pieces[k].data = LineData(img, s)
      <4>1. pieces[k] = Piece(s, LineData(img, s))
        BY <1>2, <3>2
      <4> QED BY <3>1, <3>3, <4>1, PieceIs
    <3>5. Covers(pieces[k], a)
      BY <2>1, <3>1, <3>3, <3>4 DEF Covers, Span
    <3> QED BY <3>5
  <2>4. Puts(ResetImage, pieces, new)
    <3> HIDE DEF new
    <3> QED BY <1>2, <1>3, ResetIs, PutAllIs
  <2>5. a \in new.mask
    BY <1>2, <2>1, <2>3, <2>4 DEF Puts
  <2>6. PICK k \in 1 .. Len(starts) : Covers(pieces[k], a)
    BY <2>3
  <2>7. PICK j \in k .. Len(pieces) :
             Covers(pieces[j], a) /\ new.byte[a] = pieces[j].data[a - pieces[j].at + 1]
    BY <1>2, <2>1, <2>4, <2>6 DEF Puts
  <2>8. j \in 1 .. Len(starts)
    <3>1. Len(pieces) = Len(starts)
      BY <1>2
    <3> HIDE DEF new
    <3> QED BY <2>6, <2>7, <3>1
  <2> QED BY <2>2, <2>5, <2>7, <2>8
<1> QED BY <1>1, <1>3, <1>5 DEF lines, load

\* The file that is written.
LEMMA LinesAre == ASSUME NEW img PROVE GenerateIntelHex(img).lines = LinesOf(img)
BY DEF GenerateIntelHex

(* generateIntelHex throws exactly when the highest byte put into the image is *)
(* the last of the memory; whenever it does not, loadIntelHex accepts the file *)
(* and every byte that is defined in the image is read back where and as it   *)
(* was, however it is cut into lines (FirmwareImage.java).                    *)
THEOREM HexRoundTrip ==
  ASSUME NEW img \in Images
  PROVE  LET hex == GenerateIntelHex(img)
             load == LoadIntelHex(hex.lines)
         IN  /\ hex.ok <=> img.max < MemorySize - 1
             /\ hex.ok => /\ hex.lines \in Seq(HexLines)
                          /\ load.ok /\ load.image \in Images
                          /\ \A a \in img.mask : /\ a \in load.image.mask
                                                 /\ load.image.byte[a] = img.byte[a]
<1> DEFINE ok == img.max < MemorySize - 1
           hex == GenerateIntelHex(img)
<1>1. hex = [ok |-> ok, lines |-> LinesOf(img)]
  BY DEF GenerateIntelHex
<1> HIDE DEF ok, hex
<1>2. (hex.ok <=> ok) /\ hex.lines = LinesOf(img)
  BY <1>1
<1> QED BY <1>2, LinesRead DEF ok, hex
-----------------------------------------------------------------------------
(* A configuration in the firmware (ExtData).                                *)

Configs == { c \in [name : Seq(Byte) \union {Null},
                    item : [Item -> UNION { Values(i) : i \in Item }]] :
               \A i \in Item : c.item[i] \in Values(i) }

\* Items, their types and the values they can have.
LEMMA CountIs == Count \in Nat /\ Count > 0 /\ Count <= 63
BY ItemAssumption

LEMMA ItemIs == \A i : i \in Item <=> i \in Nat /\ i < Count
BY CountIs DEF Item

LEMMA TypeIs ==
  ASSUME NEW i \in Item
  PROVE  /\ Type[i] \in {"special", "binary", "usbstring", "utf8string", "enum", "uint8", "uint16"}
         /\ Type[i] = "enum" => EnumValues[i] \in SUBSET Byte /\ EnumValues[i] # {}
<1>1. Type[i] \in {"special", "binary"} \union Text \union Integral
  BY ItemAssumption
<1>2. ASSUME Type[i] = "enum" PROVE EnumValues[i] \in SUBSET Byte /\ EnumValues[i] # {}
  <2>1. i \in Enums
    BY <1>2 DEF Enums, ItemOf
  <2>2. EnumValues[i] \in (SUBSET Byte) \ {{}}
    BY <2>1, ItemAssumption
  <2> QED BY <2>2
<1> QED BY <1>1, <1>2 DEF Text, Integral

LEMMA ValuesAre ==
  ASSUME NEW i \in Item
  PROVE  /\ Type[i] = "enum" => Values(i) = EnumValues[i] /\ \A v \in Values(i) : v \in Byte
         /\ Type[i] = "uint8" => Values(i) = Byte
         /\ Type[i] = "uint16" => Values(i) = Words
         /\ Type[i] \in {"special", "binary", "usbstring", "utf8string"} =>
              Values(i) = Seq(Byte) \union {Null}
<1>1. Type[i] = "enum" => Values(i) = EnumValues[i]
  BY DEF Values
<1>2. Type[i] = "uint8" => Values(i) = Byte
  BY DEF Values
<1>3. Type[i] = "uint16" => Values(i) = Words
  BY SMT DEF Values, Words
<1>4. Type[i] \in {"special", "binary", "usbstring", "utf8string"} =>
              Values(i) = Seq(Byte) \union {Null}
  <2> SUFFICES ASSUME Type[i] \in {"special", "binary", "usbstring", "utf8string"}
               PROVE  Values(i) = Seq(Byte) \union {Null}
    OBVIOUS
  <2>1. Type[i] # "enum" /\ Type[i] # "uint8" /\ Type[i] # "uint16"
    OBVIOUS
  <2>2. Values(i) = CASE Type[i] = "enum" -> EnumValues[i]
                      [] Type[i] = "uint8" -> Byte
                      [] Type[i] = "uint16" -> Words
                      [] OTHER -> Seq(Byte) \union {Null}
    BY SMT DEF Values, Words
  <2> QED BY <2>1, <2>2, Zenon
<1> QED BY <1>1, <1>2, <1>3, <1>4, TypeIs

\* The parts of a configuration ...
LEMMA ConfigIs ==
  ASSUME NEW c \in Configs
  PROVE  /\ c.name \in Seq(Byte) \union {Null} /\ \A i \in Item : c.item[i] \in Values(i)
         /\ c.item = [i \in Item |-> c.item[i]] /\ c = [name |-> c.name, item |-> c.item]
BY DEF Configs

\* ... and what makes one.
LEMMA ConfigMade ==
  ASSUME NEW name \in Seq(Byte) \union {Null}, NEW item, item = [i \in Item |-> item[i]],
         \A i \in Item : item[i] \in Values(i)
  PROVE  [name |-> name, item |-> item] \in Configs
<1>1. item \in [Item -> UNION { Values(i) : i \in Item }]
  BY Zenon
<1>2. [name |-> name, item |-> item] \in
        [name : Seq(Byte) \union {Null}, item : [Item -> UNION { Values(i) : i \in Item }]]
  BY <1>1
<1>3. [name |-> name, item |-> item].item = item
  OBVIOUS
<1> DEFINE c == [name |-> name, item |-> item]
<1> HIDE DEF c
<1> QED BY <1>2, <1>3 DEF Configs, c

\* Bytes that arise from numbers.
LEMMA ByteMade == 0 \in Byte /\ 3 \in Byte /\ \A x \in Nat : x % 256 \in Byte
<1>1. 0 \in Byte /\ 3 \in Byte
  BY SMT DEF Byte
<1>2. ASSUME NEW x \in Nat PROVE x % 256 \in Byte
  <2> DEFINE y == x % 256
  <2>1. y \in 0 .. 255
    OBVIOUS
  <2> HIDE DEF y
  <2> QED BY <2>1, SMT DEF Byte, y
<1> QED BY <1>1, <1>2

\* The two bytes of a number.
LEMMA WordBytes ==
  ASSUME NEW x \in Nat, NEW le \in BOOLEAN
  PROVE  /\ Word(x, le) \in Seq(Byte) /\ Len(Word(x, le)) = 2
         /\ le => Word(x, le)[1] = x % 256 /\ Word(x, le)[2] = (x \div 256) % 256
<1> DEFINE lo == x % 256
           hi == (x \div 256) % 256
<1>2. lo \in Byte /\ hi \in Byte
  <2>1. x \div 256 \in Nat
    OBVIOUS
  <2> QED BY <2>1, ByteMade
<1>3. Word(x, le) = IF le THEN <<lo, hi>> ELSE <<hi, lo>>
  BY DEF Word
<1> HIDE DEF lo, hi
<1>4. Word(x, le) \in Seq(Byte) /\ Len(Word(x, le)) = 2
      /\ (le => Word(x, le)[1] = lo /\ Word(x, le)[2] = hi)
  BY <1>2, <1>3
<1> QED BY <1>4 DEF lo, hi

\* Two pairs of bytes, one after the other.
LEMMA Pair ==
  ASSUME NEW s \in Seq(Byte), NEW t \in Seq(Byte), Len(s) = 2, Len(t) = 2
  PROVE  /\ s \o t \in Seq(Byte) /\ Len(s \o t) = 4
         /\ (s \o t)[1] = s[1] /\ (s \o t)[2] = s[2]
         /\ (s \o t)[3] = t[1] /\ (s \o t)[4] = t[2]
<1>1. /\ s \o t \in Seq(Byte) /\ Len(s \o t) = 2 + 2
      /\ \A i \in 1 .. 2 + 2 : (s \o t)[i] = IF i <= 2 THEN s[i] ELSE t[i - 2]
  BY ConcatProperties
<1> DEFINE u == s \o t
<1> HIDE DEF u
<1>2. u[1] = s[1] /\ u[2] = s[2] /\ u[3] = t[1] /\ u[4] = t[2]
  BY <1>1 DEF u
<1> QED BY <1>1, <1>2 DEF u

\* ConfigItem.getBytes: bytes; a USB string is never without its header.
LEMMA GetBytesIs ==
  ASSUME NEW i \in Item, NEW value \in Seq(Byte),
         Type[i] \in {"binary", "usbstring", "utf8string"}
  PROVE  /\ GetBytes(i, value) \in Seq(Byte)
         /\ Type[i] # "usbstring" => GetBytes(i, value) = value
         /\ Type[i] = "usbstring" => Len(GetBytes(i, value)) >= 2
<1>1. CASE Type[i] # "usbstring"
  BY <1>1 DEF GetBytes
<1>2. CASE Type[i] = "usbstring"
  <2> DEFINE n == 2 * Len(value)
             head == <<(n + 2) % 256, 3>>
             tail == [k \in 1 .. n |-> IF k % 2 = 1 THEN value[(k + 1) \div 2] ELSE 0]
  <2>1. GetBytes(i, value) = head \o tail
    BY <1>2 DEF GetBytes
  <2>2. n \in Nat /\ \A k \in 1 .. Len(value) : value[k] \in Byte
    OBVIOUS
  <2>3. 0 \in Byte /\ 3 \in Byte /\ (n + 2) % 256 \in Byte
    <3> HIDE DEF n
    <3> QED BY <2>2, ByteMade
  <2>4. \A k \in 1 .. n : tail[k] \in Byte
    <3> SUFFICES ASSUME NEW k \in 1 .. n PROVE tail[k] \in Byte
      OBVIOUS
    <3>1. CASE k % 2 = 1
      <4>1. (k + 1) \div 2 \in 1 .. Len(value)
        BY <3>1
      <4>2. tail[k] = value[(k + 1) \div 2]
        BY <3>1
      <4> HIDE DEF tail
      <4> QED BY <2>2, <4>1, <4>2
    <3>2. CASE k % 2 # 1
      <4>1. tail[k] = 0
        BY <3>2
      <4> QED BY <2>3, <4>1
    <3> QED BY <3>1, <3>2
  <2>5. tail \in Seq(Byte)
    <3>1. tail \in [1 .. n -> Byte]
      BY <2>4
    <3> HIDE DEF tail, n
    <3> QED BY <2>2, <3>1, SeqIs
  <2>6. head \in Seq(Byte) /\ Len(head) = 2
    <3> DEFINE b == (n + 2) % 256
    <3>1. b \in Byte /\ 3 \in Byte
      BY <2>3
    <3> HIDE DEF b
    <3>2. head = <<b, 3>>
      BY DEF b
    <3> QED BY <3>1, <3>2
  <2> HIDE DEF head, tail
  <2>7. head \o tail \in Seq(Byte) /\ Len(head \o tail) = Len(head) + Len(tail) /\ Len(tail) \in Nat
    <3>1. Len(tail) \in Nat
      BY <2>5, LenProperties
    <3>2. head \o tail \in Seq(Byte) /\ Len(head \o tail) = Len(head) + Len(tail)
      BY <2>5, <2>6, ConcatProperties, Zenon
    <3> QED BY <3>1, <3>2
  <2> QED BY <1>2, <2>1, <2>6, <2>7
<1> QED BY <1>1, <1>2

Held(i) == Type[i] \in {"binary", "usbstring", "utf8string"}

\* The types by how an item is kept in the firmware.
LEMMA HeldIs ==
  ASSUME NEW i \in Item
  PROVE  /\ Held(i) <=> Type[i] \in Text \union {"binary"}
         /\ Held(i) => Type[i] \notin Integral /\ Type[i] \notin {"enum", "uint8"}
                       /\ Type[i] # "uint16" /\ Type[i] # "special"
         /\ ~Held(i) => Type[i] \in {"special", "enum", "uint8", "uint16"}
BY TypeIs DEF Held, Text, Integral

\* An item's chunk is what the firmware should get of it.
LEMMA ChunkIs ==
  ASSUME NEW i \in Item, NEW c \in Configs
  PROVE  /\ ChunkData(c, i) \in Seq(Byte) /\ Len(ChunkData(c, i)) \in Nat
         /\ ~Held(i) => ChunkData(c, i) = <<>>
         /\ Held(i) => /\ GetExtDataSize(i, c.item[i]) = Len(ChunkData(c, i))
                       /\ Wanted(i, c.item[i]) = ChunkData(c, i)
<1> DEFINE v == c.item[i]
<1>1. v \in Values(i)
  BY ConfigIs
<1>2. CASE ~Held(i)
  <2>1. ChunkData(c, i) = <<>>
    BY <1>2, HeldIs DEF ChunkData
  <2> QED BY <1>2, <2>1
<1>3. CASE Held(i)
  <2>1. v \in Seq(Byte) \union {Null}
    BY <1>1, <1>3, ValuesAre DEF Held
  <2>2. ChunkData(c, i) = IF v # Null THEN GetBytes(i, v) ELSE <<>>
    BY <1>3, HeldIs DEF ChunkData
  <2> HIDE DEF v
  <2>3. CASE v = Null
    <3>1. ChunkData(c, i) = <<>> /\ GetExtDataSize(i, v) = 0 /\ Wanted(i, v) = <<>>
      BY <2>2, <2>3 DEF GetExtDataSize, Wanted
    <3> QED BY <1>3, <3>1 DEF v
  <2>4. CASE v # Null
    <3>1. GetBytes(i, v) \in Seq(Byte)
      BY <1>3, <2>1, <2>4, GetBytesIs DEF Held
    <3>2. /\ ChunkData(c, i) = GetBytes(i, v) /\ GetExtDataSize(i, v) = Len(GetBytes(i, v))
          /\ Wanted(i, v) = GetBytes(i, v)
      BY <1>3, <2>2, <2>4, HeldIs DEF GetExtDataSize, Wanted
    <3> QED BY <1>3, <3>1, <3>2 DEF v
  <2> QED BY <2>3, <2>4
<1> QED BY <1>2, <1>3

\* The bytes of a table entry, as extdata.c reads them.
Entry(c, i, chunk, entry) ==
    LET n == Len(ChunkData(c, i))
    IN  /\ Type[i] \in {"enum", "uint8"} => entry[1] = c.item[i]
        /\ Type[i] = "uint16" => /\ entry[1] = c.item[i] % 256
                                 /\ entry[2] = (c.item[i] \div 256) % 256
        /\ Held(i) /\ n = 0 => entry[3] = 0
        /\ Held(i) /\ n # 0 => /\ entry[1] = chunk % 256 /\ entry[2] = (chunk \div 256) % 256
                               /\ entry[3] = n % 256 /\ entry[4] = (n \div 256) % 256

\* Four bytes that are two words.
TwoWords(e, x, y, le) ==
    /\ e \in Seq(Byte) /\ Len(e) = 4
    /\ le => /\ e[1] = x % 256 /\ e[2] = (x \div 256) % 256
             /\ e[3] = y % 256 /\ e[4] = (y \div 256) % 256

\* An entry that is two words.
LEMMA WordsPair ==
  ASSUME NEW x \in Nat, NEW y \in Nat, NEW le \in BOOLEAN
  PROVE  TwoWords(Word(x, le) \o Word(y, le), x, y, le)
<1> DEFINE e == Word(x, le) \o Word(y, le)
           s == Word(x, le)
           t == Word(y, le)
<1>1. s \in Seq(Byte) /\ Len(s) = 2 /\ (le => s[1] = x % 256 /\ s[2] = (x \div 256) % 256)
  BY WordBytes
<1>2. t \in Seq(Byte) /\ Len(t) = 2 /\ (le => t[1] = y % 256 /\ t[2] = (y \div 256) % 256)
  BY WordBytes
<1>3. e = s \o t
  OBVIOUS
<1> HIDE DEF s, t, e
<1>4. /\ e \in Seq(Byte) /\ Len(e) = 4 /\ e[1] = s[1] /\ e[2] = s[2]
      /\ e[3] = t[1] /\ e[4] = t[2]
  BY <1>1, <1>2, <1>3, Pair
<1>5. TwoWords(e, x, y, le)
  BY <1>1, <1>2, <1>4, Zenon DEF TwoWords
<1> QED BY <1>5 DEF e

\* encodeConfigItem: the entry is four bytes, and these for a firmware that is little endian.
LEMMA EntryIs ==
  ASSUME NEW i \in Item, NEW c \in Configs, NEW table \in Nat, NEW chunk \in Nat,
         NEW le \in BOOLEAN, NEW entry, entry = TableEntry(c, table, i, chunk, le)
  PROVE  /\ entry \in Seq(Byte) /\ Len(entry) = 4
         /\ le => Entry(c, i, chunk, entry)
<1> DEFINE v == c.item[i]
           size == GetExtDataSize(i, v)
           n == Len(ChunkData(c, i))
           short == <<v, 0>> \o Word(65281, le)
           long == Word(v, le) \o Word(65282, le)
           root == Word(table, le) \o Word(4 * Count, le)
           none == Word(0, le) \o Word(65280, le)
           some == Word(chunk, le) \o Word(size, le)
<1>1. entry = CASE Type[i] \in {"enum", "uint8"} -> short
                [] Type[i] = "uint16" -> long
                [] Type[i] = "special" -> root
                [] Type[i] \in Text \union {"binary"} /\ size = 0 -> none
                [] OTHER -> some
  BY SMT DEF TableEntry
<1>2. v \in Values(i) /\ n \in Nat /\ (Held(i) => size = n)
  BY ConfigIs, ChunkIs
<1> HIDE DEF short, long, root, none, some, v, size, n
<1>3. CASE Type[i] \in {"enum", "uint8"}
  <2>7. /\ ~Held(i) /\ Type[i] # "uint16" /\ Type[i] # "special"
        /\ Type[i] \notin Text \union {"binary"}
    BY <1>3, HeldIs
  <2>1. entry = short
    BY <1>1, <1>3, <2>7, Zenon
  <2>2. v \in Byte
    BY <1>2, <1>3, ValuesAre
  <2> DEFINE s == <<v, 0>>
             t == Word(65281, le)
  <2>3. s \in Seq(Byte) /\ Len(s) = 2 /\ s[1] = v
    BY <2>2, ByteMade
  <2>4. t \in Seq(Byte) /\ Len(t) = 2
    BY WordBytes
  <2>5. short = s \o t
    BY DEF short
  <2> HIDE DEF s, t
  <2>6. short \in Seq(Byte) /\ Len(short) = 4 /\ short[1] = v
    BY <2>3, <2>4, <2>5, Pair
  <2> QED BY <1>3, <2>1, <2>6, <2>7 DEF Entry, v
<1>4. CASE Type[i] = "uint16"
  <2>4. /\ ~Held(i) /\ Type[i] \notin {"enum", "uint8"} /\ Type[i] # "special"
        /\ Type[i] \notin Text \union {"binary"}
    BY <1>4, HeldIs
  <2>1. entry = long
    BY <1>1, <1>4, <2>4, Zenon
  <2>2. v \in Nat
    BY <1>2, <1>4, ValuesAre, WordsAre
  <2>3. /\ long \in Seq(Byte) /\ Len(long) = 4
        /\ le => long[1] = v % 256 /\ long[2] = (v \div 256) % 256
    <3>1. 65282 \in Nat
      OBVIOUS
    <3> DEFINE y == 65282
    <3>2. y \in Nat /\ long = Word(v, le) \o Word(y, le)
      BY DEF long
    <3> HIDE DEF y
    <3>3. TwoWords(long, v, y, le)
      BY <2>2, <3>2, WordsPair
    <3> QED BY <3>3, Zenon DEF TwoWords
  <2> QED BY <1>4, <2>1, <2>3, <2>4 DEF Entry, v
<1>5. CASE Type[i] = "special"
  <2>3. /\ ~Held(i) /\ Type[i] \notin {"enum", "uint8"} /\ Type[i] # "uint16"
        /\ Type[i] \notin Text \union {"binary"}
    BY <1>5, HeldIs
  <2>1. entry = root
    BY <1>1, <1>5, <2>3, Zenon
  <2>2. root \in Seq(Byte) /\ Len(root) = 4
    <3> DEFINE y == 4 * Count
    <3>1. y \in Nat /\ root = Word(table, le) \o Word(y, le)
      BY CountIs DEF root
    <3> HIDE DEF y
    <3>2. TwoWords(root, table, y, le)
      BY <3>1, WordsPair
    <3> QED BY <3>2, Zenon DEF TwoWords
  <2> QED BY <1>5, <2>1, <2>2, <2>3 DEF Entry
<1>6. CASE Held(i) /\ size = 0
  <2>1. /\ Type[i] \in Text \union {"binary"} /\ Type[i] \notin {"enum", "uint8"}
        /\ Type[i] # "uint16" /\ Type[i] # "special"
    BY <1>6, HeldIs
  <2>2. entry = none
    BY <1>1, <1>6, <2>1, Zenon
  <2>3. none \in Seq(Byte) /\ Len(none) = 4 /\ (le => none[3] = 0)
    <3> DEFINE y == 65280
    <3>1. y \in Nat /\ y % 256 = 0 /\ none = Word(0, le) \o Word(y, le)
      BY DEF none
    <3> HIDE DEF y
    <3>2. TwoWords(none, 0, y, le)
      BY <3>1, WordsPair
    <3> QED BY <3>1, <3>2 DEF TwoWords
  <2> QED BY <1>2, <1>6, <2>1, <2>2, <2>3 DEF Entry, n
<1>7. CASE Held(i) /\ size # 0
  <2>1. Type[i] \notin {"enum", "uint8"} /\ Type[i] # "uint16" /\ Type[i] # "special"
    BY <1>7, HeldIs
  <2>2. entry = some
    BY <1>1, <1>7, <2>1, Zenon
  <2>3. /\ some \in Seq(Byte) /\ Len(some) = 4
        /\ le => /\ some[1] = chunk % 256 /\ some[2] = (chunk \div 256) % 256
                 /\ some[3] = n % 256 /\ some[4] = (n \div 256) % 256
    <3>1. some = Word(chunk, le) \o Word(n, le)
      BY <1>2, <1>7 DEF some
    <3>2. TwoWords(some, chunk, n, le)
      BY <1>2, <3>1, WordsPair
    <3> QED BY <3>2, Zenon DEF TwoWords
  <2> QED BY <1>2, <1>7, <2>1, <2>2, <2>3 DEF Entry, n
<1> QED BY <1>3, <1>4, <1>5, <1>6, <1>7, HeldIs

\* Addresses are rounded up to even ones.
LEMMA EvenIs == \A a \in Nat : /\ Even(a) \in Nat /\ Even(a) % 2 = 0
                               /\ a <= Even(a) /\ Even(a) <= a + 1
BY DEF Even

\* The chunks follow the table one after the other.
LEMMA ChunkLocIs ==
  ASSUME NEW c \in Configs, NEW table \in Nat, NEW loc, loc = ChunkLoc(c, table)
  PROVE  /\ \A i \in 0 .. Count : loc[i] \in Nat /\ table + 4 * Count <= loc[i]
         /\ \A i \in Item : \A j \in Item : i < j => loc[i] + Len(ChunkData(c, i)) <= loc[j]
<1> DEFINE init == table + 4 * Count
           Size(i) == IF Type[i] \in Text \union {"binary"}
                      THEN GetExtDataSize(i, c.item[i]) ELSE 0
           F == [n \in 1 .. Count |-> [u \in Nat |-> AllocChunk(u, Size(n - 1))]]
<1>0. Count \in Nat /\ \A n \in 1 .. Count : n - 1 \in Item
  BY CountIs, ItemIs
<1>1. \A i \in Item : Size(i) = Len(ChunkData(c, i)) /\ Size(i) \in Nat
  <2> SUFFICES ASSUME NEW i \in Item PROVE Size(i) = Len(ChunkData(c, i)) /\ Size(i) \in Nat
    OBVIOUS
  <2>1. CASE Held(i)
    <3>1. Size(i) = GetExtDataSize(i, c.item[i])
      BY <2>1, HeldIs
    <3> HIDE DEF Size
    <3> QED BY <2>1, <3>1, ChunkIs
  <2>2. CASE ~Held(i)
    <3>1. Size(i) = 0
      BY <2>2, HeldIs
    <3> HIDE DEF Size
    <3>2. ChunkData(c, i) = <<>>
      BY <2>2, ChunkIs
    <3> QED BY <3>1, <3>2
  <2> QED BY <2>1, <2>2
<1>2. loc = CHOOSE f : f = [i \in 0 .. Count |-> IF i = 0 THEN init
                              ELSE AllocChunk(f[i - 1], Size(i - 1))]
  BY DEF ChunkLoc
<1> HIDE DEF Size, init
<1>3. \A u \in Nat : \A n \in 1 .. Count :
         AllocChunk(u, Size(n - 1)) \in Nat /\ u + Size(n - 1) <= AllocChunk(u, Size(n - 1))
  <2> SUFFICES ASSUME NEW u \in Nat, NEW n \in 1 .. Count
               PROVE  AllocChunk(u, Size(n - 1)) \in Nat
                      /\ u + Size(n - 1) <= AllocChunk(u, Size(n - 1))
    OBVIOUS
  <2> DEFINE s == Size(n - 1)
  <2>1. s \in Nat
    BY <1>0, <1>1
  <2> HIDE DEF s
  <2>2. u + s \in Nat
    BY <2>1
  <2>3. AllocChunk(u, s) \in Nat /\ u + s <= AllocChunk(u, s)
    BY <2>2, EvenIs DEF AllocChunk
  <2> QED BY <2>3 DEF s
<1>4. init \in Nat
  BY <1>0 DEF init
<1>5. \A n \in 1 .. Count : \A u \in Nat : F[n][u] = AllocChunk(u, Size(n - 1))
  BY Zenon
<1> HIDE DEF F
<1>6. Steps(Nat, Count, init, F)
  BY <1>0, <1>3, <1>4, <1>5, Zenon DEF Steps
<1>7. PICK f : Follows(f, Nat, Count, init, F)
  BY <1>6, Recursion, Zenon
<1>8. f = [i \in 0 .. Count |-> IF i = 0 THEN init ELSE AllocChunk(f[i - 1], Size(i - 1))]
  <2>1. /\ f \in [0 .. Count -> Nat] /\ f[0] = init
        /\ \A n \in 1 .. Count : f[n] = F[n][f[n - 1]]
    BY <1>7, Zenon DEF Follows
  <2>2. \A n \in 1 .. Count : f[n] = AllocChunk(f[n - 1], Size(n - 1))
    <3> SUFFICES ASSUME NEW n \in 1 .. Count PROVE f[n] = AllocChunk(f[n - 1], Size(n - 1))
      OBVIOUS
    <3>1. n - 1 \in 0 .. Count
      BY <1>0
    <3>2. f[n - 1] \in Nat
      BY <2>1, <3>1
    <3> QED BY <1>5, <2>1, <3>2, Zenon
  <2>3. \A n \in 0 .. Count : f[n] = IF n = 0 THEN init ELSE AllocChunk(f[n - 1], Size(n - 1))
    <3>1. \A n \in 0 .. Count : n # 0 => n \in 1 .. Count
      BY <1>0
    <3> QED BY <2>1, <2>2, <3>1, Zenon
  <2>4. f = [n \in 0 .. Count |-> f[n]]
    BY <2>1
  <2> QED BY <2>3, <2>4, Zenon
<1>9. loc = [i \in 0 .. Count |-> IF i = 0 THEN init ELSE AllocChunk(loc[i - 1], Size(i - 1))]
  BY <1>2, <1>8, Zenon
<1>10. loc[0] = init /\ \A n \in 1 .. Count : loc[n] = AllocChunk(loc[n - 1], Size(n - 1))
  <2>1. 0 \in 0 .. Count /\ \A n \in 1 .. Count : n \in 0 .. Count /\ n # 0
    BY <1>0
  <2> QED BY <1>9, <2>1, Zenon
<1> DEFINE T == { n \in 0 .. Count : loc[n] \in Nat /\ init <= loc[n] }
<1>11. 0 \in T
  BY <1>0, <1>4, <1>10
<1>12. \A n \in 1 .. Count : n - 1 \in T => n \in T
  <2> SUFFICES ASSUME NEW n \in 1 .. Count, n - 1 \in T PROVE n \in T
    OBVIOUS
  <2> DEFINE u == loc[n - 1]
  <2>1. u \in Nat /\ init <= u /\ loc[n] = AllocChunk(u, Size(n - 1)) /\ Size(n - 1) \in Nat
    BY <1>0, <1>1, <1>10
  <2> HIDE DEF u
  <2>2. loc[n] \in Nat /\ u + Size(n - 1) <= loc[n]
    BY <1>3, <2>1
  <2>3. init <= loc[n] /\ n \in 0 .. Count
    BY <1>4, <2>1, <2>2
  <2> QED BY <2>2, <2>3
<1>13. \A n \in 0 .. Count : loc[n] \in Nat /\ init <= loc[n]
  <2> HIDE DEF T
  <2>1. \A n \in 0 .. Count : n \in T
    BY <1>0, <1>11, <1>12, InductTo
  <2> QED BY <2>1 DEF T
<1>14. ASSUME NEW i \in Item PROVE \A j \in Item : i < j => loc[i] + Size(i) <= loc[j]
  <2> DEFINE U == { n \in 0 .. Count : i < n => loc[i] + Size(i) <= loc[n] }
  <2>1. i \in Nat /\ i < Count /\ Size(i) \in Nat /\ i \in 0 .. Count
    BY <1>0, <1>1, ItemIs
  <2>2. 0 \in U
    BY <1>0, <2>1
  <2>3. \A n \in 1 .. Count : n - 1 \in U => n \in U
    <3> SUFFICES ASSUME NEW n \in 1 .. Count, n - 1 \in U, i < n PROVE loc[i] + Size(i) <= loc[n]
      BY <1>0
    <3> DEFINE u == loc[n - 1]
    <3>1. /\ u \in Nat /\ loc[n] = AllocChunk(u, Size(n - 1)) /\ Size(n - 1) \in Nat
          /\ i < n - 1 => loc[i] + Size(i) <= u
      BY <1>0, <1>1, <1>10, <1>13
    <3>2. loc[n] \in Nat /\ u + Size(n - 1) <= loc[n]
      <4> HIDE DEF u
      <4> QED BY <1>3, <3>1
    <3>3. CASE i = n - 1
      BY <3>2, <3>3
    <3>4. CASE i < n - 1
      <4>1. loc[i] \in Nat
        BY <1>13, <2>1
      <4> HIDE DEF u
      <4> QED BY <2>1, <3>1, <3>2, <3>4, <4>1
    <3> QED BY <2>1, <3>3, <3>4
  <2>4. \A n \in 0 .. Count : n \in U
    <3> HIDE DEF U
    <3> QED BY <1>0, <2>2, <2>3, InductTo
  <2>5. \A j \in Item : j \in 0 .. Count
    BY <1>0, ItemIs
  <2> QED BY <2>4, <2>5
<1> QED BY <1>1, <1>13, <1>14 DEF init

\* A sequence of an element and two parts.
InParts(u, S, p, s, t) ==
    /\ u \in Seq(S) /\ Len(u) = 1 + Len(s) + Len(t) /\ Len(s) \in Nat /\ Len(t) \in Nat
    /\ u[1] = p
    /\ \A k \in 1 .. Len(s) : u[1 + k] = s[k]
    /\ \A k \in 1 .. Len(t) : u[1 + Len(s) + k] = t[k]

\* The concatenation of an element and two sequences.
LEMMA Parts ==
  ASSUME NEW S, NEW p \in S, NEW s \in Seq(S), NEW t \in Seq(S)
  PROVE  InParts(<< p >> \o s \o t, S, p, s, t)
<1> DEFINE h == << p >>
           v == h \o s
           u == << p >> \o s \o t
<1>1. h \in Seq(S) /\ Len(h) = 1 /\ h[1] = p /\ Len(s) \in Nat /\ Len(t) \in Nat
  OBVIOUS
<1> HIDE DEF h
<1>2. /\ v \in Seq(S) /\ Len(v) = 1 + Len(s)
      /\ \A i \in 1 .. 1 + Len(s) : v[i] = IF i <= 1 THEN h[i] ELSE s[i - 1]
  <2>1. /\ h \o s \in Seq(S) /\ Len(h \o s) = Len(h) + Len(s)
        /\ \A i \in 1 .. Len(h) + Len(s) : (h \o s)[i] = IF i <= Len(h) THEN h[i] ELSE s[i - Len(h)]
    BY <1>1, ConcatProperties, Zenon
  <2> HIDE DEF v
  <2> QED BY <1>1, <2>1 DEF v
<1>3. u = v \o t
  BY DEF h
<1> HIDE DEF v, u
<1>4. /\ u \in Seq(S) /\ Len(u) = Len(v) + Len(t)
      /\ \A i \in 1 .. Len(v) + Len(t) : u[i] = IF i <= Len(v) THEN v[i] ELSE t[i - Len(v)]
  <2>1. /\ v \o t \in Seq(S) /\ Len(v \o t) = Len(v) + Len(t)
        /\ \A i \in 1 .. Len(v) + Len(t) : (v \o t)[i] = IF i <= Len(v) THEN v[i] ELSE t[i - Len(v)]
    BY <1>2, ConcatProperties, Zenon
  <2> QED BY <1>3, <2>1, Zenon
<1>5. u[1] = p
  BY <1>1, <1>2, <1>4
<1>6. \A k \in 1 .. Len(s) : u[1 + k] = s[k]
  BY <1>1, <1>2, <1>4
<1>7. \A k \in 1 .. Len(t) : u[1 + Len(s) + k] = t[k]
  <2> SUFFICES ASSUME NEW k \in 1 .. Len(t) PROVE u[1 + Len(s) + k] = t[k]
    OBVIOUS
  <2> DEFINE i == 1 + Len(s) + k
  <2>1. i \in 1 .. Len(v) + Len(t) /\ ~(i <= Len(v)) /\ i - Len(v) = k
    BY <1>1, <1>2
  <2> HIDE DEF i
  <2>2. u[i] = t[k]
    BY <1>4, <2>1
  <2> QED BY <2>2 DEF i
<1>8. InParts(u, S, p, s, t)
  BY <1>1, <1>2, <1>4, <1>5, <1>6, <1>7 DEF InParts
<1> QED BY <1>8 DEF u

\* findByteSequence, where it finds the token.
LEMMA TokenFound ==
  ASSUME NEW image \in Images, ~(FindByteSequence(image, Token, 0) < 0)
  PROVE  FindByteSequence(image, Token, 0) \in Nat
<1> DEFINE low == Max({0, image.min})
           found == { i \in low .. image.max - Len(Token) + 1 :
                       /\ GetData(image, i, Len(Token)) = Token
                       /\ Span(i, Len(Token)) \subseteq image.mask }
<1>1. FindByteSequence(image, Token, 0) = IF found = {} THEN -1 ELSE Min(found)
  BY DEF FindByteSequence
<1>2. found # {}
  <2> SUFFICES ASSUME found = {} PROVE FALSE
    OBVIOUS
  <2> HIDE DEF found
  <2>1. FindByteSequence(image, Token, 0) = -1
    BY <1>1, Zenon
  <2> QED BY <2>1
<1>3. low \in Nat
  <2> DEFINE S == {0, image.min}
  <2>1. image.min \in Nat
    BY MaskIs
  <2>2. S \in SUBSET Int /\ S # {} /\ (\A x \in S : x <= image.min) /\ image.min \in Int
    BY <2>1
  <2>3. \A x \in S : x \in Nat
    BY <2>1
  <2> HIDE DEF S
  <2>4. Max(S) \in S
    BY <2>2, MaxIs
  <2> QED BY <2>3, <2>4 DEF S
<1>4. found \in SUBSET Nat
  <2> HIDE DEF low
  <2>1. image.max - Len(Token) + 1 \in Int
    BY MaskIs, TokenAssumption
  <2> QED BY <1>3, <2>1
<1> HIDE DEF found
<1> QED BY <1>1, <1>2, <1>4, MinIs

\* The pieces encodeConfig puts into an image.
RootPiece(root, table, le) == Piece(root, Word(table, le))
EntryPiece(c, table, i, le) ==
    Piece(table + 4 * i, TableEntry(c, table, i, ChunkLoc(c, table)[i], le))
ChunkPiece(c, table, i) == Piece(ChunkLoc(c, table)[i], ChunkData(c, i))
Chunked(c) == Sorted({ i \in Item : ChunkData(c, i) # <<>> })
ConfigPieces(c, root, table, le) ==
    << RootPiece(root, table, le) >> \o [k \in 1 .. Count |-> EntryPiece(c, table, k - 1, le)] \o
    [k \in DOMAIN Chunked(c) |-> ChunkPiece(c, table, Chunked(c)[k])]

\* The items that have a chunk, each once.
LEMMA ChunkedIs ==
  ASSUME NEW c \in Configs
  PROVE  /\ Len(Chunked(c)) \in Nat /\ DOMAIN Chunked(c) = 1 .. Len(Chunked(c))
         /\ \A k \in 1 .. Len(Chunked(c)) : Chunked(c)[k] \in Item
         /\ \A j, k \in 1 .. Len(Chunked(c)) : Chunked(c)[j] = Chunked(c)[k] => j = k
         /\ \A i \in Item : ChunkData(c, i) # <<>> =>
              \E k \in 1 .. Len(Chunked(c)) : Chunked(c)[k] = i
<1> DEFINE S == { i \in Item : ChunkData(c, i) # <<>> }
<1>1. S \in SUBSET Nat /\ (\A x \in S : x <= Count) /\ Count \in Nat
  BY ItemIs, CountIs
<1>2. \A i : i \in S <=> i \in Item /\ ChunkData(c, i) # <<>>
  OBVIOUS
<1> HIDE DEF S
<1>3. /\ Cardinality(S) \in Nat /\ Sorted(S) \in Seq(S)
      /\ Len(Sorted(S)) = Cardinality(S) /\ DOMAIN Sorted(S) = 1 .. Cardinality(S)
      /\ \A k \in 1 .. Cardinality(S) : Sorted(S)[k] \in S
      /\ \A j, k \in 1 .. Cardinality(S) : j < k => Sorted(S)[j] < Sorted(S)[k]
      /\ \A e \in S : \E k \in 1 .. Cardinality(S) : Sorted(S)[k] = e
  BY <1>1, SortedIs
<1>4. \A j, k \in 1 .. Cardinality(S) : Sorted(S)[j] = Sorted(S)[k] => j = k
  <2> SUFFICES ASSUME NEW j \in 1 .. Cardinality(S), NEW k \in 1 .. Cardinality(S),
                      Sorted(S)[j] = Sorted(S)[k], j # k
               PROVE  FALSE
    OBVIOUS
  <2>1. j < k \/ k < j
    BY <1>3
  <2> DEFINE x == Sorted(S)[j]
             y == Sorted(S)[k]
  <2>2. x \in S /\ y \in S /\ (j < k => x < y) /\ (k < j => y < x) /\ x = y
    BY <1>3
  <2> HIDE DEF x, y
  <2>3. x \in Nat /\ y \in Nat
    BY <1>1, <2>2
  <2> QED BY <2>1, <2>2, <2>3
<1>5. Chunked(c) = Sorted(S)
  BY DEF Chunked, S
<1> QED BY <1>2, <1>3, <1>4, <1>5

PiecesAre(pieces, c, root, table, le) ==
    /\ pieces \in Seq(Pieces) /\ Len(pieces) = 1 + Count + Len(Chunked(c))
    /\ pieces[1] = RootPiece(root, table, le)
    /\ \A i \in Item : pieces[2 + i] = EntryPiece(c, table, i, le)
    /\ \A k \in 1 .. Len(Chunked(c)) :
         pieces[1 + Count + k] = ChunkPiece(c, table, Chunked(c)[k])

\* The pieces: the table's address, the entries, and the chunks.
LEMMA ConfigPiecesAre ==
  ASSUME NEW c \in Configs, NEW root \in Nat, NEW table \in Nat, NEW le \in BOOLEAN,
         NEW pieces, pieces = ConfigPieces(c, root, table, le)
  PROVE  PiecesAre(pieces, c, root, table, le)
<1> DEFINE p == RootPiece(root, table, le)
           s == [k \in 1 .. Count |-> EntryPiece(c, table, k - 1, le)]
           t == [k \in DOMAIN Chunked(c) |-> ChunkPiece(c, table, Chunked(c)[k])]
           m == Len(Chunked(c))
<1>1. p \in Pieces
  BY WordBytes, PieceIs DEF RootPiece
<1>2. Count \in Nat /\ \A k \in 1 .. Count : k - 1 \in Item
  BY CountIs, ItemIs
<1>3. \A i \in Item : ChunkLoc(c, table)[i] \in Nat
  <2>1. \A i \in Item : i \in 0 .. Count
    BY <1>2, ItemIs
  <2> QED BY <2>1, ChunkLocIs
<1>4. \A i \in Item : EntryPiece(c, table, i, le) \in Pieces
  <2> SUFFICES ASSUME NEW i \in Item PROVE EntryPiece(c, table, i, le) \in Pieces
    OBVIOUS
  <2> DEFINE chunk == ChunkLoc(c, table)[i]
             e == TableEntry(c, table, i, chunk, le)
  <2>1. chunk \in Nat /\ table + 4 * i \in Nat
    BY <1>3, ItemIs
  <2> HIDE DEF chunk
  <2>2. e \in Seq(Byte)
    BY <2>1, EntryIs
  <2> HIDE DEF e
  <2>3. Piece(table + 4 * i, e) \in Pieces
    BY <2>1, <2>2, PieceIs
  <2> QED BY <2>3 DEF EntryPiece, e, chunk
<1>5. \A i \in Item : ChunkPiece(c, table, i) \in Pieces
  BY <1>3, ChunkIs, PieceIs DEF ChunkPiece
<1>6. /\ m \in Nat /\ DOMAIN Chunked(c) = 1 .. m
      /\ \A k \in 1 .. m : Chunked(c)[k] \in Item
  BY ChunkedIs
<1>7. s \in [1 .. Count -> Pieces] /\ \A k \in 1 .. Count : s[k] = EntryPiece(c, table, k - 1, le)
  BY <1>2, <1>4
<1>8. t \in [1 .. m -> Pieces] /\ \A k \in 1 .. m : t[k] = ChunkPiece(c, table, Chunked(c)[k])
  BY <1>5, <1>6
<1>9. pieces = << p >> \o s \o t
  BY DEF ConfigPieces
<1> HIDE DEF p, s, t, m
<1>10. s \in Seq(Pieces) /\ Len(s) = Count /\ t \in Seq(Pieces) /\ Len(t) = m
  BY <1>2, <1>6, <1>7, <1>8, SeqIs
<1>11. /\ pieces \in Seq(Pieces) /\ Len(pieces) = 1 + Count + m /\ pieces[1] = p
       /\ \A k \in 1 .. Count : pieces[1 + k] = s[k]
       /\ \A k \in 1 .. m : pieces[1 + Count + k] = t[k]
  <2>1. InParts(pieces, Pieces, p, s, t)
    BY <1>1, <1>9, <1>10, Parts
  <2> QED BY <1>10, <2>1 DEF InParts
<1>12. \A i \in Item : pieces[2 + i] = EntryPiece(c, table, i, le)
  <2> SUFFICES ASSUME NEW i \in Item PROVE pieces[2 + i] = EntryPiece(c, table, i, le)
    OBVIOUS
  <2>1. i + 1 \in 1 .. Count /\ 1 + (i + 1) = 2 + i /\ (i + 1) - 1 = i
    BY <1>2, ItemIs
  <2> QED BY <1>7, <1>11, <2>1
<1> QED BY <1>8, <1>11, <1>12 DEF p, m, PiecesAre

\* encodeConfig by its cases.
LEMMA EncodeIs ==
  ASSUME NEW image \in Images, NEW c \in Configs, NEW encoded, encoded = EncodeConfig(image, c),
         NEW token, token = FindByteSequence(image, Token, 0),
         NEW root, root = token + Len(Token) + 1
  PROVE  /\ encoded.image \in Images
         /\ encoded.ok =>
              \E le \in BOOLEAN :
                /\ token \in Nat /\ root \in Nat
                /\ GetUInt16(image, root, le) = Placeholder
                /\ GetUInt16(image, root, TRUE) = Placeholder => le
                /\ encoded.image = PutAll(image, ConfigPieces(c, root, Even(image.max + 1), le))
                /\ encoded.image.max < MemorySize
<1> DEFINE endian == { le \in BOOLEAN : GetUInt16(image, root, le) = Placeholder }
           le == TRUE \in endian
           table == Even(image.max + 1)
           new == PutAll(image, ConfigPieces(c, root, table, le))
           fails == token < 0 \/ image.byte[token + Len(Token)] # Version \/ endian = {}
           fits == new.max < MemorySize
<1>1. encoded = IF fails THEN [ok |-> FALSE, image |-> image]
                ELSE [ok |-> fits, image |-> new]
  BY DEF EncodeConfig, ConfigPieces, RootPiece, EntryPiece, ChunkPiece, Chunked
<1>2. CASE fails
  <2>1. encoded = [ok |-> FALSE, image |-> image]
    BY <1>1, <1>2, Zenon
  <2> QED BY <2>1
<1>3. CASE ~fails
  <2>1. encoded = [ok |-> fits, image |-> new]
    BY <1>1, <1>3, Zenon
  <2>2. token \in Nat
    BY <1>3, TokenFound
  <2>3. root \in Nat /\ table \in Nat
    <3>1. image.max + 1 \in Nat
      BY MaskIs
    <3>2. Len(Token) \in Nat
      BY TokenAssumption, LenProperties
    <3>3. root \in Nat
      BY <2>2, <3>2
    <3>4. table \in Nat
      BY <3>1, EvenIs
    <3> QED BY <3>3, <3>4
  <2>4. endian # {}
    BY <1>3
  <2>5. \A b : b \in endian <=> b \in BOOLEAN /\ GetUInt16(image, root, b) = Placeholder
    BY Zenon
  <2> HIDE DEF endian, table
  <2>6. le \in BOOLEAN /\ GetUInt16(image, root, le) = Placeholder
        /\ (GetUInt16(image, root, TRUE) = Placeholder => le)
    <3>1. le \in BOOLEAN
      OBVIOUS
    <3>2. CASE TRUE \in endian
      <4>1. le = TRUE
        BY <3>2
      <4> QED BY <2>5, <3>2, <4>1, Zenon
    <3>3. CASE TRUE \notin endian
      <4>1. ~le
        BY <3>3
      <4>2. FALSE \in endian
        BY <2>4, <2>5, <3>3
      <4> HIDE DEF le
      <4>3. le = FALSE
        BY <3>1, <4>1
      <4> QED BY <2>5, <3>3, <4>2, <4>3, Zenon
    <3> QED BY <3>2, <3>3
  <2> HIDE DEF le
  <2>7. new \in Images
    <3>1. ConfigPieces(c, root, table, le) \in Seq(Pieces)
      BY <2>3, <2>6, ConfigPiecesAre DEF PiecesAre
    <3> QED BY <3>1, PutAllIs DEF Puts
  <2> HIDE DEF new
  <2>8. encoded.image = new /\ encoded.ok = fits
    BY <2>1
  <2>9. encoded.ok => encoded.image.max < MemorySize
    BY <2>8
  <2>10. encoded.image = PutAll(image, ConfigPieces(c, root, Even(image.max + 1), le))
    BY <2>8 DEF new, table
  <2> QED BY <2>2, <2>3, <2>6, <2>7, <2>8, <2>9, <2>10
<1> QED BY <1>2, <1>3

\* Where encodeConfig puts what, in a firmware that is little endian.
Table(image) == Even(image.max + 1)
RootPlaced(new, table, root) ==
    /\ root \in Nat /\ table \in Nat /\ table % 2 = 0
    /\ table + 4 * Count <= MemorySize
    /\ root \in new.mask /\ new.byte[root] = table % 256
    /\ root + 1 \in new.mask /\ new.byte[root + 1] = (table \div 256) % 256
EntryPlaced(new, table, c, i) ==
    \E entry \in Seq(Byte) :
      /\ Len(entry) = 4 /\ Entry(c, i, ChunkLoc(c, table)[i], entry)
      /\ \A k \in 1 .. 4 : /\ table + 4 * i + k - 1 \in new.mask
                           /\ new.byte[table + 4 * i + k - 1] = entry[k]
ChunkPlaced(new, table, c, i) ==
    LET loc == ChunkLoc(c, table)[i]
    IN  /\ loc \in Nat /\ (Len(ChunkData(c, i)) # 0 => loc < MemorySize)
        /\ \A k \in 1 .. Len(ChunkData(c, i)) : /\ loc + k - 1 \in new.mask
                                                /\ new.byte[loc + k - 1] = ChunkData(c, i)[k]
LaidOut(new, image, table, c, root) ==
    /\ new \in Images
    /\ \A a \in image.mask : a \notin Span(root, 2) => a \in new.mask /\ new.byte[a] = image.byte[a]
    /\ RootPlaced(new, table, root)
    /\ \A i \in Item : EntryPlaced(new, table, c, i) /\ ChunkPlaced(new, table, c, i)
Placed(new, image, c, root) == LaidOut(new, image, Table(image), c, root)

\* A piece that lies where no other does is what the image shows there.
Alone(pieces, k, x) == \A j \in 1 .. Len(pieces) : Covers(pieces[j], x) => j = k
Shown(new, x, b) == x \in new.mask /\ new.byte[x] = b

\* A piece that no other covers is what the image shows.
LEMMA PieceShows ==
  ASSUME NEW img, NEW pieces, NEW new, Puts(img, pieces, new), new.max < MemorySize,
         NEW k \in 1 .. Len(pieces), NEW at \in Nat, NEW data \in Seq(Byte),
         pieces[k] = Piece(at, data), NEW n \in 1 .. Len(data), NEW x, x = at + n - 1,
         Alone(pieces, k, x)
  PROVE  Shown(new, x, data[n])
<1>0. pieces[k].at = at /\ pieces[k].data = data /\ Len(data) \in Nat
  BY LenProperties DEF Piece
<1>1. x \in Nat /\ x - at + 1 = n /\ at <= x /\ x <= at + Len(data) - 1
  BY <1>0
<1>2. Covers(pieces[k], x)
  BY <1>0, <1>1 DEF Covers, Span
<1>3. at + Len(data) - 1 <= new.max /\ new.max \in Nat
  <2>1. new \in Images /\ pieces[k].at + Len(pieces[k].data) - 1 <= new.max
    BY DEF Puts
  <2>2. new.max \in Nat
    BY <2>1, MaskIs
  <2> QED BY <1>0, <2>1, <2>2
<1>4. x \in Address
  BY <1>0, <1>1, <1>3, MemoryIs, AddressIs
<1>5. x \in new.mask
  BY <1>2, <1>4 DEF Puts
<1>6. PICK j \in k .. Len(pieces) :
           Covers(pieces[j], x) /\ new.byte[x] = pieces[j].data[x - pieces[j].at + 1]
  BY <1>2, <1>4 DEF Puts
<1>7. j \in 1 .. Len(pieces)
  OBVIOUS
<1>8. j = k
  BY <1>6, <1>7 DEF Alone
<1> QED BY <1>0, <1>1, <1>5, <1>6, <1>8 DEF Shown

\* None of the pieces lies on another, nor on what the firmware has below its table.
LEMMA LayingOut ==
  ASSUME NEW image \in Images, NEW c \in Configs, NEW root \in Nat, NEW table \in Nat,
         table % 2 = 0, image.max < table, Span(root, 2) \subseteq image.mask,
         NEW pieces, PiecesAre(pieces, c, root, table, TRUE),
         NEW new, Puts(image, pieces, new), new.max < MemorySize
  PROVE  LaidOut(new, image, table, c, root)
<1> DEFINE loc == ChunkLoc(c, table)
           m == Len(Chunked(c))
           Size(i) == Len(ChunkData(c, i))
<1>1. table \in Nat /\ table % 2 = 0 /\ image.max < table /\ image.max \in Nat
  BY MaskIs
<1>2. root \in image.mask /\ root + 1 \in image.mask /\ root + 1 <= image.max
  <2>1. root \in Span(root, 2) /\ root + 1 \in Span(root, 2)
    BY DEF Span
  <2>2. root \in image.mask /\ root + 1 \in image.mask
    BY <2>1
  <2> QED BY <2>2, MaskIs
<1>3. /\ pieces \in Seq(Pieces) /\ Len(pieces) = 1 + Count + m
      /\ pieces[1] = RootPiece(root, table, TRUE)
      /\ \A i \in Item : pieces[2 + i] = EntryPiece(c, table, i, TRUE)
      /\ \A k \in 1 .. m : pieces[1 + Count + k] = ChunkPiece(c, table, Chunked(c)[k])
  BY Zenon DEF PiecesAre
<1>4. Puts(image, pieces, new) /\ new \in Images
  BY DEF Puts
<1>5. /\ m \in Nat /\ Count \in Nat /\ Count > 0 /\ \A k \in 1 .. m : Chunked(c)[k] \in Item
      /\ \A j, k \in 1 .. m : Chunked(c)[j] = Chunked(c)[k] => j = k
      /\ \A i \in Item : ChunkData(c, i) # <<>> => \E k \in 1 .. m : Chunked(c)[k] = i
      /\ \A i \in Item : i \in Nat /\ i < Count
  BY ChunkedIs, CountIs, ItemIs
<1>L. /\ m \in Nat /\ Count \in Nat /\ Count > 0 /\ Len(pieces) = 1 + Count + m
      /\ Len(pieces) \in Nat
  <2>1. m \in Nat /\ Count \in Nat /\ Count > 0 /\ Len(pieces) = 1 + Count + m
    BY <1>3, <1>5, Zenon
  <2>2. pieces \in Seq(Pieces)
    BY <1>3, Zenon
  <2>3. Len(pieces) \in Nat
    BY <2>2, LenProperties
  <2> QED BY <2>1, <2>3, Zenon
<1>6. /\ \A i \in Item : loc[i] \in Nat /\ table + 4 * Count <= loc[i]
      /\ \A i \in Item : \A j \in Item : i < j => loc[i] + Size(i) <= loc[j]
  <2>1. \A i \in Item : i \in 0 .. Count
    BY <1>5
  <2> QED BY <1>1, <2>1, ChunkLocIs
<1>7. \A i \in Item : ChunkData(c, i) \in Seq(Byte) /\ Size(i) \in Nat
  BY ChunkIs
<1> DEFINE E(i) == TableEntry(c, table, i, loc[i], TRUE)
<1>8. \A i \in Item : E(i) \in Seq(Byte) /\ Len(E(i)) = 4 /\ Entry(c, i, loc[i], E(i))
  BY <1>1, <1>6, EntryIs
<1>9. /\ Word(table, TRUE) \in Seq(Byte) /\ Len(Word(table, TRUE)) = 2
      /\ Word(table, TRUE)[1] = table % 256 /\ Word(table, TRUE)[2] = (table \div 256) % 256
  BY <1>1, WordBytes
<1>10. /\ pieces[1] = Piece(root, Word(table, TRUE))
       /\ \A i \in Item : pieces[2 + i] = Piece(table + 4 * i, E(i))
       /\ \A k \in 1 .. m : pieces[1 + Count + k] =
                              Piece(loc[Chunked(c)[k]], ChunkData(c, Chunked(c)[k]))
  BY <1>3 DEF RootPiece, EntryPiece, ChunkPiece
<1> HIDE DEF loc, m, Size, E
<1>11. \A x : Covers(pieces[1], x) => x \in root .. root + 1
  <2>1. pieces[1].at = root /\ Len(pieces[1].data) = 2
    <3> DEFINE data == Word(table, TRUE)
    <3>1. pieces[1] = Piece(root, data) /\ Len(data) = 2
      BY <1>9, <1>10, Zenon
    <3> HIDE DEF data
    <3> QED BY <3>1 DEF Piece
  <2> QED BY <2>1 DEF Covers, Span
<1>12. \A i \in Item : \A x : Covers(pieces[2 + i], x) => x \in table + 4 * i .. table + 4 * i + 3
  <2> SUFFICES ASSUME NEW i \in Item, NEW x, Covers(pieces[2 + i], x)
               PROVE  x \in table + 4 * i .. table + 4 * i + 3
    OBVIOUS
  <2>1. table + 4 * i \in Nat
    BY <1>1, <1>5
  <2>2. pieces[2 + i].at = table + 4 * i /\ Len(pieces[2 + i].data) = 4
    <3>1. pieces[2 + i] = Piece(table + 4 * i, E(i)) /\ Len(E(i)) = 4
      BY <1>8, <1>10
    <3> QED BY <3>1 DEF Piece
  <2> DEFINE at == table + 4 * i
             p == pieces[2 + i]
  <2>3. at \in Nat /\ p.at = at /\ Len(p.data) = 4 /\ Covers(p, x)
    BY <2>1, <2>2
  <2> HIDE DEF at, p
  <2>4. x \in at .. at + 3
    BY <2>3 DEF Covers, Span
  <2> QED BY <2>4 DEF at
<1>13. \A k \in 1 .. m : \A x : Covers(pieces[1 + Count + k], x) =>
          x \in loc[Chunked(c)[k]] .. loc[Chunked(c)[k]] + Size(Chunked(c)[k]) - 1
  <2> SUFFICES ASSUME NEW k \in 1 .. m, NEW x, Covers(pieces[1 + Count + k], x)
               PROVE  x \in loc[Chunked(c)[k]] .. loc[Chunked(c)[k]] + Size(Chunked(c)[k]) - 1
    OBVIOUS
  <2> DEFINE i == Chunked(c)[k]
  <2>1. i \in Item /\ pieces[1 + Count + k] = Piece(loc[i], ChunkData(c, i))
    BY <1>5, <1>10
  <2> HIDE DEF i
  <2>2. /\ pieces[1 + Count + k].at = loc[i] /\ Len(pieces[1 + Count + k].data) = Size(i)
        /\ loc[i] \in Nat /\ Size(i) \in Nat
    BY <1>6, <1>7, <2>1 DEF Size, Piece
  <2>3. x \in loc[i] .. loc[i] + Size(i) - 1
    BY <2>2 DEF Covers, Span
  <2> QED BY <2>3 DEF i
<1>14. \A j \in 1 .. Len(pieces) : \/ j = 1 \/ \E i \in Item : j = 2 + i
                                  \/ \E k \in 1 .. m : j = 1 + Count + k
  <2> SUFFICES ASSUME NEW j \in 1 .. Len(pieces)
               PROVE  \/ j = 1 \/ \E i \in Item : j = 2 + i
                      \/ \E k \in 1 .. m : j = 1 + Count + k
    OBVIOUS
  <2>1. CASE j = 1
    BY <2>1
  <2>2. CASE j > 1 /\ j <= 1 + Count
    <3>1. j - 2 \in Item /\ j = 2 + (j - 2)
      BY <1>5, <2>2, ItemIs
    <3> QED BY <3>1
  <2>3. CASE j > 1 + Count
    <3>1. j - 1 - Count \in 1 .. m /\ j = 1 + Count + (j - 1 - Count)
      BY <1>L, <2>3
    <3> QED BY <3>1
  <2> QED BY <1>5, <2>1, <2>2, <2>3
\* A piece is in one of three parts of the memory.
<1>15. ASSUME NEW j \in 1 .. Len(pieces), NEW x, Covers(pieces[j], x)
       PROVE  /\ x \in Int
              /\ j = 1 => x \in root .. root + 1
              /\ x <= image.max => j = 1
              /\ table <= x /\ x < table + 4 * Count =>
                    \E i \in Item : j = 2 + i /\ x \in table + 4 * i .. table + 4 * i + 3
              /\ table + 4 * Count <= x => \E k \in 1 .. m : j = 1 + Count + k
  <2>1. CASE j = 1
    <3>1. x \in root .. root + 1
      BY <1>11, <1>15, <2>1
    <3>2. x \in Int /\ x < table /\ x < table + 4 * Count
      BY <1>1, <1>2, <1>L, <3>1
    <3> QED BY <1>1, <1>L, <2>1, <3>1, <3>2
  <2>2. CASE \E i \in Item : j = 2 + i
    <3>1. PICK i \in Item : j = 2 + i
      BY <2>2
    <3>2. x \in table + 4 * i .. table + 4 * i + 3 /\ i \in Nat /\ i < Count
      BY <1>5, <1>12, <1>15, <3>1
    <3>3. x \in Int /\ table <= x /\ x < table + 4 * Count /\ j # 1
      BY <1>1, <1>L, <3>1, <3>2
    <3>4. image.max < x
      BY <1>1, <3>3
    <3>5. /\ ~(x <= image.max) /\ ~(table + 4 * Count <= x)
          /\ \E h \in Item : j = 2 + h /\ x \in table + 4 * h .. table + 4 * h + 3
      <4>1. ~(x <= image.max) /\ ~(table + 4 * Count <= x)
        BY <1>1, <1>L, <3>3, <3>4
      <4> QED BY <3>1, <3>2, <4>1, Zenon
    <3> QED BY <3>3, <3>5, Zenon
  <2>3. CASE \E k \in 1 .. m : j = 1 + Count + k
    <3>1. PICK k \in 1 .. m : j = 1 + Count + k
      BY <2>3
    <3> DEFINE i == Chunked(c)[k]
    <3>2. x \in loc[i] .. loc[i] + Size(i) - 1 /\ i \in Item
      BY <1>5, <1>13, <1>15, <3>1
    <3>3. table + 4 * Count <= x /\ x \in Int
      <4>1. loc[i] \in Nat /\ table + 4 * Count <= loc[i] /\ Size(i) \in Nat
        BY <1>6, <1>7, <3>2
      <4> HIDE DEF i
      <4> QED BY <1>1, <1>5, <3>2, <4>1
    <3> QED BY <1>1, <1>5, <3>1, <3>3
  <2> QED BY <1>14, <2>1, <2>2, <2>3
<1>16. ASSUME NEW a \in image.mask, a \notin Span(root, 2)
       PROVE  a \in new.mask /\ new.byte[a] = image.byte[a]
  <2>1. a \in Address /\ a <= image.max /\ a \in Nat
    BY MaskIs
  <2>2. \A j \in 1 .. Len(pieces) : ~Covers(pieces[j], a)
    <3> SUFFICES ASSUME NEW j \in 1 .. Len(pieces), Covers(pieces[j], a) PROVE FALSE
      OBVIOUS
    <3>1. a \in root .. root + 1
      BY <1>15, <2>1
    <3> QED BY <1>16, <3>1 DEF Span
  <2> QED BY <1>4, <2>1, <2>2 DEF Puts
<1>17. RootPlaced(new, table, root)
  <2>1. \A x \in root .. root + 1 : Alone(pieces, 1, x)
    <3> SUFFICES ASSUME NEW x \in root .. root + 1, NEW j \in 1 .. Len(pieces), Covers(pieces[j], x)
                 PROVE  j = 1
      BY DEF Alone
    <3>1. x <= image.max
      BY <1>1, <1>2
    <3> QED BY <1>15, <3>1
  <2>2. 1 \in 1 .. Len(pieces)
    BY <1>L
  <2> DEFINE data == Word(table, TRUE)
  <2>3. /\ data \in Seq(Byte) /\ 1 \in 1 .. Len(data) /\ 2 \in 1 .. Len(data)
        /\ pieces[1] = Piece(root, data)
        /\ data[1] = table % 256 /\ data[2] = (table \div 256) % 256
    <3> HIDE DEF data
    <3>1. /\ data \in Seq(Byte) /\ Len(data) = 2 /\ pieces[1] = Piece(root, data)
          /\ data[1] = table % 256 /\ data[2] = (table \div 256) % 256
      BY <1>9, <1>10, Zenon DEF data
    <3> QED BY <3>1
  <2> HIDE DEF data
  <2>4. root \in new.mask /\ new.byte[root] = data[1]
    <3>1. root = root + 1 - 1 /\ root \in root .. root + 1
      OBVIOUS
    <3>2. Alone(pieces, 1, root)
      BY <2>1, <3>1
    <3>3. Shown(new, root, data[1])
      BY <1>4, <2>2, <2>3, <3>1, <3>2, PieceShows
    <3> QED BY <3>3 DEF Shown
  <2>5. root + 1 \in new.mask /\ new.byte[root + 1] = data[2]
    <3> DEFINE x == root + 1
    <3>1. x = root + 2 - 1 /\ x \in root .. root + 1
      OBVIOUS
    <3>2. Alone(pieces, 1, x)
      BY <2>1, <3>1
    <3> HIDE DEF x
    <3>3. Shown(new, x, data[2])
      BY <1>4, <2>2, <2>3, <3>1, <3>2, PieceShows
    <3> QED BY <3>3 DEF x, Shown
  <2>6. table + 4 * Count <= MemorySize
    <3> DEFINE i == Count - 1
               k == 2 + i
    <3>1. i \in Item /\ k \in 1 .. Len(pieces)
      BY <1>L, ItemIs
    <3>2. pieces[k] = Piece(table + 4 * i, E(i)) /\ E(i) \in Seq(Byte) /\ Len(E(i)) = 4
      BY <1>8, <1>10, <3>1
    <3>3. table + 4 * i \in Nat /\ table + 4 * i + 4 = table + 4 * Count
      BY <1>1, <1>5
    <3> HIDE DEF i, k
    <3>4. pieces[k].at + Len(pieces[k].data) - 1 <= new.max
      BY <1>4, <3>1 DEF Puts
    <3>5. pieces[k].at = table + 4 * i /\ Len(pieces[k].data) = 4
      BY <3>2 DEF Piece
    <3>6. new.max \in Nat
      BY <1>4, MaskIs, Zenon
    <3> DEFINE at == table + 4 * i
    <3>7. at \in Nat /\ at + 4 = table + 4 * Count /\ at + 4 - 1 <= new.max
      BY <3>3, <3>4, <3>5, Zenon
    <3> HIDE DEF at
    <3> QED BY <3>6, <3>7, MemoryIs
  <2> QED BY <1>1, <2>3, <2>4, <2>5, <2>6 DEF RootPlaced
<1>18. ASSUME NEW i \in Item PROVE EntryPlaced(new, table, c, i)
  <2> DEFINE p == 2 + i
             at == table + 4 * i
             data == E(i)
  <2>1. /\ data \in Seq(Byte) /\ Len(data) = 4 /\ Entry(c, i, loc[i], data)
        /\ at \in Nat /\ p \in 1 .. Len(pieces) /\ pieces[p] = Piece(at, data)
    <3>1. i \in Nat /\ i < Count
      BY <1>5
    <3>2. at \in Nat /\ p \in 1 .. Len(pieces)
      BY <1>1, <1>L, <3>1
    <3> QED BY <1>8, <1>10, <3>2, Zenon
  <2>2. \A x \in at .. at + 3 : Alone(pieces, p, x)
    <3> SUFFICES ASSUME NEW x \in at .. at + 3, NEW j \in 1 .. Len(pieces), Covers(pieces[j], x)
                 PROVE  j = p
      BY DEF Alone
    <3>1. table <= x /\ x < table + 4 * Count
      <4>1. i \in Nat /\ i < Count
        BY <1>5
      <4> QED BY <1>1, <1>L, <4>1
    <3>2. PICK h \in Item : j = 2 + h /\ x \in table + 4 * h .. table + 4 * h + 3
      BY <1>15, <3>1
    <3>3. h = i
      BY <1>1, <1>5, <3>2
    <3> QED BY <3>2, <3>3
  <2> HIDE DEF p, at, data
  <2>3. ASSUME NEW k \in 1 .. 4
        PROVE  at + k - 1 \in new.mask /\ new.byte[at + k - 1] = data[k]
    <3> DEFINE x == at + k - 1
    <3>1. x \in at .. at + 3 /\ x = at + k - 1 /\ k \in 1 .. Len(data)
      BY <2>1
    <3>2. Alone(pieces, p, x)
      BY <2>2, <3>1
    <3> HIDE DEF x
    <3>3. Shown(new, x, data[k])
      BY <1>4, <2>1, <3>1, <3>2, PieceShows
    <3> QED BY <3>3 DEF x, Shown
  <2>4. data \in Seq(Byte) /\ Len(data) = 4 /\ Entry(c, i, ChunkLoc(c, table)[i], data)
    BY <2>1 DEF loc
  <2>5. \A k \in 1 .. 4 : /\ table + 4 * i + k - 1 \in new.mask
                          /\ new.byte[table + 4 * i + k - 1] = data[k]
    BY <2>3 DEF at
  <2> QED BY <2>4, <2>5 DEF EntryPlaced
<1>19. ASSUME NEW i \in Item PROVE ChunkPlaced(new, table, c, i)
  <2> DEFINE data == ChunkData(c, i)
             at == loc[i]
  <2>1. data \in Seq(Byte) /\ Len(data) \in Nat /\ at \in Nat
    BY <1>6, <1>7 DEF Size
  <2>2. CASE data = <<>>
    <3>1. Len(data) = 0
      BY <2>2
    <3> QED BY <2>1, <3>1 DEF ChunkPlaced, loc
  <2>3. CASE data # <<>>
    <3>1. PICK q \in 1 .. m : Chunked(c)[q] = i
      BY <1>5, <2>3
    <3> DEFINE p == 1 + Count + q
    <3>2. p \in 1 .. Len(pieces) /\ pieces[p] = Piece(at, data)
      <4>1. p \in 1 .. Len(pieces)
        BY <1>L
      <4>2. pieces[p] = Piece(loc[Chunked(c)[q]], ChunkData(c, Chunked(c)[q]))
        BY <1>10
      <4> QED BY <3>1, <4>1, <4>2
    <3>3. \A x \in at .. at + Len(data) - 1 : Alone(pieces, p, x)
      <4> SUFFICES ASSUME NEW x \in at .. at + Len(data) - 1, NEW j \in 1 .. Len(pieces),
                          Covers(pieces[j], x)
                   PROVE  j = p
        BY DEF Alone
      <4>1. table + 4 * Count <= x
        BY <1>1, <1>5, <1>6, <2>1
      <4>2. PICK k \in 1 .. m : j = 1 + Count + k
        BY <1>15, <4>1
      <4> DEFINE h == Chunked(c)[k]
      <4>3. h \in Item /\ x \in loc[h] .. loc[h] + Size(h) - 1
        BY <1>5, <1>13, <4>2
      <4> HIDE DEF h
      <4>4. /\ loc[h] \in Nat /\ Size(h) \in Nat /\ loc[i] \in Nat /\ Size(i) \in Nat
            /\ h \in Nat /\ i \in Nat
            /\ h < i => loc[h] + Size(h) <= loc[i]
            /\ i < h => loc[i] + Size(i) <= loc[h]
        BY <1>5, <1>6, <1>7, <4>3
      <4>5. x \in loc[i] .. loc[i] + Size(i) - 1
        BY DEF Size
      <4>6. h = i
        <5> DEFINE a == loc[h]
                   b == loc[i]
                   s == Size(h)
                   t == Size(i)
        <5>1. /\ a \in Nat /\ s \in Nat /\ b \in Nat /\ t \in Nat /\ h \in Nat /\ i \in Nat
              /\ (h < i => a + s <= b) /\ (i < h => b + t <= a)
              /\ x \in a .. a + s - 1 /\ x \in b .. b + t - 1
          BY <4>3, <4>4, <4>5, Zenon
        <5> HIDE DEF a, b, s, t
        <5> QED BY <5>1
      <4>7. k = q
        BY <1>5, <3>1, <4>6 DEF h
      <4> QED BY <4>2, <4>7
    <3> HIDE DEF p, at, data
    <3>4. ASSUME NEW k \in 1 .. Len(data)
          PROVE  at + k - 1 \in new.mask /\ new.byte[at + k - 1] = data[k]
      <4> DEFINE x == at + k - 1
      <4>1. x \in at .. at + Len(data) - 1 /\ x = at + k - 1
        BY <2>1
      <4>2. Alone(pieces, p, x)
        BY <3>3, <4>1
      <4> HIDE DEF x
      <4>3. Shown(new, x, data[k])
        BY <1>4, <2>1, <3>2, <4>1, <4>2, PieceShows
      <4> QED BY <4>3 DEF x, Shown
    <3>5. Len(data) # 0 => at < MemorySize
      <4> SUFFICES ASSUME Len(data) # 0 PROVE at < MemorySize
        OBVIOUS
      <4>1. 1 \in 1 .. Len(data) /\ at + 1 - 1 = at
        BY <2>1
      <4>2. at \in new.mask
        BY <3>4, <4>1
      <4> QED BY <1>4, <4>2, MaskIs
    <3> QED BY <2>1, <3>4, <3>5 DEF ChunkPlaced, loc, at, data
  <2> QED BY <2>2, <2>3
<1> QED BY <1>4, <1>16, <1>17, <1>18, <1>19 DEF LaidOut

\* So the image of a firmware and its configuration is laid out.
LEMMA Placing ==
  ASSUME NEW image \in Images, NEW c \in Configs, NEW root \in Nat,
         Span(root, 2) \subseteq image.mask,
         NEW new, new = PutAll(image, ConfigPieces(c, root, Table(image), TRUE)),
         new.max < MemorySize
  PROVE  Placed(new, image, c, root)
<1> DEFINE table == Table(image)
           pieces == ConfigPieces(c, root, table, TRUE)
<1>1. table \in Nat /\ table % 2 = 0 /\ image.max < table
  <2>1. image.max + 1 \in Nat /\ image.max \in Nat
    BY MaskIs
  <2>2. table \in Nat /\ table % 2 = 0 /\ image.max + 1 <= table
    BY <2>1, EvenIs DEF Table
  <2> HIDE DEF table
  <2> QED BY <2>1, <2>2
<1>2. new = PutAll(image, pieces)
  OBVIOUS
<1> HIDE DEF table
<1>3. PiecesAre(pieces, c, root, table, TRUE)
  BY <1>1, ConfigPiecesAre
<1> HIDE DEF pieces
<1>4. Puts(image, pieces, new)
  <2>1. pieces \in Seq(Pieces)
    BY <1>3 DEF PiecesAre
  <2> QED BY <1>2, <2>1, PutAllIs
<1>5. LaidOut(new, image, table, c, root)
  BY <1>1, <1>3, <1>4, LayingOut
<1> QED BY <1>5 DEF Placed, table

\* encodeConfig with a firmware that is little endian and keeps the placeholder
\* among its initial data.
LEMMA EncodingIs ==
  ASSUME NEW image \in Images, NEW c \in Configs, EncodeConfig(image, c).ok,
         NEW token, token = FindByteSequence(image, Token, 0),
         token >= 0 => /\ Span(token + Len(Token) + 1, 2) \subseteq image.mask
                       /\ GetUInt16(image, token + Len(Token) + 1, TRUE) = Placeholder
  PROVE  token \in Nat /\ Placed(EncodeConfig(image, c).image, image, c, token + Len(Token) + 1)
<1> DEFINE root == token + Len(Token) + 1
           encoded == EncodeConfig(image, c)
<1>1. PICK le \in BOOLEAN :
                /\ token \in Nat /\ root \in Nat
                /\ GetUInt16(image, root, le) = Placeholder
                /\ GetUInt16(image, root, TRUE) = Placeholder => le
                /\ encoded.image = PutAll(image, ConfigPieces(c, root, Even(image.max + 1), le))
                /\ encoded.image.max < MemorySize
  BY EncodeIs
<1>2. token >= 0
  BY <1>1
<1>3. Span(root, 2) \subseteq image.mask /\ GetUInt16(image, root, TRUE) = Placeholder
  BY <1>2
<1>4. le = TRUE
  BY <1>1, <1>3
<1> HIDE DEF root, encoded
<1>5. /\ encoded.image = PutAll(image, ConfigPieces(c, root, Table(image), TRUE))
      /\ encoded.image.max < MemorySize /\ root \in Nat
  BY <1>1, <1>4 DEF Table
<1>6. Placed(encoded.image, image, c, root)
  BY <1>3, <1>5, Placing
<1> QED BY <1>1, <1>6 DEF root, encoded
-----------------------------------------------------------------------------
(* The file and the editor: what is made of a configuration is one (ConfigFile). *)

\* An item set to a value it can have.
LEMMA SetItem ==
  ASSUME NEW c \in Configs, NEW i \in Item, NEW v \in Values(i)
  PROVE  /\ [c EXCEPT !.item[i] = v] \in Configs
         /\ [c EXCEPT !.item[i] = v].item = [c.item EXCEPT ![i] = v]
         /\ [c EXCEPT !.item[i] = v].name = c.name
<1> DEFINE item == [c.item EXCEPT ![i] = v]
           new == [name |-> c.name, item |-> item]
<1>1. /\ c.name \in Seq(Byte) \union {Null} /\ \A j \in Item : c.item[j] \in Values(j)
      /\ c.item = [j \in Item |-> c.item[j]] /\ c = [name |-> c.name, item |-> c.item]
  BY ConfigIs
<1>2. item = [j \in Item |-> IF j = i THEN v ELSE c.item[j]]
  BY <1>1
<1> HIDE DEF item
<1>3. item = [j \in Item |-> item[j]] /\ \A j \in Item : item[j] \in Values(j)
  BY <1>1, <1>2
<1>4. new \in Configs
  BY <1>1, <1>3, ConfigMade
<1>5. [c EXCEPT !.item[i] = v] = new
  <2> DEFINE name == c.name
             old == c.item
  <2>1. c = [name |-> name, item |-> old]
    BY <1>1, Zenon
  <2>2. item = [old EXCEPT ![i] = v]
    BY DEF item
  <2> HIDE DEF name, old
  <2>3. [c EXCEPT !.item[i] = v] = [name |-> name, item |-> item]
    BY <2>1, <2>2
  <2> QED BY <2>3 DEF name
<1>6. new.item = item /\ new.name = c.name
  BY DEF new
<1> HIDE DEF new
<1> QED BY <1>4, <1>5, <1>6 DEF item

Parsed == [ok : BOOLEAN, config : Configs]

\* The tokens of binary data that are values, in order.
LEMMA ParseBinaryIs ==
  ASSUME NEW tokens \in Seq(0 .. CLOSE), CLOSE \in Range(tokens)
  PROVE  /\ ParseBinary(tokens) \in Seq(Byte)
         /\ \E last \in 1 .. Len(tokens) :
              /\ tokens[last] = CLOSE
              /\ \A k \in 1 .. last - 1 : tokens[k] # CLOSE
              /\ LET values == Sorted({ k \in 1 .. last : tokens[k] < SEPARATOR })
                 IN  ParseBinary(tokens) = [n \in DOMAIN values |-> tokens[values[n]]]
<1> DEFINE ends == { k \in DOMAIN tokens : tokens[k] = CLOSE }
           last == Min(ends)
           S == { k \in 1 .. last : tokens[k] < SEPARATOR }
           values == Sorted(S)
<1>1. Len(tokens) \in Nat /\ DOMAIN tokens = 1 .. Len(tokens)
  BY LenProperties
<1>2. ends \in SUBSET Nat /\ ends # {}
  <2>1. PICK k \in DOMAIN tokens : tokens[k] = CLOSE
    BY DEF Range
  <2> QED BY <1>1, <2>1
<1>3. last \in ends /\ \A k \in ends : last <= k
  <2> HIDE DEF ends
  <2> QED BY <1>2, MinIs
<1> HIDE DEF last
<1>4. last \in 1 .. Len(tokens) /\ tokens[last] = CLOSE
  BY <1>1, <1>3
<1>5. \A k \in 1 .. last - 1 : tokens[k] # CLOSE
  <2> SUFFICES ASSUME NEW k \in 1 .. last - 1, tokens[k] = CLOSE PROVE FALSE
    OBVIOUS
  <2>1. k \in ends
    BY <1>1, <1>4
  <2> QED BY <1>3, <1>4, <2>1
<1>6. S \in SUBSET Nat /\ (\A k \in S : k <= last) /\ last \in Nat
  BY <1>1, <1>4
<1>7. \A k \in S : tokens[k] \in Byte
  <2> SUFFICES ASSUME NEW k \in S PROVE tokens[k] \in Byte
    OBVIOUS
  <2>1. k \in 1 .. Len(tokens) /\ tokens[k] < SEPARATOR
    BY <1>1, <1>4
  <2> DEFINE U == 0 .. CLOSE
             t == tokens[k]
  <2>2. \A x \in U : x < SEPARATOR => x \in Byte
    BY SMT DEF Byte, SEPARATOR, CLOSE
  <2>3. tokens \in Seq(U)
    OBVIOUS
  <2> HIDE DEF U
  <2>4. t \in U
    BY <2>1, <2>3
  <2>5. t < SEPARATOR
    BY <2>1
  <2> HIDE DEF t
  <2>6. t \in Byte
    BY <2>2, <2>4, <2>5
  <2> QED BY <2>6 DEF t
<1> HIDE DEF S
<1>8. /\ Cardinality(S) \in Nat /\ DOMAIN values = 1 .. Cardinality(S)
      /\ \A k \in 1 .. Cardinality(S) : values[k] \in S
  BY <1>6, SortedIs
<1>9. ParseBinary(tokens) = [n \in DOMAIN values |-> tokens[values[n]]]
  BY DEF ParseBinary, S, last
<1>10. ParseBinary(tokens) \in Seq(Byte)
  <2> HIDE DEF values
  <2>1. [n \in DOMAIN values |-> tokens[values[n]]] \in [1 .. Cardinality(S) -> Byte]
    BY <1>7, <1>8
  <2> QED BY <1>8, <1>9, <2>1, SeqIs
<1> QED BY <1>4, <1>5, <1>9, <1>10 DEF S

\* What stands on the right of a line.
LEMMA DataIs ==
  ASSUME NEW data \in ItemData
  PROVE  /\ data.is = "text" => data.of \in Seq(Byte)
         /\ data.is = "bytes" => data.of \in Seq(0 .. CLOSE)
BY DEF ItemData, TextData

\* ConfigFileParser.parse, for a line that names an item.
LEMMA ParseItemIs ==
  ASSUME NEW c \in Configs, NEW i \in Item, NEW data \in ItemData
  PROVE  /\ ParseItem(c, i, data) \in Parsed
         /\ Type[i] = "usbstring" /\ data.is = "text" =>
              ParseItem(c, i, data) = [ok |-> TRUE, config |-> [c EXCEPT !.item[i] = data.of]]
         /\ Type[i] \in Integral /\ data.is = "number" /\ data.of \in Values(i) =>
              ParseItem(c, i, data) = [ok |-> TRUE, config |-> [c EXCEPT !.item[i] = data.of]]
         /\ Type[i] = "binary" /\ data.is = "bytes" /\ CLOSE \in Range(data.of) =>
              ParseItem(c, i, data) = [ok |-> TRUE,
                                       config |-> [c EXCEPT !.item[i] = ParseBinary(data.of)]]
         /\ Type[i] = "utf8string" => ParseItem(c, i, data) = [ok |-> TRUE, config |-> c]
<1> DEFINE p == ParseItem(c, i, data)
           usb == Type[i] = "usbstring" /\ data.is = "text"
           num == Type[i] \in Integral /\ data.is = "number"
           bin == Type[i] = "binary" /\ data.is = "bytes" /\ CLOSE \in Range(data.of)
           utf == Type[i] = "utf8string"
           set(v) == [ok |-> TRUE, config |-> [c EXCEPT !.item[i] = v]]
           exception == [ok |-> FALSE, config |-> c]
<1>1. p = CASE usb -> set(data.of)
            [] num -> IF data.of \in Values(i) THEN set(data.of) ELSE exception
            [] bin -> set(ParseBinary(data.of))
            [] utf -> [ok |-> TRUE, config |-> c]
            [] OTHER -> exception
  BY DEF ParseItem, Valid
<1>2. /\ usb => ~num /\ ~bin /\ ~utf
      /\ num => ~usb /\ ~bin /\ ~utf
      /\ bin => ~usb /\ ~num /\ ~utf
      /\ utf => ~usb /\ ~num /\ ~bin
  BY DEF Integral
<1>3. \A v \in Values(i) : set(v) \in Parsed
  BY SetItem DEF Parsed
<1>4. exception \in Parsed /\ [ok |-> TRUE, config |-> c] \in Parsed
  BY DEF Parsed
<1>5. usb => data.of \in Values(i)
  BY DataIs, ValuesAre
<1>6. bin => ParseBinary(data.of) \in Values(i)
  BY DataIs, ParseBinaryIs, ValuesAre
<1> HIDE DEF p, set, exception
<1>7. usb => p = set(data.of)
  BY <1>1, <1>2, Zenon
<1>8. num => p = IF data.of \in Values(i) THEN set(data.of) ELSE exception
  BY <1>1, <1>2, Zenon
<1>9. bin => p = set(ParseBinary(data.of))
  BY <1>1, <1>2, Zenon
<1>10. utf => p = [ok |-> TRUE, config |-> c]
  BY <1>1, <1>2, Zenon
<1>11. ~usb /\ ~num /\ ~bin /\ ~utf => p = exception
  BY <1>1, Zenon
<1> HIDE DEF usb, num, bin, utf
<1>12. p \in Parsed
  <2>1. CASE usb
    BY <1>3, <1>5, <1>7, <2>1
  <2>2. CASE num
    BY <1>3, <1>4, <1>8, <2>2
  <2>3. CASE bin
    BY <1>3, <1>6, <1>9, <2>3
  <2>4. CASE utf
    BY <1>4, <1>10, <2>4
  <2>5. CASE ~usb /\ ~num /\ ~bin /\ ~utf
    BY <1>4, <1>11, <2>5
  <2> QED BY <2>1, <2>2, <2>3, <2>4, <2>5, Zenon
<1>13. num /\ data.of \in Values(i) => p = set(data.of)
  BY <1>8
<1> QED BY <1>7, <1>9, <1>10, <1>12, <1>13, Zenon DEF p, usb, num, bin, utf, set

\* A template's configuration is one: the least value of an enum item is a value of it.
LEMMA CreateIs == Create \in Configs
<1> DEFINE item == [i \in Item |-> CASE Type[i] = "enum" -> Min(EnumValues[i])
                                     [] Type[i] \in {"uint8", "uint16"} -> 0
                                     [] OTHER -> Null]
<1>1. ASSUME NEW i \in Item PROVE item[i] \in Values(i)
  <2>1. CASE Type[i] = "enum"
    <3>1. EnumValues[i] \in SUBSET Byte /\ EnumValues[i] # {} /\ Values(i) = EnumValues[i]
      BY <2>1, TypeIs, ValuesAre
    <3>2. \A b \in Byte : b \in Nat
      BY ByteIs
    <3>3. EnumValues[i] \in SUBSET Nat
      BY <3>1, <3>2
    <3>4. Min(EnumValues[i]) \in EnumValues[i]
      BY <3>1, <3>3, MinIs
    <3> QED BY <2>1, <3>1, <3>4
  <2>2. CASE Type[i] = "uint8"
    <3>1. item[i] = 0 /\ Values(i) = Byte
      BY <2>2, ValuesAre
    <3> QED BY <3>1, ByteMade
  <2>3. CASE Type[i] = "uint16"
    <3>1. item[i] = 0 /\ Values(i) = Words
      BY <2>3, ValuesAre
    <3> QED BY <3>1, WordIs
  <2>4. CASE Type[i] \in {"special", "binary", "usbstring", "utf8string"}
    <3>1. item[i] = Null /\ Values(i) = Seq(Byte) \union {Null}
      BY <2>4, ValuesAre
    <3> QED BY <3>1
  <2> QED BY <2>1, <2>2, <2>3, <2>4, TypeIs
<1>2. item = [i \in Item |-> item[i]]
  OBVIOUS
<1>3. Create = [name |-> Null, item |-> item]
  BY DEF Create
<1> HIDE DEF item
<1> QED BY <1>1, <1>2, <1>3, ConfigMade

\* A line is a header, or it names an item.
LEMMA LineOfFile ==
  ASSUME NEW line \in FileLines
  PROVE  /\ line.id = HEADER => line.data \in TextData
         /\ line.id # HEADER => line.id \in Item /\ line.data \in ItemData
<1>1. \A i \in Item : i # HEADER
  BY ItemIs DEF HEADER
<1> QED BY <1>1 DEF FileLines

\* A line is passed over, or is a header's, or an item's.
LEMMA ParseLineIs ==
  ASSUME NEW parse \in Parsed, NEW line \in FileLines
  PROVE  /\ ParseLine(parse, line) \in Parsed
         /\ ~parse.ok \/ ~Matches(line) => ParseLine(parse, line) = parse
         /\ parse.ok /\ Matches(line) /\ line.id # HEADER =>
              ParseLine(parse, line) = ParseItem(parse.config, line.id, line.data)
         /\ parse.ok /\ Matches(line) /\ line.id = HEADER =>
              ParseLine(parse, line).ok /\ ParseLine(parse, line).config.item = parse.config.item
<1> DEFINE new == ParseLine(parse, line)
           skip == ~parse.ok \/ ~Matches(line)
           head == parse.ok /\ Matches(line) /\ line.id = HEADER
           named == [parse EXCEPT !.config.name = line.data.of]
           item == ParseItem(parse.config, line.id, line.data)
<1>1. new = CASE skip -> parse [] head -> named [] OTHER -> item
  BY DEF ParseLine
<1>2. skip => ~head
  OBVIOUS
<1>3. head => named \in Parsed /\ named.ok /\ named.config.item = parse.config.item
  <2> SUFFICES ASSUME head
               PROVE  named \in Parsed /\ named.ok /\ named.config.item = parse.config.item
    OBVIOUS
  <2> DEFINE name == line.data.of
             old == parse.config
             made == [name |-> name, item |-> old.item]
  <2>1. name \in Seq(Byte)
    BY LineOfFile DEF TextData
  <2>2. parse.ok = TRUE /\ old \in Configs
    BY DEF Parsed
  <2>3. /\ old = [name |-> old.name, item |-> old.item]
        /\ old.item = [i \in Item |-> old.item[i]] /\ \A i \in Item : old.item[i] \in Values(i)
    BY <2>2, ConfigIs
  <2>4. parse = [ok |-> TRUE, config |-> old]
    BY <2>2 DEF Parsed
  <2> HIDE DEF name, old
  <2>5. [old EXCEPT !.name = name] = made
    BY <2>3
  <2>6. [parse EXCEPT !.config.name = name] = [ok |-> TRUE, config |-> made]
    <3> HIDE DEF made
    <3>1. [parse EXCEPT !.config.name = name] =
            [parse EXCEPT !.config = [parse.config EXCEPT !.name = name]]
      BY <2>4
    <3>2. parse.config = old
      BY DEF old
    <3>3. [parse EXCEPT !.config = made] = [ok |-> TRUE, config |-> made]
      <4> DEFINE yes == TRUE
                 r == [ok |-> yes, config |-> old]
      <4> HIDE DEF yes
      <4>1. [r EXCEPT !.config = made] = [ok |-> yes, config |-> made]
        OBVIOUS
      <4>2. parse = r
        <5> QED BY <2>4, Zenon DEF yes
      <4> HIDE DEF r
      <4> QED BY <4>1, <4>2, Zenon DEF yes
    <3> QED BY <2>5, <3>1, <3>2, <3>3, Zenon
  <2>7. made \in Configs
    BY <2>1, <2>3, ConfigMade
  <2>8. made.item = old.item
    BY DEF made
  <2> HIDE DEF made
  <2> QED BY <2>6, <2>7, <2>8 DEF Parsed, name, old
<1>4. ~skip /\ ~head => item \in Parsed
  <2> SUFFICES ASSUME ~skip, ~head PROVE item \in Parsed
    OBVIOUS
  <2>1. line.id \in Item /\ line.data \in ItemData
    BY LineOfFile
  <2>2. parse.config \in Configs
    BY DEF Parsed
  <2> QED BY <2>1, <2>2, ParseItemIs
<1> HIDE DEF new, skip, head, named, item
<1>5. skip => new = parse
  BY <1>1, <1>2, Zenon
<1>6. head => new = named
  BY <1>1, <1>2, Zenon
<1>7. ~skip /\ ~head => new = item
  BY <1>1, Zenon
<1>8. new \in Parsed
  BY <1>3, <1>4, <1>5, <1>6, <1>7, Zenon
<1>9. head => new.ok /\ new.config.item = parse.config.item
  BY <1>3, <1>6, Zenon
<1> QED BY <1>5, <1>7, <1>8, <1>9, Zenon DEF new, skip, head, item

Parsing(lines) ==
    CHOOSE parse : parse = [n \in 0 .. Len(lines) |->
        IF n = 0 THEN [ok |-> TRUE, config |-> Create]
        ELSE ParseLine(parse[n - 1], lines[n])]

\* The recursion over the lines of the file: one step for each.
LEMMA ParsingIs ==
  ASSUME NEW lines \in Seq(FileLines)
  PROVE  /\ Parsing(lines)[0] = [ok |-> TRUE, config |-> Create]
         /\ \A n \in 1 .. Len(lines) :
              Parsing(lines)[n] = ParseLine(Parsing(lines)[n - 1], lines[n])
         /\ \A n \in 0 .. Len(lines) : Parsing(lines)[n] \in Parsed
<1> DEFINE L == Len(lines)
           init == [ok |-> TRUE, config |-> Create]
           parse == Parsing(lines)
           F == [n \in 1 .. L |-> [u \in Parsed |-> ParseLine(u, lines[n])]]
<1>1. L \in Nat /\ init \in Parsed /\ \A n \in 1 .. L : lines[n] \in FileLines
  <2>1. Create \in Configs
    BY CreateIs
  <2> QED BY <2>1 DEF Parsed
<1> HIDE DEF init
<1>2. \A n \in 1 .. L : \A u \in Parsed : ParseLine(u, lines[n]) \in Parsed
  BY <1>1, ParseLineIs
<1>3. \A n \in 1 .. L : \A u \in Parsed : F[n][u] = ParseLine(u, lines[n])
  BY Zenon
<1>4. Steps(Parsed, L, init, F)
  <2> HIDE DEF F, L
  <2>1. \A n \in 1 .. L : \A u \in Parsed : F[n][u] \in Parsed
    BY <1>2, <1>3, Zenon
  <2> QED BY <1>1, <2>1, Zenon DEF Steps
<1>5. PICK f : Follows(f, Parsed, L, init, F)
  <2> HIDE DEF F, L
  <2> QED BY <1>4, Recursion, Zenon
<1>6. f = [n \in 0 .. L |-> IF n = 0 THEN init ELSE ParseLine(f[n - 1], lines[n])]
  <2> HIDE DEF F, L
  <2>1. /\ f \in [0 .. L -> Parsed] /\ f[0] = init
        /\ \A n \in 1 .. L : f[n] = F[n][f[n - 1]]
    BY <1>5, Zenon DEF Follows
  <2>2. \A n \in 1 .. L : f[n] = ParseLine(f[n - 1], lines[n])
    <3> SUFFICES ASSUME NEW n \in 1 .. L PROVE f[n] = ParseLine(f[n - 1], lines[n])
      OBVIOUS
    <3>1. n - 1 \in 0 .. L
      BY <1>1
    <3>2. f[n - 1] \in Parsed
      BY <2>1, <3>1
    <3> QED BY <1>3, <2>1, <3>2, Zenon
  <2>3. \A n \in 0 .. L : f[n] = IF n = 0 THEN init ELSE ParseLine(f[n - 1], lines[n])
    <3>1. \A n \in 0 .. L : n # 0 => n \in 1 .. L
      BY <1>1
    <3> QED BY <2>1, <2>2, <3>1, Zenon
  <2>4. f = [n \in 0 .. L |-> f[n]]
    BY <2>1
  <2> QED BY <2>3, <2>4, Zenon
<1>7. parse = [n \in 0 .. L |-> IF n = 0 THEN init ELSE ParseLine(parse[n - 1], lines[n])]
  BY <1>6, Zenon DEF Parsing, init
<1> HIDE DEF parse, F
<1>8. parse[0] = init
  <2>1. 0 \in 0 .. L
    BY <1>1
  <2> HIDE DEF L
  <2> QED BY <1>7, <2>1, Zenon
<1>9. \A n \in 1 .. L : n \in 0 .. L /\ parse[n] = ParseLine(parse[n - 1], lines[n])
  <2>1. \A n \in 1 .. L : n \in 0 .. L /\ n # 0
    BY <1>1
  <2> HIDE DEF L
  <2> QED BY <1>7, <2>1, Zenon
<1> DEFINE T == { n \in 0 .. L : parse[n] \in Parsed }
<1>10. 0 \in T
  BY <1>1, <1>8
<1>11. \A n \in 1 .. L : n - 1 \in T => n \in T
  <2> SUFFICES ASSUME NEW n \in 1 .. L, n - 1 \in T PROVE n \in T
    OBVIOUS
  <2>1. parse[n] \in Parsed
    BY <1>2, <1>9
  <2> QED BY <1>9, <2>1
<1>12. \A n \in 0 .. L : parse[n] \in Parsed
  <2> HIDE DEF T
  <2>1. \A n \in 0 .. L : n \in T
    BY <1>1, <1>10, <1>11, InductTo
  <2> QED BY <2>1 DEF T
<1> QED BY <1>8, <1>9, <1>12, Zenon DEF parse, init

\* A file, whatever its lines are, makes a configuration.
LEMMA ParseIs ==
  ASSUME NEW lines \in Seq(FileLines)
  PROVE  Parse(lines) = Parsing(lines)[Len(lines)] /\ Parse(lines) \in Parsed
<1>1. Parse(lines) = Parsing(lines)[Len(lines)]
  BY DEF Parse, Parsing
<1>2. Len(lines) \in 0 .. Len(lines)
  OBVIOUS
<1> QED BY <1>1, <1>2, ParsingIs

\* The editor: what is saved of a form is valid.
LEMMA FormIs ==
  ASSUME NEW c \in Configs
  PROVE  /\ FormOf(c).name \in Seq(Byte)
         /\ \A i \in Editable : Type[i] \notin Integral => FormOf(c).item[i] \in Values(i)
<1>1. c.name \in Seq(Byte) \union {Null} /\ \A i \in Item : c.item[i] \in Values(i)
  BY ConfigIs
<1>2. FormOf(c).name = IF c.name = Null THEN <<>> ELSE c.name
  BY DEF FormOf
<1>3. \A i \in Item : FormOf(c).item[i] =
          IF Type[i] \in Text /\ c.item[i] = Null THEN <<>> ELSE c.item[i]
  BY Zenon DEF FormOf
<1>4. FormOf(c).name \in Seq(Byte)
  BY <1>1, <1>2
<1>5. ASSUME NEW i \in Editable, Type[i] \notin Integral PROVE FormOf(c).item[i] \in Values(i)
  <2>1. i \in Item /\ Type[i] \in {"special", "binary", "usbstring", "utf8string"}
    BY <1>5, TypeIs DEF Editable, Integral
  <2>2. Values(i) = Seq(Byte) \union {Null}
    BY <2>1, ValuesAre
  <2>3. c.item[i] \in Values(i)
    BY <1>1, <2>1
  <2>4. FormOf(c).item[i] = <<>> \/ FormOf(c).item[i] = c.item[i]
    BY <1>3, <2>1
  <2>5. <<>> \in Values(i)
    BY <2>2
  <2> QED BY <2>3, <2>4, <2>5, Zenon
<1> QED BY <1>4, <1>5

\* What a user can type, even where it is refused.
LEMMA EditedIs ==
  ASSUME NEW c \in Configs, NEW edit \in Edit, NEW numbers \in BOOLEAN
  PROVE  /\ Edited(c, edit, numbers).name \in Seq(Byte)
         /\ \A i \in Editable : Type[i] \notin Integral => Edited(c, edit, numbers).item[i] \in Values(i)
<1> DEFINE form == FormOf(c)
           item == [i \in Item |-> IF i \in DOMAIN edit THEN edit[i] ELSE form.item[i]]
<1>1. form = [name |-> form.name, numbers |-> TRUE, item |-> form.item]
  BY DEF FormOf
<1>2. Edited(c, edit, numbers) = [form EXCEPT !.numbers = numbers, !.item = item]
  BY DEF Edited
<1>3. /\ form.name \in Seq(Byte)
      /\ \A i \in Editable : Type[i] \notin Integral => form.item[i] \in Values(i)
  BY FormIs
<1> HIDE DEF form
<1>4. \A i \in Item : item[i] = IF i \in DOMAIN edit THEN edit[i] ELSE form.item[i]
  BY Zenon
<1> HIDE DEF item
<1>5. Edited(c, edit, numbers).name = form.name /\ Edited(c, edit, numbers).item = item
  BY <1>1, <1>2
<1>6. ASSUME NEW i \in Editable, Type[i] \notin Integral PROVE item[i] \in Values(i)
  <2>1. i \in Item /\ Type[i] \in {"special", "binary", "usbstring", "utf8string"}
    BY <1>6, TypeIs DEF Editable, Integral
  <2>2. CASE i \in DOMAIN edit
    <3>1. edit[i] \in Seq(Byte)
      BY <1>6, <2>2, InputAssumption
    <3>2. Values(i) = Seq(Byte) \union {Null}
      BY <2>1, ValuesAre
    <3> QED BY <1>4, <2>1, <2>2, <3>1, <3>2
  <2>3. CASE i \notin DOMAIN edit
    BY <1>3, <1>4, <1>6, <2>1, <2>3
  <2> QED BY <2>2, <2>3
<1> QED BY <1>3, <1>5, <1>6

\* Saving sets no value that was refused.
LEMMA SavedIs ==
  ASSUME NEW c \in Configs, NEW form, form.name \in Seq(Byte),
         \A i \in Editable : Type[i] \notin Integral => form.item[i] \in Values(i)
  PROVE  SaveForm(c, form).config \in Configs
<1> DEFINE refused == { i \in ItemOf(Integral) : ~Valid(i, form.item[i]) }
           saved == { i \in Editable : form.numbers /\ \A r \in refused : i < r }
           item == [i \in Item |-> IF i \in saved THEN form.item[i] ELSE c.item[i]]
           name == form.name
           ok == form.numbers /\ refused = {}
           made == [name |-> name, item |-> item]
<1>1. SaveForm(c, form) = [ok |-> ok, config |-> made]
  BY DEF SaveForm
<1>2. \A i \in saved : i \in Editable /\ i \in Item /\ i \notin refused
  <2> SUFFICES ASSUME NEW i \in saved PROVE i \in Editable /\ i \in Item /\ i \notin refused
    OBVIOUS
  <2>1. i \in Editable /\ i \in Item /\ i \in Nat /\ \A r \in refused : i < r
    BY ItemIs DEF Editable
  <2> HIDE DEF refused, saved
  <2>2. i \notin refused
    BY <2>1
  <2> QED BY <2>1, <2>2
<1>3. \A i : i \in Item /\ Type[i] \in Integral /\ i \notin refused => form.item[i] \in Values(i)
  BY DEF ItemOf, Valid
<1> HIDE DEF refused, saved, name
<1>4. \A i \in Item : item[i] = IF i \in saved THEN form.item[i] ELSE c.item[i]
  BY Zenon
<1>5. item = [i \in Item |-> item[i]]
  OBVIOUS
<1> HIDE DEF item
<1>6. ASSUME NEW i \in Item PROVE item[i] \in Values(i)
  <2>1. c.item[i] \in Values(i)
    BY ConfigIs
  <2>2. i \in saved => form.item[i] \in Values(i)
    BY <1>2, <1>3
  <2> QED BY <1>4, <2>1, <2>2
<1>7. name \in Seq(Byte)
  BY DEF name
<1>8. made \in Configs
  BY <1>5, <1>6, <1>7, ConfigMade
<1> HIDE DEF made, ok
<1> QED BY <1>1, <1>8
-----------------------------------------------------------------------------
(* The file.                                                                 *)

Headed(u, S, p, s) == /\ u \in Seq(S) /\ Len(u) = 1 + Len(s) /\ u[1] = p
                      /\ \A k \in 1 .. Len(s) : u[1 + k] = s[k]

\* The concatenation of an element and a sequence.
LEMMA HeadedIs ==
  ASSUME NEW S, NEW p \in S, NEW s \in Seq(S)
  PROVE  Headed(<< p >> \o s, S, p, s)
<1> DEFINE h == << p >>
           u == h \o s
<1>1. h \in Seq(S) /\ Len(h) = 1 /\ h[1] = p /\ Len(s) \in Nat
  OBVIOUS
<1> HIDE DEF h
<1>2. /\ u \in Seq(S) /\ Len(u) = 1 + Len(s)
      /\ \A i \in 1 .. 1 + Len(s) : u[i] = IF i <= 1 THEN h[i] ELSE s[i - 1]
  <2>1. /\ h \o s \in Seq(S) /\ Len(h \o s) = Len(h) + Len(s)
        /\ \A i \in 1 .. Len(h) + Len(s) : (h \o s)[i] = IF i <= Len(h) THEN h[i] ELSE s[i - Len(h)]
    BY <1>1, ConcatProperties, Zenon
  <2> HIDE DEF u
  <2> QED BY <1>1, <2>1 DEF u
<1> HIDE DEF u
<1>3. u[1] = p /\ \A k \in 1 .. Len(s) : u[1 + k] = s[k]
  BY <1>1, <1>2
<1>4. Headed(u, S, p, s)
  BY <1>2, <1>3 DEF Headed
<1> QED BY <1>4 DEF u, h

\* The items of a file.
LEMMA EditableIs ==
  /\ Editable \in SUBSET Item
  /\ \A i \in Editable : Type[i] \in Text \union Integral \union {"binary"} /\ Type[i] # "special"
<1>1. \A i \in Editable : i \in Item /\ Type[i] # "special"
  BY DEF Editable, ItemOf
<1>2. \A i \in Item : Type[i] \in {"special", "binary"} \union Text \union Integral
  BY ItemAssumption
<1> QED BY <1>1, <1>2

\* The tokens of binary data.
LEMMA RenderBinaryIs ==
  ASSUME NEW value \in Seq(Byte), NEW n, n = Len(value)
  PROVE  /\ RenderBinary(value) \in Seq(0 .. CLOSE) /\ Len(RenderBinary(value)) = 2 * n
         /\ \A k \in 1 .. 2 * n :
              RenderBinary(value)[k] = IF k = 2 * n THEN CLOSE
                                       ELSE IF k % 2 = 0 THEN SEPARATOR ELSE value[(k + 1) \div 2]
<1> DEFINE t == RenderBinary(value)
           U == 0 .. CLOSE
<1>1. n \in Nat /\ \A k \in 1 .. n : value[k] \in Byte
  OBVIOUS
<1>2. t = [k \in 1 .. 2 * n |-> IF k = 2 * n THEN CLOSE
                                ELSE IF k % 2 = 0 THEN SEPARATOR ELSE value[(k + 1) \div 2]]
  BY DEF RenderBinary
<1>3. CLOSE \in U /\ SEPARATOR \in U /\ \A b \in Byte : b \in U
  BY SMT DEF CLOSE, SEPARATOR, Byte
<1> HIDE DEF t, U
<1>4. ASSUME NEW k \in 1 .. 2 * n
      PROVE  (IF k = 2 * n THEN CLOSE
              ELSE IF k % 2 = 0 THEN SEPARATOR ELSE value[(k + 1) \div 2]) \in U
  <2>1. (k + 1) \div 2 \in 1 .. n
    BY <1>1
  <2> QED BY <1>1, <1>3, <2>1
<1>5. t \in [1 .. 2 * n -> U]
  BY <1>2, <1>4
<1>6. t \in Seq(U) /\ Len(t) = 2 * n
  BY <1>1, <1>5, SeqIs
<1> QED BY <1>2, <1>6, Zenon DEF t, U

\* renderData, by the type of the item.
LEMMA RenderIs ==
  ASSUME NEW i \in Editable, NEW v \in Values(i)
  PROVE  /\ RenderData(i, v) \in ItemData
         /\ Type[i] \in Text => /\ RenderData(i, v).is = "text"
                                /\ RenderData(i, v).of = IF v = Null THEN <<>> ELSE v
         /\ Type[i] \in Integral => RenderData(i, v).is = "number" /\ RenderData(i, v).of = v
         /\ Type[i] = "binary" => /\ RenderData(i, v).is = "bytes"
                                  /\ RenderData(i, v).of = IF v \in {Null, <<>>} THEN <<CLOSE>>
                                                           ELSE RenderBinary(v)
<1> DEFINE text == IF v = Null THEN <<>> ELSE v
           bytes == IF v \in {Null, <<>>} THEN <<CLOSE>> ELSE RenderBinary(v)
           data == RenderData(i, v)
           U == 0 .. CLOSE
<1>1. data = CASE Type[i] \in Text -> [is |-> "text", of |-> text]
               [] Type[i] \in Integral -> [is |-> "number", of |-> v]
               [] Type[i] = "binary" -> [is |-> "bytes", of |-> bytes]
  BY DEF RenderData
<1>2. i \in Item /\ Type[i] \in Text \union Integral \union {"binary"}
  BY EditableIs
<1>3. /\ Type[i] \in Text => Type[i] \notin Integral /\ Type[i] # "binary"
      /\ Type[i] \in Integral => Type[i] \notin Text /\ Type[i] # "binary"
      /\ Type[i] = "binary" => Type[i] \notin Text /\ Type[i] \notin Integral
  BY DEF Text, Integral
<1>4. Type[i] \in Text \union {"binary"} => v \in Seq(Byte) \union {Null}
  BY <1>2, ValuesAre DEF Text
<1>5. Type[i] \in Integral => v \in Int
  <2> SUFFICES ASSUME Type[i] \in Integral PROVE v \in Int
    OBVIOUS
  <2>1. v \in Byte \/ v \in Words
    BY <1>2, ValuesAre DEF Integral
  <2> QED BY <2>1, ByteIs, WordsAre
<1>6. Type[i] \in Text => text \in Seq(Byte)
  BY <1>4
<1>7. Type[i] = "binary" => bytes \in Seq(U)
  <2> SUFFICES ASSUME Type[i] = "binary" PROVE bytes \in Seq(U)
    OBVIOUS
  <2>1. CLOSE \in U
    BY SMT DEF CLOSE
  <2>2. v \in Seq(Byte) => RenderBinary(v) \in Seq(U)
    BY RenderBinaryIs
  <2> HIDE DEF U
  <2> QED BY <1>4, <2>1, <2>2
<1> HIDE DEF data, text, bytes
<1>8. CASE Type[i] \in Text
  <2>1. data = [is |-> "text", of |-> text]
    BY <1>1, <1>3, <1>8, Zenon
  <2>2. data \in ItemData
    BY <1>6, <1>8, <2>1 DEF ItemData, TextData
  <2>3. data.is = "text" /\ data.of = text
    BY <2>1
  <2> QED BY <1>3, <1>8, <2>2, <2>3, Zenon DEF data, text
<1>9. CASE Type[i] \in Integral
  <2>1. data = [is |-> "number", of |-> v]
    BY <1>1, <1>3, <1>9, Zenon
  <2>2. data \in ItemData
    BY <1>5, <1>9, <2>1 DEF ItemData
  <2>3. data.is = "number" /\ data.of = v
    BY <2>1
  <2> QED BY <1>3, <1>9, <2>2, <2>3, Zenon DEF data
<1>10. CASE Type[i] = "binary"
  <2>1. data = [is |-> "bytes", of |-> bytes]
    BY <1>1, <1>3, <1>10, Zenon
  <2>2. data \in ItemData
    BY <1>7, <1>10, <2>1 DEF ItemData
  <2>3. data.is = "bytes" /\ data.of = bytes
    BY <2>1
  <2> QED BY <1>3, <1>10, <2>2, <2>3, Zenon DEF data, bytes
<1> QED BY <1>2, <1>8, <1>9, <1>10, Zenon

\* The lines: the name and then the items, each once.
Items == Sorted(Editable)
Filed(lines, c) ==
    /\ lines \in Seq(FileLines) /\ Len(Items) \in Nat /\ Len(lines) = 1 + Len(Items)
    /\ lines[1] = HeaderLine(c)
    /\ \A k \in 1 .. Len(Items) : Items[k] \in Editable /\ lines[1 + k] = ItemLine(c, Items[k])
    /\ \A j, k \in 1 .. Len(Items) : Items[j] = Items[k] => j = k
    /\ \A i \in Editable : \E k \in 1 .. Len(Items) : Items[k] = i

\* ConfigFileWriter.generate: the header, and a line for each item, in order.
LEMMA GenerateIs ==
  ASSUME NEW c \in Configs
  PROVE  Filed(Generate(c), c)
<1> DEFINE n == Cardinality(Editable)
           s == [k \in DOMAIN Items |-> ItemLine(c, Items[k])]
           p == HeaderLine(c)
           lines == Generate(c)
<1>1. Editable \in SUBSET Nat /\ (\A x \in Editable : x <= Count) /\ Count \in Nat
  BY EditableIs, ItemIs, CountIs
<1>2. /\ n \in Nat /\ Len(Items) = n /\ DOMAIN Items = 1 .. n
      /\ \A k \in 1 .. n : Items[k] \in Editable
      /\ \A j, k \in 1 .. n : j < k => Items[j] < Items[k]
      /\ \A e \in Editable : \E k \in 1 .. n : Items[k] = e
  BY <1>1, SortedIs DEF Items
<1>3. \A j, k \in 1 .. n : Items[j] = Items[k] => j = k
  <2> SUFFICES ASSUME NEW j \in 1 .. n, NEW k \in 1 .. n, Items[j] = Items[k], j # k
               PROVE  FALSE
    OBVIOUS
  <2> DEFINE x == Items[j]
             y == Items[k]
  <2>1. j < k \/ k < j
    BY <1>2
  <2>2. x \in Nat /\ y \in Nat /\ (j < k => x < y) /\ (k < j => y < x) /\ x = y
    BY <1>1, <1>2
  <2> HIDE DEF x, y
  <2> QED BY <2>1, <2>2
<1>4. \A i \in Editable : ItemLine(c, i) \in FileLines
  <2> SUFFICES ASSUME NEW i \in Editable PROVE ItemLine(c, i) \in FileLines
    OBVIOUS
  <2> DEFINE data == RenderData(i, c.item[i])
  <2>1. i \in Item /\ data \in ItemData
    BY ConfigIs, EditableIs, RenderIs
  <2>2. ItemLine(c, i) = [id |-> i, data |-> data]
    BY DEF ItemLine
  <2> HIDE DEF data
  <2> QED BY <2>1, <2>2 DEF FileLines
<1>5. p \in FileLines
  <2> DEFINE text == IF c.name = Null THEN <<>> ELSE c.name
             data == [is |-> "text", of |-> text]
  <2>1. text \in Seq(Byte)
    <3>1. c.name \in Seq(Byte) \union {Null}
      BY ConfigIs
    <3> QED BY <3>1
  <2>2. p = [id |-> HEADER, data |-> data]
    BY DEF HeaderLine
  <2> HIDE DEF text, p
  <2>3. data \in TextData
    BY <2>1 DEF TextData
  <2> HIDE DEF data
  <2> QED BY <2>2, <2>3 DEF FileLines
<1>6. s \in [1 .. n -> FileLines] /\ \A k \in 1 .. n : s[k] = ItemLine(c, Items[k])
  BY <1>2, <1>4
<1>7. lines = << p >> \o s
  BY DEF Generate, Items
<1> HIDE DEF n, s, p, lines
<1>8. s \in Seq(FileLines) /\ Len(s) = n
  BY <1>2, <1>6, SeqIs
<1>9. Headed(lines, FileLines, p, s)
  BY <1>5, <1>7, <1>8, HeadedIs
<1>10. /\ lines \in Seq(FileLines) /\ Len(lines) = 1 + n /\ lines[1] = p
       /\ \A k \in 1 .. n : lines[1 + k] = s[k]
  BY <1>8, <1>9, Zenon DEF Headed
<1>11. \A k \in 1 .. n : Items[k] \in Editable /\ lines[1 + k] = ItemLine(c, Items[k])
  BY <1>2, <1>6, <1>10, Zenon
<1> QED BY <1>2, <1>3, <1>10, <1>11, Zenon DEF Filed, lines, p
-----------------------------------------------------------------------------
(* What is read back from a file.                                            *)

\* Binary data.
LEMMA ParsedBack ==
  ASSUME NEW v \in Seq(Byte), v # <<>>
  PROVE  CLOSE \in Range(RenderBinary(v)) /\ ParseBinary(RenderBinary(v)) = v
<1> DEFINE n == Len(v)
           t == RenderBinary(v)
           S(last) == { k \in 1 .. last : t[k] < SEPARATOR }
           f == [k \in 1 .. n |-> 2 * k - 1]
<1>1. n \in Nat /\ n > 0 /\ \A k \in 1 .. n : v[k] \in Byte
  OBVIOUS
<1>2. /\ t \in Seq(0 .. CLOSE) /\ Len(t) = 2 * n
      /\ \A k \in 1 .. 2 * n :
              t[k] = IF k = 2 * n THEN CLOSE ELSE IF k % 2 = 0 THEN SEPARATOR ELSE v[(k + 1) \div 2]
  BY RenderBinaryIs
<1>3. v = [k \in 1 .. n |-> v[k]]
  OBVIOUS
<1> HIDE DEF n, t
<1>4. t[2 * n] = CLOSE /\ \A k \in 1 .. 2 * n : k # 2 * n /\ k % 2 = 0 => t[k] = SEPARATOR
  BY <1>1, <1>2
<1>5. ASSUME NEW k \in 1 .. n PROVE 2 * k - 1 \in 1 .. 2 * n /\ t[2 * k - 1] = v[k]
  <2> DEFINE o == 2 * k - 1
  <2>1. o \in 1 .. 2 * n /\ o # 2 * n /\ o % 2 # 0 /\ (o + 1) \div 2 = k
    BY <1>1
  <2> HIDE DEF o
  <2>2. t[o] = v[k]
    BY <1>2, <2>1
  <2> QED BY <2>1, <2>2 DEF o
<1>6. ASSUME NEW k \in 1 .. 2 * n, k % 2 # 0 PROVE \E j \in 1 .. n : k = 2 * j - 1
  <2> DEFINE j == (k + 1) \div 2
  <2>1. j \in 1 .. n /\ k = 2 * j - 1
    BY <1>1, <1>6
  <2> QED BY <2>1
<1>7. /\ CLOSE \in Nat /\ SEPARATOR \in Nat /\ SEPARATOR < CLOSE
      /\ \A b \in Byte : b \in Nat /\ b < SEPARATOR
  BY SMT DEF CLOSE, SEPARATOR, Byte
<1>8. CLOSE \in Range(t)
  <2>1. 2 * n \in DOMAIN t
    BY <1>1, <1>2
  <2> QED BY <1>4, <2>1 DEF Range
<1>9. PICK last \in 1 .. Len(t) :
          /\ t[last] = CLOSE /\ \A k \in 1 .. last - 1 : t[k] # CLOSE
          /\ ParseBinary(t) = [k \in DOMAIN Sorted(S(last)) |-> t[Sorted(S(last))[k]]]
  BY <1>2, <1>8, ParseBinaryIs
<1>10. last = 2 * n
  <2>1. last \in Nat /\ last <= 2 * n
    BY <1>2
  <2>2. CASE last % 2 # 0
    <3>1. PICK j \in 1 .. n : last = 2 * j - 1
      BY <1>2, <1>6, <2>2
    <3>2. t[last] = v[j] /\ v[j] \in Byte
      BY <1>1, <1>5, <3>1
    <3> QED BY <1>7, <1>9, <3>2
  <2>3. CASE last % 2 = 0 /\ last # 2 * n
    <3>1. t[last] = SEPARATOR
      BY <1>2, <1>4, <2>3
    <3> QED BY <1>7, <1>9, <3>1
  <2> QED BY <2>2, <2>3
<1>11. \A k : k \in S(last) <=> k \in 1 .. 2 * n /\ k % 2 # 0
  <2> SUFFICES ASSUME NEW k \in 1 .. 2 * n PROVE t[k] < SEPARATOR <=> k % 2 # 0
    BY <1>10
  <2>1. CASE k % 2 # 0
    <3>1. PICK j \in 1 .. n : k = 2 * j - 1
      BY <1>6, <2>1
    <3>2. t[k] = v[j] /\ v[j] \in Byte
      BY <1>1, <1>5, <3>1
    <3>3. t[k] < SEPARATOR
      <4> DEFINE x == t[k]
      <4>1. x \in Byte
        BY <3>2
      <4> HIDE DEF x
      <4>2. x < SEPARATOR
        BY <1>7, <4>1
      <4> QED BY <4>2 DEF x
    <3> QED BY <2>1, <3>3
  <2>2. CASE k % 2 = 0
    <3>1. t[k] = SEPARATOR \/ t[k] = CLOSE
      BY <1>4, <2>2
    <3> QED BY <1>7, <2>2, <3>1
  <2> QED BY <2>1, <2>2
<1> DEFINE U == S(last)
<1>12. U \in SUBSET Nat /\ (\A x \in U : x <= 2 * n) /\ 2 * n \in Nat
  BY <1>1, <1>11
<1>13. f \in [1 .. n -> U]
  <2>1. \A k \in 1 .. n : 2 * k - 1 \in 1 .. 2 * n /\ (2 * k - 1) % 2 # 0
    BY <1>1
  <2>2. \A k \in 1 .. n : 2 * k - 1 \in U
    BY <1>11, <2>1
  <2> HIDE DEF U
  <2> QED BY <2>2
<1>14. \A e \in U : \E k \in 1 .. n : f[k] = e
  BY <1>6, <1>11
<1>15. \A j, k \in 1 .. n : j < k => f[j] < f[k]
  BY <1>1
<1>16. ParseBinary(t) = [k \in DOMAIN Sorted(U) |-> t[Sorted(U)[k]]]
  BY <1>9
<1>17. \A k \in 1 .. n : t[f[k]] = v[k]
  BY <1>5
<1>18. f = [k \in 1 .. n |-> f[k]]
  OBVIOUS
<1> HIDE DEF U, f
<1>19. Sorted(U) = f
  BY <1>1, <1>12, <1>13, <1>14, <1>15, SortedUnique
<1>20. DOMAIN f = 1 .. n
  BY <1>18
<1>21. ParseBinary(t) = [k \in 1 .. n |-> t[f[k]]]
  BY <1>16, <1>19, <1>20
<1>22. ParseBinary(t) = v
  BY <1>3, <1>17, <1>21
<1> QED BY <1>8, <1>22 DEF t

\* Binary data that are empty, or were never set.
LEMMA NothingBack == CLOSE \in Range(<<CLOSE>>) /\ ParseBinary(<<CLOSE>>) = <<>>
<1> DEFINE t == <<CLOSE>>
           U == 0 .. CLOSE
<1>1. CLOSE \in U
  BY SMT DEF CLOSE
<1> HIDE DEF U
<1>2. t \in Seq(U) /\ Len(t) = 1 /\ t[1] = CLOSE /\ 1 \in DOMAIN t
  BY <1>1
<1> HIDE DEF t
<1>3. CLOSE \in Range(t)
  BY <1>2 DEF Range
<1>4. PICK last \in 1 .. Len(t) :
         LET values == Sorted({ k \in 1 .. last : t[k] < SEPARATOR })
         IN  ParseBinary(t) = [k \in DOMAIN values |-> t[values[k]]]
  BY <1>2, <1>3, ParseBinaryIs DEF U
<1> DEFINE S == { k \in 1 .. last : t[k] < SEPARATOR }
           values == Sorted(S)
<1>5. \A k : k \notin S
  <2>1. ~(CLOSE < SEPARATOR)
    BY SMT DEF CLOSE, SEPARATOR
  <2>2. last = 1
    BY <1>2
  <2> QED BY <1>2, <2>1, <2>2
<1>6. S = {}
  BY <1>5
<1>7. ParseBinary(t) = [k \in DOMAIN values |-> t[values[k]]]
  BY <1>4
<1> HIDE DEF S
<1>8. DOMAIN values = 1 .. Cardinality(S)
  <2>1. S \in SUBSET Nat /\ (\A x \in S : x <= 0) /\ 0 \in Nat
    BY <1>6
  <2> QED BY <2>1, SortedIs
<1>9. Cardinality(S) = 0
  BY <1>6, FS_EmptySet
<1> HIDE DEF values
<1>10. ParseBinary(t) = <<>>
  <2>1. DOMAIN values = {}
    BY <1>8, <1>9
  <2> QED BY <1>7, <2>1
<1> QED BY <1>3, <1>10 DEF t

\* An item as it comes back.
Back(c, i, v) == \/ Type[i] = "utf8string"
                 \/ Type[i] \in Text /\ c.item[i] = Null
                 \/ Type[i] \in Text /\ QUOTE \in Range(c.item[i])
                 \/ Wanted(i, v) = Wanted(i, c.item[i])
SetTo(new, old, i, v) ==
    /\ new.ok /\ new.config.item[i] = v
    /\ \A j \in Item : j # i => new.config.item[j] = old.item[j]

\* An item is set, and the others stay.
LEMMA SetToIs ==
  ASSUME NEW old \in Configs, NEW i \in Item, NEW v \in Values(i),
         NEW new, new = [ok |-> TRUE, config |-> [old EXCEPT !.item[i] = v]]
  PROVE  SetTo(new, old, i, v)
<1> DEFINE made == [old EXCEPT !.item[i] = v]
           item == made.item
<1>1. item = [old.item EXCEPT ![i] = v]
  BY SetItem
<1>2. old.item = [j \in Item |-> old.item[j]]
  BY ConfigIs
<1>3. item[i] = v /\ \A j \in Item : j # i => item[j] = old.item[j]
  <2> DEFINE f == old.item
  <2> HIDE DEF f, item
  <2> QED BY <1>1, <1>2 DEF f
<1> HIDE DEF made
<1>4. new.ok /\ new.config = made
  BY DEF made
<1> QED BY <1>3, <1>4, Zenon DEF SetTo

\* The line of an item sets the item to what it was, but for the losses, and no other.
LEMMA LineBack ==
  ASSUME NEW c \in Configs, NEW i \in Editable, NEW parse \in Parsed, parse.ok,
         NEW new, new = ParseLine(parse, ItemLine(c, i))
  PROVE  /\ new.ok /\ \A j \in Item : j # i => new.config.item[j] = parse.config.item[j]
         /\ Back(c, i, new.config.item[i])
<1> DEFINE v == c.item[i]
           old == parse.config
           data == RenderData(i, v)
           line == ItemLine(c, i)
<1>1. i \in Item /\ i # HEADER /\ v \in Values(i) /\ old \in Configs
  <2>1. i \in Item
    BY EditableIs
  <2>2. i # HEADER
    BY <2>1, ItemIs DEF HEADER
  <2>3. old \in Configs
    BY DEF Parsed
  <2> QED BY <2>1, <2>2, <2>3, ConfigIs
<1>2. /\ data \in ItemData
      /\ Type[i] \in Text => data.is = "text" /\ data.of = IF v = Null THEN <<>> ELSE v
      /\ Type[i] \in Integral => data.is = "number" /\ data.of = v
      /\ Type[i] = "binary" => /\ data.is = "bytes"
                               /\ data.of = IF v \in {Null, <<>>} THEN <<CLOSE>>
                                            ELSE RenderBinary(v)
  BY <1>1, RenderIs
<1>3. line.id = i /\ line.data = data
  BY DEF ItemLine
<1>4. line \in FileLines
  BY <1>1, <1>2 DEF ItemLine, FileLines
<1> HIDE DEF line
<1>5. Type[i] \in Text \union Integral \union {"binary"}
  BY EditableIs
<1>6. CASE ~Matches(line)
  <2>1. new = parse
    BY <1>4, <1>6, ParseLineIs DEF line
  <2>2. data.is = "text" /\ QUOTE \in Range(data.of)
    BY <1>3, <1>6 DEF Matches
  <2>3. Type[i] \in Text
    <3>1. "text" # "number" /\ "text" # "bytes"
      OBVIOUS
    <3> QED BY <1>2, <1>5, <2>2, <3>1
  <2>4. v = Null \/ QUOTE \in Range(v)
    BY <1>2, <2>2, <2>3
  <2> QED BY <2>1, <2>3, <2>4 DEF Back
<1>7. CASE Matches(line)
  <2>1. new = ParseItem(old, i, data)
    BY <1>1, <1>3, <1>4, <1>7, ParseLineIs DEF line
  <2> HIDE DEF old, data, v
  <2>2. /\ Type[i] = "usbstring" /\ data.is = "text" =>
              new = [ok |-> TRUE, config |-> [old EXCEPT !.item[i] = data.of]]
        /\ Type[i] \in Integral /\ data.is = "number" /\ data.of \in Values(i) =>
              new = [ok |-> TRUE, config |-> [old EXCEPT !.item[i] = data.of]]
        /\ Type[i] = "binary" /\ data.is = "bytes" /\ CLOSE \in Range(data.of) =>
              new = [ok |-> TRUE, config |-> [old EXCEPT !.item[i] = ParseBinary(data.of)]]
        /\ Type[i] = "utf8string" => new = [ok |-> TRUE, config |-> old]
    BY <1>1, <1>2, <2>1, ParseItemIs
  <2>3. ASSUME NEW x \in Values(i), new = [ok |-> TRUE, config |-> [old EXCEPT !.item[i] = x]],
               Back(c, i, x)
        PROVE  /\ new.ok /\ \A j \in Item : j # i => new.config.item[j] = old.item[j]
               /\ Back(c, i, new.config.item[i])
    <3>1. SetTo(new, old, i, x)
      BY <1>1, <2>3, SetToIs
    <3> QED BY <2>3, <3>1 DEF SetTo
  <2>4. CASE Type[i] = "usbstring"
    <3>1. Type[i] \in Text /\ Values(i) = Seq(Byte) \union {Null}
      BY <1>1, <2>4, ValuesAre DEF Text
    <3>2. data.is = "text" /\ data.of = IF v = Null THEN <<>> ELSE v
      BY <1>2, <3>1
    <3>3. new = [ok |-> TRUE, config |-> [old EXCEPT !.item[i] = data.of]]
      BY <2>2, <2>4, <3>2
    <3>4. data.of \in Values(i)
      <4>1. <<>> \in Values(i)
        BY <3>1
      <4> QED BY <1>1, <3>2, <4>1
    <3>5. Back(c, i, data.of)
      BY <3>1, <3>2 DEF Back, v
    <3> QED BY <2>3, <3>3, <3>4, <3>5 DEF old
  <2>5. CASE Type[i] = "utf8string"
    <3>1. new = [ok |-> TRUE, config |-> old]
      BY <2>2, <2>5
    <3>2. new.ok /\ new.config = old
      BY <3>1
    <3> QED BY <2>5, <3>2 DEF Back, old
  <2>6. CASE Type[i] \in Integral
    <3>1. data.is = "number" /\ data.of = v
      BY <1>2, <2>6
    <3>2. new = [ok |-> TRUE, config |-> [old EXCEPT !.item[i] = v]]
      BY <1>1, <2>2, <2>6, <3>1
    <3>3. Back(c, i, v)
      BY DEF Back, v
    <3> QED BY <1>1, <2>3, <3>2, <3>3 DEF old
  <2>7. CASE Type[i] = "binary"
    <3>1. Values(i) = Seq(Byte) \union {Null}
      BY <1>1, <2>7, ValuesAre
    <3>2. data.is = "bytes" /\ data.of = IF v \in {Null, <<>>} THEN <<CLOSE>> ELSE RenderBinary(v)
      BY <1>2, <2>7
    <3> DEFINE x == ParseBinary(data.of)
    <3>3. CASE v \in {Null, <<>>}
      <4>1. CLOSE \in Range(data.of) /\ x = <<>>
        BY <3>2, <3>3, NothingBack
      <4>2. new = [ok |-> TRUE, config |-> [old EXCEPT !.item[i] = x]]
        BY <2>2, <2>7, <3>2, <4>1
      <4>3. x \in Values(i)
        BY <3>1, <4>1
      <4>4. \A y \in {Null, <<>>} : Wanted(i, y) = <<>>
        BY <2>7 DEF Wanted, GetBytes, Integral
      <4>5. Back(c, i, x)
        BY <3>3, <4>1, <4>4 DEF Back, v
      <4> HIDE DEF x
      <4> QED BY <2>3, <4>2, <4>3, <4>5 DEF old
    <3>4. CASE v \notin {Null, <<>>}
      <4>1. v \in Seq(Byte) /\ v # <<>> /\ data.of = RenderBinary(v)
        BY <1>1, <3>1, <3>2, <3>4
      <4>2. CLOSE \in Range(data.of) /\ x = v
        BY <4>1, ParsedBack
      <4>3. new = [ok |-> TRUE, config |-> [old EXCEPT !.item[i] = v]]
        BY <2>2, <2>7, <3>2, <4>2
      <4>4. Back(c, i, v)
        BY DEF Back, v
      <4> QED BY <1>1, <2>3, <4>3, <4>4 DEF old
    <3> QED BY <3>3, <3>4
  <2> QED BY <1>5, <2>4, <2>5, <2>6, <2>7 DEF Text
<1> QED BY <1>6, <1>7

\* A file of a configuration is read to its end.
LEMMA FileBack ==
  ASSUME NEW c \in Configs, NEW lines, lines = Generate(c)
  PROVE  /\ lines \in Seq(FileLines) /\ Parse(lines) \in Parsed /\ Parse(lines).ok
         /\ \A i \in Editable : Back(c, i, Parse(lines).config.item[i])
<1> DEFINE n == Len(Items)
           p(k) == Parsing(lines)[k]
           T == { k \in 0 .. n : /\ p(1 + k).ok
                                 /\ \A j \in 1 .. k :
                                      Back(c, Items[j], p(1 + k).config.item[Items[j]]) }
<1>1. /\ lines \in Seq(FileLines) /\ n \in Nat /\ Len(lines) = 1 + n
      /\ lines[1] = HeaderLine(c)
      /\ \A k \in 1 .. n : Items[k] \in Editable /\ lines[1 + k] = ItemLine(c, Items[k])
      /\ \A j, k \in 1 .. n : Items[j] = Items[k] => j = k
      /\ \A i \in Editable : \E k \in 1 .. n : Items[k] = i
  BY GenerateIs, Zenon DEF Filed
<1>2. /\ p(0) = [ok |-> TRUE, config |-> Create]
      /\ \A k \in 1 .. 1 + n : p(k) = ParseLine(p(k - 1), lines[k])
      /\ \A k \in 0 .. 1 + n : p(k) \in Parsed
  BY <1>1, ParsingIs
<1> HIDE DEF n, p
<1>3. p(1).ok
  <2>1. p(0).ok /\ p(0) \in Parsed
    BY <1>1, <1>2
  <2>2. p(1) = ParseLine(p(0), HeaderLine(c))
    <3>1. 1 \in 1 .. 1 + n /\ 1 - 1 = 0
      BY <1>1
    <3> QED BY <1>1, <1>2, <3>1
  <2>3. HeaderLine(c) \in FileLines /\ HeaderLine(c).id = HEADER
    <3>1. 1 \in 1 .. Len(lines)
      BY <1>1
    <3>2. lines[1] \in FileLines
      BY <1>1, <3>1
    <3> QED BY <1>1, <3>2 DEF HeaderLine
  <2>4. CASE Matches(HeaderLine(c))
    BY <2>1, <2>2, <2>3, <2>4, ParseLineIs
  <2>5. CASE ~Matches(HeaderLine(c))
    BY <2>1, <2>2, <2>3, <2>5, ParseLineIs
  <2> QED BY <2>4, <2>5
<1>4. 0 \in T
  BY <1>1, <1>3
<1>5. \A k \in 1 .. n : k - 1 \in T => k \in T
  <2> SUFFICES ASSUME NEW k \in 1 .. n, k - 1 \in T PROVE k \in T
    OBVIOUS
  <2> DEFINE i == Items[k]
             old == p(k)
             new == p(1 + k)
  <2>1. /\ old.ok /\ \A j \in 1 .. k - 1 : Back(c, Items[j], old.config.item[Items[j]])
    <3>1. 1 + (k - 1) = k
      BY <1>1
    <3> QED BY <3>1
  <2>2. old \in Parsed /\ i \in Editable /\ new = ParseLine(old, ItemLine(c, i))
    <3>1. k \in 0 .. 1 + n /\ 1 + k \in 1 .. 1 + n /\ (1 + k) - 1 = k
      BY <1>1
    <3> QED BY <1>1, <1>2, <3>1
  <2> HIDE DEF i, old, new
  <2>3. /\ new.ok /\ \A j \in Item : j # i => new.config.item[j] = old.config.item[j]
        /\ Back(c, i, new.config.item[i])
    BY <2>1, <2>2, LineBack
  <2>4. ASSUME NEW j \in 1 .. k PROVE Back(c, Items[j], new.config.item[Items[j]])
    <3>1. CASE j = k
      BY <2>3, <3>1 DEF i
    <3>2. CASE j # k
      <4>1. j \in 1 .. k - 1 /\ j \in 1 .. n
        BY <1>1, <3>2
      <4>2. Items[j] # i /\ Items[j] \in Item
        BY <1>1, <3>2, <4>1, EditableIs DEF i
      <4>3. new.config.item[Items[j]] = old.config.item[Items[j]]
        BY <2>3, <4>2
      <4> QED BY <2>1, <4>1, <4>3
    <3> QED BY <3>1, <3>2
  <2>5. k \in 0 .. n
    BY <1>1
  <2> QED BY <2>3, <2>4, <2>5 DEF new
<1>6. \A k \in 0 .. n : k \in T
  <2> HIDE DEF T
  <2> QED BY <1>1, <1>4, <1>5, InductTo
<1>7. p(1 + n).ok /\ \A j \in 1 .. n : Back(c, Items[j], p(1 + n).config.item[Items[j]])
  BY <1>1, <1>6
<1>8. Parse(lines) = p(1 + n) /\ Parse(lines) \in Parsed
  BY <1>1, ParseIs DEF p
<1> QED BY <1>1, <1>7, <1>8

\* So it is never refused.
LEMMA ReadsAll == ASSUME NEW c \in Configs PROVE Parse(Generate(c)).ok
BY FileBack

(* The firmware that is picked.                                              *)
LEMMA SmallestIs == ASSUME NEW V \in SUBSET Variant, V # {} PROVE Smallest(V) \in V
<1> DEFINE Sizes == { SpanSize(v) : v \in V }
<1>1. PICK m \in Sizes : \A y \in Sizes : m <= y
  <2>1. Sizes \in SUBSET Nat /\ Sizes # {}
    BY SpanAssumption
  <2> QED BY <2>1, Least
<1>2. \E v \in V : \A u \in V : SpanSize(v) <= SpanSize(u)
  BY <1>1
<1> QED BY <1>2 DEF Smallest

\* autoPickFirmwareIfRequired finds a firmware exactly if there is one.
LEMMA Picked == ASSUME NEW c
                PROVE  /\ AutoPick(c) = None <=> Supporting(c) = {}
                       /\ AutoPick(c) # None =>
                             GetRequires(c) \subseteq Supports[AutoPick(c)]
<1>1. Supporting(c) \in SUBSET Variant
  BY DEF Supporting
<1>2. CASE Supporting(c) = {}
  BY <1>2 DEF AutoPick
<1>3. CASE Supporting(c) # {}
  <2>1. AutoPick(c) \in Supporting(c)
    BY <1>1, <1>3, SmallestIs DEF AutoPick
  <2>2. AutoPick(c) \in Variant /\ GetRequires(c) \subseteq Supports[AutoPick(c)]
    BY <2>1 DEF Supporting
  <2> QED BY <1>3, <2>2, NoneAssumption
<1> QED BY <1>2, <1>3
-----------------------------------------------------------------------------
(* The inductive invariant.                                                  *)

\* A worker of which the dialog is open.  One that was cancelled touches neither the
\* flash memory nor what was promised, only the handle.
Active(w) == worker[w].pc # "none" /\ worker[w].cancelled = FALSE

\* Records have their fields, whatever is in them.
WorkerShape(r) == /\ r = [pc |-> r.pc, at |-> r.at, job |-> r.job, image |-> r.image,
                          cancelled |-> r.cancelled]
                  /\ r.cancelled \in BOOLEAN
                  /\ r.at \in Nat /\ r.at % BlockSize = 0
BoardShape(b) == b = [flash |-> b.flash, fw |-> b.fw, did |-> b.did, mode |-> b.mode]

Shapes == /\ worker = [w \in Worker |-> worker[w]]
          /\ \A w \in Worker : WorkerShape(worker[w])
          /\ BoardShape(board)
          /\ manual \in BOOLEAN
          /\ window \in {"closed", "main", "program"}

\* Only the worker of the open dialog is active, and none outlives the main window.
OneActive == \A w \in Worker : /\ Active(w) => dialog = w /\ window = "program"
                               /\ window = "closed" => worker[w].pc = "none"

\* A firmware that was not chosen by hand supports the configuration, if one does: in
\* the main window, ...
Supported(fw, c, byHand) ==
    byHand = FALSE /\ Supporting(c) # {} => GetRequires(c) \subseteq Supports[fw]
SelectedInv == window # "closed" => Supported(selected, config, manual)
\* ... in what an active worker was given ...
JobOf(job) == /\ job = [fw |-> job.fw, config |-> job.config, manual |-> job.manual]
              /\ Supported(job.fw, job.config, job.manual)
              /\ Encoded(job).ok
JobInv == \A w \in Worker : Active(w) => /\ JobOf(worker[w].job)
                                         /\ worker[w].image = Encoded(worker[w].job).image

\* The blocks of an image, and the memory they are written to.
Blocks(image) == BlocksFrom(image, 0)
Covered(image) == UNION { Span(b, BlockSize) : b \in Blocks(image) }
\* Up to n the flash memory holds the image, and it is erased where nothing was written.
Done(flash, image, n) ==
    \A a \in 0 .. CodeSize - 1 :
        flash[a] = IF a \in Covered(image) /\ a < n THEN image.byte[a] ELSE 255

\* How far an active worker has got: nothing is erased before the first block.
Progress(r, flash) ==
    /\ r.pc = "flash" /\ r.at # 0 => Done(flash, r.image, r.at)
    /\ r.pc = "written" => Done(flash, r.image, r.at + BlockSize)
    /\ r.pc \in {"settle", "finished"} => Done(flash, r.image, CodeSize)
FlashInv == \A w \in Worker : Active(w) => Progress(worker[w], board.flash)

\* What is sent to the board for a job: the image itself, or what the Teensy Loader
\* makes of a file of it.
Sent(job) == { Encoded(job).image,
               LoadIntelHex(LinesOf(Encoded(job).image)).image }
Holds(flash, image) ==
    \A a \in 0 .. CodeSize - 1 :
        /\ flash[a] \in {image.byte[a], 255}
        /\ a \in Covered(image) => flash[a] = image.byte[a]
Kept(p, flash) == /\ JobOf(p.job)
                  /\ \E image \in Sent(p.job) : /\ p = Promise(p.job, image)
                                                /\ Holds(flash, image)
PromiseInv == promise # None => Kept(promise, board.flash)

\* The board is halted, or started with what its flash memory holds.
Configured(b) ==
    IF b.mode = "usb" THEN [b EXCEPT !.mode = "running"]
    ELSE [b EXCEPT !.mode = "error_condition_3",
                   !.did = @ \o CustomGpioInit(Gpio(b.flash, b.fw), TRUE).did]
Started(flash) ==
    LET b == Boot(flash)
    IN  {b} \union (IF b.mode \in {"usb", "usb_gpio_error"} THEN {Configured(b)} ELSE {})
BoardInv == InBootloader \/ board \in Started(board.flash)

IInv == /\ Shapes /\ OneActive /\ SelectedInv /\ JobInv
        /\ FlashInv /\ PromiseInv /\ BoardInv
-----------------------------------------------------------------------------
(* The memory, block by block.                                               *)

\* An address at which a block begins is so many blocks from the first ...
LEMMA Multiple ==
  ASSUME NEW x \in Nat, x % BlockSize = 0 PROVE \E i \in Nat : x = BlockSize * i
<1> DEFINE q == x \div BlockSize
           r == x % BlockSize
<1>1. BlockSize \in Nat \ {0}
  BY SizeAssumption
<1>2. q \in Nat /\ r \in Nat /\ x = BlockSize * q + r
  BY <1>1
<1>3. r = 0
  OBVIOUS
<1> HIDE DEF q, r
<1>4. x = BlockSize * q
  BY <1>1, <1>2, <1>3
<1> QED BY <1>2, <1>4

\* ... and the next one that is, is a block away.
LEMMA BlockAfter ==
  ASSUME NEW x \in Nat, x % BlockSize = 0
  PROVE  /\ (x + BlockSize) % BlockSize = 0
         /\ \A y \in Nat : y % BlockSize = 0 /\ x < y => x + BlockSize <= y
<1>1. BlockSize \in Nat \ {0}
  BY SizeAssumption
<1>2. PICK i \in Nat : x = BlockSize * i
  BY Multiple
<1>3. (x + BlockSize) % BlockSize = 0
  <2>1. x + BlockSize = BlockSize * (i + 1)
    BY <1>1, <1>2
  <2>2. (BlockSize * (i + 1)) % BlockSize = 0
    BY <1>1, <1>2
  <2> QED BY <2>1, <2>2
<1>4. ASSUME NEW y \in Nat, y % BlockSize = 0, x < y PROVE x + BlockSize <= y
  <2>1. PICK j \in Nat : y = BlockSize * j
    BY <1>4, Multiple
  <2>2. i < j
    BY <1>1, <1>2, <1>4, <2>1
  <2>3. BlockSize * (i + 1) <= BlockSize * j
    BY <1>1, <2>2
  <2> QED BY <1>1, <1>2, <2>1, <2>3
<1> QED BY <1>3, <1>4

\* The blocks that are left are those that do not lie below.
LEMMA BlocksLeft ==
  ASSUME NEW image, NEW at \in Nat
  PROVE  /\ BlocksFrom(image, at) = { b \in Blocks(image) : b >= at }
         /\ \A b \in Blocks(image) : b \in Nat /\ b < CodeSize /\ b % BlockSize = 0
         /\ 0 \in Blocks(image)
<1>1. CodeSize \in Nat /\ CodeSize > 0 /\ BlockSize \in Nat \ {0}
  BY SizeAssumption
<1>2. 0 % BlockSize = 0
  BY <1>1
<1> DEFINE D(a) == HasData(image, a, BlockSize)
<1>3. \A n \in Nat : BlocksFrom(image, n) =
          { a \in n .. CodeSize - 1 : a % BlockSize = 0 /\ (a = 0 \/ D(a)) }
  BY DEF BlocksFrom
<1> HIDE DEF D
<1> QED BY <1>1, <1>2, <1>3 DEF Blocks

\* The block that is written next brings the memory up to its end.
LEMMA WrittenIs ==
  ASSUME NEW image, NEW flash, NEW at \in Nat, at % BlockSize = 0,
         BlocksFrom(image, at) # {}, at # 0 => Done(flash, image, at)
  PROVE  LET n == Min(BlocksFrom(image, at))
         IN  /\ n \in Nat /\ n % BlockSize = 0
             /\ Done(Written(flash, image, n), image, n + BlockSize)
<1> DEFINE n == Min(BlocksFrom(image, at))
           new == Written(flash, image, n)
<1>1. BlocksFrom(image, at) \in SUBSET Nat
  BY BlocksLeft
<1>2. n \in BlocksFrom(image, at) /\ \A b \in BlocksFrom(image, at) : n <= b
  BY <1>1, MinIs
<1> HIDE DEF n
<1>3. /\ n \in Nat /\ n % BlockSize = 0 /\ n \in Blocks(image) /\ n >= at
      /\ BlockSize \in Nat \ {0} /\ CodeSize \in Nat
  BY <1>2, BlocksLeft, SizeAssumption
<1>4. \A b \in Blocks(image) : b < n => b < at
  BY <1>2, <1>3, BlocksLeft
<1>5. \A a \in 0 .. CodeSize - 1 :
          new[a] = CASE a \in Span(n, BlockSize) -> image.byte[a]
                     [] a \notin Span(n, BlockSize) /\ n = 0 -> 255
                     [] OTHER -> flash[a]
  BY Zenon DEF Written
<1>6. ASSUME NEW a \in 0 .. CodeSize - 1
      PROVE  new[a] = IF a \in Covered(image) /\ a < n + BlockSize THEN image.byte[a] ELSE 255
  <2> HIDE DEF new
  <2>1. a \in Nat /\ (a \in Span(n, BlockSize) <=> n <= a /\ a < n + BlockSize)
    BY <1>3 DEF Span
  <2>2. CASE a \in Span(n, BlockSize)
    <3>1. new[a] = image.byte[a]
      BY <1>5, <2>2, Zenon
    <3>2. a \in Covered(image)
      BY <1>3, <2>2 DEF Covered
    <3> QED BY <2>1, <2>2, <3>1, <3>2
  <2>3. CASE a \notin Span(n, BlockSize) /\ n = 0
    <3>1. new[a] = 255
      BY <1>5, <2>3, Zenon
    <3> QED BY <2>1, <2>3, <3>1
  <2>4. CASE a \notin Span(n, BlockSize) /\ n # 0
    <3>1. new[a] = flash[a]
      BY <1>5, <2>4, Zenon
    <3>2. at # 0
      <4>1. CASE at = 0
        <5>1. 0 \in BlocksFrom(image, at)
          BY <4>1, BlocksLeft
        <5> QED BY <1>2, <1>3, <2>4, <5>1
      <4> QED BY <4>1
    <3>3. flash[a] = IF a \in Covered(image) /\ a < at THEN image.byte[a] ELSE 255
      BY <3>2 DEF Done
    <3>4. a < n + BlockSize /\ a \in Covered(image) => a < at
      <4> HAVE a < n + BlockSize /\ a \in Covered(image)
      <4>1. a < n
        BY <1>3, <2>1, <2>4
      <4>2. PICK b \in Blocks(image) : a \in Span(b, BlockSize)
        BY DEF Covered
      <4>3. b \in Nat /\ b % BlockSize = 0 /\ b <= a /\ a < b + BlockSize
        BY <1>3, <2>1, <4>2, BlocksLeft DEF Span
      <4>4. b < at
        BY <1>3, <1>4, <2>1, <4>1, <4>3
      <4>5. b + BlockSize <= at
        BY <4>3, <4>4, BlockAfter
      <4> QED BY <1>3, <2>1, <4>3, <4>5
    <3>5. a < at => a < n + BlockSize
      BY <1>3, <2>1
    <3> QED BY <3>1, <3>3, <3>4, <3>5
  <2> QED BY <2>2, <2>3, <2>4
<1> QED BY <1>3, <1>6 DEF Done, n

\* When no block is left all the memory holds the image.
LEMMA AllWritten ==
  ASSUME NEW image, NEW flash, NEW at \in Nat, at % BlockSize = 0,
         BlocksFrom(image, at) = {}, at # 0 => Done(flash, image, at)
  PROVE  Done(flash, image, CodeSize)
<1>1. at # 0
  BY BlocksLeft
<1>2. ASSUME NEW a \in 0 .. CodeSize - 1, a \in Covered(image) PROVE a < at
  <2>1. PICK b \in Blocks(image) : a \in Span(b, BlockSize)
    BY <1>2 DEF Covered
  <2>2. /\ b \in Nat /\ b % BlockSize = 0 /\ a \in Nat /\ a < b + BlockSize
        /\ BlockSize \in Nat \ {0}
    BY <2>1, BlocksLeft, SizeAssumption DEF Span
  <2>3. b < at
    BY <2>2, BlocksLeft
  <2>4. b + BlockSize <= at
    BY <2>2, <2>3, BlockAfter
  <2> QED BY <2>2, <2>4
<1>3. \A a \in 0 .. CodeSize - 1 : a < CodeSize
  BY SizeAssumption
<1> QED BY <1>1, <1>2, <1>3 DEF Done

\* When the last block is written, the flash memory holds the image.
LEMMA DoneHolds ==
  ASSUME NEW image, NEW flash, Done(flash, image, CodeSize) PROVE Holds(flash, image)
<1>1. \A a \in 0 .. CodeSize - 1 : a < CodeSize
  BY SizeAssumption
<1> QED BY <1>1 DEF Done, Holds
-----------------------------------------------------------------------------
(* The board.                                                                *)

\* A start leaves the flash memory as it is ...
LEMMA BootIs == ASSUME NEW flash PROVE Boot(flash).flash = flash /\ BoardShape(Boot(flash))
<1> DEFINE V == { v \in Variant : Intact(flash, v) }
           v == CHOOSE u \in V : TRUE
           run == CustomGpioInit(Gpio(flash, v), FALSE)
           b == [flash |-> flash, fw |-> None, did |-> <<>>, mode |-> "wild"]
           m == IF run.ok THEN "usb" ELSE "usb_gpio_error"
           did == run.did
<1>1. \/ Boot(flash) = b
      \/ Boot(flash) = [b EXCEPT !.fw = v, !.mode = "error_condition_2"]
      \/ Boot(flash) = [b EXCEPT !.fw = v, !.did = did, !.mode = m]
  BY Zenon DEF Boot
<1>2. b.flash = flash /\ BoardShape(b)
  BY DEF BoardShape
<1> HIDE DEF v, did, m, b
<1> QED BY <1>1, <1>2 DEF BoardShape

\* ... and so does what follows the wait for USB.
LEMMA ConfiguredIs ==
  ASSUME NEW b, BoardShape(b), b.mode \in {"usb", "usb_gpio_error"}
  PROVE  LET c == Configured(b)
         IN  c.flash = b.flash /\ BoardShape(c) /\ c.mode \notin {"usb", "usb_gpio_error"}
<1> DEFINE did == b.did \o CustomGpioInit(Gpio(b.flash, b.fw), TRUE).did
<1>1. \/ Configured(b) = [b EXCEPT !.mode = "running"]
      \/ Configured(b) = [b EXCEPT !.mode = "error_condition_3", !.did = did]
  BY Zenon DEF Configured
<1> HIDE DEF did
<1> QED BY <1>1 DEF BoardShape

\* What the board does by itself leaves its flash memory alone.
LEMMA BoardKeeps ==
  ASSUME Shapes, BoardInv,
         \/ UNCHANGED board \/ board' = Halted \/ board' = Boot(board.flash)
         \/ /\ board.mode \in {"usb", "usb_gpio_error"}
            /\ board' = Configured(board)
  PROVE  BoardShape(board') /\ BoardInv' /\ board'.flash = board.flash
<1>1. BoardShape(board)
  BY DEF Shapes
<1>2. CASE UNCHANGED board
  BY <1>1, <1>2 DEF BoardInv, InBootloader
<1>3. CASE board' = Halted
  BY <1>1, <1>3 DEF BoardInv, InBootloader, Halted, BoardShape
<1>4. CASE board' = Boot(board.flash)
  BY <1>4, BootIs DEF BoardInv, Started
<1>5. CASE board.mode \in {"usb", "usb_gpio_error"} /\ board' = Configured(board)
  <2>1. board = Boot(board.flash)
    <3>1. \/ board = Boot(board.flash)
          \/ /\ board = Configured(Boot(board.flash))
             /\ Boot(board.flash).mode \in {"usb", "usb_gpio_error"}
      BY <1>5 DEF BoardInv, InBootloader, Started
    <3>2. ASSUME board = Configured(Boot(board.flash)),
                 Boot(board.flash).mode \in {"usb", "usb_gpio_error"}
          PROVE  FALSE
      BY <1>5, <3>2, BootIs, ConfiguredIs
    <3> QED BY <3>1, <3>2
  <2>2. board'.flash = board.flash /\ BoardShape(board')
    BY <1>1, <1>5, ConfiguredIs
  <2>3. board' \in Started(board'.flash)
    BY <1>5, <2>1, <2>2 DEF Started
  <2> QED BY <2>2, <2>3 DEF BoardInv
<1> QED BY <1>2, <1>3, <1>4, <1>5
-----------------------------------------------------------------------------
(* Workers.                                                                  *)

\* A worker goes on.
LEMMA MoveKeeps ==
  ASSUME IInv, NEW w \in Worker, NEW r, worker[w].pc # "none",
         worker' = [worker EXCEPT ![w] = r], WorkerShape(r),
         r.cancelled = worker[w].cancelled, r.job = worker[w].job,
         r.image = worker[w].image, UNCHANGED <<gui, dialog>>,
         Active(w) => Progress(r, board'.flash),
         board'.flash = board.flash \/ Active(w),
         BoardShape(board'), BoardInv', PromiseInv'
  PROVE  IInv'
<1>1. /\ worker' = [u \in Worker |-> worker'[u]] /\ worker'[w] = r
      /\ \A u \in Worker : u # w => worker'[u] = worker[u]
  BY DEF IInv, Shapes
<1>2. \A u \in Worker : WorkerShape(worker'[u])
  BY <1>1 DEF IInv, Shapes
<1>3. UNCHANGED <<window, config, selected, manual, dialog>>
  BY DEF gui
<1>4. Shapes'
  BY <1>1, <1>2, <1>3 DEF IInv, Shapes
<1>5. \A u \in Worker : Active(u)' => Active(u)
  BY <1>1 DEF Active
<1>6. OneActive'
  <2>1. window # "closed"
    BY DEF IInv, OneActive
  <2> QED BY <1>3, <1>5, <2>1 DEF IInv, OneActive
<1>7. SelectedInv'
  BY <1>3 DEF IInv, SelectedInv, Supported
<1>8. JobInv'
  <2> SUFFICES ASSUME NEW u \in Worker, Active(u)'
               PROVE  JobOf(worker'[u].job) /\ worker'[u].image = Encoded(worker'[u].job).image
    BY DEF JobInv, JobOf, Supported
  <2>1. worker'[u].job = worker[u].job /\ worker'[u].image = worker[u].image
    BY <1>1
  <2> QED BY <1>5, <2>1 DEF IInv, JobInv
<1>9. FlashInv'
  <2> SUFFICES ASSUME NEW u \in Worker, Active(u)' PROVE Progress(worker'[u], board'.flash)
    BY DEF FlashInv
  <2>1. CASE u = w
    BY <1>1, <1>5, <2>1
  <2>2. CASE u # w
    <3>1. ~Active(w)
      BY <1>5, <2>2 DEF IInv, OneActive
    <3> QED BY <1>1, <1>5, <2>2, <3>1 DEF IInv, FlashInv
  <2> QED BY <2>1, <2>2
<1> QED BY <1>4, <1>6, <1>7, <1>8, <1>9 DEF IInv

\* A worker that is not running.
LEMMA IdleIs == /\ Idle.pc = "none" /\ WorkerShape(Idle)
BY SizeAssumption DEF Idle, WorkerShape

\* A worker ends, and its dialog with it.
LEMMA EndsKeeps ==
  ASSUME IInv, NEW w \in Worker, worker[w].pc # "none", Ends(w), UNCHANGED board, PromiseInv'
  PROVE  IInv'
<1>1. /\ worker' = [u \in Worker |-> worker'[u]] /\ worker'[w] = Idle
      /\ \A u \in Worker : u # w => worker'[u] = worker[u]
  BY DEF IInv, Shapes, Ends
<1>2. \A u \in Worker : WorkerShape(worker'[u])
  BY <1>1, IdleIs DEF IInv, Shapes
<1>3. /\ UNCHANGED <<config, selected, manual>>
      /\ window' = IF dialog = w THEN "main" ELSE window
      /\ dialog' = IF dialog = w THEN None ELSE dialog
      /\ window # "closed"
  BY DEF Ends, IInv, OneActive
<1>4. Shapes'
  BY <1>1, <1>2, <1>3 DEF IInv, Shapes
<1>5. \A u \in Worker : Active(u)' => Active(u) /\ u # w
  BY <1>1, IdleIs DEF Active
<1>6. OneActive'
  BY <1>3, <1>5 DEF IInv, OneActive
<1>7. SelectedInv'
  BY <1>3 DEF IInv, SelectedInv, Supported
<1>8. JobInv'
  <2> SUFFICES ASSUME NEW u \in Worker, Active(u)'
               PROVE  JobOf(worker'[u].job) /\ worker'[u].image = Encoded(worker'[u].job).image
    BY DEF JobInv, JobOf, Supported
  <2>1. worker'[u].job = worker[u].job /\ worker'[u].image = worker[u].image
    BY <1>1, <1>5
  <2> QED BY <1>5, <2>1 DEF IInv, JobInv
<1>9. FlashInv'
  BY <1>1, <1>5 DEF IInv, FlashInv
<1>10. BoardInv'
  BY DEF IInv, BoardInv, InBootloader
<1> QED BY <1>4, <1>6, <1>7, <1>8, <1>9, <1>10 DEF IInv

\* A record is the record of its fields.
LEMMA WorkerFields ==
  ASSUME NEW r, NEW D, D = {"pc", "at", "job", "image", "cancelled"}, r = [x \in D |-> r[x]]
  PROVE  r = [pc |-> r.pc, at |-> r.at, job |-> r.job, image |-> r.image,
              cancelled |-> r.cancelled]
OBVIOUS

\* A worker with another pc, and perhaps at another block.
Moved(r, s, pc, at) == /\ WorkerShape(r) /\ r.pc = pc /\ r.at = at
                       /\ r.cancelled = s.cancelled /\ r.job = s.job /\ r.image = s.image

\* A worker that goes on keeps its job.
LEMMA MovedIs ==
  ASSUME NEW s, WorkerShape(s), NEW pc, NEW at \in Nat, at % BlockSize = 0
  PROVE  /\ Moved([s EXCEPT !.pc = pc, !.at = at], s, pc, at)
         /\ Moved([s EXCEPT !.at = at, !.pc = pc], s, pc, at)
         /\ Moved([s EXCEPT !.pc = pc], s, pc, s.at)
<1> DEFINE r == [s EXCEPT !.pc = pc, !.at = at]
           q == [s EXCEPT !.at = at, !.pc = pc]
<1>1. Moved([s EXCEPT !.pc = pc], s, pc, s.at)
  BY DEF WorkerShape, Moved
<1>2. DOMAIN s = {"pc", "at", "job", "image", "cancelled"}
  BY DEF WorkerShape
<1>3. /\ r.pc = pc /\ r.at = at /\ r.cancelled = s.cancelled /\ r.job = s.job
      /\ r.image = s.image
  BY <1>2
<1>4. /\ q.pc = pc /\ q.at = at /\ q.cancelled = s.cancelled /\ q.job = s.job
      /\ q.image = s.image
  BY <1>2
<1>5. r = [x \in DOMAIN s |-> r[x]] /\ q = [x \in DOMAIN s |-> q[x]]
  BY <1>2
<1> HIDE DEF r, q
<1>6. /\ r = [pc |-> r.pc, at |-> r.at, job |-> r.job, image |-> r.image,
              cancelled |-> r.cancelled]
      /\ q = [pc |-> q.pc, at |-> q.at, job |-> q.job, image |-> q.image,
              cancelled |-> q.cancelled]
  BY <1>2, <1>5, WorkerFields
<1>7. Moved(r, s, pc, at) /\ Moved(q, s, pc, at)
  BY <1>3, <1>4, <1>5, <1>6 DEF WorkerShape, Moved
<1> QED BY <1>1, <1>7 DEF r, q

\* What was promised stays true while the flash memory stays as it is.
LEMMA PromiseKept == ASSUME PromiseInv, UNCHANGED promise, board'.flash = board.flash
                     PROVE  PromiseInv'
BY DEF PromiseInv, Kept, JobOf, Supported

\* A worker that goes on and leaves the flash memory, and what was promised of it, alone.
LEMMA GoesOn ==
  ASSUME IInv, NEW w \in Worker, NEW r, worker[w].pc # "none",
         worker' = [worker EXCEPT ![w] = r], Moved(r, worker[w], r.pc, r.at),
         UNCHANGED <<gui, dialog, board>>, PromiseInv',
         Active(w) => Progress(r, board.flash)
  PROVE  IInv'
<1>1. BoardShape(board') /\ BoardInv' /\ board'.flash = board.flash
  BY BoardKeeps DEF IInv
<1>2. Active(w) => Progress(r, board'.flash)
  BY <1>1
<1> QED BY <1>1, <1>2, MoveKeeps DEF Moved

\* A worker's steps, one by one.
LEMMA FindKeeps == ASSUME IInv, NEW w \in Worker, Find(w) PROVE IInv'
<1>1. worker[w].pc = "find" /\ UNCHANGED <<board, promise>>
  BY DEF Find
<1>2. PromiseInv'
  BY <1>1, PromiseKept DEF IInv
<1>3. CASE worker[w].cancelled
  BY <1>1, <1>2, <1>3, EndsKeeps DEF Find
<1>4. CASE ~worker[w].cancelled
  <2> DEFINE r == IF InBootloader THEN [worker[w] EXCEPT !.pc = "open"] ELSE worker[w]
  <2>1. WorkerShape(worker[w]) /\ worker = [u \in Worker |-> worker[u]]
    BY DEF IInv, Shapes
  <2>2. worker' = [worker EXCEPT ![w] = r] /\ UNCHANGED <<gui, dialog>>
    BY <1>4, <2>1 DEF Find, Unseen
  <2>3. Moved(r, worker[w], r.pc, r.at) /\ r.pc \in {"find", "open"}
    <3>1. Moved([worker[w] EXCEPT !.pc = "open"], worker[w], "open", worker[w].at)
      BY <2>1, MovedIs, SizeAssumption
    <3>2. Moved(worker[w], worker[w], "find", worker[w].at)
      BY <1>1, <2>1 DEF Moved
    <3> QED BY <3>1, <3>2 DEF Moved
  <2> HIDE DEF r
  <2>4. Progress(r, board.flash)
    BY <2>3 DEF Progress
  <2> QED BY <1>1, <1>2, <2>2, <2>3, <2>4, GoesOn
<1> QED BY <1>3, <1>4

LEMMA OpenKeeps == ASSUME IInv, NEW w \in Worker, Open(w) PROVE IInv'
<1>1. worker[w].pc = "open" /\ UNCHANGED <<board, promise>>
  BY DEF Open
<1>2. PromiseInv'
  BY <1>1, PromiseKept DEF IInv
<1>3. CASE ~InBootloader
  BY <1>1, <1>2, <1>3, EndsKeeps DEF Open
<1>4. CASE InBootloader
  <2> DEFINE r == [worker[w] EXCEPT !.pc = "flash", !.at = 0]
  <2>1. WorkerShape(worker[w])
    BY DEF IInv, Shapes
  <2>2. worker' = [worker EXCEPT ![w] = r] /\ UNCHANGED <<gui, dialog>>
    BY <1>4 DEF Open, Unseen
  <2>3. Moved(r, worker[w], "flash", 0)
    <3>1. 0 \in Nat /\ 0 % BlockSize = 0
      BY SizeAssumption
    <3> QED BY <2>1, <3>1, MovedIs
  <2> HIDE DEF r
  <2>4. Progress(r, board.flash) /\ Moved(r, worker[w], r.pc, r.at)
    BY <2>3 DEF Progress, Moved
  <2> QED BY <1>1, <1>2, <2>2, <2>4, GoesOn
<1> QED BY <1>3, <1>4

LEMMA WriteKeeps == ASSUME IInv, NEW w \in Worker, WriteBlock(w) PROVE IInv'
<1> DEFINE image == worker[w].image
           at == worker[w].at
           blocks == BlocksFrom(image, at)
           n == Min(blocks)
           flash == Written(board.flash, image, n)
           r == [worker[w] EXCEPT !.at = n, !.pc = "written"]
<1>1. /\ worker[w].pc = "flash" /\ ~worker[w].cancelled /\ blocks # {} /\ InBootloader
      /\ worker' = [worker EXCEPT ![w] = r] /\ board' = [board EXCEPT !.flash = flash]
      /\ promise' = None /\ UNCHANGED <<gui, dialog>>
  BY DEF WriteBlock, TeensyCanWrite, Unseen
<1>2. WorkerShape(worker[w]) /\ BoardShape(board)
  BY DEF IInv, Shapes
<1>3. Active(w) /\ at \in Nat /\ at % BlockSize = 0
  BY <1>1, <1>2 DEF Active, WorkerShape
<1>4. at # 0 => Done(board.flash, image, at)
  BY <1>1, <1>3 DEF IInv, FlashInv, Progress
<1>5. n \in Nat /\ n % BlockSize = 0 /\ Done(flash, image, n + BlockSize)
  BY <1>1, <1>3, <1>4, WrittenIs
<1>6. Moved(r, worker[w], "written", n)
  BY <1>2, <1>5, MovedIs
<1> HIDE DEF n, flash, r
<1>7. board'.flash = flash /\ BoardShape(board') /\ board'.mode = "bootloader"
  BY <1>1, <1>2 DEF BoardShape, InBootloader
<1>8. Progress(r, board'.flash)
  BY <1>5, <1>6, <1>7 DEF Progress, Moved
<1>9. PromiseInv' /\ BoardInv'
  BY <1>1, <1>7 DEF PromiseInv, BoardInv, InBootloader
<1> QED BY <1>1, <1>3, <1>6, <1>7, <1>8, <1>9, MoveKeeps DEF Moved

LEMMA WriteReturnsKeeps == ASSUME IInv, NEW w \in Worker, WriteReturns(w) PROVE IInv'
<1> DEFINE n == worker[w].at + BlockSize
           r == [worker[w] EXCEPT !.pc = "flash", !.at = n]
<1>1. /\ worker[w].pc = "written" /\ UNCHANGED <<gui, dialog, board, promise>>
      /\ worker' = [worker EXCEPT ![w] = r]
  BY DEF WriteReturns, Unseen
<1>2. WorkerShape(worker[w]) /\ n \in Nat /\ n % BlockSize = 0
  BY BlockAfter, SizeAssumption DEF IInv, Shapes, WorkerShape
<1>3. Moved(r, worker[w], "flash", n)
  BY <1>2, MovedIs
<1> HIDE DEF r
<1>4. Active(w) => Progress(r, board.flash)
  BY <1>1, <1>3 DEF IInv, FlashInv, Progress, Moved
<1>5. PromiseInv'
  BY <1>1, PromiseKept DEF IInv
<1> QED BY <1>1, <1>3, <1>4, <1>5, GoesOn DEF Moved

LEMMA AbandonKeeps == ASSUME IInv, NEW w \in Worker, Abandon(w) PROVE IInv'
<1>1. worker[w].pc # "none" /\ Ends(w) /\ UNCHANGED <<board, promise>>
  BY DEF Abandon, Leave
<1>2. PromiseInv'
  BY <1>1, PromiseKept DEF IInv
<1> QED BY <1>1, <1>2, EndsKeeps

LEMMA SettleKeeps == ASSUME IInv, NEW w \in Worker, Settle(w) PROVE IInv'
<1> DEFINE image == worker[w].image
           at == worker[w].at
           r == [worker[w] EXCEPT !.pc = "settle"]
<1>1. /\ worker[w].pc = "flash" /\ ~worker[w].cancelled /\ BlocksFrom(image, at) = {}
      /\ UNCHANGED <<gui, dialog, board, promise>> /\ worker' = [worker EXCEPT ![w] = r]
  BY DEF Settle, Go, Unseen
<1>2. WorkerShape(worker[w]) /\ Active(w) /\ at \in Nat /\ at % BlockSize = 0
  BY <1>1 DEF IInv, Shapes, WorkerShape, Active
<1>3. at # 0 => Done(board.flash, image, at)
  BY <1>1, <1>2 DEF IInv, FlashInv, Progress
<1>4. Done(board.flash, image, CodeSize)
  BY <1>1, <1>2, <1>3, AllWritten
<1>5. Moved(r, worker[w], "settle", at)
  BY <1>2, MovedIs
<1> HIDE DEF r
<1>6. Progress(r, board.flash)
  BY <1>4, <1>5 DEF Progress, Moved
<1>7. PromiseInv'
  BY <1>1, PromiseKept DEF IInv
<1> QED BY <1>1, <1>5, <1>6, <1>7, GoesOn DEF Moved

LEMMA RebootKeeps == ASSUME IInv, NEW w \in Worker, Reboot(w) PROVE IInv'
<1> DEFINE r == [worker[w] EXCEPT !.pc = "finished"]
<1>1. /\ worker[w].pc = "settle" /\ ~worker[w].cancelled /\ UNCHANGED <<gui, dialog, promise>>
      /\ worker' = [worker EXCEPT ![w] = r]
      /\ UNCHANGED board \/ board' = Boot(board.flash)
  BY DEF Reboot, Go, Unseen
<1>2. BoardShape(board') /\ BoardInv' /\ board'.flash = board.flash
  BY <1>1, BoardKeeps DEF IInv
<1>3. WorkerShape(worker[w]) /\ Active(w)
  BY <1>1 DEF IInv, Shapes, WorkerShape, Active
<1>4. Moved(r, worker[w], "finished", worker[w].at)
  BY <1>3, MovedIs, SizeAssumption
<1> HIDE DEF r
<1>5. Progress(r, board'.flash)
  BY <1>1, <1>2, <1>3, <1>4 DEF IInv, FlashInv, Progress, Moved
<1>6. PromiseInv'
  BY <1>1, <1>2, PromiseKept DEF IInv
<1> QED BY <1>1, <1>2, <1>4, <1>5, <1>6, MoveKeeps DEF Moved

LEMMA FinishKeeps == ASSUME IInv, NEW w \in Worker, Finish(w) PROVE IInv'
<1> DEFINE job == worker[w].job
           image == worker[w].image
           r == [worker[w] EXCEPT !.pc = "find"]
<1>1. worker[w].pc = "finished" /\ UNCHANGED board
  BY DEF Finish
<1>2. WorkerShape(worker[w])
  BY DEF IInv, Shapes
<1>3. PromiseInv'
  <2>1. CASE worker[w].cancelled
    BY <1>1, <2>1, PromiseKept DEF IInv, Finish
  <2>2. CASE ~worker[w].cancelled
    <3>1. Active(w) /\ promise' = Promise(job, image)
      BY <1>1, <1>2, <2>2 DEF Finish, Active, WorkerShape
    <3>2. JobOf(job) /\ image \in Sent(job)
      BY <3>1 DEF IInv, JobInv, Sent
    <3>3. Holds(board.flash, image)
      BY <1>1, <3>1, DoneHolds DEF IInv, FlashInv, Progress
    <3>4. promise'.job = job
      BY <3>1 DEF Promise
    <3>5. Kept(promise', board'.flash)
      BY <1>1, <3>1, <3>2, <3>3, <3>4 DEF Kept
    <3> QED BY <3>5 DEF PromiseInv, Kept, JobOf, Supported
  <2> QED BY <2>1, <2>2
<1>4. CASE Ends(w)
  BY <1>1, <1>3, <1>4, EndsKeeps
<1>5. CASE Go(w, "find") /\ Unseen
  <2>1. Moved(r, worker[w], "find", worker[w].at)
    BY <1>2, MovedIs, SizeAssumption
  <2>2. worker' = [worker EXCEPT ![w] = r] /\ UNCHANGED <<gui, dialog>>
    BY <1>5 DEF Go, Unseen
  <2> HIDE DEF r
  <2>3. Progress(r, board.flash)
    BY <2>1 DEF Progress, Moved
  <2> QED BY <1>1, <1>3, <2>1, <2>2, <2>3, GoesOn DEF Moved
<1> QED BY <1>4, <1>5 DEF Finish

\* All of them.
LEMMA WorkKeeps == ASSUME IInv, NEW w \in Worker, Work(w) PROVE IInv'
BY FindKeeps, OpenKeeps, WriteKeeps, WriteReturnsKeeps, AbandonKeeps, SettleKeeps,
   RebootKeeps, FinishKeeps DEF Work
-----------------------------------------------------------------------------
(* The user, and the board by itself.                                        *)

\* A step of the board, or of the user, that no active worker takes note of.
LEMMA OthersKeep ==
  ASSUME IInv, UNCHANGED promise, BoardShape(board'), BoardInv', board'.flash = board.flash,
         worker' = [w \in Worker |-> worker'[w]], \A w \in Worker : WorkerShape(worker'[w]),
         \A w \in Worker : Active(w)' => Active(w) /\ worker'[w] = worker[w],
         manual' \in BOOLEAN, window' \in {"closed", "main", "program"},
         OneActive', SelectedInv'
  PROVE  IInv'
<1>1. Shapes'
  BY DEF Shapes
<1>2. JobInv'
  BY DEF IInv, JobInv, JobOf, Supported
<1>3. FlashInv'
  <2> SUFFICES ASSUME NEW w \in Worker, Active(w)' PROVE Progress(worker'[w], board'.flash)
    BY DEF FlashInv
  <2> QED BY DEF IInv, FlashInv
<1>4. PromiseInv'
  BY PromiseKept DEF IInv
<1> QED BY <1>1, <1>2, <1>3, <1>4 DEF IInv

\* When the board, the workers and what was promised are left alone.
LEMMA UserKeeps ==
  ASSUME IInv, UNCHANGED <<promise, board, worker, dialog>>,
         \A w \in Worker : window = "main" => worker[w].pc = "none" \/ worker[w].cancelled = TRUE,
         window \in {"main", "closed"}, window' = "main",
         manual' \in BOOLEAN, Supported(selected', config', manual')
  PROVE  IInv'
<1>1. BoardShape(board') /\ BoardInv' /\ board'.flash = board.flash
  BY BoardKeeps DEF IInv
<1>2. \A w \in Worker : ~Active(w)'
  BY DEF IInv, OneActive, Active
<1>3. OneActive' /\ SelectedInv'
  BY <1>2 DEF OneActive, SelectedInv, Supported
<1>4. worker' = [w \in Worker |-> worker'[w]] /\ \A w \in Worker : WorkerShape(worker'[w])
  BY DEF IInv, Shapes
<1> QED BY <1>1, <1>2, <1>3, <1>4, OthersKeep

\* In the main window no worker is active.
LEMMA MainIsIdle ==
  ASSUME IInv, NEW w \in Worker, window = "main"
  PROVE  ~Active(w) /\ (worker[w].pc = "none" \/ worker[w].cancelled = TRUE)
BY DEF IInv, OneActive, Active, Shapes, WorkerShape

\* The user's steps, one by one.
LEMMA StartKeeps == ASSUME IInv, Start PROVE IInv'
<1>1. /\ window = "closed" /\ window' = "main" /\ manual' = FALSE
      /\ UNCHANGED <<promise, board, worker, dialog>>
      /\ selected' = IF AutoPick(config') # None THEN AutoPick(config') ELSE Smallest(Variant)
  BY DEF Start
<1>2. Supported(selected', config', manual')
  BY <1>1, Picked DEF Supported
<1> QED BY <1>1, <1>2, UserKeeps

LEMMA ChangedKeeps ==
  ASSUME IInv, NEW c, window = "main", Changed(c),
         UNCHANGED <<window, promise, board, worker, dialog>>
  PROVE  IInv'
<1>1. /\ config' = c
      /\ AutoPick(c) # None => selected' = AutoPick(c) /\ manual' = FALSE
      /\ AutoPick(c) = None => UNCHANGED <<selected, manual>>
  BY DEF Changed
<1>2. Supported(selected', config', manual')
  BY <1>1, Picked DEF Supported
<1>3. manual' \in BOOLEAN
  BY <1>1 DEF IInv, Shapes
<1> QED BY <1>2, <1>3, UserKeeps, MainIsIdle

LEMMA ChooseKeeps == ASSUME IInv, NEW v, ChooseFirmware(v) PROVE IInv'
<1>1. /\ window = "main" /\ manual' = TRUE
      /\ UNCHANGED <<window, promise, board, worker, dialog>>
  BY DEF ChooseFirmware
<1>2. Supported(selected', config', manual')
  BY <1>1 DEF Supported
<1> QED BY <1>1, <1>2, UserKeeps, MainIsIdle

LEMMA AutoselectKeeps == ASSUME IInv, Autoselect PROVE IInv'
<1>1. /\ window = "main" /\ manual' = FALSE
      /\ UNCHANGED <<window, config, promise, board, worker, dialog>>
      /\ AutoPick(config) # None => selected' = AutoPick(config)
  BY DEF Autoselect
<1>2. Supported(selected', config', manual')
  BY <1>1, Picked DEF Supported
<1> QED BY <1>1, <1>2, UserKeeps, MainIsIdle

LEMMA ExitKeeps == ASSUME IInv, Exit PROVE IInv'
<1>1. /\ window' = "closed" /\ worker' = [w \in Worker |-> Idle]
      /\ UNCHANGED <<manual, promise, board>>
  BY DEF Exit
<1>2. \A w \in Worker : worker'[w] = Idle /\ ~Active(w)'
  BY <1>1, IdleIs DEF Active
<1>3. OneActive' /\ SelectedInv'
  BY <1>1, <1>2, IdleIs DEF OneActive, SelectedInv
<1>4. BoardShape(board') /\ BoardInv' /\ board'.flash = board.flash
  BY <1>1, BoardKeeps DEF IInv
<1>5. manual' \in BOOLEAN /\ worker' = [w \in Worker |-> worker'[w]]
  BY <1>1 DEF IInv, Shapes
<1> QED BY <1>1, <1>2, <1>3, <1>4, <1>5, IdleIs, OthersKeep

LEMMA CloseKeeps == ASSUME IInv, CloseDialog PROVE IInv'
<1> DEFINE r == [worker[dialog] EXCEPT !.cancelled = TRUE, !.job = None, !.image = None]
<1>1. /\ window' = "main" /\ UNCHANGED <<config, selected, manual, promise, board>>
      /\ worker' = [worker EXCEPT ![dialog] = r]
  BY DEF CloseDialog
<1>2. /\ worker' = [w \in Worker |-> worker'[w]]
      /\ dialog \in Worker => worker'[dialog] = r
      /\ \A w \in Worker : w # dialog => worker'[w] = worker[w]
  BY <1>1 DEF IInv, Shapes
<1>3. dialog \in Worker => WorkerShape(r) /\ r.cancelled = TRUE
  <2> SUFFICES ASSUME NEW s, WorkerShape(s)
               PROVE  LET q == [s EXCEPT !.cancelled = TRUE, !.job = None, !.image = None]
                      IN  WorkerShape(q) /\ q.cancelled = TRUE
    BY Zenon DEF IInv, Shapes
  <2> DEFINE q == [s EXCEPT !.cancelled = TRUE, !.job = None, !.image = None]
  <2>1. DOMAIN s = {"pc", "at", "job", "image", "cancelled"}
    BY DEF WorkerShape
  <2>2. q.cancelled = TRUE /\ q.at = s.at /\ q = [x \in DOMAIN s |-> q[x]]
    BY <2>1
  <2> HIDE DEF q
  <2>3. q = [pc |-> q.pc, at |-> q.at, job |-> q.job, image |-> q.image,
             cancelled |-> q.cancelled]
    BY <2>1, <2>2, WorkerFields
  <2>4. WorkerShape(q)
    BY <2>2, <2>3 DEF WorkerShape
  <2> QED BY <2>2, <2>4 DEF q
<1> HIDE DEF r
<1>4. \A w \in Worker : WorkerShape(worker'[w])
  BY <1>2, <1>3 DEF IInv, Shapes
<1>5. \A w \in Worker : ~Active(w)'
  BY <1>2, <1>3 DEF IInv, OneActive, Active
<1>6. OneActive'
  BY <1>1, <1>5 DEF OneActive
<1>7. SelectedInv' /\ manual' \in BOOLEAN
  BY <1>1 DEF CloseDialog, IInv, SelectedInv, Shapes, Supported
<1>8. BoardShape(board') /\ BoardInv' /\ board'.flash = board.flash
  BY <1>1, BoardKeeps DEF IInv
<1> QED BY <1>1, <1>2, <1>4, <1>5, <1>6, <1>7, <1>8, OthersKeep

\* What the dialog, or the hex file, is given.
LEMMA SelectedJob ==
  ASSUME IInv, window = "main"
  PROVE  LET job == [fw |-> selected, config |-> config, manual |-> manual]
         IN  Encoded(job).ok => JobOf(job)
BY DEF IInv, SelectedInv, JobOf, Supported

LEMMA ProgramKeeps == ASSUME IInv, NEW w \in Worker, ProgramDevice(w) PROVE IInv'
<1> DEFINE job == [fw |-> selected, config |-> config, manual |-> manual]
           image == Encoded(job).image
           r == [Idle EXCEPT !.pc = "find", !.job = job, !.image = image]
<1>1. /\ window = "main" /\ Encoded(job).ok /\ window' = "program" /\ dialog' = w
      /\ worker' = [worker EXCEPT ![w] = r]
      /\ UNCHANGED <<config, selected, manual, board, promise>>
  BY DEF ProgramDevice
<1>2. JobOf(job)
  BY <1>1, SelectedJob
<1> HIDE DEF job, image
<1>3. WorkerShape(r) /\ r.pc = "find" /\ r.job = job /\ r.image = image
  <2>1. DOMAIN Idle = {"pc", "at", "job", "image", "cancelled"}
    BY DEF Idle
  <2>2. Idle.at \in Nat /\ Idle.at % BlockSize = 0 /\ Idle.cancelled \in BOOLEAN
    BY IdleIs DEF WorkerShape
  <2>3. /\ r.pc = "find" /\ r.job = job /\ r.image = image /\ r.at = Idle.at
        /\ r.cancelled = Idle.cancelled
    BY <2>1
  <2>4. r = [x \in DOMAIN Idle |-> r[x]]
    BY <2>1
  <2> HIDE DEF r
  <2>5. r = [pc |-> r.pc, at |-> r.at, job |-> r.job, image |-> r.image,
             cancelled |-> r.cancelled]
    BY <2>1, <2>4, WorkerFields
  <2>6. r.at \in Nat /\ r.at % BlockSize = 0 /\ r.cancelled \in BOOLEAN
    BY <2>2, <2>3
  <2>7. WorkerShape(r)
    BY <2>5, <2>6, Zenon DEF WorkerShape
  <2> QED BY <2>3, <2>7
<1> HIDE DEF r
<1>4. /\ worker' = [u \in Worker |-> worker'[u]] /\ worker'[w] = r
      /\ \A u \in Worker : u # w => worker'[u] = worker[u]
  BY <1>1 DEF IInv, Shapes
<1>5. \A u \in Worker : Active(u)' => u = w
  BY <1>1, <1>4, MainIsIdle DEF Active
<1>6. Shapes'
  BY <1>1, <1>3, <1>4 DEF IInv, Shapes
<1>7. OneActive' /\ SelectedInv'
  BY <1>1, <1>5 DEF IInv, OneActive, SelectedInv, Supported
<1>8. JobInv'
  <2> SUFFICES ASSUME NEW u \in Worker, Active(u)'
               PROVE  JobOf(worker'[u].job) /\ worker'[u].image = Encoded(worker'[u].job).image
    BY DEF JobInv, JobOf, Supported
  <2> QED BY <1>2, <1>3, <1>4, <1>5 DEF image
<1>9. FlashInv'
  <2> SUFFICES ASSUME NEW u \in Worker, Active(u)' PROVE Progress(worker'[u], board'.flash)
    BY DEF FlashInv
  <2> QED BY <1>3, <1>4, <1>5 DEF Progress
<1>10. BoardInv' /\ PromiseInv'
  BY <1>1, BoardKeeps, PromiseKept DEF IInv
<1> QED BY <1>6, <1>7, <1>8, <1>9, <1>10 DEF IInv

LEMMA HexFileKeeps == ASSUME IInv, GenerateHexFile PROVE IInv'
<1> DEFINE job == [fw |-> selected, config |-> config, manual |-> manual]
           load == LoadIntelHex(LinesOf(Encoded(job).image))
           image == load.image
           flash == [a \in 0 .. CodeSize - 1 |-> image.byte[a]]
<1>1. /\ window = "main" /\ Encoded(job).ok /\ board' = Boot(flash)
      /\ UNCHANGED <<gui, worker, dialog>>
      /\ promise' = IF load.ok THEN Promise(job, image) ELSE None
  BY LinesAre DEF GenerateHexFile
<1>2. JobOf(job) /\ image \in Sent(job)
  BY <1>1, SelectedJob DEF Sent
<1>3. Holds(flash, image)
  BY DEF Holds
<1>4. board'.flash = flash /\ BoardShape(board') /\ BoardInv'
  BY <1>1, BootIs DEF BoardInv, Started
<1>5. PromiseInv'
  <2> HIDE DEF job, flash, image, load
  <2>1. CASE promise' = None
    BY <2>1 DEF PromiseInv
  <2>2. CASE promise' = Promise(job, image)
    <3>1. promise'.job = job
      BY <2>2 DEF Promise
    <3>2. Kept(promise', board'.flash)
      BY <1>2, <1>3, <1>4, <2>2, <3>1 DEF Kept
    <3> QED BY <3>2 DEF PromiseInv, Kept, JobOf, Supported
  <2> QED BY <1>1, <2>1, <2>2
<1>6. UNCHANGED <<window, config, selected, manual>>
  BY <1>1 DEF gui
<1>7. \A w \in Worker : ~Active(w)'
  BY <1>1, MainIsIdle DEF Active
<1>8. Shapes' /\ OneActive' /\ SelectedInv'
  BY <1>1, <1>4, <1>6, <1>7 DEF IInv, Shapes, OneActive, SelectedInv, Supported
<1>9. JobInv' /\ FlashInv'
  BY <1>7 DEF JobInv, FlashInv
<1> QED BY <1>4, <1>5, <1>8, <1>9 DEF IInv

\* The board changes, or nothing does.
LEMMA BoardStepKeeps ==
  ASSUME IInv, UNCHANGED <<gui, worker, dialog, promise>>,
         \/ UNCHANGED board \/ board' = Halted \/ board' = Boot(board.flash)
         \/ /\ board.mode \in {"usb", "usb_gpio_error"}
            /\ board' = Configured(board)
  PROVE  IInv'
<1>1. BoardShape(board') /\ BoardInv' /\ board'.flash = board.flash
  BY BoardKeeps DEF IInv
<1>2. UNCHANGED <<window, config, selected, manual>>
  BY DEF gui
<1>3. \A w \in Worker : worker'[w] = worker[w] /\ (Active(w)' => Active(w))
  BY DEF Active
<1>4. OneActive' /\ SelectedInv'
  BY <1>2, <1>3 DEF IInv, OneActive, SelectedInv, Supported
<1>5. /\ worker' = [w \in Worker |-> worker'[w]] /\ \A w \in Worker : WorkerShape(worker'[w])
      /\ manual' \in BOOLEAN /\ window' \in {"closed", "main", "program"}
  BY <1>2 DEF IInv, Shapes
<1> QED BY <1>1, <1>3, <1>4, <1>5, OthersKeep

\* The invariant is inductive ...
LEMMA NextKeeps == IInv /\ [Next]_vars => IInv'
<1> SUFFICES ASSUME IInv, [Next]_vars PROVE IInv'
  OBVIOUS
<1>1. CASE User
  <2>1. CASE Start
    BY <2>1, StartKeeps
  <2>2. CASE Exit
    BY <2>2, ExitKeeps
  <2>3. CASE Autoselect
    BY <2>3, AutoselectKeeps
  <2>4. CASE GenerateHexFile
    BY <2>4, HexFileKeeps
  <2>5. CASE CloseDialog
    BY <2>5, CloseKeeps
  <2>6. CASE \E t \in Template : NewFromTemplate(t)
    BY <2>6, ChangedKeeps DEF NewFromTemplate
  <2>7. CASE \E e \in Edit : RawEdit(e)
    BY <2>7, ChangedKeeps DEF RawEdit
  <2>8. CASE \E v \in Variant : ChooseFirmware(v)
    BY <2>8, ChooseKeeps
  <2>9. CASE (\E w \in Worker : worker[w] = Idle) /\ ProgramDevice(Fresh)
    <3>1. Fresh \in Worker
      BY <2>9 DEF Fresh
    <3> QED BY <2>9, <3>1, ProgramKeeps
  <2> QED BY <1>1, <2>1, <2>2, <2>3, <2>4, <2>5, <2>6, <2>7, <2>8, <2>9 DEF User
<1>2. CASE UsbConfigured
  <2>1. board' = Configured(board)
    BY <1>2, Zenon DEF UsbConfigured, Configured
  <2>2. board.mode \in {"usb", "usb_gpio_error"} /\ UNCHANGED <<gui, worker, dialog, promise>>
    BY <1>2 DEF UsbConfigured
  <2> QED BY <2>1, <2>2, BoardStepKeeps
<1>3. CASE PressButton
  BY <1>3, BoardStepKeeps DEF PressButton
<1>4. CASE PowerCycle
  BY <1>4, BoardStepKeeps DEF PowerCycle
<1>5. CASE \E w \in Worker : Work(w)
  BY <1>5, WorkKeeps
<1>6. CASE UNCHANGED vars
  <2>1. UNCHANGED <<gui, worker, dialog, board, promise>>
    BY <1>6 DEF vars
  <2> QED BY <2>1, BoardStepKeeps
<1> QED BY <1>1, <1>2, <1>3, <1>4, <1>5, <1>6 DEF Next

\* ... and holds in the beginning ...
LEMMA InitHolds == Init => IInv
<1> SUFFICES ASSUME Init PROVE IInv
  OBVIOUS
<1>1. \A w \in Worker : worker[w] = Idle /\ ~Active(w)
  BY IdleIs DEF Init, Active
<1>2. PICK flash : board = Boot(flash)
  BY DEF Init
<1>3. BoardShape(board) /\ BoardInv
  BY <1>2, BootIs DEF BoardInv, Started
<1>4. Shapes
  BY <1>1, <1>3, IdleIs DEF Init, Shapes
<1>5. OneActive /\ SelectedInv /\ JobInv /\ FlashInv /\ PromiseInv
  BY <1>1, IdleIs DEF Init, OneActive, SelectedInv, JobInv, FlashInv, PromiseInv
<1> QED BY <1>3, <1>4, <1>5 DEF IInv

\* ... so it always holds.
LEMMA Invariant == Spec => []IInv
BY InitHolds, NextKeeps, PTL DEF Spec
-----------------------------------------------------------------------------
(* What the board was programmed with, if the user did not choose the firmware  *)
(* by hand, has what the configuration needs: autoPickFirmwareIfRequired at  *)
(* each change, and a worker that keeps what its dialog was given.           *)
THEOREM FirmwareIsSupported == Spec => []FirmwareSupports
<1>1. IInv => FirmwareSupports
  BY DEF IInv, PromiseInv, Kept, JobOf, Supported, FirmwareSupports
<1> QED BY <1>1, Invariant, PTL

(* While "Finished Successfully" stands, the flash memory holds the image that  *)
(* was encoded for that job, every block of it, or what the Teensy Loader makes *)
(* of its hex file, and is erased elsewhere: whatever was cancelled, unplugged  *)
(* or begun by another dialog in between (TeensyProgrammer.program).         *)
THEOREM FlashHoldsPromise == Spec => [](promise # None => Kept(promise, board.flash))
<1>1. IInv => (promise # None => Kept(promise, board.flash))
  BY DEF IInv, PromiseInv
<1> QED BY <1>1, Invariant, PTL

(* A board that is not in its boot loader has started with what its flash    *)
(* memory holds now: it is not programmed while it runs, and what it has gone *)
(* through since is no more than the wait for USB (main, usb_configured).    *)
THEOREM StartedFromFlash == Spec => [](InBootloader \/ board \in Started(board.flash))
<1>1. IInv => (InBootloader \/ board \in Started(board.flash))
  BY DEF IInv, BoardInv
<1> QED BY <1>1, Invariant, PTL
-----------------------------------------------------------------------------
(* What the data are: the second invariant, inductive under the first.       *)

Flash == [0 .. CodeSize - 1 -> Byte]
JobData(job) == job.fw \in Variant /\ job.config \in Configs
\* The file is of a configuration that is the one in use, or of which that was read;
\* if no firmware supports the one in use, it is not saved.
FileOf(f, c) ==
    f # None => \E saved \in Configs : /\ f = Generate(saved)
                                       /\ Supporting(c) # {} => c \in {saved, Parse(f).config}
DataInv ==
    /\ Variant # {}
    /\ config \in Configs /\ FileOf(file, config)
    /\ window # "closed" => selected \in Variant
    /\ \A w \in Worker : Active(w) => JobData(worker[w].job)
    /\ promise # None => JobData(promise.job)
    /\ board.flash \in Flash

\* A firmware is an image, whatever its hex file is ...
LEMMA FirmwareIs ==
  ASSUME NEW v \in Variant
  PROVE  Firmware(v) \in Images
<1>1. Resource[v] \in Seq(HexLines)
  BY InputAssumption
<1>2. LoadIntelHex(Resource[v]).image \in Images
  BY <1>1, LoadIntelHexIs
<1> QED BY <1>2, Zenon DEF Firmware, LoadFirmware

\* ... and so is one with a configuration ...
LEMMA JobImageIs ==
  ASSUME NEW job, JobData(job)
  PROVE  Encoded(job).image \in Images
BY FirmwareIs, EncodeIs DEF Encoded, JobData

\* ... and what either puts into the flash memory are bytes.
LEMMA FlashIs ==
  ASSUME NEW image \in Images
  PROVE  /\ [a \in 0 .. CodeSize - 1 |-> image.byte[a]] \in Flash
         /\ \A flash \in Flash : \A at : Written(flash, image, at) \in Flash
<1>1. \A a \in 0 .. CodeSize - 1 : a \in Address
  BY SizeAssumption, MemoryIs, AddressIs
<1>2. image.byte \in [Address -> Byte]
  BY MaskIs
<1>3. 255 \in Byte
  BY SMT DEF Byte
<1>4. \A a \in 0 .. CodeSize - 1 : image.byte[a] \in Byte
  BY <1>1, <1>2
<1>5. ASSUME NEW flash \in Flash, NEW at PROVE Written(flash, image, at) \in Flash
  <2> DEFINE v(a) == CASE a \in Span(at, BlockSize) -> image.byte[a]
                       [] a \notin Span(at, BlockSize) /\ at = 0 -> 255
                       [] OTHER -> flash[a]
  <2>1. \A a \in 0 .. CodeSize - 1 : flash[a] \in Byte
    BY Zenon DEF Flash
  <2>2. ASSUME NEW a \in 0 .. CodeSize - 1 PROVE v(a) \in Byte
    <3>1. v(a) \in {image.byte[a], 255, flash[a]}
      <4> DEFINE p == a \in Span(at, BlockSize)
                 q == a \notin Span(at, BlockSize) /\ at = 0
                 x == image.byte[a]
                 z == flash[a]
      <4>1. v(a) = CASE p -> x [] q -> 255 [] OTHER -> z
        OBVIOUS
      <4>2. p => ~q
        OBVIOUS
      <4> HIDE DEF v, p, q, x, z
      <4>3. v(a) = x \/ v(a) = 255 \/ v(a) = z
        BY <4>1, <4>2, Zenon
      <4> QED BY <4>3 DEF x, z
    <3> HIDE DEF v
    <3> QED BY <1>3, <1>4, <2>1, <3>1
  <2>3. Written(flash, image, at) = [a \in 0 .. CodeSize - 1 |-> v(a)]
    BY DEF Written
  <2> HIDE DEF v
  <2> QED BY <2>2, <2>3 DEF Flash
<1> QED BY <1>4, <1>5 DEF Flash

\* What a step of a worker may do to the data.
WorkStep(w) ==
    /\ worker[w].pc # "none" /\ UNCHANGED <<config, selected, file>>
    /\ \/ UNCHANGED worker
       \/ worker' = [worker EXCEPT ![w] = Idle]
       \/ \E r : /\ worker' = [worker EXCEPT ![w] = r] /\ r.job = worker[w].job
                 /\ r.cancelled = worker[w].cancelled
    /\ \/ UNCHANGED promise \/ promise' = None
       \/ Active(w) /\ promise' = Promise(worker[w].job, worker[w].image)
    /\ \/ board'.flash = board.flash
       \/ Active(w) /\ \E at : board'.flash = Written(board.flash, worker[w].image, at)

\* Each step of a worker is one.
LEMMA WorkStepIs == ASSUME IInv, NEW w \in Worker, Work(w) PROVE WorkStep(w)
<1>1. WorkerShape(worker[w]) /\ BoardShape(board)
  BY DEF IInv, Shapes
<1>2. Ends(w) => worker' = [worker EXCEPT ![w] = Idle] /\ UNCHANGED <<config, selected, file>>
  BY DEF Ends
<1>3. Unseen => UNCHANGED <<config, selected, file>>
  BY DEF Unseen, gui
<1>4. ASSUME NEW pc
      PROVE  LET r == [worker[w] EXCEPT !.pc = pc]
             IN  r.job = worker[w].job /\ r.cancelled = worker[w].cancelled
  BY <1>1 DEF WorkerShape
<1>5. ASSUME NEW pc, NEW at
      PROVE  LET r == [worker[w] EXCEPT !.pc = pc, !.at = at]
                 q == [worker[w] EXCEPT !.at = at, !.pc = pc]
             IN  /\ r.job = worker[w].job /\ r.cancelled = worker[w].cancelled
                 /\ q.job = worker[w].job /\ q.cancelled = worker[w].cancelled
  BY <1>1 DEF WorkerShape
<1>6. CASE Find(w)
  <2>1. worker[w].pc = "find" /\ UNCHANGED <<board, promise>>
    BY <1>6 DEF Find
  <2>2. CASE worker[w].cancelled
    <3>1. Ends(w)
      BY <1>6, <2>2 DEF Find
    <3> QED BY <1>2, <2>1, <3>1 DEF WorkStep
  <2>3. CASE ~worker[w].cancelled
    <3>1. /\ Unseen
          /\ \/ UNCHANGED worker
             \/ worker' = [worker EXCEPT ![w] = [worker[w] EXCEPT !.pc = "open"]]
      BY <1>6, <2>3 DEF Find
    <3> QED BY <1>3, <1>4, <2>1, <3>1 DEF WorkStep
  <2> QED BY <2>2, <2>3
<1>7. CASE Open(w)
  <2>1. worker[w].pc = "open" /\ UNCHANGED <<board, promise>>
    BY <1>7 DEF Open
  <2>2. CASE ~InBootloader
    <3>1. Ends(w)
      BY <1>7, <2>2 DEF Open
    <3> QED BY <1>2, <2>1, <3>1 DEF WorkStep
  <2>3. CASE InBootloader
    <3> DEFINE r == [worker[w] EXCEPT !.pc = "flash", !.at = 0]
    <3>1. Unseen /\ worker' = [worker EXCEPT ![w] = r]
      BY <1>7, <2>3 DEF Open
    <3>2. r.job = worker[w].job /\ r.cancelled = worker[w].cancelled
      BY <1>5
    <3> HIDE DEF r
    <3> QED BY <1>3, <2>1, <3>1, <3>2 DEF WorkStep
  <2> QED BY <2>2, <2>3
<1>8. CASE WriteBlock(w)
  <2> DEFINE n == Min(BlocksFrom(worker[w].image, worker[w].at))
             r == [worker[w] EXCEPT !.at = n, !.pc = "written"]
             flash == Written(board.flash, worker[w].image, n)
  <2>1. /\ worker[w].pc = "flash" /\ ~worker[w].cancelled /\ promise' = None /\ Unseen
        /\ worker' = [worker EXCEPT ![w] = r] /\ board' = [board EXCEPT !.flash = flash]
    BY <1>8 DEF WriteBlock
  <2>2. Active(w)
    BY <1>1, <2>1 DEF Active, WorkerShape
  <2>3. r.job = worker[w].job /\ r.cancelled = worker[w].cancelled
    BY <1>5
  <2>4. board'.flash = flash
    <3> HIDE DEF flash
    <3> QED BY <1>1, <2>1 DEF BoardShape
  <2> DEFINE at == n
  <2>5. board'.flash = Written(board.flash, worker[w].image, at)
    BY <2>4
  <2> HIDE DEF at, r
  <2>6. \E u : board'.flash = Written(board.flash, worker[w].image, u)
    BY <2>5
  <2> QED BY <1>3, <2>1, <2>2, <2>3, <2>6 DEF WorkStep
<1>9. CASE WriteReturns(w)
  <2> DEFINE r == [worker[w] EXCEPT !.pc = "flash", !.at = @ + BlockSize]
  <2>1. worker[w].pc = "written" /\ UNCHANGED <<board, promise>> /\ Unseen
        /\ worker' = [worker EXCEPT ![w] = r]
    BY <1>9 DEF WriteReturns
  <2>2. r.job = worker[w].job /\ r.cancelled = worker[w].cancelled
    BY <1>5
  <2> HIDE DEF r
  <2> QED BY <1>3, <2>1, <2>2 DEF WorkStep
<1>10. CASE Abandon(w)
  <2>1. worker[w].pc # "none" /\ Ends(w) /\ UNCHANGED <<board, promise>>
    BY <1>10 DEF Abandon, Leave
  <2> QED BY <1>2, <2>1 DEF WorkStep
<1>11. CASE Settle(w)
  <2> DEFINE r == [worker[w] EXCEPT !.pc = "settle"]
  <2>1. worker[w].pc = "flash" /\ UNCHANGED <<board, promise>> /\ Unseen
        /\ worker' = [worker EXCEPT ![w] = r]
    BY <1>11 DEF Settle, Go
  <2>2. r.job = worker[w].job /\ r.cancelled = worker[w].cancelled
    BY <1>4
  <2> HIDE DEF r
  <2> QED BY <1>3, <2>1, <2>2 DEF WorkStep
<1>12. CASE Reboot(w)
  <2> DEFINE r == [worker[w] EXCEPT !.pc = "finished"]
  <2>1. worker[w].pc = "settle" /\ UNCHANGED promise /\ Unseen
        /\ worker' = [worker EXCEPT ![w] = r] /\ (UNCHANGED board \/ board' = Boot(board.flash))
    BY <1>12 DEF Reboot, Go
  <2>2. r.job = worker[w].job /\ r.cancelled = worker[w].cancelled
    BY <1>4
  <2>3. board'.flash = board.flash
    BY <2>1, BootIs
  <2> HIDE DEF r
  <2> QED BY <1>3, <2>1, <2>2, <2>3 DEF WorkStep
<1>13. CASE Finish(w)
  <2> DEFINE r == [worker[w] EXCEPT !.pc = "find"]
  <2>1. worker[w].pc = "finished" /\ UNCHANGED board
    BY <1>13 DEF Finish
  <2>2. \/ UNCHANGED promise
        \/ Active(w) /\ promise' = Promise(worker[w].job, worker[w].image)
    <3>1. CASE worker[w].cancelled
      BY <1>13, <3>1, Zenon DEF Finish
    <3>2. CASE ~worker[w].cancelled
      <4>1. Active(w)
        BY <1>1, <2>1, <3>2 DEF Active, WorkerShape
      <4>2. promise' = Promise(worker[w].job, worker[w].image)
        BY <1>13, <3>2, Zenon DEF Finish
      <4> QED BY <4>1, <4>2
    <3> QED BY <3>1, <3>2
  <2>3. CASE Ends(w)
    BY <1>2, <2>1, <2>2, <2>3 DEF WorkStep
  <2>4. CASE Go(w, "find") /\ Unseen
    <3>1. worker' = [worker EXCEPT ![w] = r] /\ r.job = worker[w].job
          /\ r.cancelled = worker[w].cancelled
      BY <1>4, <2>4 DEF Go
    <3> HIDE DEF r
    <3> QED BY <1>3, <2>1, <2>2, <2>4, <3>1 DEF WorkStep
  <2> QED BY <1>13, <2>3, <2>4 DEF Finish
<1> QED BY <1>6, <1>7, <1>8, <1>9, <1>10, <1>11, <1>12, <1>13 DEF Work

\* So no worker spoils the data.
LEMMA WorkData == ASSUME IInv, DataInv, NEW w \in Worker, Work(w) PROVE DataInv'
<1>1. WorkStep(w)
  BY WorkStepIs
<1>2. UNCHANGED <<config, selected, file>> /\ worker[w].pc # "none"
  BY <1>1 DEF WorkStep
<1>3. window # "closed"
  BY <1>2 DEF IInv, OneActive
<1>4. worker = [u \in Worker |-> worker[u]]
  BY DEF IInv, Shapes
<1>5. ASSUME NEW u \in Worker, Active(u)' PROVE Active(u) /\ worker'[u].job = worker[u].job
  <2>1. CASE UNCHANGED worker
    BY <1>5, <2>1 DEF Active
  <2>2. CASE worker' = [worker EXCEPT ![w] = Idle]
    BY <1>4, <1>5, <2>2, IdleIs DEF Active
  <2>3. ASSUME NEW r, worker' = [worker EXCEPT ![w] = r], r.job = worker[w].job,
               r.cancelled = worker[w].cancelled
        PROVE  Active(u) /\ worker'[u].job = worker[u].job
    <3>1. worker'[u] = IF u = w THEN r ELSE worker[u]
      BY <1>4, <2>3
    <3> QED BY <1>2, <1>5, <2>3, <3>1 DEF Active
  <2> QED BY <1>1, <2>1, <2>2, <2>3 DEF WorkStep
<1>6. \A u \in Worker : Active(u)' => JobData(worker'[u].job)
  BY <1>5 DEF DataInv, JobData
<1>7. promise' # None => JobData(promise'.job)
  <2>1. CASE UNCHANGED promise
    BY <2>1 DEF DataInv, JobData
  <2>2. CASE promise' = None
    BY <2>2
  <2>3. CASE Active(w) /\ promise' = Promise(worker[w].job, worker[w].image)
    <3>1. promise'.job = worker[w].job
      BY <2>3 DEF Promise
    <3> QED BY <2>3, <3>1 DEF DataInv, JobData
  <2> QED BY <1>1, <2>1, <2>2, <2>3 DEF WorkStep
<1>8. board'.flash \in Flash
  <2>1. CASE board'.flash = board.flash
    BY <2>1 DEF DataInv
  <2>2. ASSUME Active(w), NEW at, board'.flash = Written(board.flash, worker[w].image, at)
        PROVE  board'.flash \in Flash
    <3>1. worker[w].image \in Images
      BY <2>2, JobImageIs DEF IInv, JobInv, DataInv
    <3> QED BY <2>2, <3>1, FlashIs DEF DataInv
  <2> QED BY <1>1, <2>1, <2>2 DEF WorkStep
<1>9. config' \in Configs /\ FileOf(file', config') /\ selected' \in Variant
  BY <1>2, <1>3 DEF DataInv
<1> QED BY <1>6, <1>7, <1>8, <1>9 DEF DataInv, JobData
-----------------------------------------------------------------------------
\* A firmware that is picked is one of those there are.
LEMMA PickedIs == ASSUME NEW c PROVE AutoPick(c) = None \/ AutoPick(c) \in Variant
<1>1. Supporting(c) \in SUBSET Variant
  BY DEF Supporting
<1> QED BY <1>1, SmallestIs DEF AutoPick

\* What the user does in the main window, or the board by itself.
LEMMA GuiData ==
  ASSUME IInv, DataInv, UNCHANGED promise, board'.flash = board.flash,
         config' \in Configs, FileOf(file', config'), window' # "closed" => selected' \in Variant,
         \A u \in Worker : Active(u)' => Active(u) /\ worker'[u].job = worker[u].job
  PROVE  DataInv'
BY DEF DataInv, JobData

\* An edit, from the configuration it makes to the file ...
LEMMA ChangedData ==
  ASSUME IInv, DataInv, NEW c \in Configs, window = "main", Changed(c),
         UNCHANGED <<window, worker, board, promise>>
  PROVE  DataInv'
<1>1. /\ config' = c
      /\ AutoPick(c) # None => selected' = AutoPick(c) /\ file' = Generate(c)
      /\ AutoPick(c) = None => UNCHANGED <<selected, file>>
  BY DEF Changed
<1>2. FileOf(file', config')
  <2>1. CASE AutoPick(c) # None
    BY <1>1, <2>1 DEF FileOf
  <2>2. CASE AutoPick(c) = None
    <3>1. Supporting(config') = {}
      BY <1>1, <2>2, Picked
    <3> QED BY <1>1, <2>2, <3>1 DEF DataInv, FileOf
  <2> QED BY <2>1, <2>2
<1>3. selected' \in Variant
  BY <1>1, PickedIs DEF DataInv
<1>4. \A u \in Worker : Active(u)' => Active(u) /\ worker'[u].job = worker[u].job
  BY DEF Active
<1> QED BY <1>1, <1>2, <1>3, <1>4, GuiData

\* ... which is read at the next start.
LEMMA StartData == ASSUME IInv, DataInv, Start PROVE DataInv'
<1> DEFINE parse == IF file = None THEN [ok |-> FALSE] ELSE Parse(file)
<1>1. /\ UNCHANGED <<file, promise, board, worker>>
      /\ config' = IF parse.ok THEN parse.config ELSE Create
      /\ selected' = IF AutoPick(config') # None THEN AutoPick(config') ELSE Smallest(Variant)
  BY DEF Start
<1>2. selected' \in Variant
  BY <1>1, PickedIs, SmallestIs DEF DataInv
<1>3. \A u \in Worker : Active(u)' => Active(u) /\ worker'[u].job = worker[u].job
  BY <1>1 DEF Active
<1>4. CASE file = None
  <2>1. config' = Create
    BY <1>1, <1>4
  <2>2. config' \in Configs /\ FileOf(file', config')
    BY <1>1, <1>4, <2>1, CreateIs DEF FileOf
  <2> QED BY <1>1, <1>2, <1>3, <2>2, GuiData
<1>5. CASE file # None
  <2>1. PICK saved \in Configs : file = Generate(saved)
    BY <1>5 DEF DataInv, FileOf
  <2>2. Parse(file) \in Parsed
    BY <2>1, GenerateIs, ParseIs DEF Filed
  <2>3. Parse(file).ok
    BY <2>1, ReadsAll
  <2>4. parse = Parse(file)
    BY <1>5
  <2> HIDE DEF parse
  <2>5. config' = Parse(file).config
    BY <1>1, <2>3, <2>4
  <2>6. config' \in Configs
    BY <2>2, <2>5 DEF Parsed
  <2>7. FileOf(file', config')
    BY <1>1, <2>1, <2>5 DEF FileOf
  <2> QED BY <1>1, <1>2, <1>3, <2>6, <2>7, GuiData
<1> QED BY <1>4, <1>5

\* A worker is given what is configured and selected.
LEMMA ProgramData == ASSUME IInv, DataInv, NEW w \in Worker, ProgramDevice(w) PROVE DataInv'
<1> DEFINE job == [fw |-> selected, config |-> config, manual |-> manual]
           image == Encoded(job).image
           r == [Idle EXCEPT !.pc = "find", !.job = job, !.image = image]
<1>1. /\ window = "main" /\ UNCHANGED <<config, selected, file, board, promise>>
      /\ worker' = [worker EXCEPT ![w] = r]
  BY DEF ProgramDevice
<1>2. JobData(job)
  BY <1>1 DEF DataInv, JobData
<1> HIDE DEF job, image
<1>3. r.job = job
  BY DEF Idle
<1> HIDE DEF r
<1>4. \A u \in Worker : u # w => worker'[u] = worker[u]
  BY <1>1 DEF IInv, Shapes
<1>5. worker'[w] = r
  BY <1>1 DEF IInv, Shapes
<1>6. \A u \in Worker : Active(u)' => JobData(worker'[u].job)
  BY <1>1, <1>2, <1>3, <1>4, <1>5, MainIsIdle DEF Active
<1>7. config' \in Configs /\ FileOf(file', config') /\ selected' \in Variant
  BY <1>1 DEF DataInv
<1> QED BY <1>1, <1>6, <1>7 DEF DataInv, JobData

\* The hex file, through the Teensy Loader.
LEMMA HexFileData == ASSUME IInv, DataInv, GenerateHexFile PROVE DataInv'
<1> DEFINE job == [fw |-> selected, config |-> config, manual |-> manual]
           load == LoadIntelHex(LinesOf(Encoded(job).image))
           image == load.image
           flash == [a \in 0 .. CodeSize - 1 |-> image.byte[a]]
<1>1. /\ window = "main" /\ board' = Boot(flash) /\ UNCHANGED <<gui, worker, dialog>>
      /\ promise' = IF load.ok THEN Promise(job, image) ELSE None
  BY LinesAre DEF GenerateHexFile
<1>2. JobData(job)
  BY <1>1 DEF DataInv, JobData
<1>3. Encoded(job).image \in Images
  BY <1>2, JobImageIs
<1>4. image \in Images
  <2> DEFINE e == Encoded(job).image
             lines == LinesOf(e)
  <2>1. e \in Images
    BY <1>3
  <2> HIDE DEF e
  <2>2. LoadIntelHex(lines).image \in Images
    BY <2>1, LinesRead
  <2> QED BY <2>2 DEF e
<1> HIDE DEF job, load
<1>5. flash \in Flash
  BY <1>4, FlashIs
<1> HIDE DEF image, flash
<1>6. board'.flash \in Flash
  BY <1>1, <1>5, BootIs
<1>7. promise' # None => JobData(promise'.job)
  BY <1>1, <1>2 DEF Promise
<1>8. UNCHANGED <<window, config, selected, file>>
  BY <1>1 DEF gui
<1>9. \A w \in Worker : Active(w)' => JobData(worker'[w].job)
  BY <1>1, MainIsIdle DEF Active
<1>10. /\ config' \in Configs /\ FileOf(file', config')
       /\ window' # "closed" => selected' \in Variant
  BY <1>8 DEF DataInv
<1> QED BY <1>6, <1>7, <1>9, <1>10 DEF DataInv, JobData

\* The second invariant is inductive, under the first ...
LEMMA NextData == IInv /\ DataInv /\ [Next]_vars => DataInv'
<1> SUFFICES ASSUME IInv, DataInv, [Next]_vars PROVE DataInv'
  OBVIOUS
<1>1. ASSUME UNCHANGED <<gui, worker, promise>>, board'.flash = board.flash PROVE DataInv'
  <2>1. UNCHANGED <<window, config, selected, file>>
    BY <1>1 DEF gui
  <2>2. /\ config' \in Configs /\ FileOf(file', config')
        /\ window' # "closed" => selected' \in Variant
    BY <2>1 DEF DataInv
  <2>3. \A u \in Worker : Active(u)' => Active(u) /\ worker'[u].job = worker[u].job
    BY <1>1 DEF Active
  <2> QED BY <1>1, <2>2, <2>3, GuiData
<1>2. CASE Start
  BY <1>2, StartData
<1>3. CASE Exit
  <2>1. /\ window' = "closed" /\ worker' = [w \in Worker |-> Idle]
        /\ UNCHANGED <<config, selected, file, board, promise>>
    BY <1>3 DEF Exit
  <2>2. \A u \in Worker : ~Active(u)'
    BY <2>1, IdleIs DEF Active
  <2>3. config' \in Configs /\ FileOf(file', config')
    BY <2>1 DEF DataInv
  <2> QED BY <2>1, <2>2, <2>3, GuiData
<1>4. CASE Autoselect
  <2>1. /\ window = "main" /\ UNCHANGED <<window, config, file, worker, board, promise>>
        /\ selected' = IF AutoPick(config) = None THEN selected ELSE AutoPick(config)
    BY <1>4 DEF Autoselect
  <2>2. selected' \in Variant
    BY <2>1, PickedIs DEF DataInv
  <2>3. config' \in Configs /\ FileOf(file', config')
    BY <2>1 DEF DataInv
  <2>4. \A u \in Worker : Active(u)' => Active(u) /\ worker'[u].job = worker[u].job
    BY <2>1 DEF Active
  <2> QED BY <2>1, <2>2, <2>3, <2>4, GuiData
<1>5. CASE GenerateHexFile
  BY <1>5, HexFileData
<1>6. CASE CloseDialog
  <2> DEFINE r == [worker[dialog] EXCEPT !.cancelled = TRUE, !.job = None, !.image = None]
  <2>1. /\ window = "program" /\ UNCHANGED <<config, selected, file, board, promise>>
        /\ worker' = [worker EXCEPT ![dialog] = r]
    BY <1>6 DEF CloseDialog
  <2>2. \A u \in Worker : ~Active(u)'
    <3> SUFFICES ASSUME NEW u \in Worker, Active(u)' PROVE FALSE
      OBVIOUS
    <3>1. WorkerShape(worker[u]) /\ worker = [x \in Worker |-> worker[x]]
      BY DEF IInv, Shapes
    <3>2. CASE u = dialog
      <4>1. worker'[u] = [worker[u] EXCEPT !.cancelled = TRUE, !.job = None, !.image = None]
        BY <2>1, <3>1, <3>2
      <4>2. DOMAIN worker[u] = {"pc", "at", "job", "image", "cancelled"}
        BY <3>1 DEF WorkerShape
      <4> DEFINE s == worker[u]
                 q == [s EXCEPT !.cancelled = TRUE, !.job = None, !.image = None]
      <4>3. q.cancelled = TRUE
        BY <4>2
      <4> QED BY <4>1, <4>3 DEF Active
    <3>3. CASE u # dialog
      <4>1. worker'[u] = worker[u]
        BY <2>1, <3>1, <3>3
      <4> QED BY <3>3, <4>1 DEF IInv, OneActive, Active
    <3> QED BY <3>2, <3>3
  <2>3. config' \in Configs /\ FileOf(file', config') /\ selected' \in Variant
    BY <2>1 DEF DataInv
  <2> QED BY <2>1, <2>2, <2>3, GuiData
<1>7. ASSUME NEW t \in Template, NewFromTemplate(t) PROVE DataInv'
  <2>1. Parse(t) \in Parsed
    BY InputAssumption, ParseIs
  <2>2. Parse(t).config \in Configs
    BY <2>1 DEF Parsed
  <2> QED BY <1>7, <2>2, ChangedData DEF NewFromTemplate
<1>8. ASSUME NEW e \in Edit, RawEdit(e) PROVE DataInv'
  <2>1. /\ window = "main" /\ UNCHANGED <<window, worker, board, promise>>
        /\ \/ \E n \in BOOLEAN : Changed(SaveForm(config, Edited(config, e, n)).config)
           \/ Changed(config)
    BY <1>8 DEF RawEdit
  <2>2. config \in Configs
    BY DEF DataInv
  <2>3. \A n \in BOOLEAN : SaveForm(config, Edited(config, e, n)).config \in Configs
    BY <2>2, EditedIs, SavedIs
  <2>4. PICK c \in Configs : Changed(c)
    BY <2>1, <2>2, <2>3
  <2> QED BY <2>1, <2>4, ChangedData
<1>9. ASSUME NEW v \in Variant, ChooseFirmware(v) PROVE DataInv'
  <2>1. selected' = v /\ UNCHANGED <<window, config, file, worker, board, promise>>
    BY <1>9 DEF ChooseFirmware
  <2>2. config' \in Configs /\ FileOf(file', config')
    BY <2>1 DEF DataInv
  <2>3. \A u \in Worker : Active(u)' => Active(u) /\ worker'[u].job = worker[u].job
    BY <2>1 DEF Active
  <2> QED BY <2>1, <2>2, <2>3, GuiData
<1>10. CASE (\E w \in Worker : worker[w] = Idle) /\ ProgramDevice(Fresh)
  <2>1. Fresh \in Worker
    BY <1>10 DEF Fresh
  <2> QED BY <1>10, <2>1, ProgramData
<1>11. CASE UsbConfigured
  <2>1. board' = Configured(board)
    BY <1>11, Zenon DEF UsbConfigured, Configured
  <2>2. board.mode \in {"usb", "usb_gpio_error"} /\ UNCHANGED <<gui, worker, promise>>
    BY <1>11 DEF UsbConfigured
  <2>3. board'.flash = board.flash
    BY <2>1, <2>2, ConfiguredIs DEF IInv, Shapes
  <2> QED BY <1>1, <2>2, <2>3
<1>12. CASE PressButton
  <2>1. UNCHANGED <<gui, worker, promise>> /\ board' = Halted
    BY <1>12 DEF PressButton
  <2>2. board'.flash = board.flash
    BY <2>1 DEF Halted, IInv, Shapes, BoardShape
  <2> QED BY <1>1, <2>1, <2>2
<1>13. CASE PowerCycle
  <2>1. UNCHANGED <<gui, worker, promise>> /\ board' = Boot(board.flash)
    BY <1>13 DEF PowerCycle
  <2> QED BY <1>1, <2>1, BootIs
<1>14. CASE \E w \in Worker : Work(w)
  BY <1>14, WorkData
<1>15. CASE UNCHANGED vars
  <2>1. UNCHANGED <<gui, worker, promise, board>>
    BY <1>15 DEF vars
  <2> QED BY <1>1, <2>1
<1> QED BY <1>2, <1>3, <1>4, <1>5, <1>6, <1>7, <1>8, <1>9, <1>10, <1>11, <1>12, <1>13, <1>14,
           <1>15 DEF Next, User

\* ... and holds in the beginning ...
LEMMA InitData == Init => DataInv
<1> SUFFICES ASSUME Init PROVE DataInv
  OBVIOUS
<1>1. \A w \in Worker : ~Active(w)
  BY IdleIs DEF Init, Active
<1>2. PICK v \in Variant : board = Boot([a \in 0 .. CodeSize - 1 |-> Firmware(v).byte[a]])
  BY DEF Init
<1> DEFINE image == Firmware(v)
           flash == [a \in 0 .. CodeSize - 1 |-> image.byte[a]]
<1>3. image \in Images
  BY FirmwareIs
<1> HIDE DEF image
<1>4. flash \in Flash
  BY <1>3, FlashIs
<1>5. board = Boot(flash)
  BY <1>2 DEF image
<1> HIDE DEF flash
<1>6. board.flash \in Flash
  BY <1>4, <1>5, BootIs
<1>7. config \in Configs /\ FileOf(file, config)
  BY CreateIs DEF Init, FileOf
<1> QED BY <1>1, <1>2, <1>6, <1>7 DEF Init, DataInv

\* ... so both always hold.
LEMMA Data == Spec => [](IInv /\ DataInv)
BY InitHolds, NextKeeps, InitData, NextData, PTL DEF Spec
-----------------------------------------------------------------------------
(* The board: what it reads of its flash memory, and what it does to its pins. *)

\* A byte of the flash memory, or of what follows it.
LEMMA ReadByteIs ==
  ASSUME NEW flash \in Flash, NEW a
  PROVE  /\ ReadByte(flash, a) \in Byte
         /\ a \in 0 .. CodeSize - 1 => ReadByte(flash, a) = flash[a]
<1>1. DOMAIN flash = 0 .. CodeSize - 1
  BY DEF Flash
<1>2. a \in DOMAIN flash => flash[a] \in Byte
  BY DEF Flash
<1>3. 255 \in Byte
  BY SMT DEF Byte
<1> QED BY <1>1, <1>2, <1>3 DEF ReadByte

\* The string for the pins, whatever the flash memory holds.
LEMMA GpioIs ==
  ASSUME NEW flash \in Flash, NEW v
  PROVE  Gpio(flash, v) \in Seq(Byte)
<1> DEFINE n == GetLength8(flash, Root(v), GpioItem)
           f(k) == ReadByte(flash, GetAddress(flash, Root(v), GpioItem) + k - 1)
<1>1. Gpio(flash, v) = [k \in 1 .. n |-> f(k)]
  BY InputAssumption DEF Gpio, ReadItem
<1>2. n \in Nat
  <2>1. n \in Byte
    BY ReadByteIs DEF GetLength8
  <2> QED BY <2>1, ByteIs
<1>3. \A k \in 1 .. n : f(k) \in Byte
  BY ReadByteIs
<1> HIDE DEF n, f
<1>4. [k \in 1 .. n |-> f(k)] \in [1 .. n -> Byte]
  BY <1>3
<1> QED BY <1>1, <1>2, <1>4, SeqIs

\* What a run of it does.
LEMMA DidIs ==
  ASSUME NEW str \in Seq(Byte)
  PROVE  CustomGpioInit(str, FALSE).did \in Seq(Deeds)
<1> DEFINE n == Len(str)
           run == GpioRun(str, FALSE)[n]
<1>1. n \in 0 .. n /\ FALSE \in BOOLEAN
  OBVIOUS
<1>2. CustomGpioInit(str, FALSE) = run /\ run \in GpioState
  BY <1>1, GpioRunIs
<1> HIDE DEF run
<1> QED BY <1>2 DEF GpioState

\* How the board starts.
LEMMA BootCases ==
  ASSUME NEW flash, NEW b, b = Boot(flash)
  PROVE  /\ b.flash = flash
         /\ \/ b.mode = "wild" /\ \A v \in Variant : ~Intact(flash, v)
            \/ \E v \in Variant :
                 /\ Intact(flash, v) /\ b.fw = v
                 /\ \/ b.mode = "error_condition_2" /\ ~ExtDataInit(flash, Root(v))
                    \/ LET run == CustomGpioInit(Gpio(flash, v), FALSE)
                       IN  /\ ExtDataInit(flash, Root(v)) /\ b.did = run.did
                           /\ b.mode = IF run.ok THEN "usb" ELSE "usb_gpio_error"
<1> DEFINE V == { u \in Variant : Intact(flash, u) }
           v == CHOOSE u \in V : TRUE
           run == CustomGpioInit(Gpio(flash, v), FALSE)
           start == [flash |-> flash, fw |-> None, did |-> <<>>, mode |-> "wild"]
           mode == IF run.ok THEN "usb" ELSE "usb_gpio_error"
           did == run.did
           stop == [start EXCEPT !.fw = v, !.mode = "error_condition_2"]
           go == [start EXCEPT !.fw = v, !.did = did, !.mode = mode]
           init == ExtDataInit(flash, Root(v))
<1>1. b = CASE V = {} -> start [] V # {} /\ ~init -> stop [] OTHER -> go
  BY DEF Boot
<1>2. start.flash = flash /\ start.mode = "wild"
  OBVIOUS
<1>3. stop.flash = flash /\ stop.mode = "error_condition_2" /\ stop.fw = v
  <2> HIDE DEF v
  <2> QED OBVIOUS
<1>4. go.flash = flash /\ go.fw = v /\ go.did = did /\ go.mode = mode
  <2> HIDE DEF v, did, mode
  <2> QED OBVIOUS
<1>5. V # {} => v \in Variant /\ Intact(flash, v)
  <2>1. \E u : u \in V => TRUE
    OBVIOUS
  <2>2. V # {} => v \in V
    OBVIOUS
  <2>3. \A u : u \in V <=> u \in Variant /\ Intact(flash, u)
    OBVIOUS
  <2> HIDE DEF V, v
  <2> QED BY <2>2, <2>3, Zenon
<1>6. V = {} => \A u \in Variant : ~Intact(flash, u)
  OBVIOUS
<1> HIDE DEF V, v, start, mode, did, stop, go, init
<1>7. CASE V = {}
  <2>1. b = start
    BY <1>1, <1>7, Zenon
  <2> QED BY <1>2, <1>6, <1>7, <2>1
<1>8. CASE V # {} /\ ~init
  <2>1. b = stop
    BY <1>1, <1>8, Zenon
  <2>2. b.flash = flash /\ v \in Variant /\ Intact(flash, v) /\ b.fw = v
        /\ b.mode = "error_condition_2" /\ ~ExtDataInit(flash, Root(v))
    BY <1>3, <1>5, <1>8, <2>1, Zenon DEF init
  <2> QED BY <2>2, Zenon
<1>9. CASE V # {} /\ init
  <2>1. b = go
    BY <1>1, <1>9, Zenon
  <2>2. b.flash = flash /\ v \in Variant /\ Intact(flash, v) /\ b.fw = v
        /\ ExtDataInit(flash, Root(v)) /\ b.did = did /\ b.mode = mode
    BY <1>4, <1>5, <1>9, <2>1, Zenon DEF init
  <2> QED BY <2>2, Zenon DEF did, mode
<1> QED BY <1>7, <1>8, <1>9, Zenon

\* The board after the wait for USB.
LEMMA ConfiguredMode ==
  ASSUME NEW b, BoardShape(b), b.mode \in {"usb", "usb_gpio_error"}, NEW c, c = Configured(b)
  PROVE  /\ c.flash = b.flash /\ c.fw = b.fw
         /\ b.mode = "usb" => c.mode = "running" /\ c.did = b.did
         /\ b.mode # "usb" =>
              /\ c.mode = "error_condition_3"
              /\ c.did = b.did \o CustomGpioInit(Gpio(b.flash, b.fw), TRUE).did
<1> DEFINE did == b.did \o CustomGpioInit(Gpio(b.flash, b.fw), TRUE).did
<1>1. CASE b.mode = "usb"
  <2>1. c = [b EXCEPT !.mode = "running"]
    BY <1>1, Zenon DEF Configured
  <2> QED BY <1>1, <2>1 DEF BoardShape
<1>2. CASE b.mode # "usb"
  <2>1. c = [b EXCEPT !.mode = "error_condition_3", !.did = did]
    BY <1>2, Zenon DEF Configured
  <2> HIDE DEF did
  <2>2. c.flash = b.flash /\ c.fw = b.fw /\ c.mode = "error_condition_3" /\ c.did = did
    BY <2>1 DEF BoardShape
  <2> QED BY <1>2, <2>2, Zenon DEF did
<1> QED BY <1>1, <1>2

\* A board that has got as far as the pins: what it did to them, and how it goes on.
PinsDone(b) ==
    /\ b.fw \in Variant /\ Intact(b.flash, b.fw)
    /\ b.did = StringMeaning(Gpio(b.flash, b.fw))
    /\ IF ValidString(Gpio(b.flash, b.fw)) THEN b.mode \in {"usb", "running"}
       ELSE b.mode \in {"usb_gpio_error", "error_condition_3"}

\* A board is in its boot loader, has no firmware in full, has one that is not configured, or has
\* got as far as the pins.
LEMMA BoardIs ==
  ASSUME IInv, DataInv
  PROVE  \/ InBootloader
         \/ board.mode = "wild" /\ \A v \in Variant : ~Intact(board.flash, v)
         \/ /\ board.mode = "error_condition_2"
            /\ \E v \in Variant : Intact(board.flash, v) /\ ~ExtDataInit(board.flash, Root(v))
         \/ PinsDone(board)
<1> SUFFICES ASSUME ~InBootloader
             PROVE  \/ board.mode = "wild" /\ \A v \in Variant : ~Intact(board.flash, v)
                    \/ /\ board.mode = "error_condition_2"
                       /\ \E v \in Variant : Intact(board.flash, v)
                                             /\ ~ExtDataInit(board.flash, Root(v))
                    \/ PinsDone(board)
  OBVIOUS
<1> DEFINE flash == board.flash
           b == Boot(flash)
<1>1. \/ board = b
      \/ board = Configured(b) /\ b.mode \in {"usb", "usb_gpio_error"}
  BY DEF IInv, BoardInv, Started
<1>2. flash \in Flash /\ BoardShape(b)
  BY BootIs DEF DataInv
<1> HIDE DEF flash
<1>3. /\ b.flash = flash
      /\ \/ b.mode = "wild" /\ \A v \in Variant : ~Intact(flash, v)
         \/ \E v \in Variant :
              /\ Intact(flash, v) /\ b.fw = v
              /\ \/ b.mode = "error_condition_2" /\ ~ExtDataInit(flash, Root(v))
                 \/ LET run == CustomGpioInit(Gpio(flash, v), FALSE)
                    IN  /\ ExtDataInit(flash, Root(v)) /\ b.did = run.did
                        /\ b.mode = IF run.ok THEN "usb" ELSE "usb_gpio_error"
  BY BootCases
<1> HIDE DEF b
<1>4. CASE b.mode = "wild" /\ \A v \in Variant : ~Intact(flash, v)
  BY <1>1, <1>4 DEF flash
<1>5. ASSUME NEW v \in Variant, Intact(flash, v), b.mode = "error_condition_2",
             ~ExtDataInit(flash, Root(v))
      PROVE  /\ board.mode = "error_condition_2"
             /\ \E u \in Variant : Intact(board.flash, u) /\ ~ExtDataInit(board.flash, Root(u))
  BY <1>1, <1>5 DEF flash
<1>6. ASSUME NEW v \in Variant, Intact(flash, v), b.fw = v,
             b.did = CustomGpioInit(Gpio(flash, v), FALSE).did,
             b.mode = IF CustomGpioInit(Gpio(flash, v), FALSE).ok THEN "usb" ELSE "usb_gpio_error"
      PROVE  PinsDone(board)
  <2> DEFINE str == Gpio(flash, v)
             run == CustomGpioInit(str, FALSE)
             again == CustomGpioInit(str, TRUE)
  <2>1. str \in Seq(Byte)
    BY <1>2, GpioIs
  <2> HIDE DEF str
  <2>2. (run.ok <=> ValidString(str)) /\ run.did = StringMeaning(str) /\ again.did = <<>>
    <3>1. TRUE \in BOOLEAN /\ FALSE \in BOOLEAN
      OBVIOUS
    <3>2. run.did = (IF FALSE THEN <<>> ELSE StringMeaning(str)) /\ (run.ok <=> ValidString(str))
      BY <2>1, <3>1, RunMeans
    <3>3. again.did = IF TRUE THEN <<>> ELSE StringMeaning(str)
      BY <2>1, <3>1, RunMeans
    <3> HIDE DEF run, again
    <3> QED BY <3>2, <3>3
  <2>3. run.did \in Seq(Deeds)
    BY <2>1, DidIs
  <2>4. b.did = run.did /\ b.mode = IF run.ok THEN "usb" ELSE "usb_gpio_error"
    BY <1>6 DEF str
  <2>5. b.did \o again.did = run.did
    <3> DEFINE did == run.did
    <3>1. did \o <<>> = did
      <4> HIDE DEF did
      <4> QED BY <2>3, ConcatEmptySeq DEF did
    <3> QED BY <2>2, <2>4, <3>1, Zenon
  <2> HIDE DEF run
  <2>6. CASE board = b
    BY <1>6, <2>2, <2>4, <2>6 DEF PinsDone, str, flash
  <2>7. CASE board = Configured(b) /\ b.mode \in {"usb", "usb_gpio_error"}
    <3>1. /\ board.fw = v /\ board.flash = flash
          /\ b.mode = "usb" => board.mode = "running" /\ board.did = b.did
          /\ b.mode # "usb" => board.mode = "error_condition_3" /\ board.did = b.did \o again.did
      BY <1>2, <1>3, <1>6, <2>7, ConfiguredMode DEF str
    <3> HIDE DEF again
    <3>2. board.did = StringMeaning(str)
      BY <2>2, <2>4, <2>5, <3>1
    <3>3. IF ValidString(str) THEN board.mode = "running" ELSE board.mode = "error_condition_3"
      <4> QED BY <2>2, <2>4, <3>1
    <3> QED BY <1>6, <3>1, <3>2, <3>3 DEF PinsDone, str
  <2> QED BY <1>1, <2>6, <2>7
<1> QED BY <1>3, <1>4, <1>5, <1>6

(* From power-up on a board does to its pins what the string in its flash    *)
(* memory says: each command once and in order, up to the first that is bad, *)
(* whatever the flash memory holds and even where the string is run through a *)
(* second time to report its errors (main, customGpioInit, error_condition). *)
THEOREM PinsAreAsWritten == Spec => []PinsAsWritten
<1>1. IInv /\ DataInv => PinsAsWritten
  BY BoardIs DEF PinsAsWritten, PinsDone, InBootloader
<1> QED BY <1>1, Data, PTL

(* The tool, when it is started, takes a configuration from the file that makes *)
(* the same firmware as the one it was left with, if some firmware supports  *)
(* that one, but for the strings for the pins, strings with a double quote, and *)
(* an absent USB string, which becomes an empty one: whatever was edited before *)
(* (ConfigFileWriter.generate, ConfigFileParser.parse, MainApplication).     *)
THEOREM ReloadingKeeps == Spec => ReloadKeeps
<1>1. ASSUME IInv, DataInv, [Next]_vars, window = "closed", window' = "main", file # None,
             Supporting(config) # {}
      PROVE  ReadsBack(config, config')
  <2>1. Start
    <3>1. \A w \in Worker : worker[w].pc = "none"
      BY <1>1 DEF IInv, OneActive
    <3>2. ASSUME NEW w \in Worker, Work(w) PROVE FALSE
      BY <1>1, <3>1, <3>2, WorkStepIs DEF WorkStep
    <3>3. ~UNCHANGED window
      BY <1>1
    <3>4. ~UNCHANGED gui
      BY <3>3 DEF gui
    <3>5. ~UNCHANGED vars /\ ~UsbConfigured /\ ~PressButton /\ ~PowerCycle /\ ~GenerateHexFile
      BY <3>4 DEF vars, UsbConfigured, PressButton, PowerCycle, GenerateHexFile
    <3>6. /\ ~Exit /\ ~Autoselect /\ ~CloseDialog
          /\ \A t : ~NewFromTemplate(t)
          /\ \A e : ~RawEdit(e)
          /\ \A v : ~ChooseFirmware(v)
          /\ \A w : ~ProgramDevice(w)
      BY <1>1, Zenon DEF Exit, Autoselect, CloseDialog, NewFromTemplate, RawEdit, ChooseFirmware,
                         ProgramDevice
    <3> QED BY <1>1, <3>2, <3>5, <3>6 DEF Next, User
  <2>2. PICK saved \in Configs : file = Generate(saved) /\ config \in {saved, Parse(file).config}
    BY <1>1 DEF DataInv, FileOf
  <2>3. Parse(file).ok /\ \A i \in Editable : Back(saved, i, Parse(file).config.item[i])
    BY <2>2, FileBack
  <2>4. config' = Parse(file).config
    <3> DEFINE parse == IF file = None THEN [ok |-> FALSE] ELSE Parse(file)
    <3>1. config' = IF parse.ok THEN parse.config ELSE Create
      BY <2>1 DEF Start
    <3>2. parse = Parse(file)
      BY <1>1
    <3> HIDE DEF parse
    <3> QED BY <2>3, <3>1, <3>2
  <2>5. CASE config = saved
    BY <2>3, <2>4, <2>5 DEF Back, ReadsBack
  <2>6. CASE config = Parse(file).config
    BY <2>4, <2>6 DEF ReadsBack
  <2> QED BY <2>2, <2>5, <2>6
<1>2. IInv /\ DataInv /\ [Next]_vars =>
        [window = "closed" /\ window' = "main" /\ file # None /\ Supporting(config) # {} =>
            ReadsBack(config, config')]_vars
  BY <1>1
<1> QED BY <1>2, Data, PTL DEF Spec, ReloadKeeps
-----------------------------------------------------------------------------
(* What a firmware that was configured reads.                                *)

\* The memory shows the defined bytes of an image.
Reads(flash, new) ==
    \A a \in new.mask : a \in 0 .. CodeSize - 1 /\ ReadByte(flash, a) = new.byte[a]

\* A number is the one of its two bytes.
LEMMA Joined == ASSUME NEW x \in Nat, x <= 65535
                PROVE  (x % 256) + 256 * ((x \div 256) % 256) = x
<1> DEFINE q == x \div 256
           r == x % 256
<1>1. q \in Nat /\ r \in Nat /\ x = 256 * q + r /\ r < 256
  OBVIOUS
<1> HIDE DEF q, r
<1>2. q < 256
  BY <1>1
<1>3. q % 256 = q
  BY <1>1, <1>2
<1> QED BY <1>1, <1>3 DEF q, r

\* mainTable, which extdata_init finds.
LEMMA TableRead ==
  ASSUME NEW flash, NEW new, NEW table, NEW root, Reads(flash, new),
         RootPlaced(new, table, root)
  PROVE  ReadWord(flash, root) = table
<1>1. table \in Nat /\ table <= 65535
  BY CountIs, MemoryIs DEF RootPlaced
<1>2. /\ ReadByte(flash, root) = table % 256
      /\ ReadByte(flash, root + 1) = (table \div 256) % 256
  BY DEF RootPlaced, Reads
<1> QED BY <1>1, <1>2, Joined DEF ReadWord

\* The four bytes of an entry.
LEMMA EntryRead ==
  ASSUME NEW flash, NEW new, NEW table \in Nat, NEW c, NEW i \in Item, NEW root,
         Reads(flash, new), MainTable(flash, root) = table, EntryPlaced(new, table, c, i)
  PROVE  /\ EntryOf(flash, root, i) \in Nat
         /\ \E entry \in Seq(Byte) :
              /\ Len(entry) = 4 /\ Entry(c, i, ChunkLoc(c, table)[i], entry)
              /\ \A k \in 1 .. 4 : ReadByte(flash, EntryOf(flash, root, i) + k - 1) = entry[k]
<1>1. i \in Nat /\ i <= 62
  BY CountIs, ItemIs
<1>2. (4 * i) % 256 = 4 * i
  BY <1>1
<1>3. EntryOf(flash, root, i) = table + 4 * i
  BY <1>2 DEF EntryOf
<1>4. PICK entry \in Seq(Byte) :
        /\ Len(entry) = 4 /\ Entry(c, i, ChunkLoc(c, table)[i], entry)
        /\ \A k \in 1 .. 4 : /\ table + 4 * i + k - 1 \in new.mask
                             /\ new.byte[table + 4 * i + k - 1] = entry[k]
  BY Zenon DEF EntryPlaced
<1>5. \A k \in 1 .. 4 : ReadByte(flash, EntryOf(flash, root, i) + k - 1) = entry[k]
  BY <1>3, <1>4 DEF Reads
<1>6. EntryOf(flash, root, i) \in Nat
  BY <1>1, <1>3
<1> QED BY <1>4, <1>5, <1>6

\* No number stands for a string that was never set.
LEMMA NullIs == Null \notin Words
BY NullAssumption DEF Words

\* An item of a type that is a number.
LEMMA NumberRead ==
  ASSUME NEW flash, NEW c \in Configs, NEW i \in Item, NEW root, NEW chunk,
         NEW entry \in Seq(Byte), Entry(c, i, chunk, entry), EntryOf(flash, root, i) \in Nat,
         \A k \in 1 .. 4 : ReadByte(flash, EntryOf(flash, root, i) + k - 1) = entry[k],
         Type[i] \in Integral
  PROVE  ReadItem(flash, root, i) = Wanted(i, c.item[i])
<1> DEFINE v == c.item[i]
           loc == EntryOf(flash, root, i)
<1>0. ~Held(i) /\ v \in Values(i)
  BY HeldIs, ConfigIs
<1>1. Wanted(i, v) = v
  <2>1. v \in Words
    <3>1. CASE Type[i] \in {"enum", "uint8"}
      <4>1. v \in Byte
        BY <1>0, <3>1, ValuesAre
      <4> QED BY <4>1, ByteIs, WordIs
    <3>2. CASE Type[i] = "uint16"
      BY <1>0, <3>2, ValuesAre
    <3> QED BY <3>1, <3>2 DEF Integral
  <2>2. v # Null
    <3>1. Null \notin Words
      BY NullIs
    <3> QED BY <2>1, <3>1
  <2> HIDE DEF v
  <2> QED BY <2>2 DEF Wanted
<1>2. ReadByte(flash, loc) = entry[1] /\ ReadByte(flash, loc + 1) = entry[2]
  BY 1 \in 1 .. 4, 2 \in 1 .. 4
<1>3. CASE Type[i] \in {"enum", "uint8"}
  <2>1. ReadItem(flash, root, i) = ReadByte(flash, loc)
    BY <1>3 DEF ReadItem, GetValue8
  <2>2. entry[1] = v
    BY <1>3 DEF Entry
  <2> QED BY <1>1, <1>2, <2>1, <2>2
<1>4. CASE Type[i] = "uint16"
  <2>1. ReadItem(flash, root, i) = ReadByte(flash, loc) + 256 * ReadByte(flash, loc + 1)
    BY <1>4 DEF ReadItem, GetValue16, ReadWord
  <2>2. entry[1] = v % 256 /\ entry[2] = (v \div 256) % 256
    BY <1>4 DEF Entry
  <2>3. v \in Nat /\ v <= 65535
    <3>1. v \in Words
      BY <1>0, <1>4, ValuesAre
    <3> HIDE DEF v
    <3> QED BY <3>1, WordsAre
  <2> HIDE DEF v, loc
  <2>4. ReadItem(flash, root, i) = v
    BY <1>2, <2>1, <2>2, <2>3, Joined
  <2> QED BY <1>1, <2>4 DEF v
<1> QED BY <1>3, <1>4 DEF Integral

\* An item that is kept in a chunk, if its length is a byte.
LEMMA ChunkRead ==
  ASSUME NEW flash, NEW new, NEW table \in Nat, NEW c \in Configs, NEW i \in Item, NEW root,
         Reads(flash, new), ChunkPlaced(new, table, c, i),
         NEW entry \in Seq(Byte), Len(entry) = 4, Entry(c, i, ChunkLoc(c, table)[i], entry),
         EntryOf(flash, root, i) \in Nat,
         \A k \in 1 .. 4 : ReadByte(flash, EntryOf(flash, root, i) + k - 1) = entry[k],
         Held(i), Len(Wanted(i, c.item[i])) < 256
  PROVE  ReadItem(flash, root, i) = Wanted(i, c.item[i])
<1> DEFINE data == ChunkData(c, i)
           n == Len(data)
           loc == EntryOf(flash, root, i)
           chunk == ChunkLoc(c, table)[i]
           addr == GetAddress(flash, root, i)
           f(k) == ReadByte(flash, addr + k - 1)
<1>1. data \in Seq(Byte) /\ n \in Nat /\ Wanted(i, c.item[i]) = data /\ n < 256
  BY ChunkIs
<1>2. /\ ReadByte(flash, loc) = entry[1] /\ ReadByte(flash, loc + 1) = entry[2]
      /\ ReadByte(flash, loc + 2) = entry[3] /\ ReadByte(flash, loc + 3) = entry[4]
  <2>1. \A k \in 1 .. 4 : ReadByte(flash, loc + k - 1) = entry[k]
    OBVIOUS
  <2>2. loc + 1 - 1 = loc /\ loc + 2 - 1 = loc + 1 /\ loc + 3 - 1 = loc + 2 /\ loc + 4 - 1 = loc + 3
    OBVIOUS
  <2> HIDE DEF loc
  <2> QED BY <2>1, <2>2, 1 \in 1 .. 4, 2 \in 1 .. 4, 3 \in 1 .. 4, 4 \in 1 .. 4
<1>3. /\ n = 0 => entry[3] = 0
      /\ n # 0 => /\ entry[1] = chunk % 256 /\ entry[2] = (chunk \div 256) % 256
                  /\ entry[3] = n % 256 /\ entry[4] = (n \div 256) % 256
  BY DEF Entry
<1>4. entry[3] = n
  <2> HIDE DEF data, n, chunk
  <2>1. n # 0 => entry[3] = n % 256
    BY <1>3
  <2>2. n % 256 = n
    <3>1. n \in Nat /\ n < 256
      BY <1>1
    <3> QED BY <3>1
  <2> QED BY <1>3, <2>1, <2>2
<1>5. ReadItem(flash, root, i) = [k \in 1 .. n |-> f(k)]
  <2>1. GetLength8(flash, root, i) = n
    BY <1>2, <1>4 DEF GetLength8
  <2>2. Type[i] \notin {"enum", "uint8"} /\ Type[i] # "uint16"
    BY HeldIs
  <2> HIDE DEF n
  <2> QED BY <2>1, <2>2 DEF ReadItem
<1>6. data = [k \in 1 .. n |-> data[k]]
  <2> HIDE DEF data
  <2> QED BY <1>1
<1>7. n # 0 => addr = chunk
  <2> SUFFICES ASSUME n # 0 PROVE addr = chunk
    OBVIOUS
  <2>1. entry[4] # 255
    <3>1. (n \div 256) % 256 = 0
      <4> HIDE DEF n
      <4>1. n \div 256 = 0
        BY <1>1
      <4> QED BY <4>1
    <3> QED BY <1>3, <3>1
  <2>2. addr = ReadWord(flash, loc)
    BY <1>2, <2>1 DEF GetAddress
  <2>3. chunk \in Nat /\ chunk <= 65535
    BY <1>1, MemoryIs DEF ChunkPlaced
  <2> HIDE DEF n, addr, chunk, loc
  <2>4. ReadWord(flash, loc) = entry[1] + 256 * entry[2]
    BY <1>2 DEF ReadWord
  <2> QED BY <1>3, <2>2, <2>3, <2>4, Joined
<1>8. \A k \in 1 .. n : chunk + k - 1 \in new.mask /\ new.byte[chunk + k - 1] = data[k]
  BY DEF ChunkPlaced
<1> HIDE DEF data, n, chunk, addr
<1>9. \A k \in 1 .. n : f(k) = data[k]
  <2> SUFFICES ASSUME NEW k \in 1 .. n PROVE f(k) = data[k]
    OBVIOUS
  <2>1. addr = chunk
    BY <1>1, <1>7
  <2> QED BY <1>8, <2>1 DEF Reads
<1> HIDE DEF f
<1>10. [k \in 1 .. n |-> f(k)] = [k \in 1 .. n |-> data[k]]
  BY <1>9
<1> QED BY <1>1, <1>5, <1>6, <1>10

\* All items, but for those that are too long for a length of one byte.
LEMMA ConfiguredRead ==
  ASSUME NEW flash, NEW new, NEW image, NEW table, NEW c \in Configs, NEW root,
         LaidOut(new, image, table, c, root + Len(Token) + 1), Reads(flash, new)
  PROVE  /\ MainTable(flash, root) = table /\ table % 2 = 0
         /\ \A i \in Editable : Short(i, c.item[i]) =>
              ReadItem(flash, root, i) = Wanted(i, c.item[i])
<1>1. RootPlaced(new, table, root + Len(Token) + 1) /\ table \in Nat /\ table % 2 = 0
  BY DEF LaidOut, RootPlaced
<1>2. MainTable(flash, root) = table
  BY <1>1, TableRead DEF MainTable
<1>3. ASSUME NEW i \in Editable, Short(i, c.item[i])
      PROVE  ReadItem(flash, root, i) = Wanted(i, c.item[i])
  <2>1. i \in Item /\ Type[i] # "special"
    BY <1>3 DEF Editable, ItemOf
  <2>2. EntryPlaced(new, table, c, i) /\ ChunkPlaced(new, table, c, i)
    BY <2>1 DEF LaidOut
  <2>3. EntryOf(flash, root, i) \in Nat
    BY <1>1, <1>2, <2>1, <2>2, EntryRead
  <2>4. PICK entry \in Seq(Byte) :
          /\ Len(entry) = 4 /\ Entry(c, i, ChunkLoc(c, table)[i], entry)
          /\ \A k \in 1 .. 4 : ReadByte(flash, EntryOf(flash, root, i) + k - 1) = entry[k]
    BY <1>1, <1>2, <2>1, <2>2, EntryRead
  <2>5. CASE Type[i] \in Integral
    BY <2>1, <2>3, <2>4, <2>5, NumberRead
  <2>6. CASE Type[i] \notin Integral
    <3>1. Held(i)
      BY <2>1, <2>6, HeldIs DEF Integral
    <3>2. Len(Wanted(i, c.item[i])) < 256
      BY <1>3, <2>6 DEF Short
    <3> QED BY <1>1, <2>1, <2>2, <2>3, <2>4, <3>1, <3>2, ChunkRead
  <2> QED BY <2>5, <2>6
<1> QED BY <1>1, <1>2, <1>3

\* A defined byte of an image that fits is in the flash memory.
LEMMA InFlash ==
  ASSUME NEW image \in Images, NEW flash \in Flash, Holds(flash, image), image.max < CodeSize
  PROVE  Reads(flash, image)
<1> SUFFICES ASSUME NEW a \in image.mask
             PROVE  a \in 0 .. CodeSize - 1 /\ ReadByte(flash, a) = image.byte[a]
  BY DEF Reads
<1> DEFINE r == a % BlockSize
           b == a - r
<1>1. /\ a \in Nat /\ image.min <= a /\ a <= image.max
      /\ image.max \in Nat /\ image.min \in Nat
  BY MaskIs
<1>2. BlockSize \in Nat /\ BlockSize > 0 /\ CodeSize \in Nat /\ a < CodeSize
  BY <1>1, SizeAssumption
<1>3. /\ r \in Nat /\ r < BlockSize /\ b \in Nat /\ b % BlockSize = 0
  <2> DEFINE q == a \div BlockSize
  <2>1. q \in Nat /\ r \in Nat /\ r < BlockSize /\ a = BlockSize * q + r
    BY <1>1, <1>2
  <2>2. b = BlockSize * q
    <3> HIDE DEF q, r
    <3> QED BY <1>1, <1>2, <2>1
  <2>3. BlockSize * q \in Nat /\ (BlockSize * q) % BlockSize = 0
    <3> HIDE DEF q
    <3> QED BY <1>2, <2>1
  <2> HIDE DEF b, q, r
  <2> QED BY <2>1, <2>2, <2>3
<1> HIDE DEF r
<1>4. a \in Span(b, BlockSize)
  BY <1>1, <1>2, <1>3 DEF Span
<1>5. HasData(image, b, BlockSize)
  <2>1. b <= image.max /\ b + BlockSize - 1 >= image.min
    BY <1>1, <1>2, <1>3
  <2>2. Span(b, BlockSize) \intersect image.mask # {}
    BY <1>4
  <2> QED BY <2>1, <2>2 DEF HasData
<1>6. b \in 0 .. CodeSize - 1
  BY <1>1, <1>2, <1>3
<1>7. b \in Blocks(image)
  BY <1>3, <1>5, <1>6 DEF Blocks, BlocksFrom
<1> HIDE DEF b
<1>8. a \in Covered(image) /\ a \in 0 .. CodeSize - 1
  BY <1>1, <1>2, <1>4, <1>7 DEF Covered
<1> QED BY <1>8, ReadByteIs DEF Holds

\* A firmware with a configuration, and a memory that shows it.
Fulfilled(flash, v, c) ==
    /\ v \in Variant /\ c \in Configs /\ Root(v) \in Nat /\ flash \in Flash
    /\ \E new \in Images : /\ Placed(new, Firmware(v), c, Root(v) + Len(Token) + 1)
                           /\ Reads(flash, new)

\* While success is promised, the memory shows the configuration, programmed by a worker
\* or from a hex file.
LEMMA PromiseFulfilled ==
  ASSUME IInv, DataInv, promise # None, promise.fits
  PROVE  Fulfilled(board.flash, promise.job.fw, promise.job.config)
<1> DEFINE job == promise.job
           v == job.fw
           c == job.config
           new == Encoded(job).image
           token == Root(v)
<1>1. v \in Variant /\ c \in Configs /\ board.flash \in Flash
  BY DEF DataInv, JobData
<1>2. /\ Encoded(job).ok
      /\ \E image \in Sent(job) : promise = Promise(job, image) /\ Holds(board.flash, image)
  BY DEF IInv, PromiseInv, Kept, JobOf
<1>3. Firmware(v) \in Images
  BY <1>1, FirmwareIs
<1>4. token = FindByteSequence(Firmware(v), Token, 0)
  BY <1>1 DEF Root, RootOf
<1>5. token >= 0 => /\ Span(token + Len(Token) + 1, 2) \subseteq Firmware(v).mask
                    /\ GetUInt16(Firmware(v), token + Len(Token) + 1, TRUE) = Placeholder
  BY <1>1, FirmwareAssumption DEF Patched
<1>6. Encoded(job) = EncodeConfig(Firmware(v), c)
  BY DEF Encoded
<1>7. new \in Images
  BY <1>1, JobImageIs DEF JobData
<1> HIDE DEF token, v, c
<1>8. token \in Nat /\ Placed(new, Firmware(v), c, token + Len(Token) + 1)
  BY <1>1, <1>2, <1>3, <1>4, <1>5, <1>6, EncodingIs
<1> HIDE DEF new
<1>9. PICK image \in Sent(job) : promise = Promise(job, image) /\ Holds(board.flash, image)
  BY <1>2
<1>10. image.max < CodeSize
  <2> DEFINE fits == image.max < CodeSize
  <2>1. promise = [job |-> job, fits |-> fits]
    BY <1>9 DEF Promise
  <2> HIDE DEF fits, job
  <2>2. fits
    BY <2>1
  <2> QED BY <2>2 DEF fits
<1>11. /\ image \in Images
       /\ \A a \in new.mask : a \in image.mask /\ image.byte[a] = new.byte[a]
  <2>1. CASE image = new
    BY <1>7, <2>1
  <2>2. CASE image = LoadIntelHex(LinesOf(new)).image
    <3> DEFINE load == LoadIntelHex(LinesOf(new))
    <3>1. /\ load.image \in Images
          /\ \A a \in new.mask : a \in load.image.mask /\ load.image.byte[a] = new.byte[a]
      BY <1>7, LinesRead
    <3> HIDE DEF load
    <3> QED BY <2>2, <3>1 DEF load
  <2> QED BY <1>9, <2>1, <2>2 DEF Sent, new
<1>12. Reads(board.flash, image)
  BY <1>1, <1>9, <1>10, <1>11, InFlash
<1>13. Reads(board.flash, new)
  BY <1>11, <1>12 DEF Reads
<1> QED BY <1>1, <1>7, <1>8, <1>13 DEF Fulfilled, token, v, c

\* And the firmware reads it, from a table at an even address.
LEMMA FulfilledReads ==
  ASSUME NEW flash, NEW v, NEW c, Fulfilled(flash, v, c)
  PROVE  /\ MainTable(flash, Root(v)) % 2 = 0
         /\ \A i \in Editable : Short(i, c.item[i]) =>
              ReadItem(flash, Root(v), i) = Wanted(i, c.item[i])
<1>1. PICK new \in Images : /\ Placed(new, Firmware(v), c, Root(v) + Len(Token) + 1)
                            /\ Reads(flash, new)
  BY DEF Fulfilled
<1> DEFINE table == Table(Firmware(v))
           image == Firmware(v)
<1>2. LaidOut(new, image, table, c, Root(v) + Len(Token) + 1) /\ c \in Configs
  BY <1>1 DEF Placed, Fulfilled
<1> HIDE DEF table, image
<1>3. /\ MainTable(flash, Root(v)) = table /\ table % 2 = 0
      /\ \A i \in Editable : Short(i, c.item[i]) =>
           ReadItem(flash, Root(v), i) = Wanted(i, c.item[i])
  BY <1>1, <1>2, ConfiguredRead
<1> QED BY <1>3

(* While "Finished Successfully" stands for a job of which the image fits, the  *)
(* firmware on the board reads every item of the job's configuration as it was  *)
(* in the editor, but for one too long for a length of one byte: for any     *)
(* configurations and firmwares, and whatever was cancelled, unplugged or    *)
(* programmed before (WaxBeeConfigEncoder, FirmwareImage, TeensyProgrammer,  *)
(* extdata.c).                                                               *)
THEOREM SuccessIsConfigured == Spec => []SuccessMeansConfigured
<1>1. IInv /\ DataInv => SuccessMeansConfigured
  BY PromiseFulfilled, FulfilledReads DEF SuccessMeansConfigured
<1> QED BY <1>1, Data, PTL

\* The firmware is there in full, and it is the only one.
LEMMA FulfilledIntact ==
  ASSUME NEW flash, NEW v, NEW c, Fulfilled(flash, v, c)
  PROVE  Intact(flash, v) /\ \A u \in Variant : Intact(flash, u) => u = v
<1> DEFINE image == Firmware(v)
           root == Root(v) + Len(Token) + 1
<1>1. v \in Variant /\ c \in Configs /\ flash \in Flash
  BY DEF Fulfilled
<1>2. PICK new \in Images : Placed(new, image, c, root) /\ Reads(flash, new)
  BY DEF Fulfilled
<1>3. \A a \in image.mask : a \notin Span(root, 2) => a \in new.mask /\ new.byte[a] = image.byte[a]
  BY <1>2 DEF Placed, LaidOut
<1>4. Span(root, 2) = Patched(v)
  BY DEF Patched
<1> HIDE DEF root
<1>5. \A a \in image.mask \ Patched(v) : flash[a] = image.byte[a]
  BY <1>1, <1>2, <1>3, <1>4, ReadByteIs DEF Reads
<1>6. Intact(flash, v)
  BY <1>5 DEF Intact
<1>7. ASSUME NEW u \in Variant, Intact(flash, u), u # v PROVE FALSE
  <2>1. PICK a \in Firmware(u).mask \intersect Firmware(v).mask :
              /\ a \notin Patched(u) \union Patched(v)
              /\ Firmware(u).byte[a] # Firmware(v).byte[a]
    BY <1>1, <1>7, FirmwareAssumption
  <2>2. flash[a] = Firmware(u).byte[a] /\ flash[a] = Firmware(v).byte[a]
    BY <1>6, <1>7, <2>1 DEF Intact
  <2> QED BY <2>1, <2>2
<1> QED BY <1>6, <1>7

\* The string for the pins, as the firmware reads it and as it stands in the editor.
LEMMA GpioRead ==
  ASSUME NEW flash, NEW v, NEW c, Fulfilled(flash, v, c), Short(GpioItem, c.item[GpioItem])
  PROVE  ValidString(Gpio(flash, v)) <=>
             c.item[GpioItem] = Null \/ ValidString(c.item[GpioItem])
<1> DEFINE gpio == c.item[GpioItem]
<1>1. GpioItem \in Item /\ Type[GpioItem] = "utf8string"
  BY InputAssumption
<1>2. GpioItem \in Editable
  BY <1>1 DEF Editable, ItemOf
<1>3. Gpio(flash, v) = Wanted(GpioItem, gpio)
  BY <1>2, FulfilledReads DEF Gpio
<1> HIDE DEF gpio
<1>4. CASE gpio = Null
  <2>1. Gpio(flash, v) = <<>>
    BY <1>3, <1>4 DEF Wanted
  <2>2. ValidString(<<>>)
    BY DEF ValidString, CommandEnds
  <2> QED BY <1>4, <2>1, <2>2 DEF gpio
<1>5. CASE gpio # Null
  <2>1. Gpio(flash, v) = gpio
    BY <1>1, <1>3, <1>5 DEF Wanted, GetBytes, Integral
  <2> QED BY <1>5, <2>1 DEF gpio
<1> QED BY <1>4, <1>5

(* And the board, once it is out of its boot loader, has started with that   *)
(* firmware and that configuration: its table is found, it goes on to USB, and  *)
(* stops with three blinks exactly if the string for the pins in the editor has *)
(* a bad command (main, extdata_init, customGpioInit, error_condition).      *)
THEOREM SuccessStarts == Spec => []SuccessMeansStarts
<1>1. ASSUME IInv, DataInv, promise # None, promise.fits,
             Short(GpioItem, promise.job.config.item[GpioItem]), ~InBootloader
      PROVE  IF promise.job.config.item[GpioItem] = Null
                \/ ValidString(promise.job.config.item[GpioItem])
             THEN board.mode \in {"usb", "running"}
             ELSE board.mode \in {"usb_gpio_error", "error_condition_3"}
  <2> DEFINE v == promise.job.fw
             c == promise.job.config
             flash == board.flash
  <2>1. Fulfilled(flash, v, c)
    BY <1>1, PromiseFulfilled
  <2>2. Short(GpioItem, c.item[GpioItem])
    BY <1>1
  <2> HIDE DEF v, c
  <2>3. Intact(flash, v) /\ \A u \in Variant : Intact(flash, u) => u = v
    BY <2>1, FulfilledIntact
  <2>4. ExtDataInit(flash, Root(v))
    <3>1. MainTable(flash, Root(v)) % 2 = 0
      BY <2>1, FulfilledReads
    <3> QED BY <3>1, TokenAssumption DEF ExtDataInit
  <2>5. v \in Variant
    BY <2>1 DEF Fulfilled
  <2>6. PinsDone(board)
    BY <1>1, <2>3, <2>4, <2>5, BoardIs
  <2>7. board.fw = v
    BY <2>3, <2>6 DEF PinsDone
  <2>8. IF ValidString(Gpio(flash, v)) THEN board.mode \in {"usb", "running"}
        ELSE board.mode \in {"usb_gpio_error", "error_condition_3"}
    BY <2>6, <2>7 DEF PinsDone
  <2>9. ValidString(Gpio(flash, v)) <=>
            c.item[GpioItem] = Null \/ ValidString(c.item[GpioItem])
    BY <2>1, <2>2, GpioRead
  <2> QED BY <2>8, <2>9, Zenon DEF c
<1>2. IInv /\ DataInv => SuccessMeansStarts
  BY <1>1 DEF SuccessMeansStarts, InBootloader
<1> QED BY <1>2, Data, PTL
=============================================================================
