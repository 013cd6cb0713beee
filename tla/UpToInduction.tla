--------------------------- MODULE UpToInduction ---------------------------
(***************************************************************************)
(* Induction and recursion up to a bound, with sets and functions where the *)
(* library's theorems take operators: what the loops of the code compute is *)
(* proved with these.                                                       *)
(***************************************************************************)
EXTENDS Integers, WellFoundedInduction, TLAPS

\* A set of numbers has a least one.
LEMMA LeastNumber ==
  ASSUME NEW T, T \subseteq Nat, T # {}
  PROVE  \E x \in T : \A y \in T : x <= y
<1>1. \E x \in T : \A y \in T : ~ (<<y, x>> \in OpToRel(<, Nat))
  BY WFMin, NatLessThanWellFounded, Zenon
<1>2. PICK x \in T : \A y \in T : ~ (<<y, x>> \in OpToRel(<, Nat))
  BY <1>1, Zenon
<1>3. ASSUME NEW y \in T PROVE x <= y
  <2>1. ~ (<<y, x>> \in OpToRel(<, Nat))
    BY <1>2, Zenon
  <2>2. y < x => <<y, x>> \in OpToRel(<, Nat)
    <3> SUFFICES ASSUME y < x PROVE <<y, x>> \in OpToRel(<, Nat)
      OBVIOUS
    <3>1. y \in Nat /\ x \in Nat
      OBVIOUS
    <3> QED
      BY <3>1, Zenon DEF OpToRel
  <2>3. ~(y < x)
    BY <2>1, <2>2, Zenon
  <2>4. x \in Nat /\ y \in Nat
    OBVIOUS
  <2> QED
    BY <2>3, <2>4
<1> QED
  BY <1>3

\* Induction up to a bound.
LEMMA UpTo ==
  ASSUME NEW n \in Nat, NEW T, 0 \in T, \A i \in 0 .. n : i \in T /\ i < n => i + 1 \in T
  PROVE  \A i \in 0 .. n : i \in T
<1> DEFINE Bad == {i \in 0 .. n : i \notin T}
<1> SUFFICES ASSUME Bad # {} PROVE FALSE
  OBVIOUS
<1>1. Bad \subseteq Nat
  OBVIOUS
<1> HIDE DEF Bad
<1>2. PICK i \in Bad : \A m \in Bad : i <= m
  BY <1>1, LeastNumber
<1> USE DEF Bad
<1>3. i \in 0 .. n /\ i # 0
  BY <1>2
<1>4. i - 1 \in 0 .. n /\ i - 1 < n /\ i - 1 < i /\ (i - 1) + 1 = i
  BY <1>3
<1>5. i - 1 \in T
  BY <1>2, <1>4
<1> QED
  BY <1>2, <1>4, <1>5


\* The bodies of loops that run n times on a value of A, and the values that such a loop
\* goes through, from a.
Bodies(n, A) == [A \X (1 .. n) -> A]
Runs(n, A, a, d) ==
  {f \in [0 .. n -> A] : f[0] = a /\ \A i \in 1 .. n : f[i] = d[<<f[i - 1], i>>]}

LEMMA DefinedUpTo ==
  ASSUME NEW n \in Nat, NEW A, NEW a \in A, NEW d \in Bodies(n, A)
  PROVE  \E f : f \in Runs(n, A, a, d)
<1> USE DEF Bodies, Runs
<1> DEFINE Good == {m \in Nat : \E f \in [0 .. m -> A] :
                      f[0] = a /\ \A i \in 1 .. m : f[i] = d[<<f[i - 1], i>>]}
<1>1. 0 \in Good
  <2>1. PICK f : f = [i \in 0 .. 0 |-> a]
    OBVIOUS
  <2>2. f \in [0 .. 0 -> A] /\ f[0] = a /\ \A i \in 1 .. 0 : f[i] = d[<<f[i - 1], i>>]
    BY <2>1
  <2> QED
    BY <2>2
<1>2. ASSUME NEW m \in 0 .. n, m \in Good, m < n PROVE m + 1 \in Good
  <2>1. PICK f \in [0 .. m -> A] : f[0] = a /\ \A i \in 1 .. m : f[i] = d[<<f[i - 1], i>>]
    BY <1>2
  <2>2. m \in Nat /\ m + 1 \in Nat /\ m \in 0 .. m /\ m + 1 \in 1 .. n
    BY <1>2
  <2>3. PICK x : x = d[<<f[m], m + 1>>]
    OBVIOUS
  <2>4. x \in A
    BY <2>2, <2>3
  <2>5. PICK g : g = [i \in 0 .. m + 1 |-> IF i = m + 1 THEN x ELSE f[i]]
    OBVIOUS
  <2>6. \A i \in 0 .. m + 1 : i \in 0 .. m \/ i = m + 1
    BY <2>2
  <2>7. g \in [0 .. m + 1 -> A]
    BY <2>4, <2>5, <2>6
  <2>8. g[m + 1] = x /\ \A i \in 0 .. m : g[i] = f[i]
    BY <2>2, <2>5
  <2>9. g[0] = a
    BY <2>1, <2>2, <2>8
  <2>10. ASSUME NEW i \in 1 .. m + 1 PROVE g[i] = d[<<g[i - 1], i>>]
    <3>1. CASE i = m + 1
      <4>1. i - 1 = m
        BY <2>2, <3>1
      <4> QED
        BY <2>2, <2>3, <2>8, <3>1, <4>1
    <3>2. CASE i \in 1 .. m
      <4>1. i - 1 \in 0 .. m /\ i \in 0 .. m
        BY <2>2, <3>2
      <4> QED
        BY <2>1, <2>8, <3>2, <4>1
    <3> QED
      BY <2>2, <3>1, <3>2
  <2> QED
    BY <2>2, <2>7, <2>9, <2>10
<1> HIDE DEF Good
<1>3. n \in Good
  BY <1>1, <1>2, UpTo
<1> QED
  BY <1>3 DEF Good

\* Two runs that begin alike and go on alike are the same.
Alike(n, f, g) ==
  /\ f = [i \in 0 .. n |-> f[i]] /\ g = [i \in 0 .. n |-> g[i]]
  /\ f[0] = g[0] /\ \A i \in 1 .. n : f[i - 1] = g[i - 1] => f[i] = g[i]

LEMMA SameUpTo ==
  ASSUME NEW n \in Nat, NEW f, NEW g, Alike(n, f, g)
  PROVE  f = g
<1> USE DEF Alike
<1> DEFINE T == {i \in 0 .. n : f[i] = g[i]}
<1>1. 0 \in T
  OBVIOUS
<1>2. ASSUME NEW i \in 0 .. n, i \in T, i < n PROVE i + 1 \in T
  <2>1. i + 1 \in 1 .. n /\ i + 1 \in 0 .. n /\ (i + 1) - 1 = i
    BY <1>2
  <2> QED
    BY <1>2, <2>1
<1> HIDE DEF T
<1>3. \A i \in 0 .. n : i \in T
  BY <1>1, <1>2, UpTo
<1> QED
  BY <1>3 DEF T
=============================================================================
