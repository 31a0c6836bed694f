---------------------------- MODULE IntervalLemmas ----------------------------
(* Facts about sets of natural numbers and about functions on an interval,    *)
(* stated of sets and functions so that every prover can instantiate them:    *)
(* the least and the greatest element, induction on an interval, and the      *)
(* existence of a function defined by recursion on one.  The proofs about the *)
(* definitions that read a sequence to its end rest on these.                 *)
EXTENDS Naturals, FiniteSetsExt, WellFoundedInduction, TLAPS

(* A set of natural numbers that is not empty has a least element.            *)
LEMMA LeastElement ==
    ASSUME NEW S \in SUBSET Nat, S # {}
    PROVE  \E n \in S : \A m \in S : n <= m
<1> DEFINE R == OpToRel(<, Nat)
<1>1. IsWellFoundedOn(R, Nat)
    BY NatLessThanWellFounded
<1>2. \A m, n \in Nat : m < n => <<m, n>> \in R
    BY DEF OpToRel
<1> HIDE DEF R
<1>3. \E n \in S : \A m \in S : <<m, n>> \notin R
    BY <1>1, WFMin
<1>4. \A m, n \in Nat : ~(m < n) => n <= m
    OBVIOUS
<1> QED
    BY <1>2, <1>3, <1>4

(* The operator of the library that picks it.                                 *)
LEMMA MinIsLeast ==
    ASSUME NEW S \in SUBSET Nat, S # {}
    PROVE  Min(S) \in S /\ \A m \in S : Min(S) <= m
BY LeastElement DEF Min

(* The same of the greatest element of a bounded set: it is the least of its  *)
(* upper bounds.                                                              *)
LEMMA MaxIsGreatest ==
    ASSUME NEW S \in SUBSET Nat, S # {}, NEW bound \in Nat, \A m \in S : m <= bound
    PROVE  Max(S) \in S /\ \A m \in S : m <= Max(S)
<1> DEFINE bounds == {n \in Nat : \A m \in S : m <= n}
<1>1. PICK n \in bounds : \A k \in bounds : n <= k
    BY LeastElement
<1>2. n \in S
    <2>1. SUFFICES ASSUME n \notin S PROVE FALSE
        OBVIOUS
    <2>2. n \in Nat /\ \A m \in S : m \in Nat /\ m <= n /\ m # n
        BY <1>1, <2>1
    <2>3. n > 0
        <3>1. PICK m \in S : TRUE
            OBVIOUS
        <3> QED
            BY <2>2, <3>1
    <2>4. n - 1 \in Nat /\ \A m \in S : m <= n - 1
        BY <2>2, <2>3
    <2> QED
        BY <1>1, <2>3, <2>4
<1>3. \E x \in S : \A y \in S : x >= y
    BY <1>1, <1>2
<1>4. Max(S) \in S /\ \A y \in S : Max(S) >= y
    BY <1>3 DEF Max
<1> QED
    BY <1>4

(* Induction from 0 to n.                                                     *)
LEMMA IntervalInduction ==
    ASSUME NEW n \in Nat, NEW P, 0 \in P,
           \A k \in 0..(n - 1) : k \in P => k + 1 \in P
    PROVE  \A k \in 0..n : k \in P
<1> DEFINE bad == {k \in 0..n : k \notin P}
<1>1. SUFFICES ASSUME bad # {} PROVE FALSE
    OBVIOUS
<1>2. PICK k \in bad : \A m \in bad : k <= m
    <2>1. bad \in SUBSET Nat
        OBVIOUS
    <2> HIDE DEF bad
    <2> QED
        BY <1>1, <2>1, LeastElement
<1>3. k # 0 /\ k - 1 \in 0..(n - 1) /\ k - 1 \notin bad
    BY <1>2
<1>4. (k - 1) + 1 \in P
    BY <1>3
<1> QED
    BY <1>2, <1>4

(* A function is defined by recursion from 0 to n when it begins with a given *)
(* value and each of n steps leads from one of its values to the next.        *)
Steps(n, S) == [1..n -> [S -> S]]

Recursive(f, n, start, step) ==
    f[0] = start /\ \A i \in 1..n : f[i] = step[i][f[i - 1]]

(* There is one for any steps.                                                *)
LEMMA IntervalRecursion ==
    ASSUME NEW n \in Nat, NEW S, NEW start \in S, NEW step, step \in Steps(n, S)
    PROVE  \E f \in [0..n -> S] : Recursive(f, n, start, step)
<1> USE DEF Steps, Recursive
<1> DEFINE Starts(f, k) ==
               /\ f \in [0..k -> S]
               /\ f[0] = start
               /\ \A i \in 1..k : f[i] = step[i][f[i - 1]]
           P == {k \in 0..n : \E f : Starts(f, k)}
<1>1. 0 \in P
    <2>1. Starts([i \in 0..0 |-> start], 0)
        OBVIOUS
    <2> HIDE DEF Starts
    <2> QED
        BY <2>1
<1>2. ASSUME NEW k \in 0..(n - 1), k \in P
      PROVE  k + 1 \in P
    <2>1. PICK f : Starts(f, k)
        BY <1>2
    <2>2. k \in Nat /\ k + 1 \in 1..n /\ f \in [0..k -> S]
        BY <2>1
    <2> DEFINE next == step[k + 1][f[k]]
               g == [i \in 0..(k + 1) |-> IF i = k + 1 THEN next ELSE f[i]]
    <2>3. next \in S
        <3>1. step[k + 1] \in [S -> S] /\ f[k] \in S
            BY <2>2
        <3> QED
            BY <3>1
    <2>4. g[k + 1] = next /\ \A i \in 0..k : g[i] = f[i]
        BY <2>2
    <2>5. g \in [0..(k + 1) -> S]
        <3> HIDE DEF next
        <3> QED
            BY <2>2, <2>3
    <2> HIDE DEF g
    <2>6. \A i \in 1..(k + 1) : i # k + 1 => i \in 1..k /\ i - 1 \in 0..k
        BY <2>2
    <2>7. ASSUME NEW i \in 1..(k + 1) PROVE g[i] = step[i][g[i - 1]]
        <3>1. CASE i = k + 1
            <4>1. i - 1 = k /\ k \in 0..k
                BY <2>2, <3>1
            <4> QED
                BY <2>4, <3>1, <4>1
        <3>2. CASE i # k + 1
            BY <2>1, <2>4, <2>6, <3>2
        <3> QED
            BY <3>1, <3>2
    <2>8. Starts(g, k + 1)
        BY <2>1, <2>2, <2>4, <2>5, <2>7
    <2> HIDE DEF Starts
    <2> QED
        BY <2>2, <2>8
<1>3. n \in P
    <2> HIDE DEF P
    <2>1. \A k \in 0..(n - 1) : k \in P => k + 1 \in P
        BY <1>2
    <2>2. \A k \in 0..n : k \in P
        BY <1>1, <2>1, IntervalInduction
    <2> QED
        BY <2>2
<1>4. PICK f : Starts(f, n)
    BY <1>3
<1> QED
    BY <1>4
=============================================================================
