------------------------------ MODULE LoopLemmas ------------------------------
(***************************************************************************)
(* Induction over data for the proofs of this project: about numbers, and  *)
(* about loops written as recursive functions.  The library states these   *)
(* principles for an operator, which the provers cannot put a formula      *)
(* into; here they are stated for a set, which they can: the set of the    *)
(* numbers that have the property.                                         *)
(***************************************************************************)
EXTENDS Integers, Sequences, WellFoundedInduction, TLAPS

\* A set of natural numbers that has an element has a least one.
LEMMA LeastNumber ==
    ASSUME NEW T \in SUBSET Nat, T # {}
    PROVE  \E x \in T : \A y \in T : x <= y
<1> DEFINE R == {s \in Nat \X Nat : s[1] < s[2]}
<1>1. IsWellFoundedOn(R, Nat)
    BY NatLessThanWellFounded DEF OpToRel
<1>2. \A x, y \in Nat : <<y, x>> \in R <=> y < x
    OBVIOUS
<1> HIDE DEF R
<1>3. \E x \in T : \A y \in T : <<y, x>> \notin R
    BY <1>1, WFMin
<1>4. \A x, y \in T : <<y, x>> \notin R => x <= y
    BY <1>2
<1> QED
    BY <1>3, <1>4

\* What is so of 0, and of a number below n only together with the next, is so
\* of all numbers up to n.
LEMMA NumberInduction ==
    ASSUME NEW n \in Nat, NEW Good, 0 \in Good,
           \A i \in 0 .. n - 1 : i \in Good => i + 1 \in Good
    PROVE  \A i \in 0 .. n : i \in Good
<1> SUFFICES ASSUME NEW k \in 0 .. n, k \notin Good PROVE FALSE
    OBVIOUS
<1> DEFINE Bad == {i \in 0 .. n : i \notin Good}
<1>1. Bad \in SUBSET Nat /\ Bad # {} /\ \A i : i \in Bad <=> i \in 0 .. n /\ i \notin Good
    OBVIOUS
<1> HIDE DEF Bad
<1>2. PICK x \in Bad : \A y \in Bad : x <= y
    BY <1>1, LeastNumber
<1>3. x # 0 /\ x - 1 \in 0 .. n - 1 /\ x - 1 \in 0 .. n
    BY <1>1
<1>4. x - 1 \in Good
    BY <1>1, <1>2, <1>3
<1> QED
    BY <1>1, <1>3, <1>4

\* The intermediate results of a loop over the numbers up to n, from r on.
LoopRuns(n, V, r, step) ==
    {f \in [0 .. n -> V] : f[0] = r /\ \A i \in 1 .. n : f[i] = step[i][f[i - 1]]}

\* A loop has such results, if no step leaves the set V.
LEMMA LoopIsDefined ==
    ASSUME NEW n \in Nat, NEW V, NEW r \in V, NEW step \in [1 .. n -> [V -> V]]
    PROVE  LoopRuns(n, V, r, step) # {}
<1> DEFINE Runs(m) == LoopRuns(m, V, r, step)
           Good == {m \in 0 .. n : Runs(m) # {}}
<1>1. 0 \in Good
    <2> DEFINE g == [i \in 0 .. 0 |-> r]
    <2>1. g \in [0 .. 0 -> V] /\ g[0] = r /\ \A i \in 1 .. 0 : g[i] = step[i][g[i - 1]]
        OBVIOUS
    <2> HIDE DEF g
    <2>2. g \in Runs(0)
        BY <2>1 DEF LoopRuns
    <2> QED
        BY <2>2
<1>2. ASSUME NEW m \in 0 .. n - 1, m \in Good PROVE m + 1 \in Good
    <2>1. PICK f \in [0 .. m -> V] : f[0] = r /\ \A i \in 1 .. m : f[i] = step[i][f[i - 1]]
        BY <1>2 DEF LoopRuns
    <2> DEFINE last == step[m + 1][f[m]]
               g == [i \in 0 .. m + 1 |-> IF i = m + 1 THEN last ELSE f[i]]
    <2>2. f[m] \in V /\ m + 1 \in 1 .. n
        OBVIOUS
    <2>3. last \in V
        BY <2>2
    <2> HIDE DEF last
    <2>4. g \in [0 .. m + 1 -> V]
        BY <2>3
    <2>5. g[m + 1] = last /\ \A i \in 0 .. m : g[i] = f[i]
        OBVIOUS
    <2> HIDE DEF g
    <2>6. ASSUME NEW i \in 1 .. m + 1 PROVE g[i] = step[i][g[i - 1]]
        <3>1. CASE i = m + 1
            BY <2>5, <3>1 DEF last
        <3>2. CASE i \in 1 .. m
            BY <2>1, <2>5, <3>2
        <3> QED
            BY <3>1, <3>2
    <2>7. g[0] = r
        BY <2>1, <2>5
    <2>8. g \in Runs(m + 1)
        BY <2>4, <2>6, <2>7 DEF LoopRuns
    <2> QED
        BY <2>8
<1> HIDE DEF Good
<1>3. \A m \in 0 .. n - 1 : m \in Good => m + 1 \in Good
    BY <1>2
<1>4. \A m \in 0 .. n : m \in Good
    BY <1>1, <1>3, NumberInduction
<1>5. n \in Good
    BY <1>4
<1> QED
    BY <1>5 DEF Good

\* What every turn of a loop keeps.
LEMMA LoopStays ==
    ASSUME NEW n \in Nat, NEW V, NEW K, K[0] \in V,
           \A i \in 1 .. n : K[i - 1] \in V => K[i] \in V
    PROVE  \A i \in 0 .. n : K[i] \in V
<1> DEFINE Good == {i \in 0 .. n : K[i] \in V}
<1>1. 0 \in Good
    OBVIOUS
<1>2. ASSUME NEW i \in 0 .. n - 1, i \in Good PROVE i + 1 \in Good
    <2>1. i + 1 \in 1 .. n /\ i + 1 \in 0 .. n /\ (i + 1) - 1 = i /\ K[i] \in V
        BY <1>2
    <2>2. K[(i + 1) - 1] \in V
        BY <2>1
    <2> QED
        BY <2>1, <2>2
<1> HIDE DEF Good
<1>3. \A i \in 0 .. n - 1 : i \in Good => i + 1 \in Good
    BY <1>2
<1>4. \A i \in 0 .. n : i \in Good
    BY <1>1, <1>3, NumberInduction
<1> QED
    BY <1>4 DEF Good
=============================================================================
