--------------------------- MODULE RelayResultProofs ---------------------------
(***************************************************************************)
(* Proofs about RelayResult: the result of a BatchRun covers its batch,    *)
(* whatever the port returns, and the backoff is what its closed form says *)
(* and within its cap, for any keys, attempts, delays and caps.            *)
(***************************************************************************)
EXTENDS RelayResult, DispatchProofs, FiniteSetTheorems, SequenceTheorems

(* How many of the positions I are at or before i: the n-th of them is the *)
(* one with n.                                                             *)
Upto(i, I) == Cardinality({j \in I : j <= i})

LEMMA PositionsFinite ==
    ASSUME NEW m \in Nat, NEW I \in SUBSET (1..m)
    PROVE  IsFiniteSet(I) /\ Cardinality(I) \in Nat
<1>1. IsFiniteSet(1..m)
  <2>1. 1 \in Int /\ m \in Int
    OBVIOUS
  <2> QED
    BY <2>1, FS_Interval
<1>2. IsFiniteSet(I)
  BY <1>1, FS_Subset
<1> QED
  BY <1>2, FS_CardinalityType

LEMMA UptoType ==
    ASSUME NEW m \in Nat, NEW I \in SUBSET (1..m), NEW i \in I
    PROVE  Upto(i, I) \in 1..Cardinality(I)
<1> DEFINE B == {j \in I : j <= i}
<1>1. IsFiniteSet(I) /\ Cardinality(I) \in Nat
  BY PositionsFinite
<1>2. B \in SUBSET I /\ i \in B
  OBVIOUS
<1>3. IsFiniteSet(B) /\ Cardinality(B) \in Nat /\ Cardinality(B) <= Cardinality(I)
  BY <1>1, <1>2, FS_Subset, FS_CardinalityType
<1>4. Cardinality(B) # 0
  BY <1>2, <1>3, FS_EmptySet
<1> HIDE DEF B
<1>5. Cardinality(B) \in 1..Cardinality(I)
  BY <1>1, <1>3, <1>4
<1> QED
  BY <1>5 DEF Upto, B

(* Of two positions the later has more positions up to it.                 *)
LEMMA UptoGrows ==
    ASSUME NEW m \in Nat, NEW I \in SUBSET (1..m), NEW i \in I, NEW j \in I, i < j
    PROVE  Upto(i, I) < Upto(j, I)
<1> DEFINE A == {h \in I : h <= i}
           B == {h \in I : h <= j}
<1>1. IsFiniteSet(I)
  BY PositionsFinite
<1>2. B \in SUBSET I /\ A \in SUBSET B /\ j \in B /\ j \notin A
  <2>1. I \subseteq Nat
    OBVIOUS
  <2>2. \A h \in I : h <= i => h <= j
    BY <2>1
  <2>3. j <= j /\ ~(j <= i)
    BY <2>1
  <2> QED
    BY <2>2, <2>3
<1>3. IsFiniteSet(B)
  BY <1>1, <1>2, FS_Subset
<1>4. Cardinality(A) <= Cardinality(B) /\ Cardinality(A) # Cardinality(B)
  BY <1>2, <1>3, FS_Subset
<1>5. Upto(i, I) \in 1..Cardinality(I) /\ Upto(j, I) \in 1..Cardinality(I)
  BY UptoType
<1>6. Cardinality(I) \in Nat
  BY <1>1, FS_CardinalityType
<1> QED
  BY <1>4, <1>5, <1>6 DEF Upto

(* Every position is the n-th for one n.                                   *)
LEMMA UptoCounts ==
    ASSUME NEW m \in Nat, NEW I \in SUBSET (1..m)
    PROVE  /\ \A i, j \in I : Upto(i, I) = Upto(j, I) => i = j
           /\ \A n \in 1..Cardinality(I) : \E i \in I : Upto(i, I) = n
<1> DEFINE n == Cardinality(I)
           f == [i \in I |-> Upto(i, I)]
<1>1. IsFiniteSet(I) /\ n \in Nat
  BY PositionsFinite
<1>2. f \in [I -> 1..n]
  BY UptoType
<1>3. ASSUME NEW i \in I, NEW j \in I, Upto(i, I) = Upto(j, I) PROVE i = j
  <2>1. Upto(i, I) \in 1..n /\ Upto(j, I) \in 1..n
    BY UptoType
  <2> HIDE DEF n
  <2>2. ~(i < j) /\ ~(j < i)
    <3>1. Upto(i, I) \in Nat /\ Upto(j, I) \in Nat
      BY <1>1, <2>1
    <3>2. ~(Upto(i, I) < Upto(j, I)) /\ ~(Upto(j, I) < Upto(i, I))
      BY <1>3, <3>1
    <3> QED
      BY <3>2, UptoGrows
  <2> QED
    BY <2>2
<1>4. f \in Injection(I, 1..n)
  <2>1. \A i \in I : f[i] = Upto(i, I)
    OBVIOUS
  <2> HIDE DEF f, n
  <2> QED
    BY <1>2, <1>3, <2>1 DEF Injection, IsInjective
<1>5. IsFiniteSet(1..n) /\ Cardinality(1..n) = n
  BY <1>1, FS_Interval
<1>6. f \in Surjection(I, 1..n)
  BY <1>4, <1>5, FS_Injection
<1> QED
  BY <1>3, <1>6 DEF Surjection

(* The positions of the messages whose ids are in S.                       *)
Places(messages, S) == {i \in DOMAIN messages : messages[i] \in S}

PickOf(messages, S) ==
    /\ Cardinality(Places(messages, S)) \in Nat
    /\ Len(Pick(messages, S)) = Cardinality(Places(messages, S))
    /\ Ids(Pick(messages, S)) = Ids(messages) \cap S
    /\ Pairs(Pick(messages, S)) \subseteq Pairs(messages)

(* Pick keeps exactly the messages asked for, in the order of the batch.   *)
LEMMA PickProperties ==
    ASSUME NEW M, NEW m \in Nat, NEW messages \in [1..m -> M], NEW S
    PROVE  PickOf(messages, S)
<1> DEFINE I == {i \in 1..m : messages[i] \in S}
           n == Cardinality(I)
           p == Pick(messages, S)
           at(h) == CHOOSE i \in I : Upto(i, I) = h
<1>0. I \in SUBSET (1..m) /\ DOMAIN messages = 1..m
  OBVIOUS
<1>1. n \in Nat
  BY <1>0, PositionsFinite
<1>2. p = [h \in 1..n |-> messages[at(h)]]
  BY <1>0 DEF Pick, Upto
<1>3. \A h \in 1..n : at(h) \in I /\ Upto(at(h), I) = h
  <2>1. \A h \in 1..n : \E i \in I : Upto(i, I) = h
    <3> HIDE DEF I
    <3> QED
      BY <1>0, UptoCounts DEF n
  <2> QED
    BY <2>1
<1>4. \A i \in I : \E h \in 1..n : at(h) = i
  <2> SUFFICES ASSUME NEW i \in I PROVE at(Upto(i, I)) = i /\ Upto(i, I) \in 1..n
    OBVIOUS
  <2>1. Upto(i, I) \in 1..n
    BY <1>0, UptoType
  <2>2. at(Upto(i, I)) \in I /\ Upto(at(Upto(i, I)), I) = Upto(i, I)
    BY <1>3, <2>1
  <2> HIDE DEF I, n, at
  <2> QED
    BY <1>0, <2>1, <2>2, UptoCounts
<1>5. \A g, h \in 1..n : g < h => at(g) < at(h)
  <2> SUFFICES ASSUME NEW g \in 1..n, NEW h \in 1..n, g < h, ~(at(g) < at(h)) PROVE FALSE
    OBVIOUS
  <2>1. at(g) \in 1..m /\ at(h) \in 1..m /\ at(g) \in I /\ at(h) \in I
    BY <1>3
  <2> HIDE DEF I, n, at
  <2>2. at(h) < at(g) \/ at(h) = at(g)
    BY <2>1
  <2>3. Upto(at(h), I) = h /\ Upto(at(g), I) = g
    BY <1>3
  <2>4. at(h) < at(g) => h < g
    BY <1>0, <2>1, <2>3, UptoGrows
  <2> QED
    BY <1>1, <2>2, <2>3, <2>4
<1>6. \A i \in I : i \in 1..m /\ messages[i] \in S
  OBVIOUS
<1>7. \A i \in 1..m : messages[i] \in S => i \in I
  OBVIOUS
<1>8. p \in [1..n -> M]
  <2> HIDE DEF p, n, at, I
  <2> QED
    BY <1>2, <1>3, <1>6
<1>9. Len(p) = n
  <2> HIDE DEF p, n
  <2> QED
    BY <1>1, <1>8
<1> HIDE DEF p, n, at, I
<1>10. DOMAIN p = 1..n /\ \A h \in 1..n : p[h] = messages[at(h)]
  BY <1>2
<1>11. Ids(p) = Ids(messages) \cap S
  <2>1. Ids(p) \subseteq Ids(messages) \cap S
    BY <1>0, <1>3, <1>6, <1>10 DEF Ids
  <2>2. ASSUME NEW i \in 1..m, messages[i] \in S PROVE messages[i] \in Ids(p)
    BY <1>4, <1>7, <1>10, <2>2 DEF Ids
  <2> QED
    BY <1>0, <2>1, <2>2 DEF Ids
<1>12. Pairs(p) \subseteq Pairs(messages)
  <2> SUFFICES ASSUME NEW g \in 1..n, NEW h \in (g + 1)..n
               PROVE <<p[g], p[h]>> \in Pairs(messages)
    BY <1>9, <1>10 DEF Pairs
  <2>1. h \in 1..n /\ g < h
    BY <1>1
  <2>2. at(g) \in 1..m /\ at(h) \in 1..m /\ at(g) < at(h)
    BY <1>3, <1>5, <1>6, <2>1
  <2>3. at(h) \in (at(g) + 1)..m /\ Len(messages) = m
    BY <2>2
  <2> QED
    BY <1>0, <1>10, <2>1, <2>2, <2>3 DEF Pairs
<1> QED
  BY <1>0, <1>1, <1>9, <1>11, <1>12 DEF p, n, I, Places, PickOf

(* Whatever a port returns, completeBatchResult makes of it a partition of *)
(* the batch, in the order of the batch.                                   *)
LEMMA ResultCovers ==
    ASSUME NEW S \in SUBSET Keys, NEW messages \in Orders(S), NEW result \in Results
    PROVE  LET ok == Confirmed(messages, result)
               r == completeBatchResult(messages, result)
           IN  /\ Ids(r.SuccessIDs) = ok /\ Ids(r.FailedIDs) = S \ ok
               /\ Len(r.SuccessIDs) + Len(r.FailedIDs) = Len(messages)
               /\ Pairs(r.SuccessIDs) \cup Pairs(r.FailedIDs) \subseteq Pairs(messages)
<1> DEFINE m == Cardinality(S)
           success == Ids(result.SuccessIDs) \ Ids(result.FailedIDs)
           rest == Ids(messages) \ success
           ok == Confirmed(messages, result)
           r == completeBatchResult(messages, result)
           I == Places(messages, success)
           J == Places(messages, rest)
<1>1. IsFiniteSet(S) /\ m \in Nat
  BY RelayResultAssumption, FS_Subset, FS_CardinalityType
<1>2. messages \in [1..m -> S] /\ IsInjective(messages)
  BY DEF Orders
<1>3. IsFiniteSet(1..m) /\ Cardinality(1..m) = m
  <2>1. 1 \in Int /\ m \in Int
    BY <1>1
  <2> HIDE DEF m
  <2> QED
    BY <1>1, <2>1, FS_Interval
<1>4. messages \in Surjection(1..m, S)
  <2>1. messages \in Injection(1..m, S)
    BY <1>2 DEF Injection
  <2> QED
    BY <1>1, <1>3, <2>1, FS_Injection
<1>5. Ids(messages) = S /\ Len(messages) = m
  <2>1. Ids(messages) = S
    BY <1>2, <1>4 DEF Ids, Surjection
  <2> HIDE DEF m
  <2> QED
    BY <1>1, <1>2, <2>1
<1>6. r.SuccessIDs = Pick(messages, success) /\ r.FailedIDs = Pick(messages, rest)
  BY DEF completeBatchResult
<1>7. ok = Ids(messages) \cap success
  BY DEF Confirmed
<1> HIDE DEF m, success, r, ok
<1>8. /\ Cardinality(I) \in Nat
      /\ Len(r.SuccessIDs) = Cardinality(I)
      /\ Ids(r.SuccessIDs) = ok
      /\ Pairs(r.SuccessIDs) \subseteq Pairs(messages)
  <2>1. PickOf(messages, success)
    <3> HIDE DEF I, J, rest
    <3> QED
      BY <1>1, <1>2, PickProperties
  <2> QED
    BY <1>6, <1>7, <2>1 DEF PickOf
<1>9. /\ Cardinality(J) \in Nat
      /\ Len(r.FailedIDs) = Cardinality(J)
      /\ Ids(r.FailedIDs) = Ids(messages) \cap rest
      /\ Pairs(r.FailedIDs) \subseteq Pairs(messages)
  <2> HIDE DEF rest
  <2>1. PickOf(messages, rest)
    <3> HIDE DEF I, J
    <3> QED
      BY <1>1, <1>2, PickProperties
  <2> QED
    BY <1>6, <2>1 DEF PickOf
<1>10. Cardinality(I) + Cardinality(J) = m
  <2>1. I \cup J = 1..m /\ I \cap J = {}
    BY <1>2, <1>5 DEF Places
  <2>2. I \in SUBSET (1..m) /\ J \in SUBSET (1..m)
    BY <1>2 DEF Places
  <2>3. IsFiniteSet(I) /\ IsFiniteSet(J)
    BY <1>3, <2>2, FS_Subset
  <2> HIDE DEF I, J
  <2>4. Cardinality(I \cup J) = Cardinality(I) + Cardinality(J) - Cardinality(I \cap J)
    BY <2>3, FS_Union
  <2>5. Cardinality(I \cap J) = 0
    BY <2>1, FS_EmptySet
  <2>6. Cardinality(I \cup J) = m
    BY <1>3, <2>1
  <2>7. Cardinality(I) \in Nat /\ Cardinality(J) \in Nat
    BY <1>8, <1>9 DEF I, J
  <2> QED
    BY <2>4, <2>5, <2>6, <2>7
<1>11. Ids(messages) \cap rest = S \ ok
  BY <1>5, <1>7
<1> QED
  BY <1>5, <1>8, <1>9, <1>10, <1>11 DEF r, ok

LEMMA EveryBatchIsCovered ==
    ASSUME NEW S \in SUBSET Keys, NEW ok
    PROVE  CoveredBy(S, ok)
<1> SUFFICES ASSUME NEW messages \in Orders(S), NEW result \in Results,
                    Confirmed(messages, result) = ok
             PROVE  LET r == completeBatchResult(messages, result)
                    IN  /\ Ids(r.SuccessIDs) = ok /\ Ids(r.FailedIDs) = S \ ok
                        /\ Len(r.SuccessIDs) + Len(r.FailedIDs) = Len(messages)
                        /\ Pairs(r.SuccessIDs) \cup Pairs(r.FailedIDs) \subseteq Pairs(messages)
  BY DEF CoveredBy
<1> QED
  BY ResultCovers

(* Every batch of every call and relay is settled by the result of its     *)
(* BatchRun, made to cover the batch by completeBatchResult.               *)
THEOREM ResultCoversBatchHolds == Spec => []ResultCoversBatch
<1>1. IInv => ResultCoversBatch
  <2> SUFFICES ASSUME IInv, NEW a \in Actors
               PROVE  <<batch[a], acked[a]>> \in Covered
    BY DEF ResultCoversBatch
  <2>1. batch[a] \in SUBSET Keys /\ acked[a] \in SUBSET Keys
    BY DEF IInv, TypeOK
  <2> QED
    BY <2>1, EveryBatchIsCovered DEF Covered, Listed
<1> QED
  BY <1>1, InvCorrect, PTL

-----------------------------------------------------------------------------
(* The backoff.  What a recursive function computes is shown without an    *)
(* induction scheme: of the arguments for which it would be wrong there    *)
(* would be a least one.                                                   *)
LEMMA LeastNumber ==
    ASSUME NEW S \in SUBSET Nat, S # {}
    PROVE  \E x \in S : \A y \in S : x <= y
<1> DEFINE R == OpToRel(<, Nat)
<1>1. R = {p \in Nat \X Nat : p[1] < p[2]}
  BY DEF OpToRel
<1>2. IsWellFoundedOn(R, Nat)
  BY NatLessThanWellFounded
<1> HIDE DEF R
<1>3. PICK x \in S : \A y \in S : ~(<<y, x>> \in R)
  BY <1>2, WFMin
<1>4. ASSUME NEW y \in S PROVE x <= y
  <2>1. x \in Nat /\ y \in Nat
    OBVIOUS
  <2>2. <<y, x>> \in R <=> y < x
    BY <1>1, <2>1
  <2> QED
    BY <1>3, <2>1, <2>2
<1> QED
  BY <1>4

(* Numbers up to a bound have a greatest one.                              *)
LEMMA GreatestNumber ==
    ASSUME NEW b \in Nat, NEW S \in SUBSET (0..b), S # {}
    PROVE  Max(S) \in S /\ \A y \in S : y <= Max(S)
<1> DEFINE U == {u \in Nat : \A y \in S : y <= u}
<1>1. S \subseteq Nat /\ b \in U /\ U \in SUBSET Nat
  OBVIOUS
<1>2. PICK u \in U : \A v \in U : u <= v
  BY <1>1, LeastNumber
<1>3. u \in S
  <2> SUFFICES ASSUME u \notin S PROVE FALSE
    OBVIOUS
  <2>1. \A y \in S : y \in Nat /\ y <= u - 1
    BY <1>1
  <2>2. u \in Nat /\ u - 1 \in Nat
    <3>1. PICK y \in S : TRUE
      OBVIOUS
    <3>2. y \in Nat /\ u \in Nat /\ y <= u - 1
      BY <2>1
    <3> QED
      BY <3>2
  <2>3. u - 1 \in U
    BY <2>1, <2>2
  <2> QED
    BY <1>2, <2>2, <2>3
<1>4. \A y \in S : u >= y
  BY <1>1
<1>5. \E x \in S : \A y \in S : x >= y
  BY <1>3, <1>4
<1>6. Max(S) \in S /\ \A y \in S : Max(S) >= y
  BY <1>5 DEF Max
<1> QED
  BY <1>1, <1>6

(* The greater and the lesser of two numbers.                              *)
LEMMA MaxMinOfTwo ==
    ASSUME NEW x \in Nat, NEW y \in Nat
    PROVE  /\ Max({x, y}) = IF x >= y THEN x ELSE y
           /\ Min({x, y}) = IF x <= y THEN x ELSE y
BY DEF Max, Min

(* The doubling functions: there is one up to any attempt, it has numbers  *)
(* as values, and two of them agree where both are defined.                *)
Doubling(d, x, n) == d = [i \in 1..n |-> IF i = 1 THEN x ELSE 2 * d[i - 1]]

LEMMA DoublingType ==
    ASSUME NEW x \in Nat, NEW n \in Nat, NEW d, Doubling(d, x, n)
    PROVE  \A i \in 1..n : d[i] \in Nat
<1> DEFINE Wrong == {i \in 1..n : d[i] \notin Nat}
<1> SUFFICES ASSUME Wrong # {} PROVE FALSE
  OBVIOUS
<1>0. Wrong \in SUBSET Nat
  OBVIOUS
<1>1. PICK i \in Wrong : \A j \in Wrong : i <= j
  <2> HIDE DEF Wrong
  <2> QED
    BY <1>0, LeastNumber
<1>2. i \in 1..n /\ d[i] = IF i = 1 THEN x ELSE 2 * d[i - 1]
  BY DEF Doubling
<1>3. i # 1 => i - 1 \in 1..n /\ d[i - 1] \in Nat
  <2>1. i # 1 => i - 1 \in 1..n /\ ~(i <= i - 1)
    BY <1>2
  <2> QED
    BY <1>1, <2>1
<1>4. d[i] \in Nat
  BY <1>2, <1>3
<1> QED
  BY <1>4

LEMMA DoublingsAgree ==
    ASSUME NEW x \in Nat, NEW m \in Nat, NEW n \in Nat, m <= n,
           NEW c, Doubling(c, x, m), NEW d, Doubling(d, x, n)
    PROVE  \A i \in 1..m : c[i] = d[i]
<1> DEFINE Wrong == {i \in 1..m : c[i] # d[i]}
<1> SUFFICES ASSUME Wrong # {} PROVE FALSE
  OBVIOUS
<1>0. Wrong \in SUBSET Nat
  OBVIOUS
<1>1. PICK i \in Wrong : \A j \in Wrong : i <= j
  <2> HIDE DEF Wrong
  <2> QED
    BY <1>0, LeastNumber
<1>2. /\ i \in 1..m /\ i \in 1..n
      /\ c[i] = IF i = 1 THEN x ELSE 2 * c[i - 1]
      /\ d[i] = IF i = 1 THEN x ELSE 2 * d[i - 1]
  BY DEF Doubling
<1>3. i # 1 => c[i - 1] = d[i - 1]
  <2>1. i # 1 => i - 1 \in 1..m /\ ~(i <= i - 1)
    BY <1>2
  <2> QED
    BY <1>1, <2>1
<1> QED
  BY <1>2, <1>3

LEMMA DoublingExists ==
    ASSUME NEW x \in Nat, NEW n \in Nat
    PROVE  \E d : Doubling(d, x, n)
<1> DEFINE Wrong == {i \in Nat : ~\E d : Doubling(d, x, i)}
<1> SUFFICES ASSUME Wrong # {} PROVE FALSE
  OBVIOUS
<1>1. PICK m \in Wrong : \A j \in Wrong : m <= j
  BY LeastNumber
<1>2. CASE m = 0
  <2>1. Doubling([i \in 1..0 |-> 0], x, 0)
    BY DEF Doubling
  <2> QED
    BY <1>2, <2>1
<1>3. CASE m # 0
  <2>1. m - 1 \in Nat /\ ~(m <= m - 1)
    BY <1>3
  <2>2. PICK d : Doubling(d, x, m - 1)
    BY <1>1, <2>1
  <2> DEFINE e == [i \in 1..m |-> IF i = 1 THEN x ELSE 2 * d[i - 1]]
  <2>3. \A i \in 1..(m - 1) : e[i] = d[i]
    <3>1. \A i \in 1..(m - 1) : d[i] = IF i = 1 THEN x ELSE 2 * d[i - 1]
      BY <2>2 DEF Doubling
    <3>2. \A i \in 1..(m - 1) : i \in 1..m
      OBVIOUS
    <3> QED
      BY <3>1, <3>2
  <2>4. \A i \in 1..m : i # 1 => i - 1 \in 1..(m - 1)
    OBVIOUS
  <2>5. e = [i \in 1..m |-> IF i = 1 THEN x ELSE 2 * e[i - 1]]
    BY <2>3, <2>4
  <2> HIDE DEF e
  <2>6. Doubling(e, x, m)
    BY <2>5 DEF Doubling
  <2> QED
    BY <2>6
<1> QED
  BY <1>2, <1>3

(* Doubled starts with the delay and doubles it with every attempt.        *)
LEMMA DoubledSteps ==
    ASSUME NEW x \in Nat, NEW n \in Nat \ {0}
    PROVE  /\ Doubled(x, n) \in Nat
           /\ Doubled(x, 1) = x
           /\ Doubled(x, n + 1) = 2 * Doubled(x, n)
<1> DEFINE d(m) == CHOOSE e : e = [i \in 1..m |-> IF i = 1 THEN x ELSE 2 * e[i - 1]]
<1>1. \A m \in Nat : Doubled(x, m) = d(m)[m]
  BY DEF Doubled
<1>2. ASSUME NEW m \in Nat PROVE Doubling(d(m), x, m)
  <2>1. \E e : e = [i \in 1..m |-> IF i = 1 THEN x ELSE 2 * e[i - 1]]
    BY DoublingExists DEF Doubling
  <2>2. d(m) = [i \in 1..m |-> IF i = 1 THEN x ELSE 2 * d(m)[i - 1]]
    BY <2>1
  <2> HIDE DEF d
  <2> QED
    BY <2>2 DEF Doubling
<1> HIDE DEF d
<1>3. n + 1 \in Nat /\ n \in 1..n /\ n + 1 \in 1..(n + 1) /\ n + 1 # 1 /\ (n + 1) - 1 = n
      /\ n <= n + 1
  OBVIOUS
<1>4. Doubling(d(n), x, n) /\ Doubling(d(n + 1), x, n + 1) /\ Doubling(d(1), x, 1)
  BY <1>2, <1>3
<1>5. d(n)[n] \in Nat
  BY <1>3, <1>4, DoublingType
<1>6. d(1)[1] = x
  BY <1>4 DEF Doubling
<1>7. d(n + 1)[n + 1] = 2 * d(n + 1)[n]
  <2> DEFINE e == d(n + 1)
             k == n + 1
  <2>1. e = [i \in 1..k |-> IF i = 1 THEN x ELSE 2 * e[i - 1]]
    BY <1>4 DEF Doubling
  <2> HIDE DEF e, k
  <2>2. k \in 1..k /\ k # 1 /\ k - 1 = n
    BY <1>3 DEF k
  <2> QED
    BY <2>1, <2>2 DEF e, k
<1>8. d(n + 1)[n] = d(n)[n]
  BY <1>3, <1>4, DoublingsAgree
<1> QED
  BY <1>1, <1>3, <1>5, <1>6, <1>7, <1>8

LEMMA DoubledGrows ==
    ASSUME NEW x \in Nat, NEW n \in Nat \ {0}
    PROVE  Doubled(x, n) >= x
<1> DEFINE Wrong == {i \in Nat \ {0} : ~(Doubled(x, i) >= x)}
<1> SUFFICES ASSUME Wrong # {} PROVE FALSE
  OBVIOUS
<1>1. Wrong \in SUBSET Nat
  OBVIOUS
<1>2. PICK i \in Wrong : \A j \in Wrong : i <= j
  <2> HIDE DEF Wrong
  <2> QED
    BY <1>1, LeastNumber
<1>3. i \in Nat \ {0} /\ ~(Doubled(x, i) >= x)
  OBVIOUS
<1>4. CASE i = 1
  BY <1>3, <1>4, DoubledSteps
<1>5. CASE i # 1
  <2> DEFINE j == i - 1
  <2>1. j \in Nat \ {0} /\ i = j + 1 /\ ~(i <= j)
    BY <1>3, <1>5
  <2>2. j \notin Wrong
    BY <1>2, <2>1
  <2>3. Doubled(x, j) >= x
    BY <2>1, <2>2
  <2> HIDE DEF j, Wrong
  <2>4. Doubled(x, j) \in Nat /\ Doubled(x, i) = 2 * Doubled(x, j)
    BY <2>1, DoubledSteps
  <2> QED
    BY <1>3, <2>3, <2>4
<1> QED
  BY <1>4, <1>5

(* What an attempt asks for, in closed form, follows the loop of the code. *)
Asked(initial, cap, n) == Max({initial, Min({Doubled(initial, n), cap})})

LEMMA AskedSteps ==
    ASSUME NEW initial \in Nat, NEW cap \in Nat, NEW n \in Nat \ {0}
    PROVE  LET asked == Asked(initial, cap, n)
               next == Asked(initial, cap, n + 1)
           IN  /\ Asked(initial, cap, 1) = initial
               /\ asked \in Nat /\ asked <= Max({initial, cap})
               /\ next = IF asked < cap THEN Min({2 * asked, cap}) ELSE asked
               /\ asked <= next
<1> DEFINE D == Doubled(initial, n)
<1>1. D \in Nat /\ D >= initial
  BY DoubledSteps, DoubledGrows
<1>2. Doubled(initial, 1) = initial /\ Doubled(initial, n + 1) = 2 * D
  BY DoubledSteps
<1> HIDE DEF D
<1>3. ASSUME NEW e \in Nat
      PROVE  Max({initial, Min({e, cap})}) =
               IF e <= cap THEN IF initial >= e THEN initial ELSE e
                           ELSE IF initial >= cap THEN initial ELSE cap
  <2> DEFINE low == Min({e, cap})
  <2>1. low = IF e <= cap THEN e ELSE cap
    BY MaxMinOfTwo
  <2> HIDE DEF low
  <2>2. low \in Nat
    BY <2>1
  <2>3. Max({initial, low}) = IF initial >= low THEN initial ELSE low
    BY <2>2, MaxMinOfTwo
  <2> QED
    BY <2>1, <2>3 DEF low
<1>4. Asked(initial, cap, 1) = initial
  BY <1>2, <1>3 DEF Asked
<1>5. Asked(initial, cap, n) = IF D <= cap THEN D ELSE IF initial >= cap THEN initial ELSE cap
  BY <1>1, <1>3 DEF Asked, D
<1>6. Asked(initial, cap, n + 1) =
        IF 2 * D <= cap THEN 2 * D ELSE IF initial >= cap THEN initial ELSE cap
  <2>1. 2 * D \in Nat /\ 2 * D >= initial
    BY <1>1
  <2> QED
    BY <1>2, <1>3, <2>1 DEF Asked
<1>7. Max({initial, cap}) = IF initial >= cap THEN initial ELSE cap
  BY MaxMinOfTwo
<1>8. ASSUME NEW e \in Nat PROVE Min({2 * e, cap}) = IF 2 * e <= cap THEN 2 * e ELSE cap
  BY MaxMinOfTwo
<1>9. Asked(initial, cap, n) \in Nat
  BY <1>1, <1>5
<1> QED
  BY <1>1, <1>4, <1>5, <1>6, <1>7, <1>8, <1>9

LEMMA AskedGrows ==
    ASSUME NEW initial \in Nat, NEW cap \in Nat, NEW m \in Nat \ {0}, NEW n \in Nat, m <= n
    PROVE  Asked(initial, cap, m) <= Asked(initial, cap, n)
<1> DEFINE A(i) == Asked(initial, cap, i)
           Wrong == {i \in Nat : m <= i /\ ~(A(m) <= A(i))}
<1> SUFFICES ASSUME Wrong # {} PROVE FALSE
  OBVIOUS
<1>1. Wrong \in SUBSET Nat
  OBVIOUS
<1>2. PICK i \in Wrong : \A j \in Wrong : i <= j
  <2> HIDE DEF Wrong
  <2> QED
    BY <1>1, LeastNumber
<1>3. i \in Nat /\ m <= i /\ ~(A(m) <= A(i))
  OBVIOUS
<1>4. \A j \in Nat \ {0} : A(j) \in Nat /\ A(j) <= A(j + 1)
  BY AskedSteps
<1> HIDE DEF A
<1>5. CASE i = m
  BY <1>3, <1>4, <1>5
<1>6. CASE i # m
  <2> DEFINE j == i - 1
  <2>1. j \in Nat \ {0} /\ m <= j /\ i = j + 1 /\ ~(i <= j)
    BY <1>3, <1>6
  <2>2. j \notin Wrong
    BY <1>2, <2>1
  <2>3. A(m) <= A(j)
    BY <2>1, <2>2
  <2> HIDE DEF j, Wrong
  <2>4. A(j) <= A(i) /\ A(j) \in Nat /\ A(m) \in Nat /\ A(i) \in Nat
    BY <1>3, <1>4, <2>1
  <2> QED
    BY <1>3, <2>3, <2>4
<1> QED
  BY <1>5, <1>6

(* The loop of the code computes what the attempt asks for.                *)
LEMMA BackoffIsAsked ==
    ASSUME NEW initial \in Nat, NEW cap \in Nat, NEW n \in Nat \ {0}
    PROVE  retryBackoff(initial, cap, n) = Asked(initial, cap, n)
<1> DEFINE A(i) == Asked(initial, cap, i)
           Step(f, i) == IF i = 1 THEN initial
                         ELSE IF f[i - 1] < cap THEN Min({2 * f[i - 1], cap}) ELSE f[i - 1]
           Loop(f) == f = [i \in 1..(n + 1) |-> Step(f, i)]
           delay == CHOOSE f : Loop(f)
<1>1. retryBackoff(initial, cap, n) = delay[n]
  BY DEF retryBackoff
<1>2. \A i \in 2..(n + 1) : A(i) = IF A(i - 1) < cap THEN Min({2 * A(i - 1), cap}) ELSE A(i - 1)
  <2> SUFFICES ASSUME NEW i \in 2..(n + 1)
               PROVE  A(i) = IF A(i - 1) < cap THEN Min({2 * A(i - 1), cap}) ELSE A(i - 1)
    OBVIOUS
  <2> DEFINE j == i - 1
  <2>1. j \in Nat \ {0} /\ i = j + 1
    OBVIOUS
  <2> HIDE DEF j
  <2>2. A(j + 1) = IF A(j) < cap THEN Min({2 * A(j), cap}) ELSE A(j)
    BY <2>1, AskedSteps
  <2> QED
    BY <2>1, <2>2 DEF j
<1>3. A(1) = initial
  BY AskedSteps
<1> HIDE DEF A
<1>4. ASSUME NEW f, Loop(f) PROVE \A i \in 1..(n + 1) : f[i] = A(i)
  <2> DEFINE Wrong == {i \in 1..(n + 1) : f[i] # A(i)}
  <2> SUFFICES ASSUME Wrong # {} PROVE FALSE
    OBVIOUS
  <2>1. Wrong \in SUBSET Nat
    OBVIOUS
  <2>2. PICK i \in Wrong : \A j \in Wrong : i <= j
    <3> HIDE DEF Wrong
    <3> QED
      BY <2>1, LeastNumber
  <2>3. i \in 1..(n + 1) /\ f[i] = Step(f, i)
    BY <1>4
  <2>4. i # 1 => i \in 2..(n + 1) /\ i - 1 \in 1..(n + 1) /\ ~(i <= i - 1)
    BY <2>3
  <2>5. i # 1 => f[i - 1] = A(i - 1)
    BY <2>2, <2>4
  <2>6. f[i] = A(i)
    BY <1>2, <1>3, <2>3, <2>4, <2>5
  <2> QED
    BY <2>6
<1>5. \E f : Loop(f)
  <2> DEFINE g == [i \in 1..(n + 1) |-> A(i)]
  <2>1. \A i \in 1..(n + 1) : i # 1 => i \in 2..(n + 1) /\ g[i - 1] = A(i - 1)
    OBVIOUS
  <2>2. \A i \in 1..(n + 1) : g[i] = A(i)
    OBVIOUS
  <2>3. \A i \in 1..(n + 1) : g[i] = Step(g, i)
    <3> HIDE DEF g
    <3> QED
      BY <1>2, <1>3, <2>1, <2>2
  <2>4. Loop(g)
    <3>1. g = [i \in 1..(n + 1) |-> g[i]]
      OBVIOUS
    <3> HIDE DEF g
    <3> QED
      BY <2>3, <3>1
  <2> QED
    BY <2>4
<1>6. Loop(delay)
  <2> HIDE DEF Loop
  <2> QED
    BY <1>5
<1>7. \A i \in 1..(n + 1) : delay[i] = A(i)
  <2> HIDE DEF delay, Loop
  <2> QED
    BY <1>4, <1>6
<1>8. n \in 1..(n + 1)
  OBVIOUS
<1> HIDE DEF delay
<1> QED
  BY <1>1, <1>7, <1>8 DEF A

(* The delay of messages that have been tried at least once each.          *)
LEMMA DelayIsCapped ==
    ASSUME NEW b \in Nat, NEW tried \in SUBSET (1..b), tried # {}
    PROVE  CappedFor(tried)
<1> DEFINE most == Max(tried)
<1>1. tried \in SUBSET (0..b) /\ {1} \cup tried \in SUBSET (0..(b + 1))
  OBVIOUS
<1>2. most \in tried /\ \A n \in tried : n <= most
  BY <1>1, GreatestNumber
<1>3. Max({1} \cup tried) = most
  <2> DEFINE top == Max({1} \cup tried)
  <2>1. top \in {1} \cup tried /\ \A n \in {1} \cup tried : n <= top
    <3>1. b + 1 \in Nat /\ {1} \cup tried # {}
      OBVIOUS
    <3> QED
      BY <1>1, <3>1, GreatestNumber
  <2> HIDE DEF top, most
  <2>2. most \in Nat /\ most >= 1 /\ top \in Nat /\ top <= most
    BY <1>2, <2>1
  <2>3. most <= top
    BY <1>2, <2>1
  <2> QED
    BY <2>2, <2>3 DEF top
<1>4. most \in Nat \ {0} /\ \A n \in tried : n \in Nat \ {0}
  <2>1. \A n \in tried : n \in Nat \ {0}
    OBVIOUS
  <2> HIDE DEF most
  <2> QED
    BY <1>2, <2>1
<1> HIDE DEF most
<1> SUFFICES ASSUME NEW initial \in 1..MaxDelay, NEW cap \in 1..MaxDelay
             PROVE  LET delay == RetryDelay(initial, cap, tried)
                        own(n) == Max({initial, Min({Doubled(initial, n), cap})})
                    IN  /\ delay <= Max({initial, cap})
                        /\ \A n \in tried : delay >= own(n)
                        /\ delay \in {own(n) : n \in tried}
  BY DEF CappedFor
<1> DEFINE own(n) == Asked(initial, cap, n)
           delay == RetryDelay(initial, cap, tried)
<1>5. initial \in Nat /\ cap \in Nat
  BY RelayResultAssumption
<1>6. delay = own(most)
  BY <1>3, <1>4, <1>5, BackoffIsAsked DEF RetryDelay
<1>7. own(most) \in Nat /\ own(most) <= Max({initial, cap})
  BY <1>4, <1>5, AskedSteps
<1>8. \A n \in tried : own(n) \in Nat /\ own(n) <= own(most)
  BY <1>2, <1>4, <1>5, AskedSteps, AskedGrows
<1> HIDE DEF own, delay
<1>9. /\ delay <= Max({initial, cap})
      /\ \A n \in tried : delay >= own(n)
      /\ delay \in {own(n) : n \in tried}
  BY <1>2, <1>6, <1>7, <1>8
<1> QED
  BY <1>9 DEF own, delay, Asked

-----------------------------------------------------------------------------
(* What a relay knows of the rows in its batch: each has been claimed.     *)
TriedInOrder ==
    /\ faults <= MaxFaults
    /\ \A r \in Relays : \A k \in batch[r] : attempts[k] >= 1

LEMMA TriedInit == Init => TriedInOrder
BY LimitsAssumption DEF Init, TriedInOrder, Actors

(* A relay's batch only changes when it claims one or drops it.            *)
LEMMA RelayBatches ==
    ASSUME IInv, [Next]_vars, NEW r \in Relays
    PROVE  \/ batch'[r] = batch[r] \/ batch'[r] = {}
           \/ \E S \in SUBSET Claimable : Claim(r, S)
<1>0. batch \in [Actors -> SUBSET Keys] /\ r \in Actors /\ \A c \in Calls : c # r
  BY ActorsAssumption DEF IInv, TypeOK, Actors
<1>1. ASSUME NEW a \in Actors, NEW p, Leave(a, p) PROVE batch'[r] = batch[r] \/ batch'[r] = {}
  BY <1>0, <1>1 DEF Leave
<1>2. ASSUME NEW q \in Relays, NEW S \in SUBSET Claimable, Claim(q, S)
      PROVE  q = r \/ batch'[r] = batch[r]
  BY <1>0, <1>2 DEF Claim
<1>3. ASSUME NEW a \in Actors, BatchRun(a) PROVE batch' = batch
  BY <1>3 DEF BatchRun, Publish, Confirm
<1>4. ASSUME NEW a \in Actors, RollBack(a) \/ FailWriteBack(a) \/ Crash(a)
      PROVE  batch'[r] = batch[r] \/ batch'[r] = {}
  BY <1>1, <1>4, GiveUpLeaves DEF RollBack, FailWriteBack, Crash
<1>5. ASSUME NEW c \in Calls,
             InsertFails(c) \/ InsertConflict(c) \/ FindByID(c) \/ CallWriteBack(c)
      PROVE  batch'[r] = batch[r] \/ batch'[r] = {}
  BY <1>1, <1>5 DEF InsertFails, InsertConflict, FindByID, CallWriteBack, Return, Actors
<1>6. ASSUME NEW c \in Calls, Insert(c) PROVE batch'[r] = batch[r]
  BY <1>0, <1>6 DEF Insert
<1>7. ASSUME NEW q \in Relays, RelayWriteBack(q) PROVE batch'[r] = batch[r] \/ batch'[r] = {}
  BY <1>1, <1>7 DEF RelayWriteBack, Actors
<1>8. ASSUME NEW k \in Keys,
             \/ Elapse(k) \/ Overrun(k)
             \/ \E s \in Reports : Callback(k, s)
      PROVE  batch' = batch
  BY <1>8 DEF Elapse, Overrun, Callback, locals
<1>9. CASE UNCHANGED vars
  BY <1>9 DEF vars, locals
<1> QED
  BY <1>2, <1>3, <1>4, <1>5, <1>6, <1>7, <1>8, <1>9
  DEF Next, CallStep, RelayStep, Environment, Actors

LEMMA TriedNext == IInv /\ TriedInOrder /\ [Next]_vars => TriedInOrder'
<1> SUFFICES ASSUME IInv, TriedInOrder, [Next]_vars, NEW r \in Relays, NEW k \in batch'[r]
             PROVE  attempts'[k] >= 1
  BY CountsGrow DEF TriedInOrder
<1>1. attempts \in [Keys -> Nat] /\ batch \in [Actors -> SUBSET Keys] /\ r \in Actors
  BY DEF IInv, TypeOK, TablesTypeOK, Actors
<1>2. CASE batch'[r] = batch[r]
  <2>1. k \in Keys /\ attempts[k] >= 1 /\ attempts[k] \in Nat
    BY <1>1, <1>2 DEF TriedInOrder
  <2>2. attempts'[k] = attempts[k] \/ attempts'[k] = attempts[k] + 1
    BY <2>1, CountsGrow DEF TriedInOrder
  <2> QED
    BY <2>1, <2>2
<1>3. ASSUME NEW S \in SUBSET Claimable, Claim(r, S) PROVE attempts'[k] >= 1
  <2>1. k \in S /\ k \in Keys
    BY <1>1, <1>3 DEF Claim, Claimable, IInv, TypeOK, TablesTypeOK
  <2> QED
    BY <1>1, <1>3, <2>1 DEF Claim, ClaimPending
<1> QED
  BY <1>2, <1>3, RelayBatches

(* Every batch of a relay with failures is delayed, as long as each of     *)
(* them asks for and within the cap.                                       *)
THEOREM BackoffIsCappedHolds == Spec => []BackoffIsCapped
<1>1. IInv /\ AttemptsInOrder /\ TriedInOrder => BackoffIsCapped
  <2> SUFFICES ASSUME IInv, AttemptsInOrder, TriedInOrder, NEW r \in Relays, Failed(r) # {}
               PROVE  {attempts[k] : k \in Failed(r)} \in Capped
    BY DEF BackoffIsCapped
  <2> DEFINE tried == {attempts[k] : k \in Failed(r)}
             b == MaxAttempts + MaxFaults
  <2>1. b \in Nat /\ faults \in Nat /\ MaxAttempts \in Nat /\ MaxFaults \in Nat
    BY LimitsAssumption DEF IInv, TypeOK
  <2>2. ASSUME NEW k \in Failed(r) PROVE attempts[k] \in 1..b
    <3>1. k \in batch[r] /\ k \in Keys /\ attempts[k] \in Nat
      BY DEF Failed, IInv, TypeOK, TablesTypeOK, Actors
    <3>2. attempts[k] <= MaxAttempts + faults /\ attempts[k] >= 1 /\ faults <= MaxFaults
      BY <3>1 DEF AttemptsInOrder, TriedInOrder
    <3> QED
      BY <2>1, <3>1, <3>2
  <2>3. tried \in SUBSET (1..b) /\ tried # {}
    BY <2>2
  <2> HIDE DEF tried, b
  <2>4. CappedFor(tried)
    BY <2>1, <2>3, DelayIsCapped
  <2> QED
    BY <2>3, <2>4 DEF Capped, Listed, tried, b
<1> QED
  BY <1>1, InvCorrect, InvInit, InvNext, AttemptsInit, AttemptsNext, TriedInit, TriedNext, PTL
  DEF Spec
================================================================================
