--------------------------- MODULE ChannelPoolProofs ---------------------------
(***************************************************************************)
(* Proofs about ChannelPool, for any workers, pool and number of           *)
(* connections.  All invariants follow from an inductive one, IInv, whose  *)
(* parts say in which place each channel is (PlacesInOrder), how far the   *)
(* loop and Close are (LoopInOrder), who is to close which connection      *)
(* (ConnectionsInOrder), which signal may still be open (SignalsInOrder)   *)
(* and who makes up for channels that are missing in the pool (PoolKept).  *)
(***************************************************************************)
EXTENDS ChannelPool, TLAPS, FiniteSetTheorems

(* What is used of the assumption, one fact each.                          *)
LEMMA Numbers ==
    /\ PoolSize \in Nat /\ PoolSize > 0 /\ MaxConns \in Nat /\ MaxConns > 0
    /\ IsFiniteSet(Workers) /\ IsFiniteSet(Channels)
    /\ Cardinality(Workers) \in Nat /\ Cardinality(Channels) \in Nat
    /\ Cardinality(Channels) >= 2 * PoolSize + Cardinality(Workers)
    /\ None \notin Channels
    /\ InitialBackoff \in Nat /\ MaxBackoff \in Nat
<1>1. IsFiniteSet(Workers) /\ IsFiniteSet(Channels)
  BY PoolAssumption
<1>2. Cardinality(Workers) \in Nat /\ Cardinality(Channels) \in Nat
  BY <1>1, FS_CardinalityType
<1> QED
  BY <1>1, <1>2, PoolAssumption

-----------------------------------------------------------------------------
(* There are always enough channels to open.                               *)

(* A finite set has a subset of any smaller size.                          *)
LEMMA SubsetOfSize ==
    ASSUME NEW S, IsFiniteSet(S), NEW n \in Nat, n <= Cardinality(S)
    PROVE  \E T \in SUBSET S : Cardinality(T) = n
<1> DEFINE N == Cardinality(S)
<1>1. N \in Nat /\ ExistsBijection(1..N, S)
  BY FS_CardinalityType
<1>2. PICK f \in Bijection(1..N, S) : TRUE
  BY <1>1 DEF ExistsBijection
<1> DEFINE T == {f[i] : i \in 1..n}
           g == [i \in 1..n |-> f[i]]
<1>3. \A i \in 1..n : i \in 1..N
  BY <1>1
<1>4. f \in [1..N -> S] /\ \A a, b \in 1..N : f[a] = f[b] => a = b
  BY <1>2 DEF Bijection, Injection, IsInjective
<1>5. T \in SUBSET S
  BY <1>3, <1>4
<1>6. g \in Bijection(1..n, T)
  BY <1>3, <1>4 DEF Bijection, Injection, Surjection, IsInjective
<1>7. Cardinality(T) = n
  BY <1>6, FS_CountingElements DEF ExistsBijection
<1> QED
  BY <1>5, <1>7

LEMMA FreshChannels ==
    ASSUME NEW n \in Nat, IsFiniteSet(Unused), n <= Cardinality(Unused)
    PROVE  Fresh(n) \in SUBSET Unused /\ Cardinality(Fresh(n)) = n
BY SubsetOfSize DEF Fresh

(* The workers V hold at most one channel each.                            *)
LEMMA HeldChannels ==
    ASSUME NEW V, IsFiniteSet(V)
    PROVE  LET H == {held[w] : w \in V}
           IN  IsFiniteSet(H) /\ Cardinality(H) \in Nat /\ Cardinality(H) <= Cardinality(V)
<1> DEFINE H == {held[w] : w \in V}
           f == [w \in V |-> held[w]]
<1>1. f \in Surjection(V, H)
  BY DEF Surjection
<1>2. IsFiniteSet(H) /\ Cardinality(H) <= Cardinality(V)
  BY <1>1, FS_Surjection
<1>3. Cardinality(H) \in Nat
  BY <1>2, FS_CardinalityType
<1> QED
  BY <1>2, <1>3

(* The pool, the loop and those workers hold every channel that is open.   *)
LEMMA UnusedChannels ==
    ASSUME TypeOK, PlacesInOrder, NEW V \in SUBSET Workers,
           \A w \in Workers \ V : held[w] = None
    PROVE  /\ IsFiniteSet(Unused) /\ IsFiniteSet(V) /\ IsFiniteSet(built)
           /\ Cardinality(Channels) <=
                Cardinality(Unused) + Cardinality(pool) + Cardinality(built) + Cardinality(V)
<1> DEFINE H == {held[w] : w \in V}
           PB == pool \cup built
           PBH == PB \cup H
<1>1. pool \in SUBSET Channels /\ built \in SUBSET Channels /\ Unused \in SUBSET Channels
  BY DEF TypeOK, Unused
<1>2. IsFiniteSet(pool) /\ IsFiniteSet(built) /\ IsFiniteSet(Unused) /\ IsFiniteSet(V)
  BY <1>1, Numbers, FS_Subset
<1>3. IsFiniteSet(H) /\ Cardinality(H) \in Nat /\ Cardinality(H) <= Cardinality(V)
  BY <1>2, HeldChannels
<1>4. IsFiniteSet(PB) /\ Cardinality(PB) <= Cardinality(pool) + Cardinality(built)
  <2>1. IsFiniteSet(PB) /\ Cardinality(PB) = Cardinality(pool) + Cardinality(built) - Cardinality(pool \cap built)
    BY <1>2, FS_Union
  <2>2. IsFiniteSet(pool \cap built)
    BY <1>2, FS_Intersection
  <2> HIDE DEF PB
  <2> QED
    BY <2>1, <2>2, <1>2, FS_CardinalityType
<1>5. IsFiniteSet(PBH) /\ Cardinality(PBH) <= Cardinality(PB) + Cardinality(H)
  <2> HIDE DEF PB, H
  <2>1. IsFiniteSet(PBH) /\ Cardinality(PBH) = Cardinality(PB) + Cardinality(H) - Cardinality(PB \cap H)
    BY <1>3, <1>4, FS_Union
  <2>2. IsFiniteSet(PB \cap H)
    BY <1>4, FS_Intersection
  <2> QED
    BY <2>1, <2>2, <1>3, <1>4, FS_CardinalityType
<1>6. Channels \subseteq Unused \cup PBH
  <2>1. SUFFICES ASSUME NEW c \in Channels, of[c] # 0
                 PROVE  c \in PBH
    BY DEF Unused
  <2>2. c \in pool \cup built \/ \E w \in Workers : held[w] = c
    BY <2>1 DEF PlacesInOrder
  <2>3. \A w \in Workers : held[w] = c => w \in V
    BY Numbers
  <2> QED
    BY <2>2, <2>3
<1>7. Cardinality(Channels) <= Cardinality(Unused) + Cardinality(PBH)
  <2> DEFINE A == Unused \cup PBH
  <2> HIDE DEF PBH
  <2>1. IsFiniteSet(A) /\ Cardinality(A) = Cardinality(Unused) + Cardinality(PBH) - Cardinality(Unused \cap PBH)
    BY <1>2, <1>5, FS_Union
  <2>2. IsFiniteSet(Unused \cap PBH)
    BY <1>2, FS_Intersection
  <2>3. Cardinality(Channels) <= Cardinality(A)
    BY <1>6, <2>1, FS_Subset
  <2> HIDE DEF A
  <2> QED
    BY <2>1, <2>2, <2>3, <1>2, <1>5, Numbers, FS_CardinalityType
<1> HIDE DEF PBH, PB, H
<1> QED
  BY <1>2, <1>3, <1>4, <1>5, <1>7, Numbers, FS_CardinalityType

-----------------------------------------------------------------------------
LEMMA InitialPool == Init => pool \in SUBSET Channels /\ Cardinality(pool) = PoolSize
<1>1. \E S \in SUBSET Channels : Cardinality(S) = PoolSize
  BY Numbers, SubsetOfSize
<1> QED
  BY <1>1 DEF Init

LEMMA InitiallyIInv == Init => IInv
<1> SUFFICES ASSUME Init PROVE IInv
  OBVIOUS
<1> USE Numbers, InitialPool
<1>1. TypeOK
  <2>1. 1 \in Conns /\ 0 \in 0..MaxConns /\ 0 \in 0..PoolSize
    BY DEF Conns
  <2>2. of \in [Channels -> Conns \cup {0}]
    BY <2>1 DEF Init
  <2>3. LongestBackoff \in Nat
    BY DEF LongestBackoff
  <2>4. closed \in BOOLEAN
    BY DEF Init
  <2>5. closing \in [conn : Conns \cup {0}, drained : 0..PoolSize]
    BY <2>1 DEF Init
  <2> QED
    BY <2>1, <2>2, <2>3, <2>4, <2>5 DEF Init, TypeOK
<1>2. PlacesInOrder
  BY DEF Init, PlacesInOrder
<1>3. LoopInOrder
  BY DEF Init, LoopInOrder
<1>4. ConnectionsInOrder
  BY DEF Init, ConnectionsInOrder
<1>5. PoolKept
  <2>1. Serving = {}
    BY DEF Init, Serving, Working
  <2> QED
    BY <2>1, FS_EmptySet DEF Init, PoolKept
<1>6. SignalsInOrder
  BY DEF Init, SignalsInOrder
<1> QED
  BY <1>1, <1>2, <1>3, <1>4, <1>5, <1>6 DEF IInv

-----------------------------------------------------------------------------
(* Places.                                                                 *)

Holds == {"using", "backfilling"}

(* No channel moves.                                                       *)
LEMMA PlacesStay ==
    ASSUME PlacesInOrder, UNCHANGED <<pool, built, of, held>>,
           \A w \in Workers : stage'[w] \in Holds <=> stage[w] \in Holds
    PROVE  PlacesInOrder'
BY DEF PlacesInOrder, Holds

(* A worker without a channel leaves.                                      *)
LEMMA LeavesEmptyHanded ==
    ASSUME TypeOK, PlacesInOrder, NEW w \in Workers, stage[w] \notin Holds, Leave(w),
           UNCHANGED <<pool, built, of>>
    PROVE  PlacesInOrder'
<1>1. held[w] = None
  BY DEF PlacesInOrder, Holds
<1>2. held' = held
  BY <1>1 DEF Leave, TypeOK
<1>3. \A v \in Workers : stage'[v] \in Holds <=> stage[v] \in Holds
  BY DEF Leave, Goto, TypeOK, Holds
<1> QED
  BY <1>2, <1>3, PlacesStay

(* One with a channel puts it back or closes it.                           *)
LEMMA LeavesChannel ==
    ASSUME TypeOK, PlacesInOrder, NEW w \in Workers, stage[w] \in Holds, UNCHANGED built,
           held' = [held EXCEPT ![w] = None],
           stage'[w] \notin Holds, \A v \in Workers \ {w} : stage'[v] = stage[v],
           (Shut({held[w]}) /\ UNCHANGED pool) \/ PutBack(held[w])
    PROVE  PlacesInOrder'
<1> DEFINE c == held[w]
<1>1. /\ c \in Channels /\ c # None /\ c \notin pool \cup built
      /\ \A v \in Workers : held[v] = c => v = w
  BY Numbers DEF PlacesInOrder, Holds, TypeOK
<1>2. /\ held' \in [Workers -> Channels \cup {None}]
      /\ \A v \in Workers : held'[v] = IF v = w THEN None ELSE held[v]
  BY DEF TypeOK
<1>3. \/ pool' = pool \cup {c} /\ of' = of
      \/ pool' = pool /\ of' = [d \in Channels |-> IF d \in {c} THEN 0 ELSE of[d]]
  BY DEF PutBack, Shut
<1>4. of[c] # 0
  BY <1>1 DEF PlacesInOrder
<1>5. \A v \in Workers : held'[v] # None <=> stage'[v] \in Holds
  BY <1>2 DEF PlacesInOrder, Holds
<1>6. \A v \in Workers : held'[v] \notin pool' \cup built'
  BY <1>1, <1>2, <1>3, Numbers DEF PlacesInOrder, TypeOK
<1>7. \A u, v \in Workers : held'[u] = held'[v] => u = v \/ held'[u] = None
  BY <1>2 DEF PlacesInOrder
<1>8. pool' \cap built' = {}
  BY <1>1, <1>3 DEF PlacesInOrder
<1>9. ASSUME NEW d \in Channels
      PROVE  of'[d] # 0 <=> d \in pool' \cup built' \/ \E v \in Workers : held'[v] = d
  <2>1. of[d] # 0 <=> d \in pool \cup built \/ \E v \in Workers : held[v] = d
    BY DEF PlacesInOrder
  <2>2. CASE d = c
    BY <2>2, <1>1, <1>2, <1>3, <1>4, Numbers
  <2>3. CASE d # c
    <3>1. (\E v \in Workers : held'[v] = d) <=> (\E v \in Workers : held[v] = d)
      BY <2>3, <1>2, Numbers
    <3> QED
      BY <2>1, <2>3, <3>1, <1>3
  <2> QED
    BY <2>2, <2>3
<1> QED
  BY <1>5, <1>6, <1>7, <1>8, <1>9 DEF PlacesInOrder, Holds

(* A channel is taken out of the pool and closed.                          *)
LEMMA LeavesPool ==
    ASSUME TypeOK, PlacesInOrder, NEW c \in pool, pool' = pool \ {c}, Shut({c}),
           UNCHANGED <<built, stage, held>>
    PROVE  PlacesInOrder'
<1>1. of' = [d \in Channels |-> IF d = c THEN 0 ELSE of[d]]
  BY DEF Shut
<1>2. \A w \in Workers : held[w] # c
  BY DEF PlacesInOrder
<1>3. c \notin built
  BY DEF PlacesInOrder
<1> QED
  BY <1>1, <1>2, <1>3 DEF PlacesInOrder, TypeOK

(* The channel of a worker's replacement is a fresh one.                   *)
LEMMA OpenKeepsPlaces ==
    ASSUME TypeOK, PlacesInOrder, LoopInOrder, NEW w \in Workers, OpenReplacement(w)
    PROVE  /\ PlacesInOrder'
           /\ \E c \in Unused : /\ of' = [of EXCEPT ![c] = sees[w]]
                                /\ held' = [held EXCEPT ![w] = c]
<1>1. held[w] = None
  BY DEF OpenReplacement, PlacesInOrder
<1>2. Cardinality(pool) <= PoolSize /\ Cardinality(built) <= PoolSize
  <2>1. Cardinality(built) = PoolSize \/ built = {}
    BY DEF LoopInOrder
  <2>2. Cardinality({}) = 0
    BY FS_EmptySet
  <2>3. Cardinality(built) = PoolSize \/ Cardinality(built) = 0
    BY <2>1, <2>2
  <2> QED
    BY <2>3, Numbers DEF TypeOK
<1>3. IsFiniteSet(Unused) /\ 1 <= Cardinality(Unused)
  <2> DEFINE V == Workers \ {w}
  <2>1. Cardinality(V) = Cardinality(Workers) - 1
    BY Numbers, FS_RemoveElement
  <2>2. \A v \in Workers \ V : held[v] = None
    BY <1>1
  <2>3. /\ IsFiniteSet(Unused) /\ IsFiniteSet(built)
        /\ Cardinality(Channels) <=
             Cardinality(Unused) + Cardinality(pool) + Cardinality(built) + Cardinality(V)
    BY <2>2, UnusedChannels
  <2>4. IsFiniteSet(pool)
    BY Numbers, FS_Subset DEF TypeOK
  <2> HIDE DEF V
  <2> QED
    BY <2>1, <2>3, <2>4, <1>2, Numbers, FS_CardinalityType
<1>4. Fresh(1) \in SUBSET Unused
  BY <1>3, FreshChannels
<1>5. PICK c \in Unused : of' = [of EXCEPT ![c] = sees[w]] /\ held' = [held EXCEPT ![w] = c]
  BY <1>4 DEF OpenReplacement
<1>6. c \in Channels /\ of[c] = 0 /\ c # None
  BY Numbers DEF Unused
<1>7. c \notin pool \cup built /\ \A v \in Workers : held[v] # c
  BY <1>6 DEF PlacesInOrder
<1>8. sees[w] # 0
  BY DEF OpenReplacement, TypeOK, Conns
<1>9. /\ stage' = [stage EXCEPT ![w] = "backfilling"] /\ stage[w] = "replacing"
      /\ UNCHANGED <<pool, built>>
  BY DEF OpenReplacement, Goto, shared, reconnecting
<1>10. PlacesInOrder'
  <2>1. \A v \in Workers : held'[v] = IF v = w THEN c ELSE held[v]
    BY <1>5 DEF TypeOK
  <2>2. \A v \in Workers : stage'[v] = IF v = w THEN "backfilling" ELSE stage[v]
    BY <1>9 DEF TypeOK
  <2>3. \A d \in Channels : of'[d] = IF d = c THEN sees[w] ELSE of[d]
    BY <1>5 DEF TypeOK
  <2>4. \A v \in Workers : held'[v] # None <=> stage'[v] \in {"using", "backfilling"}
    BY <2>1, <2>2, <1>6 DEF PlacesInOrder
  <2>5. \A v \in Workers : held'[v] \notin pool' \cup built'
    BY <2>1, <1>7, <1>9 DEF PlacesInOrder
  <2>6. \A u, v \in Workers : held'[u] = held'[v] => u = v \/ held'[u] = None
    BY <2>1, <1>7 DEF PlacesInOrder
  <2>7. ASSUME NEW d \in Channels
        PROVE  of'[d] # 0 <=> d \in pool' \cup built' \/ \E v \in Workers : held'[v] = d
    <3>1. CASE d = c
      BY <3>1, <2>1, <2>3, <1>8
    <3>2. CASE d # c
      <4>1. (\E v \in Workers : held'[v] = d) <=> (\E v \in Workers : held[v] = d)
        BY <3>2, <2>1, <1>1, <1>6, Numbers
      <4> QED
        BY <3>2, <4>1, <2>3, <1>9 DEF PlacesInOrder
    <3> QED
      BY <3>1, <3>2
  <2>8. pool' \cap built' = {}
    BY <1>9 DEF PlacesInOrder
  <2> QED
    BY <2>4, <2>5, <2>6, <2>7, <2>8 DEF PlacesInOrder
<1> QED
  BY <1>5, <1>10

WorkerStep(w) ==
    \/ BorrowStart(w) \/ BorrowStep(w) \/ BorrowCancelled(w)
    \/ ReleaseSound(w) \/ ReleaseStep(w) \/ OpenFails(w)

LEMMA WorkerKeepsPlaces ==
    ASSUME TypeOK, PlacesInOrder, LoopInOrder, NEW w \in Workers, WorkerStep(w)
    PROVE  PlacesInOrder'
<1>1. CASE BorrowStart(w) \/ ConnectionReady(w) \/ OpenFails(w)
  <2>1. UNCHANGED <<pool, built, of, held>>
    BY <1>1 DEF BorrowStart, ConnectionReady, OpenFails, shared, network, reconnecting
  <2>2. \A v \in Workers : stage'[v] \in Holds <=> stage[v] \in Holds
    BY <1>1 DEF BorrowStart, ConnectionReady, OpenFails, Goto, TypeOK, Holds
  <2> QED
    BY <2>1, <2>2, PlacesStay
<1>2. CASE BorrowClosed(w) \/ BorrowCancelled(w) \/ LeaveToReconnect(w) \/ ForceReconnect(w)
  <2>1. /\ UNCHANGED <<pool, built, of>> /\ Leave(w)
        /\ stage[w] \notin Holds
    BY <1>2 DEF BorrowClosed, BorrowCancelled, LeaveToReconnect, ForceReconnect,
                shared, network, reconnecting, Holds
  <2> QED
    BY <2>1, LeavesEmptyHanded
<1>3. CASE Pick(w)
  <2>1. PICK c \in pool : /\ pool' = pool \ {c} /\ held' = [held EXCEPT ![w] = c]
                          /\ stage' = [stage EXCEPT ![w] = "using"]
    BY <1>3 DEF Pick, Goto
  <2>2. stage[w] = "picking" /\ UNCHANGED <<built, of>>
    BY <1>3 DEF Pick, network, reconnecting
  <2>3. held[w] = None
    BY <2>2 DEF PlacesInOrder
  <2>4. \A v \in Workers : held'[v] = IF v = w THEN c ELSE held[v]
    BY <2>1 DEF TypeOK
  <2>5. \A v \in Workers : stage'[v] = stage[v] \/ (v = w /\ stage'[v] = "using")
    BY <2>1 DEF TypeOK
  <2>6. stage'[w] = "using"
    BY <2>1 DEF TypeOK
  <2>7. c \in Channels /\ c # None /\ c \notin built /\ \A v \in Workers : held[v] # c
    BY Numbers DEF TypeOK, PlacesInOrder
  <2>8. \A v \in Workers : held'[v] # None <=> stage'[v] \in {"using", "backfilling"}
    BY <2>4, <2>5, <2>6, <2>7 DEF PlacesInOrder
  <2>9. \A v \in Workers : held'[v] \notin pool' \cup built'
    BY <2>1, <2>2, <2>4, <2>7 DEF PlacesInOrder
  <2>10. \A u, v \in Workers : held'[u] = held'[v] => u = v \/ held'[u] = None
    BY <2>4, <2>7 DEF PlacesInOrder
  <2>11. pool' \cap built' = {}
    BY <2>1, <2>2 DEF PlacesInOrder
  <2>12. ASSUME NEW d \in Channels
         PROVE  of'[d] # 0 <=> d \in pool' \cup built' \/ \E v \in Workers : held'[v] = d
    <3>1. d # c => ((\E v \in Workers : held'[v] = d) <=> (\E v \in Workers : held[v] = d))
      BY <2>3, <2>4, Numbers
    <3>2. \E v \in Workers : held'[v] = c
      BY <2>4
    <3> QED
      BY <3>1, <3>2, <2>1, <2>2 DEF PlacesInOrder
  <2> QED
    BY <2>8, <2>9, <2>10, <2>11, <2>12 DEF PlacesInOrder
<1>4. CASE ReleaseSound(w) \/ ReleaseBroken(w) \/ Backfill(w)
  <2>1. stage[w] \in Holds /\ UNCHANGED built /\ held' = [held EXCEPT ![w] = None]
    BY <1>4 DEF ReleaseSound, ReleaseBroken, Backfill, Leave, reconnecting, Holds
  <2>2. stage'[w] \notin Holds /\ \A v \in Workers \ {w} : stage'[v] = stage[v]
    BY <1>4 DEF ReleaseSound, ReleaseBroken, Backfill, Leave, Goto, TypeOK, Holds
  <2>3. (Shut({held[w]}) /\ UNCHANGED pool) \/ PutBack(held[w])
    BY <1>4 DEF ReleaseSound, ReleaseBroken, Backfill, shared
  <2> QED
    BY <2>1, <2>2, <2>3, LeavesChannel
<1>5. CASE OpenReplacement(w)
  BY <1>5, OpenKeepsPlaces
<1> QED
  BY <1>1, <1>2, <1>3, <1>4, <1>5 DEF WorkerStep, BorrowStep, ReleaseStep

(* A poolful of fresh channels is opened for the new connection.           *)
LEMMA DialKeepsPlaces ==
    ASSUME TypeOK, PlacesInOrder, LoopInOrder, Dial
    PROVE  /\ PlacesInOrder'
           /\ built' \in SUBSET Unused /\ Cardinality(built') = PoolSize
           /\ of' = [c \in Channels |-> IF c \in built' THEN dialled' ELSE of[c]]
           /\ dialled' \in Conns
<1>1. built = {} /\ UNCHANGED <<pool, stage, held>> /\ dialled' \in Conns /\ dialled' # 0
  <2>1. built = {}
    BY DEF Dial, LoopInOrder
  <2>2. UNCHANGED <<pool, stage, held>>
    BY DEF Dial, shared, workers
  <2>3. dialled \in Nat /\ dialled > 0 /\ dialled < MaxConns /\ dialled' = dialled + 1
    BY Numbers DEF Dial, TypeOK, Conns
  <2>4. dialled' \in 1..MaxConns /\ dialled' # 0
    BY <2>3, Numbers
  <2> QED
    BY <2>1, <2>2, <2>4 DEF Conns
<1>2. IsFiniteSet(Unused) /\ PoolSize <= Cardinality(Unused)
  <2>1. \A v \in Workers \ Workers : held[v] = None
    OBVIOUS
  <2>2. /\ IsFiniteSet(Unused)
        /\ Cardinality(Channels) <=
             Cardinality(Unused) + Cardinality(pool) + Cardinality(built) + Cardinality(Workers)
    BY <2>1, UnusedChannels
  <2>3. Cardinality(built) = 0
    BY <1>1, FS_EmptySet
  <2>4. IsFiniteSet(pool) /\ Cardinality(pool) <= PoolSize
    BY Numbers, FS_Subset DEF TypeOK
  <2> QED
    BY <2>2, <2>3, <2>4, Numbers, FS_CardinalityType
<1>3. built' \in SUBSET Unused /\ Cardinality(built') = PoolSize
  BY <1>2, Numbers, FreshChannels DEF Dial
<1>4. of' = [c \in Channels |-> IF c \in built' THEN dialled' ELSE of[c]]
  BY DEF Dial
<1>5. \A c \in built' : c \in Channels /\ of[c] = 0
  BY <1>3 DEF Unused
<1>6. \A c \in built' : c \notin pool /\ c # None /\ \A w \in Workers : held[w] # c
  BY <1>5, Numbers DEF PlacesInOrder
<1>7. \A w \in Workers : held'[w] \notin pool' \cup built'
  BY <1>1, <1>6 DEF PlacesInOrder
<1>8. pool' \cap built' = {}
  BY <1>1, <1>6
<1>9. \A d \in Channels :
         of'[d] # 0 <=> d \in pool' \cup built' \/ \E w \in Workers : held'[w] = d
  BY <1>1, <1>4 DEF PlacesInOrder
<1>10. PlacesInOrder'
  BY <1>1, <1>7, <1>8, <1>9 DEF PlacesInOrder
<1> QED
  BY <1>1, <1>3, <1>4, <1>10

(* Those that fit move into the pool, the others are closed.               *)
LEMMA FillKeepsPlaces ==
    ASSUME TypeOK, PlacesInOrder, Fill
    PROVE  PlacesInOrder'
<1>1. built' = {} /\ UNCHANGED <<stage, held>>
  BY DEF Fill, workers
<1>2. PICK S \in SUBSET built : pool' = pool \cup S /\ Shut(built \ S)
  <2>1. CASE closed
    <3>1. {} \in SUBSET built /\ pool' = pool \cup {} /\ Shut(built \ {})
      BY <2>1 DEF Fill, Shut
    <3> QED
      BY <3>1
  <2>2. CASE ~closed
    BY <2>2 DEF Fill
  <2> QED
    BY <2>1, <2>2
<1>3. of' = [c \in Channels |-> IF c \in built \ S THEN 0 ELSE of[c]]
  BY <1>2 DEF Shut
<1>4. \A c \in built : c \notin pool /\ \A w \in Workers : held[w] # c
  BY DEF PlacesInOrder
<1>5. \A w \in Workers : held'[w] \notin pool' \cup built'
  BY <1>1, <1>2 DEF PlacesInOrder
<1>6. \A d \in Channels :
         of'[d] # 0 <=> d \in pool' \cup built' \/ \E w \in Workers : held'[w] = d
  BY <1>1, <1>2, <1>3, <1>4 DEF PlacesInOrder
<1> QED
  BY <1>1, <1>5, <1>6 DEF PlacesInOrder

LoopStep == Reconnect \/ DialFails
CloseStep == CloseStart \/ CloseDrain \/ CloseEnd

LEMMA LoopKeepsPlaces ==
    ASSUME TypeOK, PlacesInOrder, LoopInOrder, LoopStep \/ CloseStep \/ ConnectionDies
    PROVE  PlacesInOrder'
<1>1. CASE \/ Watch \/ Stop \/ HandleDisconnect \/ SignalReady \/ DialFails
           \/ CloseStart \/ CloseEnd \/ ConnectionDies
  <2>1. UNCHANGED <<pool, built, of, stage, held>>
    BY <1>1 DEF Watch, Stop, HandleDisconnect, SignalReady, DialFails, CloseStart, CloseEnd,
                ConnectionDies, shared, network, workers, reconnecting
  <2> QED
    BY <2>1, PlacesStay
<1>2. CASE DrainPool
  <2>1. UNCHANGED <<built, stage, held>>
    BY <1>2 DEF DrainPool, workers
  <2>2. CASE \E c \in pool : pool' = pool \ {c} /\ Shut({c})
    BY <2>1, <2>2, LeavesPool
  <2>3. CASE UNCHANGED <<pool, of>>
    BY <2>1, <2>3, PlacesStay
  <2> QED
    BY <1>2, <2>2, <2>3 DEF DrainPool
<1>3. CASE CloseDrain
  <2>1. /\ UNCHANGED <<built, stage, held>>
        /\ \E c \in pool : pool' = pool \ {c} /\ Shut({c})
    BY <1>3 DEF CloseDrain, workers, reconnecting
  <2> QED
    BY <2>1, LeavesPool
<1>4. CASE Dial
  BY <1>4, DialKeepsPlaces
<1>5. CASE Fill
  BY <1>5, FillKeepsPlaces
<1> QED
  BY <1>1, <1>2, <1>3, <1>4, <1>5 DEF LoopStep, CloseStep, Reconnect

LEMMA NextKeepsPlaces ==
    ASSUME TypeOK, PlacesInOrder, LoopInOrder, [Next]_vars
    PROVE  PlacesInOrder'
<1>1. CASE UNCHANGED vars
  BY <1>1, PlacesStay DEF vars, shared, network, workers, reconnecting
<1> QED
  BY <1>1, WorkerKeepsPlaces, LoopKeepsPlaces DEF Next, WorkerStep, LoopStep, CloseStep

-----------------------------------------------------------------------------
(* Loop and Close.                                                         *)

(* Workers leave them alone: they only ever shut a connection down.        *)
LEMMA WorkerLeavesLoop ==
    ASSUME NEW w \in Workers, WorkerStep(w)
    PROVE  /\ UNCHANGED <<conn, ready, signalled, closed, dialled, reconnecting, closes>>
           /\ up' \subseteq up
           /\ up' = up \/ up' = up \ {conn}
BY DEF WorkerStep, BorrowStep, ReleaseStep, BorrowStart, ConnectionReady, BorrowClosed,
       BorrowCancelled, Pick, ReleaseSound, ReleaseBroken, LeaveToReconnect, OpenReplacement,
       OpenFails, Backfill, ForceReconnect, shared, network

LEMMA NextKeepsLoop ==
    ASSUME TypeOK, PlacesInOrder, LoopInOrder, [Next]_vars
    PROVE  LoopInOrder'
<1>1. ready \in Nat /\ dialled \in Nat
  BY Numbers DEF TypeOK, Conns
<1>2. CASE UNCHANGED vars \/ (\E w \in Workers : WorkerStep(w)) \/ ConnectionDies \/ DialFails
  <2>1. UNCHANGED <<conn, closed, closer, closing, loop, watch, built, ready, dialled>>
    <3>1. CASE \E w \in Workers : WorkerStep(w)
      BY <3>1, WorkerLeavesLoop DEF reconnecting, closes
    <3>2. CASE UNCHANGED vars
      BY <3>2 DEF vars, shared, network, reconnecting, closes
    <3>3. CASE ConnectionDies \/ DialFails
      BY <3>3 DEF ConnectionDies, DialFails, shared, network, reconnecting, closes
    <3> QED
      BY <1>2, <3>1, <3>2, <3>3
  <2> QED
    BY <2>1 DEF LoopInOrder
<1>3. CASE Watch \/ Stop \/ SignalReady
  BY <1>3 DEF Watch, Stop, SignalReady, shared, network, closes, LoopInOrder
<1>4. CASE HandleDisconnect
  BY <1>1, <1>4 DEF HandleDisconnect, network, closes, LoopInOrder
<1>5. CASE DrainPool
  BY <1>5 DEF DrainPool, closes, LoopInOrder
<1>6. CASE Dial
  <2>1. Cardinality(built') = PoolSize
    BY <1>6, DialKeepsPlaces
  <2>2. /\ loop' = "filling" /\ conn = 0 /\ dialled' = dialled + 1
        /\ UNCHANGED <<conn, ready, closed, closer, closing>>
    BY <1>6 DEF Dial, shared, closes, LoopInOrder
  <2> QED
    BY <1>1, <2>1, <2>2 DEF LoopInOrder
<1>7. CASE Fill
  BY <1>7 DEF Fill, closes, LoopInOrder
<1>8. CASE CloseStep
  BY <1>8 DEF CloseStep, CloseStart, CloseDrain, CloseEnd, shared, network, reconnecting, LoopInOrder, TypeOK
<1> QED
  BY <1>2, <1>3, <1>4, <1>5, <1>6, <1>7, <1>8
     DEF Next, WorkerStep, LoopStep, CloseStep, Reconnect

LEMMA NextKeepsConnections ==
    ASSUME TypeOK, LoopInOrder, ConnectionsInOrder, [Next]_vars
    PROVE  ConnectionsInOrder'
<1>1. 0 \notin up
  BY Numbers DEF TypeOK, Conns
<1>2. CASE UNCHANGED vars \/ (\E w \in Workers : WorkerStep(w)) \/ ConnectionDies \/ DialFails
  <2>1. UNCHANGED <<conn, closer, closing, loop, watch>> /\ up' \subseteq up
    <3>1. CASE \E w \in Workers : WorkerStep(w)
      BY <3>1, WorkerLeavesLoop DEF reconnecting, closes
    <3>2. CASE UNCHANGED vars
      BY <3>2 DEF vars, shared, network, reconnecting, closes
    <3>3. CASE ConnectionDies \/ DialFails
      BY <3>3 DEF ConnectionDies, DialFails, shared, network, reconnecting, closes
    <3> QED
      BY <1>2, <3>1, <3>2, <3>3
  <2> QED
    BY <2>1 DEF ConnectionsInOrder
<1>3. CASE Watch \/ Stop \/ SignalReady
  BY <1>3 DEF Watch, Stop, SignalReady, shared, network, closes, ConnectionsInOrder, LoopInOrder
<1>4. CASE HandleDisconnect
  <2>1. conn \notin up
    BY <1>1, <1>4 DEF HandleDisconnect, LoopInOrder
  <2>2. conn' = 0 /\ loop' = "draining" /\ loop = "watching" /\ UNCHANGED <<up, closer, closing, watch>>
    BY <1>4 DEF HandleDisconnect, network, closes
  <2> QED
    BY <2>1, <2>2 DEF ConnectionsInOrder
<1>5. CASE DrainPool
  BY <1>5 DEF DrainPool, closes, ConnectionsInOrder
<1>6. CASE Dial
  BY <1>6 DEF Dial, shared, closes, ConnectionsInOrder
<1>7. CASE Fill
  <2>1. conn = 0 /\ UNCHANGED <<closer, closing, watch>> /\ loop = "filling"
    BY <1>7 DEF Fill, closes, LoopInOrder
  <2>2. CASE closed
    BY <2>1, <2>2, <1>7, <1>1 DEF Fill, ConnectionsInOrder
  <2>3. CASE ~closed
    <3>1. closer # "done" /\ conn' = watch /\ up' = up /\ loop' = "signalling"
      BY <2>3, <1>7 DEF Fill, LoopInOrder
    <3> QED
      BY <2>1, <3>1, <1>1 DEF ConnectionsInOrder
  <2> QED
    BY <2>2, <2>3
<1>8. CASE CloseStart
  <2>1. /\ closing'.conn = conn /\ conn' = 0 /\ closer' = "draining" /\ closer = "none"
        /\ closing.conn = 0 /\ UNCHANGED <<up, loop, watch>>
    BY <1>8 DEF CloseStart, network, reconnecting, LoopInOrder
  <2> QED
    BY <2>1, <1>1 DEF ConnectionsInOrder
<1>9. CASE CloseDrain
  <2>1. closing'.conn = closing.conn /\ UNCHANGED <<up, loop, watch, conn, closer>>
    BY <1>9 DEF CloseDrain, reconnecting, TypeOK
  <2> QED
    BY <2>1 DEF ConnectionsInOrder
<1>10. CASE CloseEnd
  <2>1. conn = 0 /\ up' = up \ {closing.conn} /\ closer' = "done" /\ UNCHANGED <<conn, closing, loop, watch>>
    BY <1>10 DEF CloseEnd, shared, reconnecting, LoopInOrder
  <2> QED
    BY <2>1, <1>1 DEF ConnectionsInOrder
<1> QED
  BY <1>2, <1>3, <1>4, <1>5, <1>6, <1>7, <1>8, <1>9, <1>10
     DEF Next, WorkerStep, LoopStep, Reconnect

-----------------------------------------------------------------------------
(* Types.                                                                  *)

LEMMA PutBackTypes ==
    ASSUME TypeOK, NEW c \in Channels,
           (Shut({c}) /\ UNCHANGED pool) \/ PutBack(c)
    PROVE  /\ pool' \in SUBSET Channels /\ Cardinality(pool') <= PoolSize
           /\ of' \in [Channels -> Conns \cup {0}]
<1>1. IsFiniteSet(pool) /\ Cardinality(pool) \in Nat
  BY Numbers, FS_Subset, FS_CardinalityType DEF TypeOK
<1>2. CASE Shut({c}) /\ UNCHANGED pool
  BY <1>2 DEF Shut, TypeOK
<1>3. CASE PutBack(c)
  <2>1. CASE Cardinality(pool) < PoolSize
    <3>1. pool' = pool \cup {c} /\ of' = of
      BY <1>3, <2>1 DEF PutBack
    <3>2. Cardinality(pool \cup {c}) = Cardinality(pool) \/ Cardinality(pool \cup {c}) = Cardinality(pool) + 1
      BY <1>1, FS_AddElement
    <3> QED
      BY <1>1, <2>1, <3>1, <3>2, Numbers DEF TypeOK
  <2>2. CASE ~(Cardinality(pool) < PoolSize)
    BY <1>3, <2>2 DEF PutBack, Shut, TypeOK
  <2> QED
    BY <2>1, <2>2
<1> QED
  BY <1>2, <1>3

LEMMA TakenFromPool ==
    ASSUME TypeOK, NEW c \in pool
    PROVE  /\ Cardinality(pool \ {c}) = Cardinality(pool) - 1
           /\ Cardinality(pool) \in Nat \ {0}
           /\ Cardinality(pool \ {c}) <= PoolSize
<1>1. IsFiniteSet(pool)
  BY Numbers, FS_Subset DEF TypeOK
<1>2. Cardinality(pool) \in Nat /\ Cardinality(pool) # 0
  BY <1>1, FS_CardinalityType, FS_EmptySet
<1>3. Cardinality(pool \ {c}) = Cardinality(pool) - 1
  BY <1>1, FS_RemoveElement
<1> QED
  BY <1>2, <1>3, Numbers DEF TypeOK

(* The part of TypeOK about each group of variables.                       *)
WorkerTypes ==
    /\ stage \in [Workers -> {"idle", "waiting", "picking"} \cup Working]
    /\ held \in [Workers -> Channels \cup {None}]
    /\ sees \in [Workers -> 0..MaxConns]
PoolTypes ==
    /\ pool \in SUBSET Channels /\ Cardinality(pool) <= PoolSize
    /\ of \in [Channels -> Conns \cup {0}]
OtherTypes ==
    /\ conn \in Conns \cup {0}
    /\ ready \in 0..MaxConns /\ signalled \in SUBSET (0..MaxConns)
    /\ up \in SUBSET Conns /\ dialled \in Conns
    /\ loop \in {"top", "watching", "draining", "dialling", "filling", "signalling", "stopped"}
    /\ watch \in Conns \cup {0}
    /\ built \in SUBSET Channels
    /\ backoff \in 0..LongestBackoff
    /\ closer \in {"none", "draining", "done"}
    /\ closing \in [conn : Conns \cup {0}, drained : 0..PoolSize]

LEMMA TypeParts ==
    /\ TypeOK <=> WorkerTypes /\ PoolTypes /\ OtherTypes /\ closed \in BOOLEAN
    /\ TypeOK' <=> WorkerTypes' /\ PoolTypes' /\ OtherTypes' /\ closed' \in BOOLEAN
<1>1. TypeOK <=> WorkerTypes /\ PoolTypes /\ OtherTypes /\ closed \in BOOLEAN
  BY Zenon DEF TypeOK, WorkerTypes, PoolTypes, OtherTypes
<1>2. TypeOK' <=> WorkerTypes' /\ PoolTypes' /\ OtherTypes' /\ closed' \in BOOLEAN
  BY Zenon DEF TypeOK, WorkerTypes, PoolTypes, OtherTypes
<1> QED
  BY <1>1, <1>2

LEMMA WorkerKeepsTypes ==
    ASSUME TypeOK, PlacesInOrder, LoopInOrder, NEW w \in Workers, WorkerStep(w)
    PROVE  TypeOK'
<1> USE DEF Working
<1>1. OtherTypes'
  <2>1. OtherTypes
    BY TypeParts
  <2> QED
    BY <2>1, WorkerLeavesLoop DEF OtherTypes, reconnecting, closes
<1>2. closed' \in BOOLEAN
  <2>1. closed' = closed
    BY WorkerLeavesLoop
  <2> QED
    BY <2>1, TypeParts
<1>3. CASE BorrowStart(w) \/ ConnectionReady(w) \/ OpenFails(w)
  <2>1. WorkerTypes'
    BY <1>3 DEF BorrowStart, ConnectionReady, OpenFails, Goto, network, shared, TypeOK, WorkerTypes
  <2>2. PoolTypes'
    BY <1>3 DEF BorrowStart, ConnectionReady, OpenFails, network, shared, TypeOK, PoolTypes
  <2> QED
    BY <1>1, <1>2, <2>1, <2>2, TypeParts
<1>4. CASE BorrowClosed(w) \/ BorrowCancelled(w) \/ LeaveToReconnect(w) \/ ForceReconnect(w)
  <2>1. Leave(w) /\ UNCHANGED <<pool, of>>
    BY <1>4 DEF BorrowClosed, BorrowCancelled, LeaveToReconnect, ForceReconnect, shared, network
  <2>2. WorkerTypes'
    BY <2>1, Numbers DEF Leave, Goto, TypeOK, WorkerTypes
  <2>3. PoolTypes'
    BY <2>1 DEF TypeOK, PoolTypes
  <2> QED
    BY <1>1, <1>2, <2>2, <2>3, TypeParts
<1>5. CASE Pick(w)
  <2>1. PICK c \in pool : /\ pool' = pool \ {c} /\ held' = [held EXCEPT ![w] = c]
                          /\ sees' = [sees EXCEPT ![w] = 0]
                          /\ stage' = [stage EXCEPT ![w] = "using"]
                          /\ of' = of
    BY <1>5 DEF Pick, Goto, network
  <2>2. WorkerTypes'
    BY <2>1, Numbers DEF TypeOK, WorkerTypes
  <2>3. PoolTypes'
    BY <2>1, TakenFromPool DEF TypeOK, PoolTypes
  <2> QED
    BY <1>1, <1>2, <2>2, <2>3, TypeParts
<1>6. CASE ReleaseSound(w) \/ ReleaseBroken(w) \/ Backfill(w)
  <2>1. held[w] \in Channels
    BY <1>6 DEF ReleaseSound, ReleaseBroken, Backfill, PlacesInOrder, TypeOK
  <2>2. (Shut({held[w]}) /\ UNCHANGED pool) \/ PutBack(held[w])
    BY <1>6 DEF ReleaseSound, ReleaseBroken, Backfill, shared
  <2>3. WorkerTypes'
    <3>1. conn \in 0..MaxConns
      BY Numbers DEF TypeOK, Conns
    <3>2. CASE Leave(w)
      BY <3>2, Numbers DEF Leave, Goto, TypeOK, WorkerTypes
    <3>3. CASE /\ Goto(w, "replacing") /\ held' = [held EXCEPT ![w] = None]
               /\ sees' = [sees EXCEPT ![w] = conn]
      BY <3>1, <3>3 DEF Goto, TypeOK, WorkerTypes
    <3> QED
      BY <1>6, <3>2, <3>3 DEF ReleaseSound, ReleaseBroken, Backfill
  <2>4. PoolTypes'
    BY <2>1, <2>2, PutBackTypes DEF PoolTypes
  <2> QED
    BY <1>1, <1>2, <2>3, <2>4, TypeParts
<1>7. CASE OpenReplacement(w)
  <2>1. PICK c \in Unused : of' = [of EXCEPT ![c] = sees[w]] /\ held' = [held EXCEPT ![w] = c]
    BY <1>7, OpenKeepsPlaces
  <2>2. c \in Channels
    BY DEF Unused
  <2>3. sees[w] \in Conns
    BY <1>7 DEF OpenReplacement, TypeOK
  <2>4. WorkerTypes'
    BY <1>7, <2>1, <2>2 DEF OpenReplacement, Goto, TypeOK, WorkerTypes
  <2>5. PoolTypes'
    BY <1>7, <2>1, <2>2, <2>3 DEF OpenReplacement, shared, TypeOK, PoolTypes
  <2> QED
    BY <1>1, <1>2, <2>4, <2>5, TypeParts
<1> QED
  BY <1>3, <1>4, <1>5, <1>6, <1>7 DEF WorkerStep, BorrowStep, ReleaseStep

LEMMA LoopKeepsTypes ==
    ASSUME TypeOK, PlacesInOrder, LoopInOrder, LoopStep \/ CloseStep \/ ConnectionDies
    PROVE  TypeOK'
<1> USE Numbers
<1>1. WorkerTypes'
  <2>1. UNCHANGED workers
    BY DEF LoopStep, CloseStep, Reconnect, Watch, Stop, HandleDisconnect, DrainPool, Dial, Fill,
           SignalReady, DialFails, CloseStart, CloseDrain, CloseEnd, ConnectionDies
  <2> QED
    BY <2>1, TypeParts DEF workers, WorkerTypes
<1>2. closed' \in BOOLEAN
  <2>1. CASE CloseStart
    BY <2>1 DEF CloseStart
  <2>2. CASE ~CloseStart
    <3>1. closed' = closed
      BY <2>2 DEF LoopStep, CloseStep, Reconnect, Watch, Stop, HandleDisconnect, DrainPool, Dial,
                  Fill, SignalReady, DialFails, CloseDrain, CloseEnd, ConnectionDies, shared
    <3> QED
      BY <3>1, TypeParts
  <2> QED
    BY <2>1, <2>2
<1>3. LongestBackoff \in Nat /\ InitialBackoff <= LongestBackoff /\ MaxBackoff <= LongestBackoff
  BY DEF LongestBackoff
<1>4. OtherTypes /\ PoolTypes
  BY TypeParts
<1>5. CASE Watch \/ Stop \/ SignalReady \/ ConnectionDies \/ DialFails
  <2>1. PoolTypes'
    BY <1>4, <1>5 DEF Watch, Stop, SignalReady, ConnectionDies, DialFails, shared, network, PoolTypes
  <2>2. CASE Watch \/ Stop
    BY <1>1, <1>2, <1>4, <2>1, <2>2, TypeParts DEF Watch, Stop, shared, network, closes, OtherTypes
  <2>3. CASE SignalReady
    BY <1>1, <1>2, <1>4, <2>1, <2>3, TypeParts DEF SignalReady, network, closes, OtherTypes
  <2>4. CASE ConnectionDies
    BY <1>1, <1>2, <1>4, <2>1, <2>4, TypeParts DEF ConnectionDies, shared, reconnecting, closes, OtherTypes
  <2>5. CASE DialFails
    <3>1. backoff' \in 0..LongestBackoff
      BY <1>3, <1>4, <2>5 DEF DialFails, OtherTypes
    <3> QED
      BY <1>1, <1>2, <1>4, <2>1, <2>5, <3>1, TypeParts DEF DialFails, shared, network, closes, OtherTypes
  <2> QED
    BY <1>5, <2>2, <2>3, <2>4, <2>5
<1>6. CASE HandleDisconnect
  <2>1. ready' \in 0..MaxConns
    BY <1>4, <1>6 DEF HandleDisconnect, LoopInOrder, OtherTypes, Conns
  <2>2. OtherTypes' /\ PoolTypes'
    BY <1>4, <1>6, <2>1 DEF HandleDisconnect, network, closes, OtherTypes, PoolTypes
  <2> QED
    BY <1>1, <1>2, <2>2, TypeParts
<1>7. CASE DrainPool
  <2>1. PoolTypes'
    <3>1. CASE \E c \in pool : pool' = pool \ {c} /\ Shut({c})
      BY <1>4, <3>1, TakenFromPool DEF Shut, PoolTypes
    <3>2. CASE UNCHANGED <<pool, of>>
      BY <1>4, <3>2 DEF PoolTypes
    <3> QED
      BY <1>7, <3>1, <3>2 DEF DrainPool
  <2>2. OtherTypes'
    BY <1>3, <1>4, <1>7 DEF DrainPool, closes, OtherTypes
  <2> QED
    BY <1>1, <1>2, <2>1, <2>2, TypeParts
<1>8. CASE Dial
  <2>1. dialled' \in Conns /\ built' \in SUBSET Channels
    BY <1>4, <1>8, DialKeepsPlaces DEF Dial, OtherTypes, Conns, Unused
  <2>2. PoolTypes'
    BY <1>4, <1>8, <2>1 DEF Dial, shared, PoolTypes
  <2>3. OtherTypes'
    BY <1>3, <1>4, <1>8, <2>1 DEF Dial, shared, closes, OtherTypes
  <2> QED
    BY <1>1, <1>2, <2>2, <2>3, TypeParts
<1>9. CASE Fill
  <2>1. OtherTypes'
    BY <1>4, <1>9 DEF Fill, closes, OtherTypes
  <2>2. PoolTypes'
    <3>1. CASE closed
      BY <1>4, <1>9, <3>1 DEF Fill, Shut, PoolTypes
    <3>2. CASE ~closed
      <4>1. PICK S \in SUBSET built : /\ Cardinality(S) + Cardinality(pool) <= PoolSize
                                     /\ pool' = pool \cup S /\ Shut(built \ S)
        BY <1>9, <3>2 DEF Fill
      <4>2. IsFiniteSet(S) /\ IsFiniteSet(pool)
        BY <1>4, FS_Subset DEF OtherTypes, PoolTypes
      <4>3. Cardinality(pool \cup S) = Cardinality(pool) + Cardinality(S) - Cardinality(pool \cap S)
        BY <4>2, FS_Union
      <4>4. IsFiniteSet(pool \cap S)
        BY <4>2, FS_Intersection
      <4>5. Cardinality(pool \cup S) <= PoolSize
        BY <4>1, <4>2, <4>3, <4>4, FS_CardinalityType
      <4> QED
        BY <1>4, <4>1, <4>5 DEF Shut, PoolTypes, OtherTypes
    <3> QED
      BY <3>1, <3>2
  <2> QED
    BY <1>1, <1>2, <2>1, <2>2, TypeParts
<1>10. CASE CloseStart
  <2>1. OtherTypes' /\ PoolTypes'
    BY <1>4, <1>10 DEF CloseStart, network, reconnecting, OtherTypes, PoolTypes
  <2> QED
    BY <1>1, <1>2, <2>1, TypeParts
<1>11. CASE CloseDrain
  <2>1. PoolTypes'
    BY <1>4, <1>11, TakenFromPool DEF CloseDrain, Shut, PoolTypes
  <2>2. closing.drained \in 0..PoolSize /\ closing.drained < PoolSize
        /\ closing' = [closing EXCEPT !.drained = @ + 1]
    BY <1>4, <1>11 DEF CloseDrain, OtherTypes
  <2>3. closing' \in [conn : Conns \cup {0}, drained : 0..PoolSize]
    BY <1>4, <2>2 DEF OtherTypes
  <2>4. OtherTypes'
    BY <1>4, <1>11, <2>3 DEF CloseDrain, reconnecting, OtherTypes
  <2> QED
    BY <1>1, <1>2, <2>1, <2>4, TypeParts
<1>12. CASE CloseEnd
  <2>1. OtherTypes' /\ PoolTypes'
    BY <1>4, <1>12 DEF CloseEnd, shared, reconnecting, OtherTypes, PoolTypes
  <2> QED
    BY <1>1, <1>2, <2>1, TypeParts
<1> QED
  BY <1>5, <1>6, <1>7, <1>8, <1>9, <1>10, <1>11, <1>12 DEF LoopStep, CloseStep, Reconnect

LEMMA NextKeepsTypes ==
    ASSUME TypeOK, PlacesInOrder, LoopInOrder, [Next]_vars
    PROVE  TypeOK'
<1>1. CASE UNCHANGED vars
  BY <1>1 DEF vars, shared, network, workers, reconnecting, closes, TypeOK
<1> QED
  BY <1>1, WorkerKeepsTypes, LoopKeepsTypes DEF Next, WorkerStep, LoopStep, CloseStep

-----------------------------------------------------------------------------
(* The pool.                                                               *)

LEMMA FinitePool == TypeOK => /\ IsFiniteSet(pool) /\ Cardinality(pool) \in Nat
                              /\ IsFiniteSet(Serving) /\ Cardinality(Serving) \in Nat
<1> SUFFICES ASSUME TypeOK PROVE /\ IsFiniteSet(pool) /\ Cardinality(pool) \in Nat
                                 /\ IsFiniteSet(Serving) /\ Cardinality(Serving) \in Nat
  OBVIOUS
<1>1. IsFiniteSet(pool)
  BY Numbers, FS_Subset DEF TypeOK
<1>2. IsFiniteSet(Serving)
  BY Numbers, FS_Subset DEF Serving
<1> QED
  BY <1>1, <1>2, FS_CardinalityType

(* A worker that joins adds one, ...                                       *)
LEMMA Joins ==
    ASSUME TypeOK, NEW w \in Workers, w \notin Serving, Serving' = Serving \cup {w}
    PROVE  Cardinality(Serving') = Cardinality(Serving) + 1
<1>1. Cardinality(Serving \cup {w}) = Cardinality(Serving) + 1
  BY FinitePool, FS_AddElement
<1> QED
  BY <1>1

(* ... one that leaves takes one away, ...                                 *)
LEMMA Leaves ==
    ASSUME TypeOK, NEW w \in Serving, Serving' = Serving \ {w}
    PROVE  Cardinality(Serving') = Cardinality(Serving) - 1
<1>1. Cardinality(Serving \ {w}) = Cardinality(Serving) - 1
  BY FinitePool, FS_RemoveElement
<1> QED
  BY <1>1

(* ... unless it has put a channel into the pool or found it full.         *)
LEMMA PutBackMakesUp ==
    ASSUME TypeOK, PoolKept, ~closed, conn # 0, conn \in up,
           NEW w \in Serving, Serving' = Serving \ {w}, held[w] \in Channels,
           held[w] \notin pool, PutBack(held[w])
    PROVE  Cardinality(pool') + Cardinality(Serving') >= PoolSize
<1>1. /\ Cardinality(Serving') = Cardinality(Serving) - 1
      /\ IsFiniteSet(pool) /\ Cardinality(pool) \in Nat
      /\ IsFiniteSet(Serving) /\ Cardinality(Serving) \in Nat
  BY Leaves, FinitePool
<1>2. IsFiniteSet(Serving') /\ Cardinality(Serving') \in Nat
  BY <1>1, FS_Subset, FS_CardinalityType
<1>3. CASE Cardinality(pool) < PoolSize
  <2>1. pool' = pool \cup {held[w]}
    BY <1>3 DEF PutBack
  <2>2. Cardinality(pool \cup {held[w]}) = Cardinality(pool) + 1
    BY <1>1, FS_AddElement
  <2>3. Cardinality(pool') = Cardinality(pool) + 1
    BY <2>1, <2>2
  <2> QED
    BY <1>1, <2>3, Numbers DEF PoolKept
<1>4. CASE ~(Cardinality(pool) < PoolSize)
  <2>1. pool' = pool
    BY <1>4 DEF PutBack
  <2> QED
    BY <1>1, <1>2, <1>4, <2>1, Numbers
<1> QED
  BY <1>3, <1>4

LEMMA WorkerKeepsPool ==
    ASSUME TypeOK, PlacesInOrder, PoolKept, NEW w \in Workers, WorkerStep(w)
    PROVE  PoolKept'
<1> SUFFICES ASSUME ~closed', conn' # 0, conn' \in up'
             PROVE  Cardinality(pool') + Cardinality(Serving') >= PoolSize
  BY DEF PoolKept
<1>1. conn' = conn /\ closed' = closed
  BY WorkerLeavesLoop
<1>2. ~closed /\ conn # 0 /\ conn \in up
  BY <1>1, WorkerLeavesLoop
<1>3. /\ Cardinality(pool) + Cardinality(Serving) >= PoolSize
      /\ IsFiniteSet(pool) /\ Cardinality(pool) \in Nat
      /\ IsFiniteSet(Serving) /\ Cardinality(Serving) \in Nat
  BY <1>2, FinitePool DEF PoolKept
<1>4. CASE \/ BorrowStart(w) \/ ConnectionReady(w) \/ BorrowClosed(w) \/ BorrowCancelled(w)
           \/ LeaveToReconnect(w) \/ OpenReplacement(w) \/ OpenFails(w)
  <2>1. UNCHANGED pool
    BY <1>4 DEF BorrowStart, ConnectionReady, BorrowClosed, BorrowCancelled, LeaveToReconnect,
                OpenReplacement, OpenFails, shared
  <2>2. \A v \in Workers \ {w} : stage'[v] = stage[v] /\ sees'[v] = sees[v]
    BY <1>4 DEF BorrowStart, ConnectionReady, BorrowClosed, BorrowCancelled, LeaveToReconnect,
                OpenReplacement, OpenFails, Leave, Goto, TypeOK
  <2>3. w \in Serving <=> w \in Serving'
    BY <1>1, <1>2, <1>4
       DEF BorrowStart, ConnectionReady, BorrowClosed, BorrowCancelled, LeaveToReconnect,
           OpenReplacement, OpenFails, Leave, Goto, TypeOK, Serving, Working
  <2>4. Serving' = Serving
    BY <1>1, <2>2, <2>3 DEF Serving
  <2> QED
    BY <1>3, <2>1, <2>4
<1>5. CASE Pick(w)
  <2>1. PICK c \in pool : /\ pool' = pool \ {c} /\ sees' = [sees EXCEPT ![w] = 0]
                          /\ stage' = [stage EXCEPT ![w] = "using"]
    BY <1>5 DEF Pick, Goto
  <2>2. w \notin Serving /\ w \in Serving'
    BY <1>5, <2>1 DEF Pick, TypeOK, Serving, Working
  <2>3. \A v \in Workers \ {w} : stage'[v] = stage[v] /\ sees'[v] = sees[v]
    BY <2>1 DEF TypeOK
  <2>4. Serving' = Serving \cup {w}
    BY <1>1, <2>2, <2>3 DEF Serving
  <2>5. Cardinality(Serving') = Cardinality(Serving) + 1
    BY <2>2, <2>4, Joins
  <2>6. Cardinality(pool \ {c}) = Cardinality(pool) - 1
    BY TakenFromPool
  <2>7. Cardinality(pool') = Cardinality(pool) - 1
    BY <2>1, <2>6
  <2> QED
    BY <1>3, <2>5, <2>7, Numbers
<1>6. CASE ReleaseSound(w) \/ (Backfill(w) /\ conn = sees[w])
  <2>1. Leave(w) /\ PutBack(held[w])
    BY <1>2, <1>6 DEF ReleaseSound, Backfill
  <2>2. held[w] \in Channels /\ held[w] \notin pool
    BY <1>6 DEF ReleaseSound, Backfill, PlacesInOrder, TypeOK
  <2>3. w \in Serving
    BY <1>6 DEF ReleaseSound, Backfill, Serving, Working
  <2>4. w \notin Serving'
    BY <2>1 DEF Leave, Goto, TypeOK, Serving, Working
  <2>5. \A v \in Workers \ {w} : stage'[v] = stage[v] /\ sees'[v] = sees[v]
    BY <2>1 DEF Leave, Goto, TypeOK
  <2>6. Serving' = Serving \ {w}
    BY <1>1, <2>4, <2>5 DEF Serving
  <2> QED
    BY <1>2, <2>1, <2>2, <2>3, <2>6, PutBackMakesUp
<1>7. CASE ReleaseBroken(w)
  <2>1. UNCHANGED pool /\ stage' = [stage EXCEPT ![w] = "replacing"] /\ sees' = [sees EXCEPT ![w] = conn]
    BY <1>2, <1>7 DEF ReleaseBroken, shared, Goto
  <2>2. w \in Serving /\ w \in Serving'
    BY <1>1, <1>7, <2>1 DEF ReleaseBroken, TypeOK, Serving, Working
  <2>3. \A v \in Workers \ {w} : stage'[v] = stage[v] /\ sees'[v] = sees[v]
    BY <2>1 DEF TypeOK
  <2>4. Serving' = Serving
    BY <1>1, <2>2, <2>3 DEF Serving
  <2> QED
    BY <1>3, <2>1, <2>4
<1>8. CASE (Backfill(w) \/ ForceReconnect(w)) /\ conn # sees[w]
  <2>1. UNCHANGED pool /\ Leave(w)
    BY <1>8 DEF Backfill, ForceReconnect, shared
  <2>2. w \notin Serving
    BY <1>8 DEF Backfill, ForceReconnect, Serving
  <2>3. w \notin Serving'
    BY <2>1 DEF Leave, Goto, TypeOK, Serving, Working
  <2>4. \A v \in Workers \ {w} : stage'[v] = stage[v] /\ sees'[v] = sees[v]
    BY <2>1 DEF Leave, Goto, TypeOK
  <2>5. Serving' = Serving
    BY <1>1, <2>2, <2>3, <2>4 DEF Serving
  <2> QED
    BY <1>3, <2>1, <2>5
<1>9. CASE ForceReconnect(w) /\ conn = sees[w]
  <2>1. conn \notin up'
    BY <1>2, <1>9 DEF ForceReconnect
  <2> QED
    BY <1>1, <2>1
<1> QED
  BY <1>4, <1>5, <1>6, <1>7, <1>8, <1>9 DEF WorkerStep, BorrowStep, ReleaseStep

(* What the loop puts into the pool makes it full.                         *)
LEMMA FillsPool ==
    ASSUME TypeOK, PlacesInOrder, LoopInOrder, Fill, ~closed
    PROVE  Cardinality(pool') = PoolSize
<1>1. PICK S \in SUBSET built : /\ Cardinality(S) + Cardinality(pool) <= PoolSize
                                /\ S = built \/ Cardinality(S) + Cardinality(pool) = PoolSize
                                /\ pool' = pool \cup S
  BY DEF Fill
<1>2. IsFiniteSet(S) /\ IsFiniteSet(pool) /\ Cardinality(S) \in Nat /\ Cardinality(pool) \in Nat
  <2>1. IsFiniteSet(S)
    BY Numbers, FS_Subset DEF TypeOK
  <2> QED
    BY <2>1, FinitePool, FS_CardinalityType
<1>3. Cardinality(pool \cup S) = Cardinality(pool) + Cardinality(S) - Cardinality(pool \cap S)
  BY <1>2, FS_Union
<1>4. pool \cap S = {}
  BY DEF PlacesInOrder
<1>5. Cardinality(pool \cap S) = 0
  BY <1>4, FS_EmptySet
<1>6. Cardinality(built) = PoolSize
  BY DEF Fill, LoopInOrder
<1> QED
  BY <1>1, <1>2, <1>3, <1>5, <1>6, Numbers

LEMMA NextKeepsPool ==
    ASSUME TypeOK, PlacesInOrder, LoopInOrder, PoolKept, LoopInOrder', [Next]_vars
    PROVE  PoolKept'
<1> SUFFICES ASSUME ~closed', conn' # 0, conn' \in up'
             PROVE  Cardinality(pool') + Cardinality(Serving') >= PoolSize
  BY DEF PoolKept
<1>1. CASE \E w \in Workers : WorkerStep(w)
  BY <1>1, WorkerKeepsPool DEF PoolKept
<1>2. CASE UNCHANGED vars \/ Watch \/ Stop \/ SignalReady \/ DialFails \/ ConnectionDies
  <2>1. UNCHANGED <<conn, pool, closed, stage, sees>> /\ up' \subseteq up
    BY <1>2 DEF vars, Watch, Stop, SignalReady, DialFails, ConnectionDies, shared, network, workers
  <2>2. Serving' = Serving
    BY <2>1 DEF Serving
  <2> QED
    BY <2>1, <2>2 DEF PoolKept
<1>3. CASE HandleDisconnect \/ DrainPool \/ Dial
  <2>1. conn' = 0
    BY <1>3 DEF HandleDisconnect, DrainPool, Dial, LoopInOrder, shared
  <2> QED
    BY <2>1
<1>4. CASE CloseStep
  <2>1. closed'
    BY <1>4 DEF CloseStep, CloseStart, CloseDrain, CloseEnd, LoopInOrder, shared
  <2> QED
    BY <2>1
<1>5. CASE Fill
  <2>1. ~closed
    BY <1>5 DEF Fill
  <2>2. Cardinality(pool') = PoolSize
    BY <1>5, <2>1, FillsPool
  <2>3. Cardinality(Serving') \in Nat
    <3>1. IsFiniteSet(Serving')
      BY Numbers, FS_Subset DEF Serving
    <3> QED
      BY <3>1, FS_CardinalityType
  <2> QED
    BY <2>2, <2>3, Numbers
<1> QED
  BY <1>1, <1>2, <1>3, <1>4, <1>5 DEF Next, WorkerStep, LoopStep, CloseStep, Reconnect

-----------------------------------------------------------------------------
(* Signals.                                                                *)

(* A worker that begins to wait takes the latest signal, none changes the  *)
(* one it waits for.                                                       *)
LEMMA WorkerKeepsWaits ==
    ASSUME TypeOK, SignalsInOrder, NEW w \in Workers, WorkerStep(w), NEW v \in Workers,
           stage'[v] = "waiting"
    PROVE  sees'[v] <= ready
<1>1. ready \in Nat
  BY DEF TypeOK
<1>2. CASE BorrowStart(w)
  <2>1. stage' = [stage EXCEPT ![w] = "waiting"] /\ sees' = [sees EXCEPT ![w] = ready]
    BY <1>2 DEF BorrowStart, Goto
  <2>2. CASE v = w
    BY <1>1, <2>1, <2>2 DEF TypeOK
  <2>3. CASE v # w
    BY <2>1, <2>3 DEF TypeOK, SignalsInOrder
  <2> QED
    BY <2>2, <2>3
<1>3. CASE ~BorrowStart(w)
  <2>1. stage'[w] # "waiting"
    BY <1>3 DEF WorkerStep, BorrowStep, ReleaseStep, ConnectionReady, BorrowClosed,
                BorrowCancelled, Pick, ReleaseSound, ReleaseBroken, LeaveToReconnect,
                OpenReplacement, OpenFails, Backfill, ForceReconnect, Leave, Goto, TypeOK
  <2>2. stage'[v] = stage[v] /\ sees'[v] = sees[v]
    BY <1>3, <2>1 DEF WorkerStep, BorrowStep, ReleaseStep, ConnectionReady, BorrowClosed,
                BorrowCancelled, Pick, ReleaseSound, ReleaseBroken, LeaveToReconnect,
                OpenReplacement, OpenFails, Backfill, ForceReconnect, Leave, Goto, TypeOK
  <2> QED
    BY <2>2 DEF SignalsInOrder
<1> QED
  BY <1>2, <1>3

LEMMA NextKeepsSignals ==
    ASSUME TypeOK, LoopInOrder, SignalsInOrder, [Next]_vars
    PROVE  SignalsInOrder'
<1>1. ready \in 0..MaxConns /\ signalled \in SUBSET (0..MaxConns) /\ MaxConns \in Nat
  BY Numbers DEF TypeOK
<1>2. sees \in [Workers -> 0..MaxConns]
  BY DEF TypeOK
<1>3. CASE \E w \in Workers : WorkerStep(w)
  <2>1. UNCHANGED <<ready, signalled, closed, loop>>
    BY <1>3, WorkerLeavesLoop DEF reconnecting
  <2>2. \A v \in Workers : stage'[v] = "waiting" => sees'[v] <= ready
    BY <1>3, WorkerKeepsWaits
  <2> QED
    BY <2>1, <2>2 DEF SignalsInOrder
<1>4. CASE UNCHANGED vars \/ ConnectionDies \/ DialFails \/ CloseStep
  <2>1. UNCHANGED <<ready, signalled, loop, stage, sees>> /\ (closed => closed')
    BY <1>4 DEF vars, shared, workers, reconnecting, ConnectionDies, DialFails, CloseStep,
                CloseStart, CloseDrain, CloseEnd
  <2> QED
    BY <2>1 DEF SignalsInOrder
<1>5. CASE Watch \/ Stop \/ DrainPool \/ Dial \/ Fill
  <2>1. UNCHANGED <<ready, signalled, closed, stage, sees>>
    BY <1>5 DEF Watch, Stop, DrainPool, Dial, Fill, shared, workers
  <2>2. \/ loop = "top" /\ loop' = "watching"
        \/ /\ loop \in {"draining", "dialling", "filling"}
           /\ loop' \in {"draining", "dialling", "filling", "signalling"}
        \/ loop' = "stopped" /\ closed
    BY <1>5 DEF Watch, Stop, DrainPool, Dial, Fill
  <2> QED
    BY <2>1, <2>2 DEF SignalsInOrder
<1>6. CASE HandleDisconnect
  <2>1. /\ loop = "watching" /\ loop' = "draining" /\ ready' = ready + 1
        /\ UNCHANGED <<signalled, closed, stage, sees>>
    BY <1>6 DEF HandleDisconnect, workers
  <2>2. ready \in signalled
    BY <2>1 DEF SignalsInOrder
  <2>3. \A i \in 0..MaxConns : i < ready' => i \in signalled
    BY <1>1, <2>1, <2>2 DEF SignalsInOrder
  <2>4. \A i \in signalled : i <= ready
    BY DEF SignalsInOrder
  <2>5. ready' \notin signalled /\ \A i \in signalled : i <= ready'
    BY <1>1, <2>1, <2>4
  <2>6. \A v \in Workers : stage[v] = "waiting" => sees[v] <= ready'
    BY <1>1, <1>2, <2>1 DEF SignalsInOrder
  <2> QED
    BY <2>1, <2>3, <2>5, <2>6 DEF SignalsInOrder
<1>7. CASE SignalReady
  BY <1>1, <1>7 DEF SignalReady, workers, SignalsInOrder
<1> QED
  BY <1>3, <1>4, <1>5, <1>6, <1>7 DEF Next, WorkerStep, LoopStep, CloseStep, Reconnect

-----------------------------------------------------------------------------
(* IInv is an invariant of the pool.                                       *)
THEOREM Invariance == Spec => []IInv
<1>1. Init => IInv
  BY InitiallyIInv
<1>2. IInv /\ [Next]_vars => IInv'
  <2> SUFFICES ASSUME IInv, [Next]_vars PROVE IInv'
    OBVIOUS
  <2>1. TypeOK' /\ PlacesInOrder' /\ LoopInOrder' /\ ConnectionsInOrder' /\ SignalsInOrder'
    BY NextKeepsTypes, NextKeepsPlaces, NextKeepsLoop, NextKeepsConnections, NextKeepsSignals
       DEF IInv
  <2>2. PoolKept'
    BY <2>1, NextKeepsPool DEF IInv
  <2> QED
    BY <2>1, <2>2 DEF IInv
<1> QED
  BY <1>1, <1>2, PTL DEF Spec

(* The pool's state is well formed: never more than PoolSize channels in   *)
(* the pool, never a signal, a connection or a wait out of its range.      *)
THEOREM TypeCorrect == Spec => []TypeOK
<1>1. IInv => TypeOK
  BY DEF IInv
<1> QED
  BY <1>1, Invariance, PTL

(* While a connection serves, its channels in the pool and those that      *)
(* workers will bring back are a poolful.                                  *)
THEOREM PoolNeverShrinksHolds == Spec => []PoolNeverShrinks
<1>1. IInv => PoolNeverShrinks
  <2> SUFFICES ASSUME IInv, ~closed, conn # 0, conn \in up
               PROVE  Cardinality(pool) + Cardinality({w \in Workers : stage[w] \in Working}) >= PoolSize
    BY DEF PoolNeverShrinks
  <2> DEFINE AtWork == {w \in Workers : stage[w] \in Working}
  <2>1. Cardinality(pool) + Cardinality(Serving) >= PoolSize
    BY DEF IInv, PoolKept
  <2>2. Serving \subseteq AtWork
    BY DEF Serving, Working
  <2>3. IsFiniteSet(AtWork)
    BY Numbers, FS_Subset
  <2>4. Cardinality(Serving) <= Cardinality(AtWork) /\ Cardinality(AtWork) \in Nat
    BY <2>2, <2>3, FS_Subset, FS_CardinalityType
  <2>5. Cardinality(pool) \in Nat /\ Cardinality(Serving) \in Nat
    BY FinitePool DEF IInv
  <2> HIDE DEF AtWork
  <2>6. Cardinality(pool) + Cardinality(AtWork) >= PoolSize
    BY <2>1, <2>4, <2>5, Numbers
  <2> QED
    BY <2>6 DEF AtWork
<1> QED
  BY <1>1, Invariance, PTL

(* A channel of an open connection is in the pool, held by one worker, or  *)
(* about to be put into the pool: none is left open and forgotten.         *)
THEOREM NoChannelForgottenHolds == Spec => []NoChannelForgotten
<1>1. IInv => NoChannelForgotten
  <2> SUFFICES ASSUME IInv, NEW c \in Channels, Alive(c)
               PROVE  c \in pool \cup built \/ \E w \in Workers : held[w] = c
    BY DEF NoChannelForgotten
  <2>1. of[c] # 0
    BY Numbers DEF Alive, IInv, TypeOK, Conns
  <2> QED
    BY <2>1 DEF IInv, PlacesInOrder
<1> QED
  BY <1>1, Invariance, PTL

(* When Close has returned and the reconnect loop has stopped, no          *)
(* connection is left open, not even one that was being dialled.           *)
THEOREM NothingLeftOpenHolds == Spec => []NothingLeftOpen
<1>1. IInv => NothingLeftOpen
  BY DEF IInv, ConnectionsInOrder, NothingLeftOpen
<1> QED
  BY <1>1, Invariance, PTL

(* Whoever waits for an open signal waits for the one the loop is about to *)
(* close, and that is not closed before the pool is full again: borrow     *)
(* sleeps through no reconnection and does not wake up early.              *)
THEOREM WokenByRefillHolds == Spec => []WokenByRefill
<1>1. IInv => WokenByRefill
  <2> SUFFICES ASSUME IInv, ~closed PROVE WokenByRefill
    BY DEF WokenByRefill
  <2>1. loop \in {"top", "watching"} \/ loop \in {"draining", "dialling", "filling", "signalling"}
    BY DEF IInv, TypeOK, SignalsInOrder
  <2>2. ready \in signalled => loop \in {"top", "watching"}
    BY <2>1 DEF IInv, SignalsInOrder
  <2>3. ASSUME NEW w \in Workers, stage[w] = "waiting", sees[w] \notin signalled
        PROVE  sees[w] = ready /\ loop \in {"draining", "dialling", "filling", "signalling"}
    <3>1. ready \in Nat /\ sees[w] \in 0..MaxConns
      BY DEF IInv, TypeOK
    <3>2. sees[w] <= ready /\ ~(sees[w] < ready)
      BY <2>3, <3>1 DEF IInv, SignalsInOrder
    <3>3. sees[w] = ready
      BY <3>1, <3>2
    <3> QED
      BY <2>1, <2>3, <3>3 DEF IInv, SignalsInOrder
  <2> QED
    BY <2>2, <2>3 DEF WokenByRefill
<1> QED
  BY <1>1, Invariance, PTL

-----------------------------------------------------------------------------
(* The contract.                                                           *)

AtWork == {w \in Workers : stage[w] \in Working}

(* In the contract's terms a worker takes a channel, ...                   *)
LEMMA TakesInPort ==
    ASSUME TypeOK, NEW w \in Workers, Pick(w)
    PROVE  Port!Take
<1>1. PICK c \in pool : /\ pool' = pool \ {c}
                        /\ stage' = [stage EXCEPT ![w] = "using"]
  BY DEF Pick, Goto
<1>2. w \notin AtWork /\ IsFiniteSet(AtWork)
  BY Numbers, FS_Subset DEF Pick, AtWork, Working
<1>3. AtWork' = AtWork \cup {w}
  BY <1>1 DEF TypeOK, AtWork, Working
<1>4. Cardinality(AtWork \cup {w}) = Cardinality(AtWork) + 1
  BY <1>2, FS_AddElement
<1>5. Cardinality(AtWork') = Cardinality(AtWork) + 1
  BY <1>3, <1>4
<1>6. Cardinality(pool \ {c}) = Cardinality(pool) - 1 /\ Cardinality(pool) \in Nat \ {0}
  BY TakenFromPool
<1>7. Cardinality(pool') = Cardinality(pool) - 1 /\ Cardinality(pool) > 0
  BY <1>1, <1>6
<1>8. closed' = closed /\ closing' = closing
  BY DEF Pick, closes
<1> QED
  BY <1>5, <1>7, <1>8 DEF Port!Take, AtWork

(* ... and returns it or drops it, ...                                     *)
LEMMA ReturnsInPort ==
    ASSUME TypeOK, NEW w \in Workers, stage[w] \in Working, Leave(w),
           UNCHANGED <<closed, closes>>,
           \/ UNCHANGED pool
           \/ ~closed /\ held[w] \in Channels \ pool /\ PutBack(held[w])
    PROVE  Port!Return
<1>1. w \in AtWork /\ IsFiniteSet(AtWork)
  BY Numbers, FS_Subset DEF AtWork
<1>2. AtWork' = AtWork \ {w}
  BY DEF Leave, Goto, TypeOK, AtWork, Working
<1>3. Cardinality(AtWork \ {w}) = Cardinality(AtWork) - 1
  BY <1>1, FS_RemoveElement
<1>4. Cardinality(AtWork) \in Nat /\ Cardinality(AtWork) # 0
  BY <1>1, FS_CardinalityType, FS_EmptySet
<1>5. Cardinality(AtWork') = Cardinality(AtWork) - 1 /\ Cardinality(AtWork) > 0
  BY <1>2, <1>3, <1>4
<1>6. \/ Cardinality(pool') = Cardinality(pool)
      \/ ~closed /\ Cardinality(pool) < PoolSize /\ Cardinality(pool') = Cardinality(pool) + 1
  <2>1. CASE UNCHANGED pool
    BY <2>1
  <2>2. CASE ~closed /\ held[w] \in Channels \ pool /\ PutBack(held[w])
    <3>1. Cardinality(pool \cup {held[w]}) = Cardinality(pool) + 1
      BY <2>2, FinitePool, FS_AddElement
    <3> QED
      BY <2>2, <3>1 DEF PutBack
  <2> QED
    BY <2>1, <2>2
<1>7. closed' = closed /\ closing' = closing
  BY DEF closes
<1> QED
  BY <1>5, <1>6, <1>7 DEF Port!Return, AtWork

(* ... and does nothing else.                                              *)
LEMMA WorkerKeepsPort ==
    ASSUME TypeOK, PlacesInOrder, NEW w \in Workers, WorkerStep(w)
    PROVE  [Port!Next]_(Port!vars)
<1> USE DEF Port!Next, Port!vars
<1>1. UNCHANGED <<closed, closes>>
  BY WorkerLeavesLoop
<1>2. CASE Pick(w)
  <2>1. Port!Take
    BY <1>2, TakesInPort
  <2> QED
    BY <2>1
<1>3. CASE \/ BorrowStart(w) \/ ConnectionReady(w) \/ OpenReplacement(w) \/ OpenFails(w)
           \/ BorrowClosed(w) \/ BorrowCancelled(w)
           \/ (ReleaseBroken(w) /\ ~closed)
  <2>1. UNCHANGED pool
    BY <1>3 DEF BorrowStart, ConnectionReady, OpenReplacement, OpenFails, BorrowClosed,
                BorrowCancelled, ReleaseBroken, shared
  <2>2. AtWork' = AtWork
    BY <1>3 DEF BorrowStart, ConnectionReady, OpenReplacement, OpenFails, BorrowClosed,
                BorrowCancelled, ReleaseBroken, Leave, Goto, TypeOK, AtWork, Working
  <2> QED
    BY <1>1, <2>1, <2>2 DEF closes, AtWork
<1>4. CASE \/ ReleaseSound(w) \/ (ReleaseBroken(w) /\ closed)
           \/ LeaveToReconnect(w) \/ Backfill(w) \/ ForceReconnect(w)
  <2>1. Leave(w) /\ stage[w] \in Working
    BY <1>4 DEF ReleaseSound, ReleaseBroken, LeaveToReconnect, Backfill, ForceReconnect, Working
  <2>2. \/ UNCHANGED pool
        \/ ~closed /\ held[w] \in Channels \ pool /\ PutBack(held[w])
    BY <1>4 DEF ReleaseSound, ReleaseBroken, LeaveToReconnect, Backfill, ForceReconnect, shared,
                PlacesInOrder, TypeOK
  <2>3. Port!Return
    BY <1>1, <2>1, <2>2, ReturnsInPort
  <2> QED
    BY <2>3
<1> QED
  BY <1>2, <1>3, <1>4 DEF WorkerStep, BorrowStep, ReleaseStep

LEMMA LoopKeepsPort ==
    ASSUME TypeOK, PlacesInOrder, LoopInOrder, LoopStep \/ CloseStep \/ ConnectionDies
    PROVE  [Port!Next]_(Port!vars)
<1> USE DEF Port!Next, Port!vars
<1>1. AtWork' = AtWork
  BY DEF LoopStep, CloseStep, Reconnect, Watch, Stop, HandleDisconnect, DrainPool, Dial, Fill,
         SignalReady, DialFails, CloseStart, CloseDrain, CloseEnd, ConnectionDies, workers, AtWork
<1>2. CASE \/ Watch \/ Stop \/ HandleDisconnect \/ SignalReady \/ DialFails \/ Dial
           \/ CloseEnd \/ ConnectionDies \/ (Fill /\ closed)
  BY <1>1, <1>2 DEF Watch, Stop, HandleDisconnect, SignalReady, DialFails, Dial, CloseEnd, Fill,
                    ConnectionDies, shared, closes, AtWork
<1>3. CASE Fill /\ ~closed
  <2>1. Cardinality(pool') = PoolSize
    BY <1>3, FillsPool
  <2>2. Port!Refill
    BY <1>1, <1>3, <2>1 DEF Fill, closes, AtWork, Port!Refill
  <2> QED
    BY <2>2
<1>4. CASE DrainPool
  <2>1. UNCHANGED <<closed, closing>>
    BY <1>4 DEF DrainPool, closes
  <2>2. CASE \E c \in pool : pool' = pool \ {c}
    <3>1. Cardinality(pool') = Cardinality(pool) - 1 /\ Cardinality(pool) > 0
      BY <2>2, TakenFromPool
    <3>2. Port!Lose
      BY <1>1, <2>1, <3>1 DEF AtWork, Port!Lose
    <3> QED
      BY <3>2
  <2>3. CASE UNCHANGED pool
    BY <1>1, <2>1, <2>3 DEF AtWork
  <2> QED
    BY <1>4, <2>2, <2>3 DEF DrainPool
<1>5. CASE CloseStart
  <2>1. closed' = TRUE /\ closing'.drained = closing.drained /\ UNCHANGED pool
    BY <1>5 DEF CloseStart, LoopInOrder
  <2> QED
    BY <1>1, <1>5, <2>1 DEF AtWork, Port!Close
<1>6. CASE CloseDrain
  <2>1. closed /\ closed' = closed /\ closing.drained < PoolSize
        /\ closing'.drained = closing.drained + 1
    BY <1>6 DEF CloseDrain, LoopInOrder, TypeOK
  <2>2. PICK c \in pool : pool' = pool \ {c}
    BY <1>6 DEF CloseDrain
  <2>3. Cardinality(pool') = Cardinality(pool) - 1 /\ Cardinality(pool) > 0
    BY <2>2, TakenFromPool
  <2>4. Port!Drain
    BY <1>1, <2>1, <2>3 DEF AtWork, Port!Drain
  <2> QED
    BY <2>4
<1> QED
  BY <1>2, <1>3, <1>4, <1>5, <1>6 DEF LoopStep, CloseStep, Reconnect

(* The pool implements the contract Lifecycle is built on: in particular   *)
(* nothing is put into the pool once the client is closed.                 *)
THEOREM KeepsPortHolds == Spec => KeepsPort
<1>1. Init => Port!Init
  <2> SUFFICES ASSUME Init PROVE Port!Init
    OBVIOUS
  <2>1. Cardinality(pool) = PoolSize
    BY InitialPool
  <2>2. AtWork = {}
    BY DEF Init, AtWork, Working
  <2>3. Cardinality(AtWork) = 0
    BY <2>2, FS_EmptySet
  <2> QED
    BY <2>1, <2>3 DEF Init, AtWork, Port!Init
<1>2. IInv /\ [Next]_vars => [Port!Next]_(Port!vars)
  <2> SUFFICES ASSUME IInv, [Next]_vars PROVE [Port!Next]_(Port!vars)
    OBVIOUS
  <2>1. CASE UNCHANGED vars
    BY <2>1 DEF vars, shared, workers, closes, Port!vars
  <2> QED
    BY <2>1, WorkerKeepsPort, LoopKeepsPort DEF IInv, Next, WorkerStep, LoopStep, CloseStep
<1> QED
  BY <1>1, <1>2, Invariance, PTL DEF Spec, KeepsPort, Port!Spec

-----------------------------------------------------------------------------
(* Nobody waits in vain.                                                   *)

(* Without a connection the loop is on its way to the next one, and fills  *)
(* the pool only from one it has dialled.                                  *)
Reconnecting ==
    /\ ~closed /\ conn = 0 => loop \in {"draining", "dialling", "filling"}
    /\ loop = "filling" => watch # 0

LEMMA ReconnectingNext == IInv /\ Reconnecting /\ [Next]_vars => Reconnecting'
<1> SUFFICES ASSUME IInv, Reconnecting, [Next]_vars PROVE Reconnecting'
  OBVIOUS
<1> USE DEF Reconnecting
<1>1. CASE UNCHANGED <<conn, closed, loop, watch>>
  BY <1>1
<1>2. CASE Watch \/ Stop \/ HandleDisconnect \/ DrainPool
  BY <1>2 DEF Watch, Stop, HandleDisconnect, DrainPool, shared
<1>3. CASE Dial
  <2>1. dialled \in Nat
    BY Numbers DEF IInv, TypeOK, Conns
  <2>2. watch' = dialled + 1 /\ loop' = "filling" /\ UNCHANGED <<conn, closed>>
    BY <1>3 DEF Dial, shared
  <2>3. watch' # 0
    BY <2>1, <2>2
  <2> QED
    BY <2>2, <2>3
<1>4. CASE Fill
  <2>1. loop = "filling" /\ closed' = closed /\ loop' # "filling"
    BY <1>4 DEF Fill
  <2>2. ~closed => conn' = watch
    BY <1>4 DEF Fill
  <2> QED
    BY <2>1, <2>2
<1>5. CASE SignalReady
  BY <1>5 DEF SignalReady, shared
<1>6. CASE CloseStart
  BY <1>6 DEF CloseStart, reconnecting
<1>7. ASSUME NEW w \in Workers,
             \/ BorrowStart(w) \/ BorrowStep(w) \/ BorrowCancelled(w)
             \/ ReleaseSound(w) \/ ReleaseStep(w) \/ OpenFails(w)
      PROVE  UNCHANGED <<conn, closed, loop, watch>>
  BY <1>7 DEF BorrowStart, BorrowStep, ConnectionReady, BorrowClosed, Pick, BorrowCancelled,
     ReleaseSound, ReleaseStep, ReleaseBroken, LeaveToReconnect, OpenReplacement, Backfill,
     ForceReconnect, OpenFails, shared, reconnecting
<1>8. CASE DialFails \/ CloseDrain \/ CloseEnd \/ ConnectionDies \/ UNCHANGED vars
  BY <1>1, <1>8 DEF DialFails, CloseDrain, CloseEnd, ConnectionDies, shared, reconnecting, vars
<1> QED
  BY <1>1, <1>2, <1>3, <1>4, <1>5, <1>6, <1>7, <1>8 DEF Next, Reconnect

(* A worker that borrows can go on, or somebody is at work on a channel it *)
(* can have: another worker that has one to bring back or replace, or the  *)
(* reconnect loop, which is reconnecting or is about to find that the      *)
(* connection is gone.                                                     *)
NobodyWaitsInVain ==
    ~closed =>
        \A w \in Workers : stage[w] \in {"waiting", "picking"} =>
            \/ stage[w] = "waiting" /\ sees[w] \in signalled
            \/ stage[w] = "picking" /\ pool # {}
            \/ \E v \in Workers : stage[v] \in Working
            \/ loop \in {"draining", "dialling", "filling", "signalling"}
            \/ loop = "top" /\ conn \notin up \cup {0}
            \/ loop = "watching" /\ watch \notin up

(* Nobody waits in vain, whatever channels and connections broke and       *)
(* whichever replacements failed: the pool, its borrowers and the loop are *)
(* never all waiting for each other.  This is what BorrowersServed rests   *)
(* on.                                                                     *)
THEOREM NobodyWaitsInVainHolds == Spec => []NobodyWaitsInVain
<1>1. Init => Reconnecting
  BY DEF Init, Reconnecting
<1>2. IInv /\ Reconnecting /\ PoolNeverShrinks /\ WokenByRefill => NobodyWaitsInVain
  <2> SUFFICES ASSUME IInv, Reconnecting, PoolNeverShrinks, WokenByRefill, ~closed,
                      NEW w \in Workers, stage[w] \in {"waiting", "picking"},
                      ~(\E v \in Workers : stage[v] \in Working),
                      loop \notin {"draining", "dialling", "filling", "signalling"}
               PROVE  \/ stage[w] = "waiting" /\ sees[w] \in signalled
                      \/ stage[w] = "picking" /\ pool # {}
                      \/ loop = "top" /\ conn \notin up \cup {0}
                      \/ loop = "watching" /\ watch \notin up
    BY DEF NobodyWaitsInVain
  <2>1. conn # 0 /\ loop \in {"top", "watching"}
    BY DEF Reconnecting, IInv, LoopInOrder
  <2>2. CASE stage[w] = "waiting"
    BY <2>2 DEF WokenByRefill
  <2>3. CASE conn \in up
    <3>1. {v \in Workers : stage[v] \in Working} = {}
      OBVIOUS
    <3>2. Cardinality(pool) + 0 >= PoolSize
      BY <2>1, <2>3, <3>1, FS_EmptySet DEF PoolNeverShrinks
    <3>3. pool # {}
      BY <3>2, FS_EmptySet, Numbers
    <3> QED
      BY <2>2, <3>3
  <2>4. CASE conn \notin up
    BY <2>1, <2>4 DEF IInv, LoopInOrder
  <2> QED
    BY <2>3, <2>4
<1> QED
  BY <1>1, <1>2, ReconnectingNext, Invariance, PoolNeverShrinksHolds, WokenByRefillHolds,
     PTL DEF Spec
=============================================================================
