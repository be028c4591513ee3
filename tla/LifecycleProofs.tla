--------------------------- MODULE LifecycleProofs ---------------------------
(***************************************************************************)
(* Proofs about Lifecycle, for any clients, slots and pool.  All of its    *)
(* invariants follow from one that is inductive, IInv: beside the types it *)
(* says that slots and channels are accounted for, and how far main is     *)
(* when something has ended.                                               *)
(***************************************************************************)
EXTENDS Lifecycle, TLAPS, FiniteSetTheorems

USE DEF calls

Stages == {"none", "queued"} \cup Holding

(* The calls of a set in some stages, when one call moves: it joins them,  *)
(* leaves them, or neither.                                                *)
LEMMA CallsFinite ==
    ASSUME NEW A, IsFiniteSet(A), NEW S
    PROVE  /\ IsFiniteSet(CallsIn(A, S)) /\ IsFiniteSet(CallsIn(A, S)')
           /\ Cardinality(CallsIn(A, S)) \in Nat /\ Cardinality(CallsIn(A, S)') \in Nat
<1>1. IsFiniteSet(CallsIn(A, S)) /\ IsFiniteSet(CallsIn(A, S)')
  BY FS_Subset DEF CallsIn
<1> QED
  BY <1>1, FS_CardinalityType

LEMMA CallJoins ==
    ASSUME NEW A, IsFiniteSet(A), NEW S, NEW r \in A, NEW s \in S,
           stage \in [Clients -> Stages], A \subseteq Clients, Goto(r, s), stage[r] \notin S
    PROVE  Cardinality(CallsIn(A, S)') = Cardinality(CallsIn(A, S)) + 1
<1>1. CallsIn(A, S)' = CallsIn(A, S) \cup {r} /\ r \notin CallsIn(A, S)
  BY DEF CallsIn, Goto
<1> QED
  BY <1>1, CallsFinite, FS_AddElement

LEMMA CallLeaves ==
    ASSUME NEW A, IsFiniteSet(A), NEW S, NEW r \in A, NEW s,
           stage \in [Clients -> Stages], A \subseteq Clients, Goto(r, s), stage[r] \in S, s \notin S
    PROVE  Cardinality(CallsIn(A, S)') = Cardinality(CallsIn(A, S)) - 1
<1>1. CallsIn(A, S)' = CallsIn(A, S) \ {r} /\ r \in CallsIn(A, S)
  BY DEF CallsIn, Goto
<1> QED
  BY <1>1, CallsFinite, FS_RemoveElement

LEMMA CallMoves ==
    ASSUME NEW A, NEW S, NEW r, NEW s,
           stage \in [Clients -> Stages], A \subseteq Clients, Goto(r, s),
           r \notin A \/ (stage[r] \in S <=> s \in S)
    PROVE  CallsIn(A, S)' = CallsIn(A, S)
BY DEF CallsIn, Goto

(* What the counts say of a single call.                                   *)
LEMMA CallsSeen ==
    ASSUME NEW A, IsFiniteSet(A), NEW S
    PROVE  /\ Cardinality(CallsIn(A, S)) \in Nat
           /\ Cardinality(CallsIn(A, S)) = 0 <=> \A r \in A : stage[r] \notin S
<1>1. IsFiniteSet(CallsIn(A, S))
  BY FS_Subset DEF CallsIn
<1>2. Cardinality(CallsIn(A, S)) \in Nat
  BY <1>1, FS_CardinalityType
<1>3. Cardinality(CallsIn(A, S)) = 0 <=> CallsIn(A, S) = {}
  BY <1>1, FS_EmptySet
<1> QED
  BY <1>2, <1>3 DEF CallsIn

LEMMA ClientsFinite == IsFiniteSet(Clients) /\ IsFiniteSet(Batches)
BY LifecycleAssumption, FS_Union DEF Clients

LEMMA CallsStay ==
    ASSUME NEW A, NEW S, UNCHANGED stage
    PROVE  CallsIn(A, S)' = CallsIn(A, S)
BY DEF CallsIn

LEMMA InitiallyIInv == Init => IInv
<1> SUFFICES ASSUME Init PROVE IInv
  OBVIOUS
<1> USE LifecycleAssumption, ClientsFinite
<1>1. CallsIn(Batches, Holding) = {} /\ CallsIn(Clients, {"publishing"}) = {}
  BY DEF Init, CallsIn, Clients, Holding
<1>2. SlotsBalanced /\ OutAccounted
  BY <1>1, FS_EmptySet DEF Init, Pool!Init, SlotsBalanced, OutAccounted
<1>3. TypeOK
  <2>1. stage \in [Clients -> {"none", "queued"} \cup Holding]
    BY DEF Init
  <2>2. more \in [Clients -> 0..MaxMore]
    BY DEF Init
  <2>3. MaxConcurrentBatches \in Nat /\ PoolSize \in Nat
    OBVIOUS
  <2>4. idle \in 0..PoolSize /\ drained \in 0..PoolSize /\ slots \in 0..MaxConcurrentBatches /\ out \in Nat
    BY <2>3 DEF Init, Pool!Init
  <2> QED
    BY <2>1, <2>2, <2>4 DEF Init, Pool!Init, TypeOK
<1>4. InOrder
  BY DEF Init, Pool!Init, InOrder, Stopping, NoCall
<1> QED
  BY <1>2, <1>3, <1>4 DEF IInv

(* Before Close, channels may come back to the pool.                       *)
LEMMA NoneDrained ==
    ASSUME InOrder, ~Stopping, UNCHANGED drained, idle' \in 0..PoolSize
    PROVE  idle' <= PoolSize - drained'
<1>1. ~closed
  BY DEF InOrder, Stopping
<1>2. drained' = 0
  BY <1>1 DEF InOrder
<1>3. PoolSize \in Nat
  BY LifecycleAssumption
<1>4. idle' \in Nat /\ idle' <= PoolSize
  BY <1>3
<1> QED
  BY <1>2, <1>3, <1>4

(* Each step of a call: it may move a slot or a channel.                   *)
LEMMA CallKeepsIInv ==
    ASSUME NEW r \in Clients, IInv,
           \/ Arrive(r) \/ LeaveQueue(r) \/ (r \in Batches /\ TakeSlot(r))
           \/ CallStep(r) \/ Borrow(r) \/ BorrowFails(r) \/ CallEnds(r)
    PROVE  IInv'
<1> DEFINE B == Cardinality(CallsIn(Batches, Holding))
           P == Cardinality(CallsIn(Clients, {"publishing"}))
<1> USE LifecycleAssumption, ClientsFinite DEF IInv
<1>1. stage \in [Clients -> Stages] /\ Batches \subseteq Clients
  BY DEF TypeOK, Stages, Clients
<1>2. B \in Nat /\ P \in Nat
  BY CallsSeen
<1>3. slots = B /\ B <= MaxConcurrentBatches /\ slots \in Nat /\ out \in Nat /\ MaxConcurrentBatches \in Nat
  BY DEF SlotsBalanced, TypeOK
<1>4. out = P + (IF relay = "publishing" THEN 1 ELSE 0)
  BY DEF OutAccounted
<1>5. CASE Arrive(r) \/ LeaveQueue(r) \/ Insert(r) \/ BorrowFails(r) \/ Recorded(r) \/ Reported(r)
  <2>1. PICK s \in Stages : /\ Goto(r, s) /\ s # "publishing" /\ stage[r] # "publishing"
                            /\ r \notin Batches \/ (stage[r] \in Holding <=> s \in Holding)
    BY <1>5 DEF Arrive, LeaveQueue, Insert, BorrowFails, Recorded, Reported, Stages, Holding
  <2>2. B' = B /\ P' = P
    <3>1. CallsIn(Batches, Holding)' = CallsIn(Batches, Holding)
      BY <2>1, <1>1, CallMoves
    <3>2. CallsIn(Clients, {"publishing"})' = CallsIn(Clients, {"publishing"})
      BY <2>1, <1>1, CallMoves
    <3> QED
      BY <3>1, <3>2
  <2>3. UNCHANGED <<main, expired, slots, relay, client>>
    BY <1>5 DEF Arrive, LeaveQueue, Insert, BorrowFails, Recorded, Reported
  <2>4. ~Stopping /\ main # "listening"
    BY <1>5 DEF Arrive, LeaveQueue, Insert, BorrowFails, Recorded, Reported, InOrder, NoCall, Stopping
  <2>5. SlotsBalanced' /\ OutAccounted'
    BY <2>2, <2>3, <1>3, <1>4 DEF SlotsBalanced, OutAccounted, client
  <2>6. InOrder'
    BY <2>3, <2>4 DEF InOrder, Stopping, client
  <2>7. more' \in [Clients -> 0..MaxMore]
    <3>1. ASSUME NEW n \in 0..MaxMore, HasMore(r, n) PROVE more' \in [Clients -> 0..MaxMore]
      BY <3>1 DEF TypeOK, HasMore
    <3>2. 0 \in 0..MaxMore /\ MaxMore \in 0..MaxMore /\ more[r] \in 0..MaxMore /\ (more[r] > 0 => more[r] - 1 \in 0..MaxMore)
      BY DEF TypeOK
    <3> QED
      BY <1>5, <3>1, <3>2 DEF Arrive, LeaveQueue, Insert, BorrowFails, Recorded, Reported, TypeOK
  <2>8. TypeOK'
    BY <2>1, <2>3, <2>7 DEF TypeOK, Goto, Stages, client
  <2> QED
    BY <2>5, <2>6, <2>8
<1>6. CASE r \in Batches /\ TakeSlot(r)
  <2>1. /\ Goto(r, "inserting") /\ stage[r] = "queued" /\ slots' = slots + 1 /\ slots < MaxConcurrentBatches
        /\ UNCHANGED <<more, main, expired, relay, client>>
    BY <1>6 DEF TakeSlot
  <2>3. B' = B + 1 /\ P' = P
    <3>1. "inserting" \in Holding /\ "queued" \notin Holding
      BY DEF Holding
    <3>2. B' = B + 1
      BY <3>1, <2>1, <1>6, <1>1, CallJoins
    <3>3. CallsIn(Clients, {"publishing"})' = CallsIn(Clients, {"publishing"})
      BY <2>1, <1>1, CallMoves
    <3> QED
      BY <3>2, <3>3
  <2>4. SlotsBalanced' /\ OutAccounted'
    BY <2>1, <2>3, <1>2, <1>3, <1>4 DEF SlotsBalanced, OutAccounted, client
  <2>5. ~Stopping /\ main # "listening"
    BY <2>1 DEF InOrder, NoCall
  <2>6. InOrder'
    BY <2>1, <2>5 DEF InOrder, Stopping, client, Goto
  <2>7. TypeOK'
    BY <2>1, <1>3 DEF TypeOK, Goto, Holding, client
  <2> QED
    BY <2>4, <2>6, <2>7
<1>7. CASE CallEnds(r)
  <2>1. /\ Goto(r, "none") /\ stage[r] \in Holding /\ stage[r] # "publishing"
        /\ slots' = IF r \in Batches THEN slots - 1 ELSE slots
        /\ HasMore(r, 0) /\ UNCHANGED <<main, expired, relay, client>>
    BY <1>7 DEF CallEnds, Holding
  <2>2. P' = P /\ B' = IF r \in Batches THEN B - 1 ELSE B
    <3>1. CallsIn(Clients, {"publishing"})' = CallsIn(Clients, {"publishing"})
      BY <2>1, <1>1, CallMoves
    <3>2. "none" \notin Holding
      BY DEF Holding
    <3>3. r \in Batches => B' = B - 1
      BY <3>2, <2>1, <1>1, CallLeaves
    <3>4. r \notin Batches => CallsIn(Batches, Holding)' = CallsIn(Batches, Holding)
      BY <2>1, <1>1, CallMoves
    <3> QED
      BY <3>1, <3>3, <3>4
  <2>3. B' \in Nat
    BY CallsFinite
  <2>4. SlotsBalanced' /\ OutAccounted'
    BY <2>1, <2>2, <1>2, <1>3, <1>4 DEF SlotsBalanced, OutAccounted, client
  <2>5. ~Stopping /\ main # "listening"
    BY <2>1 DEF InOrder, NoCall, Holding
  <2>6. InOrder'
    BY <2>1, <2>5 DEF InOrder, Stopping, client, Goto
  <2>7. slots' \in 0..MaxConcurrentBatches
    BY <2>3, <2>4, <2>1, <1>3 DEF SlotsBalanced
  <2>8. TypeOK'
    BY <2>1, <2>7 DEF TypeOK, Goto, HasMore, Holding, client
  <2> QED
    BY <2>4, <2>6, <2>8
<1>8. CASE Borrow(r)
  <2>1. /\ Goto(r, "publishing") /\ stage[r] = "borrowing"
        /\ idle > 0 /\ idle' = idle - 1 /\ out' = out + 1
        /\ UNCHANGED <<more, main, expired, slots, relay, closed, drained>>
    BY <1>8 DEF Borrow, Pool!Take
  <2>2. B' = B /\ P' = P + 1
    <3>1. CallsIn(Batches, Holding)' = CallsIn(Batches, Holding)
      BY <2>1, <1>1, CallMoves DEF Holding
    <3>2. P' = P + 1
      BY <2>1, <1>1, CallJoins
    <3> QED
      BY <3>1, <3>2
  <2>3. SlotsBalanced' /\ OutAccounted'
    BY <2>1, <2>2, <1>2, <1>3, <1>4 DEF SlotsBalanced, OutAccounted
  <2>4. ~Stopping /\ main # "listening"
    BY <2>1 DEF InOrder, NoCall
  <2>5. idle' <= PoolSize - drained'
    BY <2>1, <2>4, NoneDrained DEF TypeOK
  <2>6. InOrder'
    BY <2>1, <2>4, <2>5 DEF InOrder, Stopping, Goto
  <2>7. TypeOK'
    BY <2>1, <1>3 DEF TypeOK, Goto, Holding
  <2> QED
    BY <2>3, <2>6, <2>7
<1>9. CASE Published(r)
  <2>1. /\ Goto(r, "recording") /\ stage[r] = "publishing"
        /\ out' = out - 1 /\ idle' \in 0..PoolSize
        /\ UNCHANGED <<more, main, expired, slots, relay, closed, drained>>
    BY <1>9 DEF Published, Pool!Return, TypeOK
  <2>2. B' = B /\ P' = P - 1 /\ P' \in Nat
    <3>1. CallsIn(Batches, Holding)' = CallsIn(Batches, Holding)
      BY <2>1, <1>1, CallMoves DEF Holding
    <3>2. P' = P - 1
      BY <2>1, <1>1, CallLeaves
    <3>3. P' \in Nat
      BY CallsFinite
    <3> QED
      BY <3>1, <3>2, <3>3
  <2>3. SlotsBalanced' /\ OutAccounted' /\ out' \in Nat
    BY <2>1, <2>2, <1>2, <1>3, <1>4 DEF SlotsBalanced, OutAccounted
  <2>4. ~Stopping /\ main # "listening"
    BY <2>1 DEF InOrder, NoCall
  <2>5. idle' <= PoolSize - drained'
    BY <2>1, <2>4, NoneDrained DEF TypeOK
  <2>6. InOrder'
    BY <2>1, <2>4, <2>5 DEF InOrder, Stopping, Goto
  <2>7. TypeOK'
    BY <2>1, <2>3 DEF TypeOK, Goto, Holding
  <2> QED
    BY <2>3, <2>6, <2>7
<1> QED
  BY <1>5, <1>6, <1>7, <1>8, <1>9 DEF CallStep

(* A step of the relay may move a channel.                                 *)
LEMMA RelayKeepsIInv ==
    ASSUME IInv, RelayStep \/ RelayBorrows
    PROVE  IInv'
<1> DEFINE P == Cardinality(CallsIn(Clients, {"publishing"}))
<1> USE ClientsFinite DEF IInv
<1>1. P \in Nat /\ out \in Nat /\ out = P + (IF relay = "publishing" THEN 1 ELSE 0)
  BY CallsFinite DEF OutAccounted, TypeOK
<1>2. /\ CallsIn(Batches, Holding)' = CallsIn(Batches, Holding)
      /\ CallsIn(Clients, {"publishing"})' = CallsIn(Clients, {"publishing"})
      /\ UNCHANGED <<main, expired, slots, calls, closed, drained>>
  <2>1. UNCHANGED <<main, expired, slots, calls, closed, drained>>
    BY DEF RelayStep, RelayClaims, RelayBorrows, RelayBorrowFails, RelayPublished, RelayRecorded, RelayStops,
           client, Pool!Take, Pool!Return
  <2> QED
    BY <2>1, CallsStay
<1>3. SlotsBalanced'
  BY <1>2 DEF SlotsBalanced
<1>4. NoCall' <=> NoCall
  BY <1>2 DEF NoCall
<1>5. CASE RelayClaims \/ RelayBorrowFails \/ RelayRecorded \/ RelayStops
  <2>1. UNCHANGED <<idle, out>> /\ relay # "publishing" /\ relay' # "publishing"
    BY <1>5 DEF RelayClaims, RelayBorrowFails, RelayRecorded, RelayStops, RelayGoto, client
  <2>2. OutAccounted'
    BY <1>1, <1>2, <2>1 DEF OutAccounted
  <2>3. closed => Stopping
    BY DEF InOrder, Stopping
  <2>4. InOrder'
    BY <1>5, <1>2, <1>4, <2>1, <2>3 DEF RelayClaims, RelayBorrowFails, RelayRecorded, RelayStops, RelayGoto, InOrder, Stopping
  <2>5. TypeOK'
    BY <1>5, <1>2, <2>1 DEF RelayClaims, RelayBorrowFails, RelayRecorded, RelayStops, RelayGoto, TypeOK
  <2> QED
    BY <1>3, <2>2, <2>4, <2>5
<1>6. CASE RelayBorrows
  <2>1. /\ relay = "borrowing" /\ relay' = "publishing"
        /\ idle > 0 /\ idle' = idle - 1 /\ out' = out + 1
    BY <1>6 DEF RelayBorrows, RelayGoto, Pool!Take
  <2>2. OutAccounted'
    BY <1>1, <1>2, <2>1 DEF OutAccounted
  <2>3. PoolSize \in Nat /\ idle \in 0..PoolSize /\ drained \in 0..PoolSize /\ idle <= PoolSize - drained
    BY LifecycleAssumption DEF TypeOK, InOrder
  <2>4. idle' <= PoolSize - drained' /\ idle' \in 0..PoolSize
    BY <1>2, <2>1, <2>3
  <2>5. InOrder'
    BY <1>2, <1>4, <2>1, <2>4 DEF InOrder, Stopping
  <2>6. TypeOK'
    BY <1>1, <1>2, <2>1, <2>4 DEF TypeOK
  <2> QED
    BY <1>3, <2>2, <2>5, <2>6
<1>7. CASE RelayPublished
  <2>1. /\ relay = "publishing" /\ relay' = "recording"
        /\ out' = out - 1
        /\ idle' = idle \/ (~closed /\ idle < PoolSize /\ idle' = idle + 1)
    BY <1>7 DEF RelayPublished, RelayGoto, Pool!Return
  <2>2. OutAccounted' /\ out' \in Nat
    BY <1>1, <1>2, <2>1 DEF OutAccounted
  <2>3. /\ PoolSize \in Nat /\ idle \in 0..PoolSize /\ drained \in 0..PoolSize
        /\ idle <= PoolSize - drained /\ (~closed => drained = 0)
    BY LifecycleAssumption DEF TypeOK, InOrder
  <2>4. idle' <= PoolSize - drained' /\ idle' \in 0..PoolSize
    BY <1>2, <2>1, <2>3
  <2>5. InOrder'
    BY <1>2, <1>4, <2>1, <2>4 DEF InOrder, Stopping
  <2>6. TypeOK'
    BY <1>2, <2>1, <2>2, <2>4 DEF TypeOK
  <2> QED
    BY <1>3, <2>2, <2>5, <2>6
<1> QED
  BY <1>5, <1>6, <1>7 DEF RelayStep

(* A step of main, or of the broker.                                       *)
LEMMA MainKeepsIInv ==
    ASSUME IInv, Broker \/ Serve \/ ListenFails \/ StopServing \/ Deadline \/ Shutdown
    PROVE  IInv'
<1> USE ClientsFinite DEF IInv
<1>1. UNCHANGED <<slots, calls, out>>
  BY DEF Broker, Serve, ListenFails, StopServing, Deadline, Shutdown, ForceStop, Stopped, CloseClient, DrainClient,
         Exit, client, Pool!Lose, Pool!Refill, Pool!Close, Pool!Drain
<1>2. /\ CallsIn(Batches, Holding)' = CallsIn(Batches, Holding)
      /\ CallsIn(Clients, {"publishing"})' = CallsIn(Clients, {"publishing"})
  BY <1>1, CallsStay
<1>3. (relay # "publishing" /\ relay' # "publishing") \/ UNCHANGED relay
  BY DEF Broker, Serve, ListenFails, StopServing, Deadline, Shutdown, ForceStop, Stopped, CloseClient, DrainClient,
         Exit, InOrder
<1>4. SlotsBalanced' /\ OutAccounted'
  BY <1>1, <1>2, <1>3 DEF SlotsBalanced, OutAccounted
<1>5. NoCall' <=> NoCall
  BY <1>1 DEF NoCall
<1>6. /\ PoolSize \in Nat /\ idle \in 0..PoolSize /\ drained \in 0..PoolSize
      /\ idle <= PoolSize - drained /\ (~closed => drained = 0)
  BY LifecycleAssumption DEF TypeOK, InOrder
<1>7. /\ idle' <= PoolSize - drained' /\ idle' \in 0..PoolSize /\ drained' \in 0..PoolSize
      /\ ~closed' => drained' = 0
  <2>1. CASE Broker
    BY <2>1, <1>6 DEF Broker, Pool!Lose, Pool!Refill
  <2>2. CASE DrainClient
    BY <2>2, <1>6 DEF DrainClient, Pool!Drain
  <2>3. CASE ListenFails \/ CloseClient
    BY <2>3, <1>6 DEF ListenFails, CloseClient, Pool!Close
  <2>4. CASE Serve \/ StopServing \/ Deadline \/ ForceStop \/ Stopped \/ Exit
    BY <2>4, <1>6 DEF Serve, StopServing, Deadline, ForceStop, Stopped, Exit, client
  <2> QED
    BY <2>1, <2>2, <2>3, <2>4 DEF Shutdown
<1>8. TypeOK'
  BY <1>1, <1>7 DEF TypeOK, Broker, Serve, ListenFails, StopServing, Deadline, Shutdown, ForceStop, Stopped,
         CloseClient, DrainClient, Exit, client, Pool!Lose, Pool!Refill, Pool!Close, Pool!Drain
<1>9. InOrder'
  <2>1. CASE Broker
    BY <2>1, <1>5, <1>7 DEF Broker, Pool!Lose, Pool!Refill, InOrder, Stopping
  <2>2. CASE DrainClient
    BY <2>2, <1>5, <1>7 DEF DrainClient, Pool!Drain, InOrder, Stopping
  <2>3. CASE ListenFails
    BY <2>3, <1>5, <1>7 DEF ListenFails, Pool!Close, InOrder, Stopping
  <2>4. CASE CloseClient
    BY <2>4, <1>5, <1>7 DEF CloseClient, Pool!Close, InOrder, Stopping
  <2>5. CASE Serve \/ StopServing \/ Deadline \/ ForceStop \/ Stopped
    BY <2>5, <1>5, <1>7 DEF Serve, StopServing, Deadline, ForceStop, Stopped, client, InOrder, Stopping
  <2>6. CASE Exit
    BY <2>6, <1>5, <1>7 DEF Exit, client, InOrder, Stopping
  <2> QED
    BY <2>1, <2>2, <2>3, <2>4, <2>5, <2>6 DEF Shutdown
<1> QED
  BY <1>4, <1>8, <1>9

LEMMA StutterKeepsIInv == IInv /\ UNCHANGED vars => IInv'
<1> SUFFICES ASSUME IInv, UNCHANGED vars PROVE IInv'
  OBVIOUS
<1>1. /\ CallsIn(Batches, Holding)' = CallsIn(Batches, Holding)
      /\ CallsIn(Clients, {"publishing"})' = CallsIn(Clients, {"publishing"})
  BY CallsStay DEF vars
<1> QED
  BY <1>1 DEF vars, client, IInv, TypeOK, SlotsBalanced, OutAccounted, InOrder, Stopping, NoCall

THEOREM Invariance == Spec => []IInv
<1>1. IInv /\ [Next]_vars => IInv'
  <2> SUFFICES ASSUME IInv, [Next]_vars PROVE IInv'
    OBVIOUS
  <2>1. ASSUME NEW r \in Batches, TakeSlot(r) PROVE IInv'
    BY <2>1, CallKeepsIInv DEF Clients
  <2> QED
    <3>1. ASSUME NEW r \in Clients,
                 \/ Arrive(r) \/ LeaveQueue(r) \/ CallStep(r)
                 \/ Borrow(r) \/ BorrowFails(r) \/ CallEnds(r)
          PROVE  IInv'
      BY <3>1, CallKeepsIInv
    <3>2. CASE RelayStep \/ RelayBorrows
      BY <3>2, RelayKeepsIInv
    <3>3. CASE (Running /\ Broker) \/ Serve \/ ListenFails \/ StopServing \/ Deadline \/ Shutdown
      BY <3>3, MainKeepsIInv
    <3>4. CASE UNCHANGED vars
      BY <3>4, StutterKeepsIInv
    <3> QED
      BY <2>1, <3>1, <3>2, <3>3, <3>4 DEF Next
<1> QED
  BY <1>1, InitiallyIInv, PTL DEF Spec

(* Every reachable state is well typed: there are never more slots taken,  *)
(* and never more channels in the pool, than there are.                    *)
THEOREM TypeCorrect == Spec => []TypeOK
<1>1. IInv => TypeOK
  BY DEF IInv
<1> QED
  BY <1>1, Invariance, PTL

(* batchSlots neither leaks nor lets a batch call too many in, for any     *)
(* number of clients and slots.                                            *)
THEOREM SlotsBalancedHolds == Spec => []SlotsBalanced
<1>1. IInv => SlotsBalanced
  BY DEF IInv
<1> QED
  BY <1>1, Invariance, PTL

(* A call that has a slot can go on by itself, or waits for a channel.     *)
GoesOn(r) ==
    \/ stage[r] \in {"inserting", "publishing", "recording"}
    \/ stage[r] = "reporting" /\ (r \notin Silent \/ Forced)
    \/ stage[r] = "borrowing"

(* Clients that do not read cannot keep the others out: if there are fewer *)
(* of them than slots then a slot is free or with a call that goes on.     *)
SlotsComeBack ==
    Cardinality(Silent) < MaxConcurrentBatches =>
        \/ slots < MaxConcurrentBatches
        \/ \E r \in Batches \ Silent : stage[r] \in Holding /\ GoesOn(r)

(* What SlotsServed rests on: as each token of batchSlots is with a batch  *)
(* call and no call has two, clients that do not read leave one to others. *)
THEOREM SlotsComeBackHolds == Spec => []SlotsComeBack
<1>1. IInv => SlotsComeBack
  <2> SUFFICES ASSUME IInv, Cardinality(Silent) < MaxConcurrentBatches,
                      ~(slots < MaxConcurrentBatches),
                      \A r \in Batches \ Silent : stage[r] \notin Holding
               PROVE  FALSE
    BY DEF SlotsComeBack, GoesOn, Holding
  <2> DEFINE H == CallsIn(Batches, Holding)
  <2>1. H \subseteq Silent /\ IsFiniteSet(Silent)
    BY LifecycleAssumption, FS_Subset DEF CallsIn
  <2>2. Cardinality(H) <= Cardinality(Silent)
    BY <2>1, FS_Subset
  <2>3. slots = Cardinality(H) /\ slots \in 0..MaxConcurrentBatches
    BY DEF IInv, SlotsBalanced, TypeOK
  <2>4. Cardinality(Silent) \in Nat
    BY <2>1, FS_CardinalityType
  <2> QED
    BY <2>2, <2>3, <2>4, LifecycleAssumption
<1> QED
  BY <1>1, Invariance, PTL

(* Nothing is closed under a call, nor, in time, under the relay.          *)
THEOREM ClosedBehindLastUserHolds == Spec => []ClosedBehindLastUser
<1>1. IInv => ClosedBehindLastUser
  BY DEF IInv, InOrder, ClosedBehindLastUser, Stopping
<1> QED
  BY <1>1, Invariance, PTL

(* A shutdown in time has taken every channel out of the pool: with every  *)
(* call and the relay ended none is out, and Close has counted a poolful.  *)
THEOREM CleanExitHolds == Spec => []CleanExit
<1>1. IInv => CleanExit
  <2> SUFFICES ASSUME IInv, main = "exited", ~expired PROVE idle = 0 /\ out = 0 /\ drained = PoolSize
    BY DEF CleanExit
  <2>1. drained = PoolSize /\ NoCall /\ relay # "publishing"
    BY DEF IInv, InOrder, Stopping
  <2>2. idle = 0
    BY <2>1, LifecycleAssumption DEF IInv, InOrder, TypeOK
  <2>3. Cardinality(CallsIn(Clients, {"publishing"})) = 0
    BY <2>1, ClientsFinite, CallsSeen DEF NoCall
  <2>4. out = 0
    BY <2>1, <2>3 DEF IInv, OutAccounted
  <2> QED
    BY <2>1, <2>2, <2>4
<1> QED
  BY <1>1, Invariance, PTL
-----------------------------------------------------------------------------
(* The shutdown.                                                           *)

(* A call that goes forward leaves stages behind and enters none again, ... *)
LEMMA CallAdvances ==
    ASSUME stage \in [Clients -> Stages], more \in [Clients -> 0..MaxMore],
           NEW r \in Clients, NEW s \in Stages, Goto(r, s),
           UNCHANGED more \/ (s = "none" /\ HasMore(r, 0)),
           Ahead[s] \subseteq Ahead[stage[r]], stage[r] \in Ahead[stage[r]] \ Ahead[s]
    PROVE  CallsLeft' \subseteq CallsLeft /\ CallsLeft' # CallsLeft
<1>1. \A q \in Clients : stage'[q] = IF q = r THEN s ELSE stage[q]
  BY DEF Goto
<1>2. \A q \in Clients : Ahead[stage'[q]] \subseteq Ahead[stage[q]]
  BY <1>1
<1>3. \A q \in Clients : more'[q] = more[q] \/ (q = r /\ more'[q] = 0 /\ Ahead[stage'[q]] = {})
  BY <1>1 DEF HasMore, Ahead
<1>4. \A q \in Clients : more[q] \in Nat
  OBVIOUS
<1>5. \A n \in 0..MaxMore : ~(n < 0)
  OBVIOUS
<1>6. CallsLeft' \subseteq CallsLeft
  BY <1>2, <1>3, <1>5 DEF CallsLeft
<1>7. stage[r] \in Holding \cup {"queued"}
  BY DEF Stages, Ahead, Holding
<1>8. <<r, more[r], stage[r]>> \in CallsLeft
  BY <1>7 DEF CallsLeft
<1>9. <<r, more[r], stage[r]>> \notin CallsLeft'
  BY <1>1, <1>3, <1>4 DEF CallsLeft
<1> QED
  BY <1>6, <1>8, <1>9

(* ... and one that takes another chunk has one less to take.              *)
LEMMA NextChunkAdvances ==
    ASSUME stage \in [Clients -> Stages], more \in [Clients -> 0..MaxMore],
           NEW r \in Clients, Reported(r)
    PROVE  CallsLeft' \subseteq CallsLeft /\ CallsLeft' # CallsLeft
<1>1. \A q \in Clients \ {r} : stage'[q] = stage[q] /\ more'[q] = more[q]
  BY DEF Reported, Goto, HasMore
<1>2. stage[r] = "reporting" /\ more[r] > 0 /\ more'[r] = more[r] - 1 /\ more[r] \in 0..MaxMore
  BY DEF Reported, HasMore
<1>3. ASSUME NEW n \in 0..MaxMore, n < more'[r] \/ n = more'[r]
      PROVE  n < more[r]
  BY <1>2, <1>3
<1>4. CallsLeft' \subseteq CallsLeft
  BY <1>1, <1>3 DEF CallsLeft
<1>5. <<r, more[r], "reporting">> \in CallsLeft
  BY <1>2 DEF CallsLeft, Ahead, Holding
<1>6. ~(more[r] < more'[r]) /\ more[r] # more'[r]
  BY <1>2
<1>7. <<r, more[r], "reporting">> \notin CallsLeft'
  BY <1>6 DEF CallsLeft
<1> QED
  BY <1>4, <1>5, <1>7

(* When calls are cancelled, every step of theirs is one forward.          *)
LEMMA CancelledCallAdvances ==
    ASSUME TypeOK, main = "forced", NEW r \in Clients,
           \/ Arrive(r) \/ LeaveQueue(r) \/ CallStep(r)
           \/ Borrow(r) \/ BorrowFails(r) \/ CallEnds(r) \/ TakeSlot(r)
    PROVE  CallsLeft' \subseteq CallsLeft /\ CallsLeft' # CallsLeft
<1> USE DEF Stages, Ahead, Holding
<1>1. stage \in [Clients -> Stages] /\ more \in [Clients -> 0..MaxMore]
  BY DEF TypeOK
<1>2. CASE LeaveQueue(r) \/ CallEnds(r)
  <2>1. Goto(r, "none") /\ HasMore(r, 0) /\ stage[r] \in {"queued", "inserting", "reporting"}
    BY <1>2 DEF LeaveQueue, CallEnds
  <2> QED
    BY <1>1, <2>1, CallAdvances
<1>3. CASE TakeSlot(r)
  <2>1. Goto(r, "inserting") /\ stage[r] = "queued" /\ UNCHANGED more
    BY <1>3 DEF TakeSlot
  <2> QED
    BY <1>1, <2>1, CallAdvances
<1>4. CASE Insert(r)
  <2>1. stage[r] = "inserting" /\ (Goto(r, "borrowing") \/ Goto(r, "reporting")) /\ UNCHANGED more
    BY <1>4 DEF Insert
  <2> QED
    BY <1>1, <2>1, CallAdvances
<1>5. CASE Borrow(r) \/ BorrowFails(r)
  <2>1. stage[r] = "borrowing" /\ (Goto(r, "publishing") \/ Goto(r, "recording")) /\ UNCHANGED more
    BY <1>5 DEF Borrow, BorrowFails
  <2> QED
    BY <1>1, <2>1, CallAdvances
<1>6. CASE Published(r) \/ Recorded(r)
  <2>1. /\ \/ stage[r] = "publishing" /\ Goto(r, "recording")
           \/ stage[r] = "recording" /\ Goto(r, "reporting")
        /\ UNCHANGED more
    BY <1>6 DEF Published, Recorded
  <2> QED
    BY <1>1, <2>1, CallAdvances
<1>7. CASE Reported(r)
  BY <1>1, <1>7, NextChunkAdvances
<1>8. ~Arrive(r)
  BY DEF Arrive
<1> QED
  BY <1>2, <1>3, <1>4, <1>5, <1>6, <1>7, <1>8 DEF CallStep

(* Whoever gives a channel back has one that is out.                       *)
LEMMA SomebodyGoesOn == IInv /\ expired => CanGoOn
<1> SUFFICES ASSUME IInv, expired, main = "forced", ~NoCall PROVE CanGoOn
  BY DEF IInv, TypeOK, InOrder, CanGoOn
<1>1. PICK r \in Clients : stage[r] # "none"
  BY DEF NoCall
<1>2. CASE stage[r] # "publishing"
  BY <1>1, <1>2 DEF CanGoOn
<1>3. CASE stage[r] = "publishing"
  <2> DEFINE N == Cardinality(CallsIn(Clients, {"publishing"}))
  <2>1. N \in Nat /\ N # 0
    BY <1>3, ClientsFinite, CallsSeen
  <2>2. out = N + (IF relay = "publishing" THEN 1 ELSE 0)
    BY DEF IInv, OutAccounted
  <2> HIDE DEF N
  <2>3. out > 0
    BY <2>1, <2>2
  <2> QED
    BY <1>1, <2>3 DEF CanGoOn
<1> QED
  BY <1>2, <1>3

(* What a step after Stop does to what is left of the calls, of main and   *)
(* of the pool.                                                            *)
LEMMA ShutdownAdvances ==
    ASSUME IInv, IInv', [Next]_vars, main \in {"forced", "joining", "closing"}
    PROVE  /\ CallsLeft' \subseteq CallsLeft /\ (calls' # calls => CallsLeft' # CallsLeft)
           /\ MainLeft' \subseteq MainLeft /\ (main' # main => MainLeft' # MainLeft)
           /\ drained' \in drained..PoolSize
<1>1. ASSUME UNCHANGED calls
      PROVE  CallsLeft' = CallsLeft
  BY <1>1 DEF CallsLeft
<1>2. ASSUME UNCHANGED main
      PROVE  MainLeft' = MainLeft
  BY <1>2 DEF MainLeft
<1>3. drained \in 0..PoolSize /\ drained' \in 0..PoolSize /\ PoolSize \in Nat
  BY LifecycleAssumption DEF IInv, TypeOK
<1>4. ASSUME UNCHANGED drained
      PROVE  drained' \in drained..PoolSize
  BY <1>3, <1>4
<1>5. ASSUME NEW r \in Clients,
             \/ Arrive(r) \/ LeaveQueue(r) \/ CallStep(r)
             \/ Borrow(r) \/ BorrowFails(r) \/ CallEnds(r) \/ TakeSlot(r)
      PROVE  /\ UNCHANGED <<main, drained>>
             /\ CallsLeft' \subseteq CallsLeft /\ CallsLeft' # CallsLeft
  <2>1. UNCHANGED <<main, drained>>
    BY <1>5 DEF Arrive, LeaveQueue, CallStep, Insert, Published, Recorded, Reported, Borrow,
                BorrowFails, CallEnds, TakeSlot, client, Pool!Take, Pool!Return
  <2>2. main = "forced"
    <3>1. CASE Arrive(r)
      BY <3>1 DEF Arrive
    <3>2. CASE ~Arrive(r)
      <4>1. stage[r] # "none"
        BY <1>5, <3>2 DEF LeaveQueue, CallStep, Insert, Published, Recorded, Reported, Borrow,
                          BorrowFails, CallEnds, TakeSlot
      <4> QED
        BY <4>1 DEF IInv, InOrder, Stopping, NoCall
    <3> QED
      BY <3>1, <3>2
  <2> QED
    BY <1>5, <2>1, <2>2, CancelledCallAdvances DEF IInv
<1>6. CASE UNCHANGED vars \/ RelayStep \/ RelayBorrows \/ Broker \/ Deadline
  <2>1. UNCHANGED <<calls, main, drained>>
    BY <1>6 DEF vars, client, RelayStep, RelayClaims, RelayBorrowFails, RelayPublished,
                RelayRecorded, RelayStops, RelayBorrows, Broker, Deadline, Pool!Take,
                Pool!Return, Pool!Lose, Pool!Refill
  <2> QED
    BY <1>1, <1>2, <1>4, <2>1
<1>7. CASE DrainClient
  <2>1. UNCHANGED <<calls, main>> /\ drained' = drained + 1
    BY <1>7 DEF DrainClient, Pool!Drain
  <2>2. drained' \in drained..PoolSize
    BY <1>3, <2>1
  <2> QED
    BY <1>1, <1>2, <2>1, <2>2
<1>8. CASE ForceStop \/ Stopped \/ CloseClient \/ Exit
  <2>1. UNCHANGED <<calls, drained>>
    BY <1>8 DEF ForceStop, Stopped, CloseClient, Exit, client, Pool!Close
  <2>2. \/ main = "forced" /\ main' = "joining"
        \/ main = "joining" /\ main' = "closing"
        \/ main = "closing" /\ main' = "exited"
    BY <1>8 DEF ForceStop, Stopped, CloseClient, Exit
  <2>3. MainLeft' \subseteq MainLeft /\ MainLeft' # MainLeft
    BY <2>2 DEF MainLeft
  <2> QED
    BY <1>1, <1>4, <2>1, <2>3
<1>9. ~Serve /\ ~ListenFails /\ ~StopServing
  BY DEF Serve, ListenFails, StopServing
<1>10. CASE \/ \E r \in Clients : \/ Arrive(r) \/ LeaveQueue(r) \/ CallStep(r)
                                  \/ Borrow(r) \/ BorrowFails(r) \/ CallEnds(r)
            \/ \E r \in Batches : TakeSlot(r)
  <2>1. UNCHANGED <<main, drained>> /\ CallsLeft' \subseteq CallsLeft /\ CallsLeft' # CallsLeft
    BY <1>5, <1>10 DEF Clients
  <2> QED
    BY <1>2, <1>4, <2>1
<1> QED
  BY <1>6, <1>7, <1>8, <1>9, <1>10 DEF Next, Shutdown

(* Once the deadline is over the shutdown is never stuck, and after Stop   *)
(* each step of main or of a call brings its end nearer, for any number of *)
(* clients, silent or not, and catalogues of any size, though cancelled    *)
(* calls may take further chunks: main does not wait for ever for them.    *)
THEOREM ShutdownProceedsHolds == Spec => ShutdownProceeds
<1>1. IInv /\ IInv' /\ [Next]_vars =>
        [expired' =>
            /\ CanGoOn'
            /\ main \in {"forced", "joining", "closing"} =>
                  /\ CallsLeft' \subseteq CallsLeft /\ (calls' # calls => CallsLeft' # CallsLeft)
                  /\ MainLeft' \subseteq MainLeft /\ (main' # main => MainLeft' # MainLeft)
                  /\ drained' \in drained..PoolSize]_vars
  <2>1. IInv' /\ expired' => CanGoOn'
    BY SomebodyGoesOn, PTL
  <2> QED
    BY <2>1, ShutdownAdvances
<1> QED
  BY <1>1, Invariance, PTL DEF Spec, ShutdownProceeds

=============================================================================
