------------------------------ MODULE OutboxProofs ------------------------------
(***************************************************************************)
(* What the liveness of Dispatch rests on, proved without fairness: a row  *)
(* of the outbox can always go on towards being settled and changes only a *)
(* bounded number of times on the way, whatever calls, relays, faults and  *)
(* the clock do; a call is never stuck and never goes back.                *)
(***************************************************************************)
EXTENDS DispatchProofs, FiniteSetTheorems

Open(k) == state[k] \in {"PENDING", "PROCESSING"}

(* How often a row may still change, from what its columns say: a claim is *)
(* followed by three changes at most before the next, a lease that runs    *)
(* out, a failure and a backoff that runs out.                             *)
Left(s, n, ripe) ==
    IF s \in {"PUBLISHED", "DEAD"} THEN 0
    ELSE 4 * (MaxAttempts + MaxFaults - n)
         + (IF s = "NONE" THEN 4 ELSE IF s = "PROCESSING" THEN 2 ELSE 0)
         + (IF ripe THEN 1 ELSE 2)
ChangesLeft(k) == Left(state[k], attempts[k], k \in due)

RowStays(k) ==
    /\ state'[k] = state[k] /\ attempts'[k] = attempts[k] /\ token'[k] = token[k]
    /\ k \in due' <=> k \in due

(* Every change of a row is one less to come.                              *)
RowsComeToRest ==
    [][\A k \in Keys :
          /\ ChangesLeft(k) \in Nat
          /\ ChangesLeft(k)' <= ChangesLeft(k)
          /\ ChangesLeft(k)' = ChangesLeft(k) => RowStays(k)]_vars

(* The relay that can settle row k is at work on it.                       *)
InHand(k) ==
    \E r \in Relays :
        /\ pc[r] \in {"publishing", "settling"}
        /\ k \in batch[r] /\ Matches(k, lease[r])

(* A row that is not settled can be leased by any relay that is idle, for  *)
(* which there is a token, or its time has yet to run out, or it is in     *)
(* hand.                                                                   *)
NoRowStranded ==
    \A k \in Keys : Open(k) =>
        \/ /\ k \in Claimable
           /\ \A r \in Relays : pc[r] = "idle" => \E t \in Tokens : t \notin TokensInUse
        \/ k \notin due /\ ~Held(k)
        \/ InHand(k)

(* How far a call still has to go.                                         *)
Ahead(p) == CASE p = "start" -> 4 [] p = "publishing" -> 3 [] p = "settling" -> 2
              [] p = "marking" -> 1 [] OTHER -> 0

(* A call goes ahead, or stays where it is with the same batch, of which   *)
(* more and more is sent; once BatchRun is over it can read its record, or *)
(* write its batch back or roll that back.                                 *)
CallsGoAhead ==
    [][\A c \in Calls :
          /\ \/ Ahead(pc'[c]) < Ahead(pc[c])
             \/ /\ pc'[c] = pc[c] /\ batch'[c] = batch[c]
                /\ sent[c] \subseteq sent'[c] /\ sent'[c] \subseteq batch[c]
          /\ pc[c] \in {"settling", "marking"} =>
                (pc[c] = "settling" /\ FailedSingle(c)) \/ Settling(c)]_vars

-----------------------------------------------------------------------------
(* What is needed of the actors beside IInv.                               *)

(* A relay has a lease unless it is idle, and only a call whose one        *)
(* publication failed marks it.                                            *)
LocalsInOrder ==
    /\ \A r \in Relays : pc[r] = "idle" <=> lease[r] = NoToken
    /\ \A a \in Actors : pc[a] = "marking" => FailedSingle(a)

LEMMA LocalsInit == Init => LocalsInOrder
<1> SUFFICES ASSUME Init PROVE LocalsInOrder
  OBVIOUS
<1>1. /\ pc = [a \in Actors |-> IF a \in Relays THEN "idle" ELSE "start"]
      /\ lease = [a \in Actors |-> NoToken]
  BY DEF Init
<1>2. ASSUME NEW r \in Relays PROVE pc[r] = "idle" <=> lease[r] = NoToken
  BY <1>1 DEF Actors
<1>3. ASSUME NEW a \in Actors PROVE pc[a] # "marking"
  BY <1>1
<1> QED
  BY <1>2, <1>3 DEF LocalsInOrder

LEMMA LeaveLocals ==
    ASSUME TypeOK, LocalsInOrder, NEW a \in Actors, NEW p, Leave(a, p),
           p # "marking", a \in Relays => p = "idle"
    PROVE  LocalsInOrder'
<1>1. /\ pc' = [pc EXCEPT ![a] = p] /\ lease' = [lease EXCEPT ![a] = NoToken]
      /\ acked' = [acked EXCEPT ![a] = {}]
      /\ DOMAIN pc = Actors /\ DOMAIN lease = Actors /\ DOMAIN acked = Actors
  BY DEF Leave, TypeOK
<1>2. ASSUME NEW r \in Relays PROVE pc'[r] = "idle" <=> lease'[r] = NoToken
  BY <1>1 DEF LocalsInOrder, Actors
<1>3. ASSUME NEW b \in Actors, pc'[b] = "marking" PROVE FailedSingle(b)'
  BY <1>1, <1>3 DEF LocalsInOrder, FailedSingle
<1> QED
  BY <1>2, <1>3 DEF LocalsInOrder

LEMMA LocalsNext == IInv /\ LocalsInOrder /\ [Next]_vars => LocalsInOrder'
<1> SUFFICES ASSUME IInv, LocalsInOrder, [Next]_vars PROVE LocalsInOrder'
  OBVIOUS
<1>0. /\ TypeOK /\ DOMAIN pc = Actors /\ DOMAIN lease = Actors /\ DOMAIN acked = Actors
      /\ Calls \subseteq Actors /\ Relays \subseteq Actors /\ Calls \cap Relays = {}
  BY ActorsAssumption DEF IInv, TypeOK, Actors
<1>1. ASSUME NEW c \in Calls, NEW e, Return(c, e) PROVE LocalsInOrder'
  BY <1>0, <1>1, LeaveLocals DEF Return
<1>2. ASSUME NEW a \in Actors, GiveUp(a) PROVE LocalsInOrder'
  <2>1. a \in Relays => Leave(a, "idle")
    BY <1>2 DEF GiveUp
  <2>2. a \notin Relays => a \in Calls /\ Leave(a, "done")
    BY <1>2 DEF GiveUp, Return, Actors
  <2> QED
    BY <1>0, <2>1, <2>2, LeaveLocals
<1>3. ASSUME NEW c \in Calls, Insert(c) PROVE LocalsInOrder'
  <2>1. /\ \A a \in Actors : a # c => pc'[a] = pc[a]
        /\ pc'[c] # "marking" /\ UNCHANGED <<acked, lease>>
    BY <1>0, <1>3 DEF Insert
  <2> QED
    BY <1>0, <2>1 DEF LocalsInOrder, FailedSingle
<1>4. ASSUME NEW r \in Relays, NEW S \in SUBSET Claimable, Claim(r, S) PROVE LocalsInOrder'
  <2>1. PICK t \in Tokens : /\ pc' = [pc EXCEPT ![r] = "publishing"]
                            /\ lease' = [lease EXCEPT ![r] = t] /\ acked' = acked
    BY <1>4 DEF Claim
  <2>2. t # NoToken
    BY NoTokenAssumption
  <2> QED
    BY <1>0, <2>1, <2>2 DEF LocalsInOrder, FailedSingle
<1>5. ASSUME NEW a \in Actors, BatchRun(a) PROVE LocalsInOrder'
  <2>1. CASE UNCHANGED <<pc, lease, acked>>
    BY <2>1 DEF LocalsInOrder, FailedSingle
  <2>2. CASE \E ok \in SUBSET sent[a] : Confirm(a, ok)
    <3>1. /\ pc[a] = "publishing" /\ pc' = [pc EXCEPT ![a] = "settling"] /\ lease' = lease
          /\ \A b \in Actors : b # a => acked'[b] = acked[b]
      BY <1>0, <2>2 DEF Confirm
    <3> QED
      BY <1>0, <3>1 DEF LocalsInOrder, FailedSingle
  <2> QED
    BY <1>5, <2>1, <2>2 DEF BatchRun, Publish
<1>6. ASSUME NEW c \in Calls, FindByID(c) PROVE LocalsInOrder'
  <2>1. CASE pc' = [pc EXCEPT ![c] = "marking"] /\ UNCHANGED <<acked, lease>>
    BY <1>0, <1>6, <2>1 DEF FindByID, LocalsInOrder, FailedSingle
  <2> QED
    BY <1>1, <1>6, <2>1 DEF FindByID
<1>7. ASSUME NEW r \in Relays, Leave(r, "idle") PROVE LocalsInOrder'
  BY <1>0, <1>7, LeaveLocals
<1>8. ASSUME NEW a \in Actors, Crash(a) PROVE LocalsInOrder'
  <2>1. a \in Relays => Leave(a, "idle")
    BY <1>8 DEF Crash
  <2>2. a \notin Relays => Leave(a, "down")
    BY <1>8 DEF Crash
  <2> QED
    BY <1>0, <2>1, <2>2, LeaveLocals
<1>9. CASE UNCHANGED locals
  BY <1>9 DEF locals, LocalsInOrder, FailedSingle
<1>10. ASSUME NEW c \in Calls, CallStep(c) PROVE LocalsInOrder'
  BY <1>0, <1>1, <1>2, <1>3, <1>5, <1>6, <1>10
  DEF CallStep, InsertFails, InsertConflict, CallWriteBack, RollBack, FailWriteBack
<1>11. ASSUME NEW r \in Relays, RelayStep(r) PROVE LocalsInOrder'
  BY <1>0, <1>2, <1>4, <1>5, <1>7, <1>11 DEF RelayStep, RelayWriteBack, RollBack, FailWriteBack
<1>12. Environment => LocalsInOrder'
  BY <1>8, <1>9 DEF Environment, Elapse, Overrun, Callback
<1> QED
  BY <1>9, <1>10, <1>11, <1>12 DEF Next, vars

LEMMA LocalsCorrect == Spec => [](IInv /\ LocalsInOrder)
BY InvInit, InvNext, LocalsInit, LocalsNext, PTL DEF Spec

-----------------------------------------------------------------------------
(* The steps of a row.                                                     *)

Rows == States \cup {"NONE"}

(* From state s, with n attempts and due or not (d), to t, m and e.        *)
Move(s, n, d, t, m, e) ==
    \/ s = "NONE" /\ t = "PENDING" /\ m = n /\ e = d                   \* inserted
    \/ s \in {"PENDING", "PROCESSING"} /\ t = "PROCESSING" /\ m = n + 1 /\ d /\ ~e  \* leased
    \/ s \in {"PENDING", "PROCESSING"} /\ t \in {"PUBLISHED", "DEAD"}  \* settled
    \/ s = "PROCESSING" /\ t = "PENDING" /\ m = n /\ ~e                \* to be retried
    \/ s \in {"PENDING", "PROCESSING"} /\ t = s /\ m = n /\ ~d /\ e    \* its time runs out
Moves(k) ==
    Move(state[k], attempts[k], k \in due, state'[k], attempts'[k], k \in due')

LEMMA LeftIsNat ==
    ASSUME NEW s \in Rows, NEW n \in Nat, n <= MaxAttempts + MaxFaults, NEW d \in BOOLEAN
    PROVE  Left(s, n, d) \in Nat
<1>1. MaxAttempts + MaxFaults - n \in Nat
  BY LimitsAssumption
<1> QED
  BY <1>1 DEF Left

LEMMA MoveTakesOne ==
    ASSUME NEW s \in Rows, NEW n \in Nat, n <= MaxAttempts + MaxFaults, NEW d \in BOOLEAN,
           NEW t \in Rows, NEW m \in Nat, m <= MaxAttempts + MaxFaults, NEW e \in BOOLEAN,
           Move(s, n, d, t, m, e)
    PROVE  Left(t, m, e) < Left(s, n, d)
<1> DEFINE x == MaxAttempts + MaxFaults - n
           y == MaxAttempts + MaxFaults - m
           f == IF d THEN 1 ELSE 2
           g == IF e THEN 1 ELSE 2
           before == Left(s, n, d)
           after == Left(t, m, e)
<1>1. x \in Nat /\ y \in Nat /\ f \in Nat /\ g \in Nat
  BY LimitsAssumption
<1>2. /\ f \in {1, 2} /\ g \in {1, 2}
      /\ d => f = 1
      /\ e => g = 1
      /\ ~d => f = 2
      /\ ~e => g = 2
  OBVIOUS
<1>3. /\ m = n => y = x
      /\ m = n + 1 => y = x - 1
  BY LimitsAssumption
<1>4. /\ s = "NONE" => before = 4 * x + 4 + f
      /\ s = "PENDING" => before = 4 * x + f
      /\ s = "PROCESSING" => before = 4 * x + 2 + f
  BY <1>1 DEF Left
<1>5. /\ t \in {"PUBLISHED", "DEAD"} => after = 0
      /\ t = "PENDING" => after = 4 * y + g
      /\ t = "PROCESSING" => after = 4 * y + 2 + g
  BY <1>1 DEF Left
<1> SUFFICES after < before
  OBVIOUS
<1> HIDE DEF x, y, f, g, before, after
<1>6. CASE s = "NONE" /\ t = "PENDING" /\ m = n /\ e = d
  BY <1>1, <1>2, <1>3, <1>4, <1>5, <1>6
<1>7. CASE s \in {"PENDING", "PROCESSING"} /\ t = "PROCESSING" /\ m = n + 1 /\ d /\ ~e
  BY <1>1, <1>2, <1>3, <1>4, <1>5, <1>7
<1>8. CASE s \in {"PENDING", "PROCESSING"} /\ t \in {"PUBLISHED", "DEAD"}
  BY <1>1, <1>2, <1>4, <1>5, <1>8
<1>9. CASE s = "PROCESSING" /\ t = "PENDING" /\ m = n /\ ~e
  BY <1>1, <1>2, <1>3, <1>4, <1>5, <1>9
<1>10. CASE s \in {"PENDING", "PROCESSING"} /\ t = s /\ m = n /\ ~d /\ e
  BY <1>1, <1>2, <1>3, <1>4, <1>5, <1>10
<1> QED
  BY <1>6, <1>7, <1>8, <1>9, <1>10 DEF Move

(* What a write-back under the token t does to row k.                      *)
LEMMA WriteBackMoves ==
    ASSUME TypeOK, NEW P, NEW D, NEW R, P \cap R = {}, D \cap R = {}, NEW t,
           UpdateOutbox(P, D, R, t), R = {} \/ t # NoToken, NEW k \in Keys
    PROVE  RowStays(k) \/ Moves(k)
<1>0. /\ k \in P \cup D \cup R => Matches(k, t) /\ k \notin due'
      /\ k \notin P \cup D \cup R => token'[k] = token[k] /\ (k \in due' <=> k \in due)
      /\ attempts' = attempts
      /\ state'[k] = CASE k \in P -> "PUBLISHED" [] k \in D -> "DEAD"
                       [] k \in R -> "PENDING" [] OTHER -> state[k]
  BY DEF UpdateOutbox
<1>1. /\ k \in P \cup D \cup R => Matches(k, t) /\ k \notin due'
      /\ k \in P \cup D => state'[k] \in {"PUBLISHED", "DEAD"}
      /\ k \in R => state'[k] = "PENDING"
      /\ k \notin P \cup D \cup R => RowStays(k)
      /\ attempts' = attempts
  BY <1>0 DEF RowStays
<1>2. CASE k \in P \cup D
  BY <1>1, <1>2 DEF Matches, Moves, Move
<1>3. CASE k \in R
  <2>1. t # NoToken
    BY <1>3
  <2> QED
    BY <1>1, <1>3, <2>1 DEF Matches, Moves, Move
<1> QED
  BY <1>1, <1>2, <1>3

LEMMA RowSteps ==
    ASSUME IInv, LocalsInOrder, [Next]_vars, NEW k \in Keys
    PROVE  RowStays(k) \/ Moves(k)
<1>0. TypeOK
  BY DEF IInv
<1>1. CASE UNCHANGED outbox
  BY <1>1 DEF outbox, RowStays
<1>2. ASSUME NEW c \in Calls, InsertConflict(c) \/ Insert(c) PROVE RowStays(k) \/ Moves(k)
  <2>1. AddMessages(Work[c])
    BY <1>2 DEF InsertConflict, Insert
  <2> QED
    BY <2>1 DEF AddMessages, RowStays, Moves, Move
<1>3. ASSUME NEW c \in Calls, CallWriteBack(c) PROVE RowStays(k) \/ Moves(k)
  <2>1. UpdateOutbox(acked[c], Failed(c), {}, NoToken)
    BY <1>3 DEF CallWriteBack
  <2> QED
    BY <1>0, <2>1, WriteBackMoves
<1>4. ASSUME NEW r \in Relays, RelayWriteBack(r) PROVE RowStays(k) \/ Moves(k)
  <2> DEFINE retry == {q \in Failed(r) : attempts[q] < MaxAttempts}
             dead == Failed(r) \ retry
  <2>1. /\ UpdateOutbox(acked[r], dead, retry, lease[r])
        /\ acked[r] \cap retry = {} /\ dead \cap retry = {}
    BY <1>4 DEF RelayWriteBack, Failed
  <2>2. pc[r] # "idle"
    BY <1>4 DEF RelayWriteBack, Settling
  <2>3. lease[r] # NoToken
    BY <2>2 DEF LocalsInOrder
  <2> HIDE DEF retry, dead
  <2> QED
    BY <1>0, <2>1, <2>3, WriteBackMoves
<1>5. ASSUME NEW r \in Relays, NEW S \in SUBSET Claimable, Claim(r, S)
      PROVE  RowStays(k) \/ Moves(k)
  <2>1. PICK t : ClaimPending(S, t)
    BY <1>5 DEF Claim
  <2>2. CASE k \in S
    <3>1. k \in due /\ state[k] \in {"PENDING", "PROCESSING"}
      BY <2>2 DEF Claimable
    <3>2. state'[k] = "PROCESSING" /\ attempts'[k] = attempts[k] + 1 /\ k \notin due'
      BY <2>1, <2>2 DEF ClaimPending
    <3> QED
      BY <3>1, <3>2 DEF Moves, Move
  <2>3. CASE k \notin S
    BY <2>1, <2>3 DEF ClaimPending, RowStays
  <2> QED
    BY <2>2, <2>3
<1>6. ASSUME NEW j \in Keys, Elapse(j) \/ Overrun(j) PROVE RowStays(k) \/ Moves(k)
  <2>1. Pass(j)
    BY <1>6 DEF Elapse, Overrun
  <2> QED
    BY <2>1 DEF Pass, RowStays, Moves, Move
<1>7. ASSUME NEW a \in Actors, BatchRun(a) \/ RollBack(a) \/ FailWriteBack(a) \/ Crash(a)
      PROVE  UNCHANGED outbox
  BY <1>7 DEF BatchRun, Publish, Confirm, RollBack, FailWriteBack, Crash, tables
<1>8. ASSUME NEW c \in Calls, InsertFails(c) \/ FindByID(c) PROVE UNCHANGED outbox
  BY <1>8 DEF InsertFails, FindByID, tables
<1>9. ASSUME NEW j \in Keys, NEW s \in Reports, Callback(j, s) PROVE UNCHANGED outbox
  BY <1>9 DEF Callback
<1>10. UNCHANGED vars => UNCHANGED outbox
  BY DEF vars, tables
<1> QED
  BY <1>1, <1>2, <1>3, <1>4, <1>5, <1>6, <1>7, <1>8, <1>9, <1>10
  DEF Next, CallStep, RelayStep, Environment, Actors

(* The bounds on what a row counts.                                        *)
CountsInOrder ==
    /\ IInv
    /\ LocalsInOrder
    /\ AttemptsInOrder
    /\ faults <= MaxFaults
RowsBounded ==
    \A k \in Keys : /\ state[k] \in Rows /\ attempts[k] \in Nat
                    /\ attempts[k] <= MaxAttempts + MaxFaults

LEMMA CountsInit == Init => CountsInOrder
BY InvInit, LocalsInit, AttemptsInit, LimitsAssumption DEF Init, CountsInOrder

LEMMA CountsNext == CountsInOrder /\ [Next]_vars => CountsInOrder'
BY InvNext, LocalsNext, AttemptsNext, CountsGrow DEF CountsInOrder

LEMMA CountsBound == CountsInOrder => RowsBounded
<1> SUFFICES ASSUME CountsInOrder, NEW k \in Keys
             PROVE  /\ state[k] \in Rows /\ attempts[k] \in Nat
                    /\ attempts[k] <= MaxAttempts + MaxFaults
  BY DEF RowsBounded
<1>1. state[k] \in Rows /\ attempts[k] \in Nat /\ faults \in Nat
  BY DEF CountsInOrder, IInv, TypeOK, TablesTypeOK, Rows
<1>2. attempts[k] <= MaxAttempts + faults /\ faults <= MaxFaults
  BY DEF CountsInOrder, AttemptsInOrder
<1> QED
  BY <1>1, <1>2, LimitsAssumption

(* Every row of the outbox comes to rest: whatever the relays, the calls,  *)
(* the clock and the faults do, each of its changes is one of at most      *)
(* 4 * (MaxAttempts + MaxFaults) + 6.                                      *)
THEOREM RowsComeToRestHolds == Spec => RowsComeToRest
<1> DEFINE A == \A k \in Keys : /\ ChangesLeft(k) \in Nat
                                /\ ChangesLeft(k)' <= ChangesLeft(k)
                                /\ ChangesLeft(k)' = ChangesLeft(k) => RowStays(k)
<1>1. CountsInOrder /\ [Next]_vars => A
  <2> SUFFICES ASSUME CountsInOrder, [Next]_vars, NEW k \in Keys
               PROVE  /\ ChangesLeft(k) \in Nat
                      /\ ChangesLeft(k)' <= ChangesLeft(k)
                      /\ ChangesLeft(k)' = ChangesLeft(k) => RowStays(k)
    OBVIOUS
  <2>1. RowsBounded /\ RowsBounded'
    BY CountsNext, CountsBound, PTL
  <2>2. /\ state[k] \in Rows /\ attempts[k] \in Nat
        /\ attempts[k] <= MaxAttempts + MaxFaults
        /\ state'[k] \in Rows /\ attempts'[k] \in Nat
        /\ attempts'[k] <= MaxAttempts + MaxFaults
    BY <2>1 DEF RowsBounded
  <2> DEFINE d == k \in due
             e == k \in due'
  <2>0. /\ d \in BOOLEAN /\ e \in BOOLEAN
        /\ ChangesLeft(k) = Left(state[k], attempts[k], d)
        /\ ChangesLeft(k)' = Left(state'[k], attempts'[k], e)
        /\ RowStays(k) => /\ state'[k] = state[k] /\ attempts'[k] = attempts[k]
                          /\ d = e
        /\ Moves(k) => Move(state[k], attempts[k], d, state'[k], attempts'[k], e)
    BY DEF ChangesLeft, RowStays, Moves
  <2> HIDE DEF d, e
  <2>3. ChangesLeft(k) \in Nat /\ ChangesLeft(k)' \in Nat
    BY <2>0, <2>2, LeftIsNat
  <2>4. CASE RowStays(k)
    BY <2>0, <2>3, <2>4
  <2>5. CASE Moves(k)
    <3>1. Left(state'[k], attempts'[k], e) < Left(state[k], attempts[k], d)
      BY <2>0, <2>2, <2>5, MoveTakesOne
    <3> QED
      BY <2>0, <2>3, <3>1
  <2> QED
    BY <2>4, <2>5, RowSteps DEF CountsInOrder
<1> QED
  BY <1>1, CountsInit, CountsNext, PTL DEF Spec, RowsComeToRest

-----------------------------------------------------------------------------
(* A row that is not settled can go on.                                    *)

LEMMA ImageIsFinite ==
    ASSUME NEW S, IsFiniteSet(S), NEW f, f = [x \in S |-> f[x]]
    PROVE  /\ IsFiniteSet({f[x] : x \in S})
           /\ Cardinality({f[x] : x \in S}) <= Cardinality(S)
<1> DEFINE T == {f[x] : x \in S}
<1>1. f \in Surjection(S, T)
  BY DEF Surjection
<1> QED
  BY <1>1, FS_Surjection

(* The rows and the other relays never have all tokens among them: a relay *)
(* that is idle draws one nobody knows.                                    *)
LEMMA TokenLeft ==
    ASSUME IInv, LocalsInOrder, NEW r \in Relays, pc[r] = "idle",
           IsFiniteSet(Keys), IsFiniteSet(Relays), IsFiniteSet(Tokens),
           Cardinality(Tokens) >= Cardinality(Keys) + Cardinality(Relays)
    PROVE  \E t \in Tokens : t \notin TokensInUse
<1> SUFFICES ASSUME Tokens \subseteq TokensInUse PROVE FALSE
  OBVIOUS
<1> DEFINE Others == Relays \ {r}
           hold == [q \in Others |-> lease[q]]
           InRows == {token[k] : k \in Keys}
           InHands == {hold[q] : q \in Others}
<1>1. Tokens \subseteq InRows \cup InHands
  <2>1. lease[r] = NoToken
    BY DEF LocalsInOrder
  <2>2. TokensInUse \subseteq InRows \cup InHands \cup {NoToken}
    BY <2>1 DEF TokensInUse
  <2> QED
    BY <2>2, NoTokenAssumption
<1>2. IsFiniteSet(InRows) /\ Cardinality(InRows) <= Cardinality(Keys)
  <2>1. token = [k \in Keys |-> token[k]]
    BY DEF IInv, TypeOK, TablesTypeOK
  <2> QED
    BY <2>1, ImageIsFinite
<1>3. IsFiniteSet(Others) /\ Cardinality(Others) = Cardinality(Relays) - 1
  BY FS_RemoveElement
<1>4. IsFiniteSet(InHands) /\ Cardinality(InHands) <= Cardinality(Others)
  BY <1>3, ImageIsFinite
<1> HIDE DEF Others, hold, InRows, InHands
<1>5. /\ IsFiniteSet(InRows \cup InHands) /\ IsFiniteSet(InRows \cap InHands)
      /\ Cardinality(InRows \cup InHands)
            = Cardinality(InRows) + Cardinality(InHands) - Cardinality(InRows \cap InHands)
  BY <1>2, <1>4, FS_Union, FS_Intersection
<1>6. Cardinality(Tokens) <= Cardinality(InRows \cup InHands)
  BY <1>1, <1>5, FS_Subset
<1>7. /\ Cardinality(Keys) \in Nat /\ Cardinality(Relays) \in Nat /\ Cardinality(Tokens) \in Nat
      /\ Cardinality(InRows) \in Nat /\ Cardinality(InHands) \in Nat
      /\ Cardinality(Others) \in Nat
      /\ Cardinality(InRows \cap InHands) \in Nat
      /\ Cardinality(InRows \cup InHands) \in Nat
  BY <1>2, <1>3, <1>4, <1>5, FS_CardinalityType
<1> QED
  BY <1>2, <1>3, <1>4, <1>5, <1>6, <1>7

(* A row whose lease is held has its relay at work on it.                  *)
LEMMA HeldInHand ==
    ASSUME IInv, NEW k \in Keys, Held(k)
    PROVE  InHand(k)
<1>1. PICK r \in Relays : lease[r] = token[k] /\ state[k] = "PROCESSING"
  BY DEF Held
<1>2. token[k] # NoToken
  BY <1>1 DEF IInv, LeasesInOrder
<1>3. k \in batch[r]
  BY <1>1, <1>2 DEF IInv, LeasesInOrder
<1>4. pc[r] \in RelayStages /\ pc[r] # "idle"
  BY <1>3 DEF IInv, TypeOK, BatchesInOrder, Actors
<1> QED
  BY <1>1, <1>2, <1>3, <1>4 DEF InHand, Matches, RelayStages

(* No row of the outbox is stranded, however many relays crashed or lost   *)
(* their leases: a row that is not settled can be leased, or its time has  *)
(* yet to run out, or a relay that can settle it is at work.  (Tokens are  *)
(* random in the code: there are enough for every row and every relay.)    *)
THEOREM NoRowStrandedHolds ==
    ASSUME IsFiniteSet(Keys), IsFiniteSet(Relays), IsFiniteSet(Tokens),
           Cardinality(Tokens) >= Cardinality(Keys) + Cardinality(Relays)
    PROVE  Spec => []NoRowStranded
<1>1. IInv /\ LocalsInOrder => NoRowStranded
  <2> SUFFICES ASSUME IInv, LocalsInOrder, NEW k \in Keys, Open(k)
               PROVE  \/ /\ k \in Claimable
                         /\ \A r \in Relays :
                               pc[r] = "idle" => \E t \in Tokens : t \notin TokensInUse
                      \/ k \notin due /\ ~Held(k)
                      \/ InHand(k)
    BY DEF NoRowStranded
  <2>1. CASE k \in due
    <3>1. k \in Claimable
      BY <2>1 DEF Claimable, Open
    <3> QED
      BY <3>1, TokenLeft
  <2>2. CASE k \notin due
    BY <2>2, HeldInHand
  <2> QED
    BY <2>1, <2>2
<1> QED
  BY <1>1, LocalsCorrect, PTL

-----------------------------------------------------------------------------
(* A call goes ahead.                                                      *)

(* A call other than c stands still when c moves, and all calls do when a  *)
(* relay moves.                                                            *)
CallStands(c) ==
    pc'[c] = pc[c] /\ batch'[c] = batch[c] /\ sent'[c] = sent[c]
CallMoves(c) ==
    \/ Ahead(pc'[c]) < Ahead(pc[c])
    \/ /\ pc'[c] = pc[c] /\ batch'[c] = batch[c]
       /\ sent[c] \subseteq sent'[c] /\ sent'[c] \subseteq batch[c]

LEMMA StandingMoves ==
    ASSUME IInv, NEW c \in Calls, CallStands(c)
    PROVE  CallMoves(c)
BY DEF CallStands, CallMoves, IInv, BatchesInOrder, Actors

LEMMA LeavingMoves ==
    ASSUME IInv, NEW a \in Actors, NEW p, Leave(a, p), NEW c \in Calls,
           a = c => p \in {"done", "down"} /\ pc[a] \in {"start", "publishing", "settling", "marking"}
    PROVE  CallMoves(c)
<1>1. CASE a = c
  <2>1. pc'[c] = p
    BY <1>1 DEF Leave, IInv, TypeOK, Actors
  <2> QED
    BY <1>1, <2>1 DEF CallMoves, Ahead
<1>2. CASE a # c
  <2>1. CallStands(c)
    BY <1>2 DEF Leave, CallStands, IInv, TypeOK, Actors
  <2> QED
    BY <2>1, StandingMoves
<1> QED
  BY <1>1, <1>2

(* Actor a moves on alone: a call does so forwards.                        *)
LEMMA SteppingMoves ==
    ASSUME IInv, NEW a \in Actors, NEW p \in CallStages \cup RelayStages,
           pc' = [pc EXCEPT ![a] = p], a \in Calls => Ahead(p) < Ahead(pc[a]),
           \A b \in Actors : b # a => batch'[b] = batch[b] /\ sent'[b] = sent[b],
           NEW c \in Calls
    PROVE  CallMoves(c)
<1>1. CASE a = c
  BY <1>1 DEF CallMoves, IInv, TypeOK
<1>2. CASE a # c
  <2>1. CallStands(c)
    BY <1>2 DEF CallStands, IInv, TypeOK, Actors
  <2> QED
    BY <2>1, StandingMoves
<1> QED
  BY <1>1, <1>2

LEMMA CallSteps ==
    ASSUME IInv, [Next]_vars, NEW c \in Calls
    PROVE  CallMoves(c)
<1>0. /\ TypeOK /\ Calls \subseteq Actors /\ Relays \subseteq Actors /\ Calls \cap Relays = {}
      /\ c \notin Relays /\ c \in Actors
  BY ActorsAssumption DEF IInv, Actors
<1>1. ASSUME UNCHANGED <<pc, batch, sent>> PROVE CallMoves(c)
  BY <1>1, StandingMoves DEF CallStands
<1>2. ASSUME NEW d \in Calls, NEW e, Return(d, e),
             pc[d] \in {"start", "publishing", "settling", "marking"}
      PROVE  CallMoves(c)
  <2>1. Leave(d, "done")
    BY <1>2 DEF Return
  <2> QED
    BY <1>0, <1>2, <2>1, LeavingMoves
<1>3. ASSUME NEW r \in Relays, NEW p, Leave(r, p) PROVE CallMoves(c)
  BY <1>0, <1>3, LeavingMoves
<1>4. ASSUME NEW a \in Actors, GiveUp(a), pc[a] \in {"settling", "marking"}
      PROVE  CallMoves(c)
  <2>1. CASE a \in Relays
    BY <1>3, <1>4, <2>1 DEF GiveUp
  <2>2. CASE a \notin Relays
    BY <1>2, <1>4, <2>2 DEF GiveUp, Actors
  <2> QED
    BY <2>1, <2>2
<1>5. ASSUME NEW a \in Actors, RollBack(a) \/ FailWriteBack(a) PROVE CallMoves(c)
  BY <1>4, <1>5 DEF RollBack, FailWriteBack, Settling
<1>6. ASSUME NEW a \in Actors, Crash(a) PROVE CallMoves(c)
  <2>1. CASE a \in Relays
    BY <1>3, <1>6, <2>1 DEF Crash
  <2>2. CASE a \notin Relays
    <3>1. /\ Leave(a, "down") /\ pc[a] \in {"publishing", "settling", "marking"}
      BY <1>6, <2>2 DEF Crash
    <3> QED
      BY <3>1, LeavingMoves
  <2> QED
    BY <2>1, <2>2
<1>7. ASSUME NEW d \in Calls, Insert(d) PROVE CallMoves(c)
  <2>1. PICK p \in {"publishing", "done", "settling"} : pc' = [pc EXCEPT ![d] = p]
    BY <1>7 DEF Insert
  <2>2. /\ pc[d] = "start" /\ sent' = sent
        /\ \A b \in Actors : b # d => batch'[b] = batch[b]
    BY <1>0, <1>7 DEF Insert, TypeOK
  <2>3. Ahead(p) < Ahead(pc[d]) /\ p \in CallStages
    BY <2>1, <2>2 DEF Ahead, CallStages
  <2> QED
    BY <1>0, <2>1, <2>2, <2>3, SteppingMoves
<1>8. ASSUME NEW r \in Relays, NEW S \in SUBSET Claimable, Claim(r, S) PROVE CallMoves(c)
  <2>1. /\ pc' = [pc EXCEPT ![r] = "publishing"] /\ sent' = sent
        /\ \A b \in Actors : b # r => batch'[b] = batch[b]
    BY <1>0, <1>8 DEF Claim, TypeOK
  <2> QED
    BY <1>0, <2>1, SteppingMoves DEF RelayStages
<1>9. ASSUME NEW a \in Actors, NEW k \in batch[a], Publish(a, k) PROVE CallMoves(c)
  <2>1. /\ sent' = [sent EXCEPT ![a] = @ \cup {k}] /\ UNCHANGED <<pc, batch>>
    BY <1>9 DEF Publish
  <2>2. sent[c] \subseteq batch[c]
    BY <1>0 DEF IInv, BatchesInOrder
  <2>3. sent[c] \subseteq sent'[c] /\ sent'[c] \subseteq batch[c]
    BY <1>0, <1>9, <2>1, <2>2 DEF TypeOK
  <2> QED
    BY <2>1, <2>3 DEF CallMoves
<1>10. ASSUME NEW a \in Actors, NEW ok \in SUBSET sent[a], Confirm(a, ok) PROVE CallMoves(c)
  <2>1. /\ pc[a] = "publishing" /\ pc' = [pc EXCEPT ![a] = "settling"]
        /\ UNCHANGED <<batch, sent>>
    BY <1>10 DEF Confirm
  <2>2. Ahead("settling") < Ahead(pc[a])
    BY <2>1 DEF Ahead
  <2> QED
    BY <1>0, <2>1, <2>2, SteppingMoves DEF CallStages
<1>11. ASSUME NEW d \in Calls, FindByID(d) PROVE CallMoves(c)
  <2>1. pc[d] = "settling"
    BY <1>11 DEF FindByID
  <2>2. CASE Return(d, "illegal")
    BY <1>2, <2>1, <2>2
  <2>3. CASE pc' = [pc EXCEPT ![d] = "marking"] /\ UNCHANGED <<batch, sent>>
    <3>1. Ahead("marking") < Ahead(pc[d])
      BY <2>1 DEF Ahead
    <3> QED
      BY <1>0, <2>3, <3>1, SteppingMoves DEF CallStages
  <2> QED
    BY <1>11, <2>2, <2>3 DEF FindByID
<1>12. ASSUME NEW d \in Calls, CallWriteBack(d) PROVE CallMoves(c)
  BY <1>2, <1>12 DEF CallWriteBack, Settling
<1>13. ASSUME NEW d \in Calls, InsertFails(d) \/ InsertConflict(d) PROVE CallMoves(c)
  BY <1>2, <1>13 DEF InsertFails, InsertConflict
<1>14. ASSUME NEW r \in Relays, RelayWriteBack(r) PROVE CallMoves(c)
  BY <1>3, <1>14 DEF RelayWriteBack
<1>15. ASSUME NEW k \in Keys, Elapse(k) \/ Overrun(k) PROVE CallMoves(c)
  BY <1>1, <1>15 DEF Elapse, Overrun, locals
<1>16. ASSUME NEW k \in Keys, NEW s \in Reports, Callback(k, s) PROVE CallMoves(c)
  BY <1>1, <1>16 DEF Callback, locals
<1>17. CASE UNCHANGED vars
  BY <1>1, <1>17 DEF vars, locals
<1>18. ASSUME NEW d \in Calls, CallStep(d) PROVE CallMoves(c)
  BY <1>0, <1>5, <1>7, <1>9, <1>10, <1>11, <1>12, <1>13, <1>18 DEF CallStep, BatchRun
<1>19. ASSUME NEW r \in Relays, RelayStep(r) PROVE CallMoves(c)
  BY <1>0, <1>5, <1>8, <1>9, <1>10, <1>14, <1>19 DEF RelayStep, BatchRun
<1>20. Environment => CallMoves(c)
  BY <1>6, <1>15, <1>16 DEF Environment
<1> QED
  BY <1>17, <1>18, <1>19, <1>20 DEF Next

(* A call of the dispatch use case is never stuck and never repeats a      *)
(* stage, whatever the relays and the other calls do to its rows: each of  *)
(* its steps leads towards its answer, and once its publications are over  *)
(* it can read its record, write its outcome back or roll that back.       *)
THEOREM CallsGoAheadHolds == Spec => CallsGoAhead
<1> DEFINE A == \A c \in Calls :
                  /\ \/ Ahead(pc'[c]) < Ahead(pc[c])
                     \/ /\ pc'[c] = pc[c] /\ batch'[c] = batch[c]
                        /\ sent[c] \subseteq sent'[c] /\ sent'[c] \subseteq batch[c]
                  /\ pc[c] \in {"settling", "marking"} =>
                        (pc[c] = "settling" /\ FailedSingle(c)) \/ Settling(c)
<1>1. IInv /\ LocalsInOrder /\ [Next]_vars => A
  <2> SUFFICES ASSUME IInv, LocalsInOrder, [Next]_vars, NEW c \in Calls
               PROVE  /\ CallMoves(c)
                      /\ pc[c] \in {"settling", "marking"} =>
                            (pc[c] = "settling" /\ FailedSingle(c)) \/ Settling(c)
    BY DEF CallMoves
  <2>1. pc[c] = "marking" => FailedSingle(c)
    BY DEF LocalsInOrder, Actors
  <2> QED
    BY <2>1, CallSteps DEF Settling
<1> QED
  BY <1>1, LocalsCorrect, PTL DEF Spec, CallsGoAhead
=============================================================================
