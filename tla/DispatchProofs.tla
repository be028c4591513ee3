---------------------------- MODULE DispatchProofs ----------------------------
(***************************************************************************)
(* Proofs about Dispatch, for any keys, calls, relays, versions, tokens    *)
(* and limits.                                                             *)
(***************************************************************************)
EXTENDS Dispatch, TLAPS

USE DEF Calls, Actors

(* What Leave does to the local state keeps its type.                      *)
LEMMA LeaveType ==
    ASSUME TypeOK, NEW a \in Actors, NEW p \in CallStages \cup RelayStages,
           a \in Calls => p \in CallStages,
           a \in Relays => p \in RelayStages,
           Leave(a, p)
    PROVE  /\ pc' \in [Actors -> CallStages \cup RelayStages]
           /\ \A c \in Calls : pc'[c] \in CallStages
           /\ \A r \in Relays : pc'[r] \in RelayStages
           /\ batch' \in [Actors -> SUBSET Keys]
           /\ sent' \in [Actors -> SUBSET Keys]
           /\ acked' \in [Actors -> SUBSET Keys]
           /\ lease' \in [Actors -> Tokens \cup {NoToken}]
BY DEF TypeOK, Leave

LEMMA ReturnType ==
    ASSUME TypeOK, NEW c \in Calls, NEW e \in Errors, Return(c, e)
    PROVE  /\ pc' \in [Actors -> CallStages \cup RelayStages]
           /\ \A d \in Calls : pc'[d] \in CallStages
           /\ \A r \in Relays : pc'[r] \in RelayStages
           /\ batch' \in [Actors -> SUBSET Keys]
           /\ sent' \in [Actors -> SUBSET Keys]
           /\ acked' \in [Actors -> SUBSET Keys]
           /\ lease' \in [Actors -> Tokens \cup {NoToken}]
           /\ reply' \in [Calls -> [success : SUBSET Keys, failed : SUBSET Keys, err : Errors]]
<1>1. Leave(c, "done")
  BY DEF Return
<1>2. c \notin Relays
  BY ActorsAssumption
<1>3. reply' \in [Calls -> [success : SUBSET Keys, failed : SUBSET Keys, err : Errors]]
  <2>1. acked[c] \in SUBSET Keys /\ Failed(c) \in SUBSET Keys
    BY DEF TypeOK, Failed
  <2>2. reply[c].success \in SUBSET Keys /\ reply[c].failed \in SUBSET Keys
    BY DEF TypeOK
  <2>3. Outcome(reply[c].success \cup acked[c], reply[c].failed \cup Failed(c), e)
           \in [success : SUBSET Keys, failed : SUBSET Keys, err : Errors]
    BY <2>1, <2>2 DEF Outcome
  <2> QED
    BY <2>3 DEF Return, TypeOK
<1> QED
  BY <1>1, <1>2, <1>3, LeaveType DEF CallStages

LEMMA GiveUpType ==
    ASSUME TypeOK, NEW a \in Actors, GiveUp(a)
    PROVE  /\ pc' \in [Actors -> CallStages \cup RelayStages]
           /\ \A c \in Calls : pc'[c] \in CallStages
           /\ \A r \in Relays : pc'[r] \in RelayStages
           /\ batch' \in [Actors -> SUBSET Keys]
           /\ sent' \in [Actors -> SUBSET Keys]
           /\ acked' \in [Actors -> SUBSET Keys]
           /\ lease' \in [Actors -> Tokens \cup {NoToken}]
           /\ reply' \in [Calls -> [success : SUBSET Keys, failed : SUBSET Keys, err : Errors]]
<1>1. CASE a \in Relays
  <2>1. Leave(a, "idle") /\ reply' = reply
    BY <1>1 DEF GiveUp
  <2>2. a \notin Calls
    BY <1>1, ActorsAssumption
  <2> QED
    BY <2>1, <2>2, LeaveType DEF RelayStages, TypeOK
<1>2. CASE a \notin Relays
  BY <1>2, ReturnType DEF GiveUp, Errors
<1> QED
  BY <1>1, <1>2

(* The statements on the tables keep their types.                          *)
LEMMA AddType ==
    ASSUME TablesTypeOK, NEW W \in SUBSET Keys, NEW v \in Versions,
           AddRecords(W, v), AddMessages(W)
    PROVE  TablesTypeOK'
BY DEF TablesTypeOK, AddRecords, AddMessages, Statuses, States

LEMMA WriteBackType ==
    ASSUME TablesTypeOK, NEW P \in SUBSET Keys, NEW D \in SUBSET Keys,
           NEW R \in SUBSET Keys, NEW t,
           BatchUpdateStatus(D), UpdateOutbox(P, D, R, t), version' = version
    PROVE  TablesTypeOK'
BY DEF TablesTypeOK, BatchUpdateStatus, UpdateOutbox, Statuses, States

-----------------------------------------------------------------------------
(* Every reachable state has the types the declarations name, and calls    *)
(* and relays only ever are at stages of their own.                        *)
LEMMA TypeInit == Init => TypeOK
BY ActorsAssumption DEF Init, TypeOK, TablesInit, TablesTypeOK, CallStages, RelayStages,
   Outcome, Errors

LEMMA TypeNext == TypeOK /\ [Next]_vars => TypeOK'
<1> SUFFICES ASSUME TypeOK, [Next]_vars PROVE TypeOK'
  OBVIOUS
<1> USE DEF TypeOK
<1>1. ASSUME NEW c \in Calls, InsertFails(c) PROVE TypeOK'
  BY <1>1, ReturnType DEF InsertFails, Errors, tables, records, outbox, TablesTypeOK
<1>2. ASSUME NEW c \in Calls, InsertConflict(c) PROVE TypeOK'
  <2>1. TablesTypeOK'
    BY <1>2, AddType, WorkAssumption DEF InsertConflict
  <2> QED
    BY <1>2, <2>1, ReturnType DEF InsertConflict, Errors
<1>3. ASSUME NEW c \in Calls, Insert(c) PROVE TypeOK'
  <2>1. TablesTypeOK'
    BY <1>3, AddType, WorkAssumption DEF Insert
  <2>2. \A s : {k \in Work[c] : ReplayStatus(state[k]) = s} \in SUBSET Keys
    BY WorkAssumption
  <2> QED
    BY <1>3, <2>1, <2>2, ActorsAssumption
    DEF Insert, Outcome, CallStages, RelayStages, Errors
<1>4. ASSUME NEW a \in Actors, NEW k \in batch[a], Publish(a, k) PROVE TypeOK'
  BY <1>4 DEF Publish, tables, records, outbox, TablesTypeOK
<1>5. ASSUME NEW a \in Actors, NEW ok \in SUBSET sent[a], Confirm(a, ok) PROVE TypeOK'
  BY <1>5 DEF Confirm, tables, records, outbox, TablesTypeOK, CallStages, RelayStages
<1>6. ASSUME NEW c \in Calls, FindByID(c) PROVE TypeOK'
  <2>1. TablesTypeOK' /\ queue' = queue /\ faults' = faults
    BY <1>6 DEF FindByID, tables, records, outbox, TablesTypeOK
  <2>2. CASE Return(c, "illegal")
    BY <2>1, <2>2, ReturnType DEF Errors
  <2>3. CASE pc' = [pc EXCEPT ![c] = "marking"] /\ UNCHANGED <<batch, sent, acked, lease, reply>>
    BY <2>1, <2>3, ActorsAssumption DEF CallStages, RelayStages
  <2> QED
    BY <1>6, <2>2, <2>3 DEF FindByID
<1>7. ASSUME NEW c \in Calls, CallWriteBack(c) PROVE TypeOK'
  <2>1. acked[c] \in SUBSET Keys /\ Failed(c) \in SUBSET Keys
    BY DEF Failed
  <2>2. TablesTypeOK'
    BY <1>7, <2>1, WriteBackType DEF CallWriteBack
  <2> QED
    BY <1>7, <2>2, ReturnType DEF CallWriteBack, Errors
<1>8. ASSUME NEW a \in Actors, RollBack(a) PROVE TypeOK'
  BY <1>8, GiveUpType DEF RollBack, tables, records, outbox, TablesTypeOK
<1>9. ASSUME NEW a \in Actors, FailWriteBack(a) PROVE TypeOK'
  BY <1>9, GiveUpType DEF FailWriteBack, Fault, tables, records, outbox, TablesTypeOK
<1>10. ASSUME NEW r \in Relays, NEW S \in SUBSET Claimable, Claim(r, S) PROVE TypeOK'
  <2> DEFINE fresh == CHOOSE t \in Tokens : t \notin TokensInUse
  <2>1. fresh \in Tokens
    BY <1>10 DEF Claim
  <2>2. S \in SUBSET Keys
    BY DEF Claimable, TablesTypeOK
  <2>3. ClaimPending(S, fresh) /\ records' = records
    BY <1>10 DEF Claim
  <2> HIDE DEF fresh
  <2>4. TablesTypeOK'
    BY <2>1, <2>2, <2>3 DEF ClaimPending, records, TablesTypeOK, States
  <2>5. /\ batch' = [batch EXCEPT ![r] = S]
        /\ lease' = [lease EXCEPT ![r] = fresh]
        /\ pc' = [pc EXCEPT ![r] = "publishing"]
        /\ UNCHANGED <<queue, sent, acked, reply, faults>>
    BY <1>10 DEF Claim, fresh
  <2> QED
    BY <2>1, <2>2, <2>4, <2>5, ActorsAssumption DEF RelayStages, CallStages
<1>11. ASSUME NEW r \in Relays, RelayWriteBack(r) PROVE TypeOK'
  <2> DEFINE retry == {k \in Failed(r) : attempts[k] < MaxAttempts}
             dead == Failed(r) \ retry
  <2>1. acked[r] \in SUBSET Keys /\ dead \in SUBSET Keys /\ retry \in SUBSET Keys
    BY DEF Failed
  <2>2. /\ BatchUpdateStatus(dead) /\ UpdateOutbox(acked[r], dead, retry, lease[r])
        /\ Leave(r, "idle") /\ UNCHANGED <<version, queue, reply, faults>>
    BY <1>11 DEF RelayWriteBack
  <2> HIDE DEF retry, dead
  <2>3. TablesTypeOK'
    BY <2>1, <2>2, WriteBackType
  <2> QED
    BY <2>2, <2>3, LeaveType, ActorsAssumption DEF RelayStages
<1>12. ASSUME NEW k \in Keys, Elapse(k) \/ Overrun(k) PROVE TypeOK'
  BY <1>12 DEF Elapse, Overrun, Fault, Pass, records, locals, TablesTypeOK
<1>13. ASSUME NEW a \in Actors, Crash(a) PROVE TypeOK'
  BY <1>13, LeaveType, ActorsAssumption
  DEF Crash, Fault, tables, records, outbox, TablesTypeOK, CallStages, RelayStages
<1>14. ASSUME NEW k \in Keys, NEW s \in Reports, Callback(k, s) PROVE TypeOK'
  BY <1>14, WorkAssumption DEF Callback, outbox, locals, TablesTypeOK, Statuses
<1>15. CASE UNCHANGED vars
  BY <1>15 DEF vars, tables, records, outbox, locals, TablesTypeOK
<1> QED
  BY <1>1, <1>2, <1>3, <1>4, <1>5, <1>6, <1>7, <1>8, <1>9, <1>10, <1>11, <1>12, <1>13,
     <1>14, <1>15
  DEF Next, CallStep, RelayStep, BatchRun, Environment

THEOREM TypeCorrect == Spec => []TypeOK
BY TypeInit, TypeNext, PTL DEF Spec

-----------------------------------------------------------------------------
(* The parts of the inductive invariant under the actors' own bookkeeping. *)

(* A row that exists never disappears and keeps its version, and messages  *)
(* stay queued: what BatchesInOrder says of the actors that do not move.   *)
RowsKept ==
    /\ \A k \in Keys : state[k] # "NONE" => state'[k] # "NONE" /\ version'[k] = version[k]
    /\ queue \subseteq queue'

LEMMA LeaveBatches ==
    ASSUME TypeOK, BatchesInOrder, RowsKept, NEW a \in Actors, NEW p, Leave(a, p)
    PROVE  BatchesInOrder'
BY DEF TypeOK, BatchesInOrder, RowsKept, Leave, Routable

LEMMA LeaveLeases ==
    ASSUME TypeOK, LeasesInOrder, NEW a \in Actors, NEW p, Leave(a, p),
           \A k \in Keys : token'[k] \in {token[k], NoToken},
           \A k \in Keys : state'[k] = "PROCESSING" =>
                state[k] = "PROCESSING" /\ token'[k] = token[k]
    PROVE  LeasesInOrder'
BY NoTokenAssumption DEF TypeOK, TablesTypeOK, LeasesInOrder, Leave

LEMMA GiveUpLeaves ==
    ASSUME NEW a \in Actors, GiveUp(a)
    PROVE  Leave(a, "idle") \/ Leave(a, "done")
BY DEF GiveUp, Return

(* A write-back settles open rows only.                                    *)
LEMMA UpdateOpen ==
    ASSUME NEW P, NEW D, NEW R, NEW t, UpdateOutbox(P, D, R, t)
    PROVE  \A k \in P \cup D \cup R : state[k] \in {"PENDING", "PROCESSING"}
BY DEF UpdateOutbox, Matches

(* What a write-back that settles P, D and R does to the tables' part.     *)
LEMMA WriteBackTables ==
    ASSUME IInv, NEW P \in SUBSET Keys, NEW D \in SUBSET Keys, NEW R \in SUBSET Keys,
           P \cap D = {}, D \cap R = {}, P \cap R = {}, NEW t,
           BatchUpdateStatus(D), UpdateOutbox(P, D, R, t), version' = version,
           queue' = queue, \A k \in P : Routable(k) => k \in queue
    PROVE  /\ TablesAgree' /\ RowsInOrder' /\ PublishedWasQueued' /\ RowsKept
           /\ \A k \in Keys : token'[k] \in {token[k], NoToken}
           /\ \A k \in Keys : state'[k] = "PROCESSING" =>
                 state[k] = "PROCESSING" /\ token'[k] = token[k]
<1>1. \A k \in P \cup D \cup R : state[k] \in {"PENDING", "PROCESSING"}
  BY UpdateOpen
<1>2. \A k \in Keys :
        /\ k \in P => state'[k] = "PUBLISHED" /\ status'[k] = status[k]
        /\ k \in D => state'[k] = "DEAD" /\ status'[k] =
              IF status[k] = "WAIT" THEN "DISPATCH_FAILED" ELSE status[k]
        /\ k \in R => state'[k] = "PENDING" /\ status'[k] = status[k]
        /\ k \notin P \cup D \cup R => state'[k] = state[k] /\ status'[k] = status[k]
        /\ token'[k] = IF k \in P \cup D \cup R THEN NoToken ELSE token[k]
  BY DEF UpdateOutbox, BatchUpdateStatus
<1>3. TablesAgree'
  BY <1>1, <1>2 DEF IInv, TablesAgree
<1>4. RowsInOrder' /\ PublishedWasQueued' /\ RowsKept
  BY <1>1, <1>2 DEF IInv, RowsInOrder, PublishedWasQueued, RowsKept, Routable
<1> QED
  BY <1>1, <1>2, <1>3, <1>4

-----------------------------------------------------------------------------
LEMMA InvInit == Init => IInv
<1> SUFFICES ASSUME Init PROVE IInv
  OBVIOUS
<1>1. TypeOK
  BY TypeInit
<1> QED
  BY <1>1 DEF Init, TablesInit, IInv, TablesAgree, RowsInOrder, BatchesInOrder,
              LeasesInOrder, PublishedWasQueued

(* What inserting rows for the keys W keeps.                               *)
LEMMA AddTables ==
    ASSUME IInv, NEW W \in SUBSET Keys, NEW v \in Versions,
           AddRecords(W, v), AddMessages(W), queue' = queue
    PROVE  /\ TablesAgree' /\ RowsInOrder' /\ PublishedWasQueued' /\ RowsKept
           /\ token' = token
           /\ \A k \in Keys : state'[k] = "PROCESSING" => state[k] = "PROCESSING"
           /\ \A k \in W : state'[k] # "NONE"
BY DEF IInv, TypeOK, TablesTypeOK, TablesAgree, RowsInOrder, PublishedWasQueued, RowsKept,
       AddRecords, AddMessages, Routable

(* An actor that leaves, with the tables as they are, disturbs nothing.    *)
LEMMA LeaveInv ==
    ASSUME IInv, NEW a \in Actors, NEW p, Leave(a, p), UNCHANGED <<tables, queue>>
    PROVE  /\ TablesAgree' /\ RowsInOrder' /\ PublishedWasQueued'
           /\ BatchesInOrder' /\ LeasesInOrder'
<1>1. TablesAgree' /\ RowsInOrder' /\ PublishedWasQueued'
  BY DEF IInv, TablesAgree, RowsInOrder, PublishedWasQueued, Routable, tables, records, outbox
<1>2. RowsKept
  BY DEF RowsKept, tables, records, outbox
<1>3. BatchesInOrder'
  BY <1>2, LeaveBatches DEF IInv
<1>4. LeasesInOrder'
  BY LeaveLeases DEF IInv, tables, outbox
<1> QED
  BY <1>1, <1>3, <1>4

LEMMA InvNext == IInv /\ [Next]_vars => IInv'
<1> SUFFICES ASSUME IInv, [Next]_vars PROVE IInv'
  OBVIOUS
<1>t. TypeOK'
  BY TypeNext DEF IInv
<1> DEFINE Rest == /\ TablesAgree /\ RowsInOrder /\ PublishedWasQueued
                   /\ BatchesInOrder /\ LeasesInOrder
<1> SUFFICES Rest'
  BY <1>t DEF IInv
<1>1. ASSUME NEW c \in Calls, InsertFails(c) PROVE Rest'
  BY <1>1, LeaveInv DEF InsertFails, Return
<1>2. ASSUME NEW c \in Calls, InsertConflict(c) PROVE Rest'
  <2>1. /\ AddRecords(Work[c], Wants[c]) /\ AddMessages(Work[c]) /\ queue' = queue
        /\ Leave(c, "done")
    BY <1>2 DEF InsertConflict, Return
  <2>2. Work[c] \in SUBSET Keys /\ Wants[c] \in Versions
    BY WorkAssumption
  <2>3. BatchesInOrder' /\ LeasesInOrder'
    BY <2>1, <2>2, AddTables, LeaveBatches, LeaveLeases DEF IInv
  <2> QED
    BY <2>1, <2>2, <2>3, AddTables
<1>3. ASSUME NEW c \in Calls, Insert(c) PROVE Rest'
  <2>1. /\ AddRecords(Work[c], Wants[c]) /\ AddMessages(Work[c])
        /\ UNCHANGED <<queue, sent, acked, lease>>
        /\ batch' = [batch EXCEPT ![c] = {k \in Work[c] : ReplayStatus(state[k]) = "open"}]
        /\ \E p \in {"publishing", "done", "settling"} : pc' = [pc EXCEPT ![c] = p]
    BY <1>3 DEF Insert
  <2>2. Work[c] \in SUBSET Keys /\ Wants[c] \in Versions
    BY WorkAssumption
  <2>3. /\ TablesAgree' /\ RowsInOrder' /\ PublishedWasQueued' /\ RowsKept /\ token' = token
        /\ \A k \in Keys : state'[k] = "PROCESSING" => state[k] = "PROCESSING"
        /\ \A k \in Work[c] : state'[k] # "NONE"
    BY <2>1, <2>2, AddTables
  <2>4. sent[c] = {} /\ acked[c] = {}
    BY <1>3 DEF IInv, BatchesInOrder, Insert
  <2>5. BatchesInOrder'
    BY <2>1, <2>3, <2>4 DEF IInv, TypeOK, BatchesInOrder, RowsKept, Routable
  <2>6. LeasesInOrder'
    BY <2>1, <2>3, ActorsAssumption DEF IInv, TypeOK, LeasesInOrder
  <2> QED
    BY <2>3, <2>5, <2>6
<1>4. ASSUME NEW a \in Actors, NEW k \in batch[a], Publish(a, k) PROVE Rest'
  <2>1. /\ sent' = [sent EXCEPT ![a] = @ \cup {k}]
        /\ queue' = IF Routable(k) THEN queue \cup {k} ELSE queue
        /\ UNCHANGED <<status, version, state, token, pc, batch, acked, lease>>
    BY <1>4 DEF Publish, tables, records, outbox
  <2>2. BatchesInOrder'
    BY <2>1 DEF IInv, TypeOK, BatchesInOrder, Routable
  <2> QED
    BY <2>1, <2>2 DEF IInv, TablesAgree, RowsInOrder, PublishedWasQueued, LeasesInOrder, Routable
<1>5. ASSUME NEW a \in Actors, NEW ok \in SUBSET sent[a], Confirm(a, ok) PROVE Rest'
  <2>1. /\ acked' = [acked EXCEPT ![a] = ok] /\ pc' = [pc EXCEPT ![a] = "settling"]
        /\ UNCHANGED <<status, version, state, token, queue, batch, sent, lease>>
    BY <1>5 DEF Confirm, tables, records, outbox
  <2>2. BatchesInOrder'
    BY <2>1 DEF IInv, TypeOK, BatchesInOrder, Routable
  <2> QED
    BY <2>1, <2>2 DEF IInv, TablesAgree, RowsInOrder, PublishedWasQueued, LeasesInOrder, Routable
<1>6. ASSUME NEW c \in Calls, FindByID(c) PROVE Rest'
  <2>1. CASE Return(c, "illegal")
    BY <1>6, <2>1, LeaveInv DEF FindByID, Return
  <2>2. CASE pc' = [pc EXCEPT ![c] = "marking"] /\ UNCHANGED <<batch, sent, acked, lease>>
    BY <1>6, <2>2 DEF FindByID, tables, records, outbox, IInv, TypeOK, TablesAgree,
       RowsInOrder, PublishedWasQueued, BatchesInOrder, LeasesInOrder, Routable
  <2> QED
    BY <1>6, <2>1, <2>2 DEF FindByID
<1>7. ASSUME NEW c \in Calls, CallWriteBack(c) PROVE Rest'
  <2>1. /\ BatchUpdateStatus(Failed(c)) /\ UpdateOutbox(acked[c], Failed(c), {}, NoToken)
        /\ Leave(c, "done") /\ UNCHANGED <<version, queue>>
    BY <1>7 DEF CallWriteBack, Return
  <2>2. /\ acked[c] \in SUBSET Keys /\ Failed(c) \in SUBSET Keys /\ {} \in SUBSET Keys
        /\ acked[c] \cap Failed(c) = {}
        /\ \A k \in acked[c] : Routable(k) => k \in queue
    BY DEF IInv, TypeOK, BatchesInOrder, Failed
  <2>3. /\ TablesAgree' /\ RowsInOrder' /\ PublishedWasQueued' /\ RowsKept
        /\ \A k \in Keys : token'[k] \in {token[k], NoToken}
        /\ \A k \in Keys : state'[k] = "PROCESSING" =>
              state[k] = "PROCESSING" /\ token'[k] = token[k]
    BY <2>1, <2>2, WriteBackTables
  <2> QED
    BY <2>1, <2>3, LeaveBatches, LeaveLeases DEF IInv
<1>8. ASSUME NEW a \in Actors, RollBack(a) PROVE Rest'
  BY <1>8, LeaveInv, GiveUpLeaves DEF RollBack
<1>9. ASSUME NEW a \in Actors, FailWriteBack(a) PROVE Rest'
  BY <1>9, LeaveInv, GiveUpLeaves DEF FailWriteBack
<1>10. ASSUME NEW r \in Relays, NEW S \in SUBSET Claimable, Claim(r, S) PROVE Rest'
  <2> DEFINE fresh == CHOOSE t \in Tokens : t \notin TokensInUse
  <2>1. fresh \in Tokens /\ fresh \notin TokensInUse
    BY <1>10 DEF Claim
  <2>2. /\ ClaimPending(S, fresh)
        /\ batch' = [batch EXCEPT ![r] = S]
        /\ lease' = [lease EXCEPT ![r] = fresh]
        /\ pc' = [pc EXCEPT ![r] = "publishing"]
        /\ UNCHANGED <<status, version, queue, sent, acked>>
    BY <1>10 DEF Claim, records
  <2> HIDE DEF fresh
  <2>3. /\ fresh # NoToken
        /\ \A k \in Keys : token[k] # fresh
        /\ \A q \in Relays : lease[q] # fresh
    BY <2>1, NoTokenAssumption DEF TokensInUse
  <2>4. /\ S \subseteq Keys
        /\ \A k \in S : state[k] \in {"PENDING", "PROCESSING"}
        /\ \A k \in Keys : state'[k] = IF k \in S THEN "PROCESSING" ELSE state[k]
        /\ \A k \in Keys : token'[k] = IF k \in S THEN fresh ELSE token[k]
    BY <2>2 DEF ClaimPending, Claimable, IInv, TypeOK, TablesTypeOK
  <2>5. TablesAgree' /\ RowsInOrder' /\ PublishedWasQueued'
    BY <2>2, <2>4 DEF IInv, TablesAgree, RowsInOrder, PublishedWasQueued, Routable
  <2>6. BatchesInOrder'
    <3>1. sent[r] = {} /\ acked[r] = {}
      BY <1>10 DEF IInv, BatchesInOrder, Claim
    <3> QED
      BY <2>2, <2>4, <3>1 DEF IInv, TypeOK, BatchesInOrder, Routable
  <2>7. LeasesInOrder'
    BY <2>2, <2>3, <2>4, ActorsAssumption DEF IInv, TypeOK, LeasesInOrder
  <2> QED
    BY <2>5, <2>6, <2>7
<1>11. ASSUME NEW r \in Relays, RelayWriteBack(r) PROVE Rest'
  <2> DEFINE retry == {k \in Failed(r) : attempts[k] < MaxAttempts}
             dead == Failed(r) \ retry
  <2>1. /\ BatchUpdateStatus(dead) /\ UpdateOutbox(acked[r], dead, retry, lease[r])
        /\ Leave(r, "idle") /\ UNCHANGED <<version, queue>>
    BY <1>11 DEF RelayWriteBack
  <2>2. /\ acked[r] \in SUBSET Keys /\ dead \in SUBSET Keys /\ retry \in SUBSET Keys
        /\ acked[r] \cap dead = {} /\ dead \cap retry = {} /\ acked[r] \cap retry = {}
        /\ \A k \in acked[r] : Routable(k) => k \in queue
    BY DEF IInv, TypeOK, BatchesInOrder, Failed
  <2> HIDE DEF retry, dead
  <2>3. /\ TablesAgree' /\ RowsInOrder' /\ PublishedWasQueued' /\ RowsKept
        /\ \A k \in Keys : token'[k] \in {token[k], NoToken}
        /\ \A k \in Keys : state'[k] = "PROCESSING" =>
              state[k] = "PROCESSING" /\ token'[k] = token[k]
    BY <2>1, <2>2, WriteBackTables
  <2> QED
    BY <2>1, <2>3, LeaveBatches, LeaveLeases DEF IInv
<1>12. ASSUME NEW k \in Keys, Elapse(k) \/ Overrun(k) PROVE Rest'
  BY <1>12 DEF Elapse, Overrun, Pass, records, locals, IInv, TablesAgree, RowsInOrder,
     PublishedWasQueued, BatchesInOrder, LeasesInOrder, Routable
<1>13. ASSUME NEW a \in Actors, Crash(a) PROVE Rest'
  BY <1>13, LeaveInv DEF Crash
<1>14. ASSUME NEW k \in Keys, NEW s \in Reports, Callback(k, s) PROVE Rest'
  <2>1. /\ status' = [status EXCEPT ![k] = s] /\ CanTransitTo(status[k], s)
        /\ UNCHANGED <<version, state, token, queue, pc, batch, sent, acked, lease>>
    BY <1>14 DEF Callback, outbox, locals
  <2>2. s \in {"RUNNING", "SUCCESS", "FAILED"}
    BY WorkAssumption
  <2>3. TablesAgree'
    BY <2>1, <2>2 DEF IInv, TypeOK, TablesTypeOK, TablesAgree, CanTransitTo
  <2> QED
    BY <2>1, <2>3 DEF IInv, RowsInOrder, PublishedWasQueued, BatchesInOrder, LeasesInOrder, Routable
<1>15. CASE UNCHANGED vars
  BY <1>15 DEF vars, tables, records, outbox, locals, IInv, TablesAgree, RowsInOrder,
     PublishedWasQueued, BatchesInOrder, LeasesInOrder, Routable
<1> QED
  BY <1>1, <1>2, <1>3, <1>4, <1>5, <1>6, <1>7, <1>8, <1>9, <1>10, <1>11, <1>12, <1>13,
     <1>14, <1>15
  DEF Next, CallStep, RelayStep, BatchRun, Environment

(* The inductive invariant holds in every reachable state.                 *)
THEOREM InvCorrect == Spec => []IInv
BY InvInit, InvNext, PTL DEF Spec

(* A message settled as PUBLISHED was queued, if its version has a queue.  *)
THEOREM PublishedWasQueuedHolds == Spec => []PublishedWasQueued
BY InvCorrect, PTL DEF IInv

(* Records and messages agree on what was given up.                        *)
THEOREM TablesAgreeHolds == Spec => []TablesAgree
BY InvCorrect, PTL DEF IInv

(* Relays that publish the same row cannot both settle it.                 *)
THEOREM LeaseExclusiveHolds == Spec => []LeaseExclusive
<1>1. IInv => LeaseExclusive
  BY DEF IInv, LeasesInOrder, LeaseExclusive
<1> QED
  BY <1>1, InvCorrect, PTL

-----------------------------------------------------------------------------
(* Action properties.  Only three kinds of steps touch the state column:   *)
(* an insert, a claim and a write-back.                                    *)
LEMMA StateSteps ==
    ASSUME IInv, [Next]_vars, NEW k \in Keys, state'[k] # state[k]
    PROVE  \/ state[k] = "NONE" /\ state'[k] = "PENDING"
           \/ state[k] \in {"PENDING", "PROCESSING"} /\ state'[k] = "PROCESSING"
           \/ state[k] = "PENDING" /\ \E c \in Calls : CallWriteBack(c)
           \/ \E r \in Relays : /\ RelayWriteBack(r)
                                /\ k \in batch[r]
                                /\ Matches(k, lease[r])
<1>1. CASE \E c \in Calls : InsertConflict(c) \/ Insert(c)
  BY <1>1 DEF InsertConflict, Insert, AddMessages
<1>2. CASE \E r \in Relays, S \in SUBSET Claimable : Claim(r, S)
  <2>1. PICK S \in SUBSET Claimable :
           state' = [q \in Keys |-> IF q \in S THEN "PROCESSING" ELSE state[q]]
    BY <1>2 DEF Claim, ClaimPending
  <2> QED
    BY <2>1 DEF Claimable
<1>3. CASE \E c \in Calls : CallWriteBack(c)
  <2>1. PICK c \in Calls : CallWriteBack(c)
    BY <1>3
  <2>2. UpdateOutbox(acked[c], Failed(c), {}, NoToken)
    BY <2>1 DEF CallWriteBack
  <2>3. k \in acked[c] \cup Failed(c)
    BY <2>2 DEF UpdateOutbox
  <2>4. state[k] = "PENDING"
    BY <2>2, <2>3 DEF UpdateOutbox, Matches
  <2> QED
    BY <2>1, <2>4
<1>4. CASE \E r \in Relays : RelayWriteBack(r)
  <2>1. PICK r \in Relays : RelayWriteBack(r)
    BY <1>4
  <2> DEFINE retry == {q \in Failed(r) : attempts[q] < MaxAttempts}
             dead == Failed(r) \ retry
  <2>2. UpdateOutbox(acked[r], dead, retry, lease[r])
    BY <2>1 DEF RelayWriteBack
  <2>3. k \in acked[r] \cup dead \cup retry /\ Matches(k, lease[r])
    BY <2>2 DEF UpdateOutbox
  <2>4. k \in batch[r]
    BY <2>3 DEF Failed, IInv, BatchesInOrder
  <2> QED
    BY <2>1, <2>3, <2>4
<1>5. CASE state' = state
  BY <1>5
<1>6. \/ \E c \in Calls : InsertConflict(c) \/ Insert(c)
      \/ \E r \in Relays, S \in SUBSET Claimable : Claim(r, S)
      \/ \E c \in Calls : CallWriteBack(c)
      \/ \E r \in Relays : RelayWriteBack(r)
      \/ state' = state
  BY DEF Next, CallStep, RelayStep, BatchRun, Environment, InsertFails, Publish, Confirm,
     FindByID, RollBack, FailWriteBack, Elapse, Overrun, Pass, Crash, Callback,
     vars, tables, outbox
<1> QED
  BY <1>1, <1>2, <1>3, <1>4, <1>5, <1>6

(* PUBLISHED and DEAD are final, whoever writes last.                      *)
THEOREM SettledForGoodHolds == Spec => SettledForGood
<1>1. IInv /\ [Next]_vars =>
        (\A k \in Keys : state[k] \in {"PUBLISHED", "DEAD"} => state'[k] = state[k])
  <2> SUFFICES ASSUME IInv, [Next]_vars, NEW k \in Keys, state[k] \in {"PUBLISHED", "DEAD"},
                      state'[k] # state[k]
               PROVE  FALSE
    OBVIOUS
  <2>1. PICK r \in Relays : Matches(k, lease[r])
    BY StateSteps
  <2> QED
    BY <2>1 DEF Matches
<1> QED
  BY <1>1, InvCorrect, PTL DEF Spec, SettledForGood

(* Only the relay that holds the lease of a row settles it.                *)
THEOREM OnlyHolderSettlesHolds == Spec => OnlyHolderSettles
<1>1. IInv /\ [Next]_vars =>
        (\A k \in Keys : state[k] = "PROCESSING" /\ state'[k] # "PROCESSING" =>
          \E r \in Relays : /\ lease[r] = token[k]
                            /\ k \in batch[r]
                            /\ pc[r] = "settling" /\ pc'[r] = "idle")
  <2> SUFFICES ASSUME IInv, [Next]_vars, NEW k \in Keys,
                      state[k] = "PROCESSING", state'[k] # "PROCESSING"
               PROVE  \E r \in Relays : /\ lease[r] = token[k]
                                        /\ k \in batch[r]
                                        /\ pc[r] = "settling" /\ pc'[r] = "idle"
    OBVIOUS
  <2>1. PICK r \in Relays : RelayWriteBack(r) /\ k \in batch[r] /\ Matches(k, lease[r])
    BY StateSteps
  <2>2. lease[r] = token[k]
    BY <2>1 DEF Matches
  <2>3. pc[r] = "settling"
    BY <2>1, ActorsAssumption DEF RelayWriteBack, Settling, FailedSingle
  <2>4. pc'[r] = "idle"
    BY <2>1 DEF RelayWriteBack, Leave, IInv, TypeOK
  <2> QED
    BY <2>1, <2>2, <2>3, <2>4
<1> QED
  BY <1>1, InvCorrect, PTL DEF Spec, OnlyHolderSettles

(* A record never goes back: late write-backs leave what executors report. *)
THEOREM StatusOnlyAdvancesHolds == Spec => StatusOnlyAdvances
<1>1. IInv /\ [Next]_vars =>
        (\A k \in Keys : status'[k] # status[k] =>
           status[k] = "NONE" \/ CanTransitTo(status[k], status'[k]))
  <2> SUFFICES ASSUME IInv, [Next]_vars, NEW k \in Keys, status'[k] # status[k]
               PROVE  status[k] = "NONE" \/ CanTransitTo(status[k], status'[k])
    OBVIOUS
  <2>1. ASSUME NEW D, BatchUpdateStatus(D)
        PROVE  status[k] = "NONE" \/ CanTransitTo(status[k], status'[k])
    BY <2>1 DEF BatchUpdateStatus, CanTransitTo
  <2>2. ASSUME NEW W, NEW v, AddRecords(W, v) PROVE status[k] = "NONE"
    BY <2>2 DEF AddRecords
  <2>3. ASSUME NEW q \in Keys, NEW s, Callback(q, s)
        PROVE  CanTransitTo(status[k], status'[k])
    BY <2>3 DEF Callback, IInv, TypeOK, TablesTypeOK
  <2>4. \/ \E D : BatchUpdateStatus(D)
        \/ \E W, v : AddRecords(W, v)
        \/ \E q \in Keys, s \in Reports : Callback(q, s)
        \/ status' = status
    BY DEF Next, CallStep, RelayStep, BatchRun, Environment, InsertFails, InsertConflict,
       Insert, Publish, Confirm, FindByID, CallWriteBack, RelayWriteBack, RollBack,
       FailWriteBack, Claim, Elapse, Overrun, Crash, vars, tables, records
  <2> QED
    BY <2>1, <2>2, <2>3, <2>4
<1> QED
  BY <1>1, InvCorrect, PTL DEF Spec, StatusOnlyAdvances

-----------------------------------------------------------------------------
(* The refinement: every step is one of Delivery's or a stutter.           *)

LEMMA PromiseInit == Init => Promise!Init
<1> SUFFICES ASSUME Init PROVE Promise!Init
  OBVIOUS
<1>1. \A k \in Keys : ~Routable(k)
  BY NoVersionAssumption, WorkAssumption DEF Init, TablesInit, Routable
<1> QED
  BY <1>1 DEF Init, TablesInit, Promise!Init, Phase

(* Inserting rows accepts the new ones among them.                         *)
LEMMA AddAccepts ==
    ASSUME IInv, NEW W \in SUBSET Keys, NEW v \in Versions,
           AddRecords(W, v), AddMessages(W), queue' = queue
    PROVE  Promise!Next
<1> DEFINE K == {k \in W : state[k] = "NONE"}
           R == {k \in Keys : v \in Bound}
<1>1. \A k \in K : Phase(state[k]) = "absent"
  BY DEF Phase
<1>2. [k \in Keys |-> Phase(state[k])]' =
        [k \in Keys |-> IF k \in K THEN "owed" ELSE [q \in Keys |-> Phase(state[q])][k]]
  BY DEF AddMessages, Phase
<1>3. status' = [k \in Keys |-> IF k \in K THEN "WAIT" ELSE status[k]]
  BY DEF IInv, TypeOK, TablesTypeOK, TablesAgree, AddRecords
<1>4. \A k \in Keys : Routable(k)' <=> Routable(k) \/ k \in R \cap K
  BY NoVersionAssumption, WorkAssumption
  DEF IInv, TypeOK, TablesTypeOK, TablesAgree, RowsInOrder, AddRecords, Routable
<1>5. {k \in Keys : Routable(k)}' = {k \in Keys : Routable(k)} \cup (R \cap K)
  BY <1>4
<1>6. K \in SUBSET Keys /\ R \in SUBSET Keys
  OBVIOUS
<1>7. Promise!Accept(K, R)
  BY <1>1, <1>2, <1>3, <1>5, <1>6 DEF Promise!Accept
<1> QED
  BY <1>6, <1>7 DEF Promise!Next

(* A write-back settles P and D; rows put back for a retry stay owed.      *)
LEMMA WriteBackSettles ==
    ASSUME IInv, NEW P \in SUBSET Keys, NEW D \in SUBSET Keys, NEW R \in SUBSET Keys,
           P \cap D = {}, D \cap R = {}, P \cap R = {}, NEW t,
           BatchUpdateStatus(D), UpdateOutbox(P, D, R, t), version' = version,
           queue' = queue, \A k \in P : Routable(k) => k \in queue
    PROVE  Promise!Next
<1>1. \A k \in P \cup D \cup R : state[k] \in {"PENDING", "PROCESSING"}
  BY UpdateOpen
<1>2. \A k \in P \cup D : Phase(state[k]) = "owed"
  BY <1>1 DEF Phase
<1>3. [k \in Keys |-> Phase(state[k])]' =
        [k \in Keys |-> IF k \in P THEN "published" ELSE IF k \in D THEN "dead"
                        ELSE [q \in Keys |-> Phase(state[q])][k]]
  <2>1. \A k \in Keys : Phase(state'[k]) =
          IF k \in P THEN "published" ELSE IF k \in D THEN "dead" ELSE Phase(state[k])
    <3>1. \A k \in Keys :
            /\ k \in P => state'[k] = "PUBLISHED"
            /\ k \in D => state'[k] = "DEAD"
            /\ k \in R => state'[k] = "PENDING"
            /\ k \notin P \cup D \cup R => state'[k] = state[k]
      BY DEF UpdateOutbox
    <3> QED
      BY <3>1, <1>1 DEF Phase
  <2> QED
    BY <2>1
<1>4. status' = [k \in Keys |-> IF k \in D /\ status[k] = "WAIT"
                                THEN "DISPATCH_FAILED" ELSE status[k]]
  BY DEF BatchUpdateStatus
<1>5. {k \in Keys : Routable(k)}' = {k \in Keys : Routable(k)}
  BY DEF Routable
<1>6. Promise!Settle(P, D)
  BY <1>2, <1>3, <1>4, <1>5 DEF Promise!Settle
<1> QED
  BY <1>6 DEF Promise!Next

LEMMA PromiseNext == IInv /\ [Next]_vars => [Promise!Next]_(Promise!vars)
<1> SUFFICES ASSUME IInv, [Next]_vars PROVE Promise!Next \/ UNCHANGED Promise!vars
  OBVIOUS
<1>1. ASSUME NEW c \in Calls, InsertConflict(c) \/ Insert(c) PROVE Promise!Next
  BY <1>1, AddAccepts, WorkAssumption DEF InsertConflict, Insert
<1>2. ASSUME NEW a \in Actors, NEW k \in batch[a], Publish(a, k)
      PROVE  Promise!Next \/ UNCHANGED Promise!vars
  <2>1. UNCHANGED <<status, version, state>> /\ k \in Keys
    BY <1>2 DEF Publish, tables, records, outbox, IInv, TypeOK
  <2>2. UNCHANGED <<[q \in Keys |-> Phase(state[q])], {q \in Keys : Routable(q)}>>
    BY <2>1 DEF Routable, Phase
  <2>3. CASE Routable(k)
    <3>1. Phase(state[k]) # "absent"
      BY <1>2 DEF IInv, BatchesInOrder, Phase
    <3>2. Promise!Send(k)
      BY <1>2, <2>1, <2>2, <2>3, <3>1 DEF Publish, Promise!Send
    <3> QED
      BY <2>1, <3>2 DEF Promise!Next
  <2>4. CASE ~Routable(k)
    BY <1>2, <2>1, <2>2, <2>4 DEF Publish, Promise!vars
  <2> QED
    BY <2>3, <2>4
<1>3. ASSUME NEW c \in Calls, CallWriteBack(c) PROVE Promise!Next
  <2>1. /\ acked[c] \in SUBSET Keys /\ Failed(c) \in SUBSET Keys /\ {} \in SUBSET Keys
        /\ acked[c] \cap Failed(c) = {}
        /\ \A k \in acked[c] : Routable(k) => k \in queue
    BY DEF IInv, TypeOK, BatchesInOrder, Failed
  <2> QED
    BY <1>3, <2>1, WriteBackSettles DEF CallWriteBack
<1>4. ASSUME NEW r \in Relays, RelayWriteBack(r) PROVE Promise!Next
  <2> DEFINE retry == {k \in Failed(r) : attempts[k] < MaxAttempts}
             dead == Failed(r) \ retry
  <2>1. /\ BatchUpdateStatus(dead) /\ UpdateOutbox(acked[r], dead, retry, lease[r])
        /\ UNCHANGED <<version, queue>>
    BY <1>4 DEF RelayWriteBack
  <2>2. /\ acked[r] \in SUBSET Keys /\ dead \in SUBSET Keys /\ retry \in SUBSET Keys
        /\ acked[r] \cap dead = {} /\ dead \cap retry = {} /\ acked[r] \cap retry = {}
        /\ \A k \in acked[r] : Routable(k) => k \in queue
    BY DEF IInv, TypeOK, BatchesInOrder, Failed
  <2> HIDE DEF retry, dead
  <2> QED
    BY <2>1, <2>2, WriteBackSettles
<1>5. ASSUME NEW r \in Relays, NEW S \in SUBSET Claimable, Claim(r, S)
      PROVE  UNCHANGED Promise!vars
  <2>1. UNCHANGED <<status, version, queue>>
    BY <1>5 DEF Claim, records
  <2>2. state' = [k \in Keys |-> IF k \in S THEN "PROCESSING" ELSE state[k]]
    BY <1>5 DEF Claim, ClaimPending
  <2>3. \A k \in Keys : Phase(state'[k]) = Phase(state[k])
    BY <2>2 DEF Claimable, Phase
  <2>4. {k \in Keys : Routable(k)}' = {k \in Keys : Routable(k)}
    BY <2>1 DEF Routable
  <2> QED
    BY <2>1, <2>3, <2>4 DEF Promise!vars
<1>6. ASSUME NEW k \in Keys, NEW s \in Reports, Callback(k, s) PROVE Promise!Next
  <2>1. /\ k \in queue /\ CanTransitTo(status[k], s) /\ status' = [status EXCEPT ![k] = s]
        /\ UNCHANGED <<version, state, queue>>
    BY <1>6 DEF Callback, outbox
  <2>2. UNCHANGED <<[q \in Keys |-> Phase(state[q])], {q \in Keys : Routable(q)}>>
    BY <2>1 DEF Routable, Phase
  <2>3. Promise!Report(k, s)
    BY <2>1, <2>2 DEF Promise!Report, CanTransitTo
  <2> QED
    BY <2>3 DEF Promise!Next
<1>7. CASE UNCHANGED <<status, version, state, queue>>
  <2>1. UNCHANGED <<[q \in Keys |-> Phase(state[q])], {q \in Keys : Routable(q)}>>
    BY <1>7 DEF Routable, Phase
  <2> QED
    BY <1>7, <2>1 DEF Promise!vars
<1>8. \/ \E c \in Calls : InsertConflict(c) \/ Insert(c) \/ CallWriteBack(c)
      \/ \E a \in Actors : \E k \in batch[a] : Publish(a, k)
      \/ \E r \in Relays : RelayWriteBack(r)
      \/ \E r \in Relays, S \in SUBSET Claimable : Claim(r, S)
      \/ \E k \in Keys, s \in Reports : Callback(k, s)
      \/ UNCHANGED <<status, version, state, queue>>
  BY DEF Next, CallStep, RelayStep, BatchRun, Environment, InsertFails, Confirm,
     FindByID, RollBack, FailWriteBack, Elapse, Overrun, Pass, Crash,
     vars, tables, records, outbox
<1> QED
  BY <1>1, <1>2, <1>3, <1>4, <1>5, <1>6, <1>7, <1>8

(* The engine keeps the promise of Delivery.                               *)
THEOREM KeepsPromiseHolds == Spec => KeepsPromise
BY InvCorrect, PromiseInit, PromiseNext, PTL DEF Spec, KeepsPromise, Promise!Spec

-----------------------------------------------------------------------------
(* What calls answer.                                                      *)

(* Rows stay, keep their version and stay dead: what the answers given so  *)
(* far rest on.                                                            *)
LEMMA RowsStay ==
    ASSUME IInv, [Next]_vars, NEW k \in Keys, state[k] # "NONE"
    PROVE  /\ state'[k] # "NONE" /\ version'[k] = version[k]
           /\ state[k] = "DEAD" => state'[k] = "DEAD"
<1>1. state'[k] # "NONE" /\ (state[k] = "DEAD" => state'[k] = "DEAD")
  <2>1. CASE state'[k] = state[k]
    BY <2>1
  <2>2. CASE state'[k] # state[k]
    <3>1. state[k] # "DEAD"
      BY <2>2, StateSteps DEF Matches
    <3>2. RowsInOrder'
      BY InvNext DEF IInv
    <3>3. state'[k] # "NONE"
      <4>1. ASSUME NEW P \in SUBSET Keys, NEW D \in SUBSET Keys, NEW R \in SUBSET Keys, NEW t,
                   UpdateOutbox(P, D, R, t)
            PROVE  state'[k] # "NONE"
        BY <4>1, UpdateOpen DEF UpdateOutbox
      <4>2. ASSUME NEW c \in Calls, CallWriteBack(c) PROVE state'[k] # "NONE"
        <5>1. acked[c] \in SUBSET Keys /\ Failed(c) \in SUBSET Keys /\ {} \in SUBSET Keys
          BY DEF IInv, TypeOK, Failed
        <5> QED
          BY <4>1, <4>2, <5>1 DEF CallWriteBack
      <4>3. ASSUME NEW r \in Relays, RelayWriteBack(r) PROVE state'[k] # "NONE"
        <5> DEFINE retry == {q \in Failed(r) : attempts[q] < MaxAttempts}
                   dead == Failed(r) \ retry
        <5>1. acked[r] \in SUBSET Keys /\ dead \in SUBSET Keys /\ retry \in SUBSET Keys
          BY DEF IInv, TypeOK, Failed
        <5>2. UpdateOutbox(acked[r], dead, retry, lease[r])
          BY <4>3 DEF RelayWriteBack
        <5> QED
          BY <4>1, <5>1, <5>2
      <4> QED
        BY <2>2, <4>2, <4>3, StateSteps
    <3> QED
      BY <3>1, <3>3
  <2> QED
    BY <2>1, <2>2
<1>2. version'[k] = version[k]
  <2>1. ASSUME NEW W, NEW v, AddRecords(W, v) PROVE version'[k] = version[k]
    BY <2>1 DEF AddRecords, IInv, TablesAgree, TypeOK, TablesTypeOK
  <2>2. (\E W, v : AddRecords(W, v)) \/ version' = version
    BY DEF Next, CallStep, RelayStep, BatchRun, Environment, InsertFails, InsertConflict,
       Insert, Publish, Confirm, FindByID, CallWriteBack, RelayWriteBack, RollBack,
       FailWriteBack, Claim, Elapse, Overrun, Crash, Callback, vars, tables, records
  <2> QED
    BY <2>1, <2>2
<1> QED
  BY <1>1, <1>2

LEMMA RepliesInit == Init => RepliesInOrder
BY ActorsAssumption DEF Init, RepliesInOrder, ReplyInOrder, UnderWay

(* A call that stands still, or goes on with the same batch and reply.     *)
LEMMA StandStill ==
    ASSUME IInv, [Next]_vars, NEW c \in Calls, ReplyInOrder(c),
           batch'[c] = batch[c], reply'[c] = reply[c],
           \/ pc'[c] = pc[c]
           \/ UnderWay(c) /\ UnderWay(c)'
    PROVE  ReplyInOrder(c)'
<1>1. \A k \in Work[c] : k \in Keys
  BY WorkAssumption
<1>2. \A k \in Keys : state[k] # "NONE" =>
        /\ state'[k] # "NONE" /\ version'[k] = version[k]
        /\ state[k] = "DEAD" => state'[k] = "DEAD"
  BY RowsStay
<1>3. reply[c].failed \subseteq Keys
  BY DEF IInv, TypeOK
<1>4. SUFFICES ASSUME (UnderWay(c) \/ (pc[c] = "done" /\ reply[c].err = "none"))'
               PROVE  ReplyInOrder(c)'
  BY DEF ReplyInOrder
<1>5. UnderWay(c) \/ (pc[c] = "done" /\ reply[c].err = "none")
  BY <1>4 DEF UnderWay
<1>6. /\ reply[c].err = "none"
      /\ reply[c].success \cup reply[c].failed \cup batch[c] = Work[c]
      /\ reply[c].success \cap reply[c].failed = {}
      /\ (reply[c].success \cup reply[c].failed) \cap batch[c] = {}
      /\ pc[c] = "done" => batch[c] = {}
      /\ \A k \in reply[c].failed : state[k] = "DEAD"
      /\ \A k \in Work[c] : state[k] # "NONE" /\ version[k] = Wants[c]
  BY <1>5 DEF ReplyInOrder
<1>7. pc'[c] = "done" => batch'[c] = {}
  BY <1>6 DEF UnderWay
<1>8. \A k \in reply'[c].failed : state'[k] = "DEAD"
  BY <1>2, <1>3, <1>6
<1>9. \A k \in Work[c] : state'[k] # "NONE" /\ version'[k] = Wants[c]
  BY <1>1, <1>2, <1>6
<1>10. reply'[c] = reply[c] /\ batch'[c] = batch[c]
  OBVIOUS
<1> QED
  BY <1>6, <1>7, <1>8, <1>9, <1>10, Zenon DEF ReplyInOrder

(* A call that returns an error promises nothing.                          *)
LEMMA ErrorReply ==
    ASSUME TypeOK, NEW c \in Calls, NEW e \in Errors \ {"none"}, Return(c, e)
    PROVE  ReplyInOrder(c)'
<1>1. pc'[c] = "done"
  BY DEF Return, Leave, TypeOK
<1>2. reply'[c].err = e
  BY DEF Return, Outcome, TypeOK
<1> QED
  BY <1>1, <1>2 DEF ReplyInOrder, UnderWay

(* A step of one actor leaves the others' stage, batch and reply alone.    *)
LEMMA OthersStandStill ==
    ASSUME IInv, NEW a \in Actors, NEW c \in Calls, c # a,
           \/ \E p : Leave(a, p) /\ UNCHANGED reply
           \/ a \in Calls /\ \E e : Return(a, e)
           \/ GiveUp(a)
           \/ a \in Calls /\ Insert(a)
           \/ \E k : Publish(a, k)
           \/ \E ok : Confirm(a, ok)
           \/ a \in Calls /\ FindByID(a)
           \/ \E S : Claim(a, S)
    PROVE  pc'[c] = pc[c] /\ batch'[c] = batch[c] /\ reply'[c] = reply[c]
BY DEF IInv, TypeOK, Leave, Return, GiveUp, Insert, Publish, Confirm, FindByID, Claim

LEMMA RepliesNext == IInv /\ RepliesInOrder /\ [Next]_vars => RepliesInOrder'
<1> SUFFICES ASSUME IInv, RepliesInOrder, [Next]_vars, NEW c \in Calls PROVE ReplyInOrder(c)'
  BY DEF RepliesInOrder
<1>i. ReplyInOrder(c) /\ c \notin Relays
  BY ActorsAssumption DEF RepliesInOrder
<1>e. "none" \in Errors /\ \A e \in {"insert", "version", "illegal", "writeback"} : e \in Errors \ {"none"}
  BY DEF Errors
<1>1. CASE InsertFails(c) \/ InsertConflict(c)
  BY <1>1, <1>e, ErrorReply DEF InsertFails, InsertConflict, IInv
<1>2. CASE Insert(c)
  <2> DEFINE answered(s) == {k \in Work[c] : ReplayStatus(state[k]) = s}
  <2>1. /\ batch'[c] = answered("open")
        /\ reply'[c].success = answered("WAIT")
        /\ reply'[c].failed = answered("DISPATCH_FAILED")
        /\ reply'[c].err = "none"
        /\ pc'[c] = "done" => answered("open") = {}
    BY <1>2 DEF Insert, Outcome, IInv, TypeOK
  <2>2. \A k : ReplayStatus(state[k]) \in {"open", "WAIT", "DISPATCH_FAILED"}
    BY DEF ReplayStatus
  <2>3. \A k : ReplayStatus(state[k]) = "DISPATCH_FAILED" => state[k] = "DEAD"
    BY DEF ReplayStatus
  <2>4. \A k \in Work[c] : k \in Keys
    BY WorkAssumption
  <2>5. \A k \in Work[c] : state'[k] # "NONE" /\ (state[k] = "DEAD" => state'[k] = "DEAD")
    BY <1>2, <2>4 DEF Insert, AddMessages
  <2>6. \A k \in Work[c] : version'[k] = Wants[c]
    BY <1>2, <2>4 DEF Insert, AddRecords, VersionConflict
  <2> QED
    BY <2>1, <2>2, <2>3, <2>5, <2>6 DEF ReplyInOrder, UnderWay
<1>3. CASE CallWriteBack(c)
  <2>1. /\ pc'[c] = "done" /\ batch'[c] = {}
        /\ reply'[c] = Outcome(reply[c].success \cup acked[c], reply[c].failed \cup Failed(c), "none")
    BY <1>3 DEF CallWriteBack, Return, Leave, IInv, TypeOK
  <2>2. pc[c] \in {"settling", "marking"}
    BY <1>3 DEF CallWriteBack, Settling
  <2>3. acked[c] \cup Failed(c) = batch[c] /\ acked[c] \cap Failed(c) = {}
    BY DEF IInv, BatchesInOrder, Failed
  <2>4. reply[c].err = "none"
    BY <1>i, <2>2 DEF ReplyInOrder, UnderWay
  <2>5. \A k \in Failed(c) : state'[k] = "DEAD"
    <3>1. UpdateOutbox(acked[c], Failed(c), {}, NoToken) /\ Failed(c) \subseteq Keys
      BY <1>3 DEF CallWriteBack, Failed, IInv, TypeOK
    <3> QED
      BY <3>1, <2>3 DEF UpdateOutbox
  <2>6. \A k \in Work[c] : k \in Keys
    BY WorkAssumption
  <2>7. \A k \in Keys : state[k] # "NONE" =>
          /\ state'[k] # "NONE" /\ version'[k] = version[k]
          /\ state[k] = "DEAD" => state'[k] = "DEAD"
    BY RowsStay
  <2> QED
    BY <1>i, <2>1, <2>2, <2>3, <2>4, <2>5, <2>6, <2>7 DEF ReplyInOrder, UnderWay, Outcome
<1>4. CASE RollBack(c) \/ FailWriteBack(c)
  BY <1>4, <1>i, <1>e, ErrorReply DEF RollBack, FailWriteBack, GiveUp, IInv
<1>5. CASE FindByID(c)
  <2>1. CASE Return(c, "illegal")
    BY <2>1, <1>e, ErrorReply DEF IInv
  <2>2. CASE pc' = [pc EXCEPT ![c] = "marking"] /\ UNCHANGED <<batch, reply>>
    <3>1. UnderWay(c) /\ UnderWay(c)'
      BY <1>5, <2>2 DEF FindByID, UnderWay, IInv, TypeOK
    <3> QED
      BY <2>2, <3>1, <1>i, StandStill
  <2> QED
    BY <1>5, <2>1, <2>2 DEF FindByID
<1>6. CASE (\E k \in batch[c] : Publish(c, k)) \/ (\E ok \in SUBSET sent[c] : Confirm(c, ok))
  <2>1. UnderWay(c) /\ UnderWay(c)' /\ batch' = batch /\ reply' = reply
    BY <1>6 DEF Publish, Confirm, UnderWay, IInv, TypeOK
  <2> QED
    BY <2>1, <1>i, StandStill
<1>7. CASE Crash(c)
  <2>1. pc'[c] = "down"
    BY <1>7, <1>i DEF Crash, Leave, IInv, TypeOK
  <2> QED
    BY <2>1 DEF ReplyInOrder, UnderWay
<1>8. CASE \E a \in Actors : a # c /\
        \/ \E p : Leave(a, p) /\ UNCHANGED reply
        \/ a \in Calls /\ \E e : Return(a, e)
        \/ GiveUp(a)
        \/ a \in Calls /\ Insert(a)
        \/ \E k : Publish(a, k)
        \/ \E ok : Confirm(a, ok)
        \/ a \in Calls /\ FindByID(a)
        \/ \E S : Claim(a, S)
  BY <1>8, <1>i, OthersStandStill, StandStill
<1>9. CASE UNCHANGED locals
  BY <1>9, <1>i, StandStill DEF locals
<1>10. \/ \E d \in Calls : CallStep(d)
       \/ \E r \in Relays : RelayStep(r)
       \/ \E a \in Actors : Crash(a)
       \/ UNCHANGED locals
  BY DEF Next, Environment, Elapse, Overrun, Callback, vars
<1>11. ASSUME NEW d \in Calls, CallStep(d) PROVE ReplyInOrder(c)'
  <2>1. CASE d = c
    BY <1>11, <2>1, <1>1, <1>2, <1>3, <1>4, <1>5, <1>6 DEF CallStep, BatchRun
  <2>2. CASE d # c
    BY <1>11, <2>2, <1>8
    DEF CallStep, BatchRun, InsertFails, InsertConflict, CallWriteBack, RollBack, FailWriteBack
  <2> QED
    BY <2>1, <2>2
<1>12. ASSUME NEW r \in Relays, RelayStep(r) PROVE ReplyInOrder(c)'
  BY <1>12, <1>i, <1>8 DEF RelayStep, BatchRun, RelayWriteBack, RollBack, FailWriteBack
<1>13. ASSUME NEW a \in Actors, Crash(a) PROVE ReplyInOrder(c)'
  BY <1>13, <1>7, <1>8 DEF Crash
<1> QED
  BY <1>9, <1>10, <1>11, <1>12, <1>13

LEMMA RepliesCorrect == Spec => []RepliesInOrder
BY InvCorrect, InvInit, InvNext, RepliesInit, RepliesNext, PTL DEF Spec

(* An answer without an error accounts for every key of the request, and a *)
(* key it reports as failed will not be sent again.                        *)
THEOREM HonestReplyHolds == Spec => []HonestReply
<1>1. RepliesInOrder => HonestReply
  BY DEF RepliesInOrder, ReplyInOrder, HonestReply
<1> QED
  BY <1>1, RepliesCorrect, PTL

(* An answer without an error is about the version asked for.              *)
THEOREM RightVersionHolds == Spec => []RightVersion
<1>1. RepliesInOrder => RightVersion
  BY DEF RepliesInOrder, ReplyInOrder, RightVersion
<1> QED
  BY <1>1, RepliesCorrect, PTL

-----------------------------------------------------------------------------
(* Attempts.                                                               *)

LEMMA AttemptsInit == Init => AttemptsInOrder
<1> SUFFICES ASSUME Init PROVE AttemptsInOrder
  OBVIOUS
<1>1. \A k \in Keys : attempts[k] = 0 /\ state[k] = "NONE"
  BY DEF Init, TablesInit
<1>2. faults = 0 /\ MaxAttempts \in Nat /\ MaxAttempts > 0
  BY LimitsAssumption DEF Init
<1>3. ASSUME NEW k \in Keys
      PROVE  attempts[k] <= MaxAttempts + faults /\ attempts[k] < MaxAttempts
  BY <1>1, <1>2
<1> QED
  BY <1>1, <1>3 DEF AttemptsInOrder

(* A fault makes room for one more claim of every row.                     *)
LEMMA FaultAttempts ==
    ASSUME TypeOK, AttemptsInOrder, UNCHANGED <<state, attempts>>, Fault
    PROVE  AttemptsInOrder'
<1>1. faults' = faults + 1 /\ faults \in Nat /\ attempts \in [Keys -> Nat] /\ MaxAttempts \in Nat
  BY LimitsAssumption DEF Fault, TypeOK, TablesTypeOK
<1>2. \A k \in Keys : attempts'[k] < MaxAttempts + faults'
  BY <1>1 DEF AttemptsInOrder
<1> QED
  BY <1>1, <1>2 DEF AttemptsInOrder

(* Without a claim and without a fault rows keep their sound leases.       *)
LEMMA KeptAttempts ==
    ASSUME AttemptsInOrder, UNCHANGED <<attempts, faults>>,
           \A k \in Keys : state'[k] \in {"NONE", "PENDING"} => attempts[k] < MaxAttempts,
           \A k \in Keys : state'[k] = "PROCESSING" =>
               state[k] = "PROCESSING" /\ (Leased(k) => Leased(k)')
    PROVE  AttemptsInOrder'
BY DEF AttemptsInOrder

LEMMA StaysSound ==
    ASSUME NEW r \in Relays, Sound(r), batch'[r] = batch[r], lease'[r] = lease[r],
           \A k \in batch[r] : state'[k] = state[k] /\ token'[k] = token[k]
                              /\ (k \in due' => k \in due)
    PROVE  Sound(r)'
BY DEF Sound, Matches

(* All leases stay as they are.                                            *)
LEMMA LeasesStay ==
    ASSUME AttemptsInOrder, UNCHANGED <<state, attempts, token, due, batch, lease, faults>>
    PROVE  AttemptsInOrder'
BY DEF AttemptsInOrder, Leased, Sound, Matches

(* What the lease of a sound relay covers is in its batch.                 *)
LEMMA LeasedRows ==
    ASSUME IInv, NEW r \in Relays, Sound(r), NEW k \in Keys,
           state[k] = "PROCESSING", lease[r] = token[k]
    PROVE  k \in batch[r] /\ lease[r] # NoToken /\ k \notin due
<1>1. token[k] # NoToken
  BY DEF IInv, LeasesInOrder
<1>2. k \in batch[r]
  BY <1>1 DEF IInv, LeasesInOrder
<1> QED
  BY <1>1, <1>2 DEF Sound

(* An actor without a sound lease leaves.                                  *)
LEMMA LeaveAttempts ==
    ASSUME IInv, AttemptsInOrder, NEW a \in Actors, NEW p, Leave(a, p),
           a \in Relays => ~Sound(a), UNCHANGED <<state, attempts, token, due, faults>>
    PROVE  AttemptsInOrder'
<1>1. ASSUME NEW k \in Keys, Leased(k) PROVE Leased(k)'
  <2>1. PICK r \in Relays : lease[r] = token[k] /\ Sound(r)
    BY <1>1 DEF Leased
  <2>2. r # a
    BY <2>1
  <2>3. batch'[r] = batch[r] /\ lease'[r] = lease[r]
    BY <2>2 DEF Leave, IInv, TypeOK, Actors
  <2>4. Sound(r)'
    BY <2>1, <2>3, StaysSound
  <2> QED
    BY <2>1, <2>3, <2>4 DEF Leased
<1> QED
  BY <1>1, KeptAttempts DEF AttemptsInOrder

(* An actor settles its whole batch: no other relay's sound lease covers   *)
(* any of it.                                                              *)
LEMMA WriteBackAttempts ==
    ASSUME IInv, AttemptsInOrder, NEW a \in Actors, NEW p, Leave(a, p),
           NEW P, NEW D, NEW R, P \cup D \cup R = batch[a], P \cap R = {}, D \cap R = {},
           UpdateOutbox(P, D, R, lease[a]), faults' = faults,
           \A k \in R : attempts[k] < MaxAttempts
    PROVE  AttemptsInOrder'
<1>1. /\ \A k \in batch[a] : Matches(k, lease[a])
      /\ \A k \in Keys : IF k \in batch[a]
                         THEN /\ state'[k] \in {"PUBLISHED", "DEAD", "PENDING"}
                              /\ state'[k] = "PENDING" => k \in R
                         ELSE state'[k] = state[k] /\ token'[k] = token[k]
      /\ due' = due \ batch[a] /\ attempts' = attempts
  BY DEF UpdateOutbox
<1>2. ASSUME NEW k \in Keys, state'[k] = "PROCESSING", Leased(k)
      PROVE  state[k] = "PROCESSING" /\ Leased(k)'
  <2>1. PICK r \in Relays : lease[r] = token[k] /\ Sound(r)
    BY <1>2 DEF Leased
  <2>2. k \notin batch[a] /\ state[k] = "PROCESSING" /\ token'[k] = token[k]
    BY <1>1, <1>2
  <2>3. k \in batch[r] /\ lease[r] # NoToken
    BY <2>1, <2>2, LeasedRows
  <2>4. r # a
    BY <2>2, <2>3
  <2>5. batch'[r] = batch[r] /\ lease'[r] = lease[r] /\ r \in Actors
    BY <2>4 DEF Leave, IInv, TypeOK, Actors
  <2>6. ASSUME NEW j \in batch[r], j \in batch[a] PROVE FALSE
    <3>1. state[j] = "PROCESSING" /\ token[j] = lease[r]
      BY <2>1, <2>3 DEF Sound, Matches
    <3>2. lease[a] = lease[r]
      BY <1>1, <2>6, <3>1 DEF Matches
    <3>3. a \in Relays
      BY <2>3, <3>2 DEF Actors, IInv, LeasesInOrder
    <3> QED
      BY <2>3, <2>4, <3>2, <3>3 DEF IInv, LeasesInOrder
  <2>7. batch[r] \subseteq Keys
    BY <2>5 DEF IInv, TypeOK
  <2>8. Sound(r)'
    BY <1>1, <2>1, <2>5, <2>6, <2>7, StaysSound
  <2> QED
    BY <2>1, <2>2, <2>5, <2>8 DEF Leased
<1>3. \A k \in Keys : state'[k] = "PROCESSING" => state[k] = "PROCESSING"
  BY <1>1
<1>4. \A k \in Keys : state'[k] \in {"NONE", "PENDING"} => attempts[k] < MaxAttempts
  BY <1>1 DEF AttemptsInOrder
<1> QED
  BY <1>1, <1>2, <1>3, <1>4, KeptAttempts

(* Rows that are inserted are in nobody's lease.                           *)
LEMMA AddAttempts ==
    ASSUME IInv, AttemptsInOrder, NEW W, AddMessages(W), faults' = faults,
           \A r \in Relays : batch'[r] = batch[r] /\ lease'[r] = lease[r]
    PROVE  AttemptsInOrder'
<1>1. /\ UNCHANGED <<attempts, token, due>>
      /\ \A k \in Keys : state'[k] = state[k] \/ (state[k] = "NONE" /\ state'[k] = "PENDING")
  BY DEF AddMessages
<1>2. ASSUME NEW k \in Keys, Leased(k) PROVE Leased(k)'
  <2>1. PICK r \in Relays : lease[r] = token[k] /\ Sound(r)
    BY <1>2 DEF Leased
  <2>2. \A j \in batch[r] : j \in Keys /\ state[j] # "NONE"
    BY DEF IInv, TypeOK, BatchesInOrder, Actors
  <2>3. Sound(r)'
    BY <1>1, <2>1, <2>2, StaysSound
  <2> QED
    BY <1>1, <2>1, <2>3 DEF Leased
<1> QED
  BY <1>1, <1>2, KeptAttempts DEF AttemptsInOrder

(* A row that is leased a further time has been PENDING, or its lease was  *)
(* not sound any more; the new one is.                                     *)
LEMMA ClaimAttempts ==
    ASSUME IInv, AttemptsInOrder, NEW r \in Relays, NEW S \in SUBSET Claimable, Claim(r, S)
    PROVE  AttemptsInOrder'
<1> DEFINE fresh == CHOOSE t \in Tokens : t \notin TokensInUse
<1>1. fresh \in Tokens /\ fresh \notin TokensInUse
  BY DEF Claim
<1>2. /\ ClaimPending(S, fresh) /\ batch[r] = {}
      /\ batch' = [batch EXCEPT ![r] = S] /\ lease' = [lease EXCEPT ![r] = fresh]
      /\ faults' = faults
  BY DEF Claim, IInv, BatchesInOrder, Actors
<1> HIDE DEF fresh
<1>3. fresh # NoToken
  BY <1>1, NoTokenAssumption
<1>4. /\ \A k \in S : k \in Keys /\ k \in due /\ state[k] \in {"PENDING", "PROCESSING"}
      /\ \A k \in Keys : state'[k] = IF k \in S THEN "PROCESSING" ELSE state[k]
      /\ \A k \in Keys : attempts'[k] = IF k \in S THEN attempts[k] + 1 ELSE attempts[k]
      /\ \A k \in Keys : token'[k] = IF k \in S THEN fresh ELSE token[k]
      /\ due' = due \ S
  BY <1>2 DEF ClaimPending, Claimable, IInv, TypeOK, TablesTypeOK
<1>5. \A q \in Relays : /\ batch'[q] = IF q = r THEN S ELSE batch[q]
                        /\ lease'[q] = IF q = r THEN fresh ELSE lease[q]
  <2>1. DOMAIN batch = Actors /\ DOMAIN lease = Actors
    BY DEF IInv, TypeOK
  <2>2. ASSUME NEW q \in Relays
        PROVE  /\ batch'[q] = IF q = r THEN S ELSE batch[q]
               /\ lease'[q] = IF q = r THEN fresh ELSE lease[q]
    BY <1>2, <2>1 DEF Actors
  <2> QED
    BY <2>2
<1>6. Sound(r)'
  BY <1>3, <1>4, <1>5 DEF Sound, Matches
<1>7. attempts \in [Keys -> Nat] /\ faults \in Nat /\ MaxAttempts \in Nat
  BY LimitsAssumption DEF IInv, TypeOK, TablesTypeOK
<1>8. ASSUME NEW k \in S
      PROVE  attempts'[k] <= MaxAttempts + faults' /\ Leased(k)'
  <2>1. Leased(k)'
    BY <1>4, <1>5, <1>6 DEF Leased
  <2>2. CASE state[k] = "PENDING"
    BY <1>2, <1>4, <1>7, <2>1, <2>2 DEF AttemptsInOrder
  <2>3. CASE state[k] = "PROCESSING"
    <3>1. ~Leased(k)
      BY <1>4, <2>3, LeasedRows DEF Leased
    <3> QED
      BY <1>2, <1>4, <1>7, <2>1, <2>3, <3>1 DEF AttemptsInOrder
  <2> QED
    BY <1>4, <2>2, <2>3
<1>9. ASSUME NEW k \in Keys \ S, state[k] = "PROCESSING", Leased(k) PROVE Leased(k)'
  <2>1. PICK q \in Relays : lease[q] = token[k] /\ Sound(q)
    BY <1>9 DEF Leased
  <2>2. q # r
    BY <1>2, <1>9, <2>1, LeasedRows
  <2>3. \A j \in batch[q] : j \in Keys /\ j \notin S
    BY <1>4, <2>1 DEF Sound, IInv, TypeOK, Actors
  <2>4. Sound(q)'
    BY <1>4, <1>5, <2>1, <2>2, <2>3, StaysSound
  <2> QED
    BY <1>4, <1>5, <2>1, <2>2, <2>4 DEF Leased
<1>10. ASSUME NEW k \in Keys
       PROVE  /\ attempts'[k] <= MaxAttempts + faults'
              /\ state'[k] \in {"NONE", "PENDING"} => attempts'[k] < MaxAttempts
              /\ state'[k] = "PROCESSING" /\ ~Leased(k)' => attempts'[k] < MaxAttempts + faults'
  <2>1. CASE k \in S
    BY <1>4, <1>8, <2>1
  <2>2. CASE k \notin S
    BY <1>2, <1>4, <1>9, <2>2 DEF AttemptsInOrder
  <2> QED
    BY <2>1, <2>2
<1> QED
  BY <1>10 DEF AttemptsInOrder

LEMMA AttemptsNext == IInv /\ AttemptsInOrder /\ [Next]_vars => AttemptsInOrder'
<1> SUFFICES ASSUME IInv, AttemptsInOrder, [Next]_vars PROVE AttemptsInOrder'
  OBVIOUS
<1>1. ASSUME NEW c \in Calls, InsertFails(c) \/ InsertConflict(c) \/ Insert(c) PROVE AttemptsInOrder'
  <2>1. c \notin Relays /\ c \in Actors
    BY ActorsAssumption DEF Actors
  <2>2. CASE InsertFails(c)
    BY <2>1, <2>2, LeaveAttempts DEF InsertFails, Return, tables, outbox
  <2>3. \A r \in Relays : /\ Leave(c, "done") => batch'[r] = batch[r] /\ lease'[r] = lease[r]
                          /\ Insert(c) => batch'[r] = batch[r] /\ lease'[r] = lease[r]
    BY <2>1 DEF Leave, Insert, IInv, TypeOK, Actors
  <2>4. CASE InsertConflict(c)
    BY <2>3, <2>4, AddAttempts DEF InsertConflict, Return
  <2>5. CASE Insert(c)
    BY <2>3, <2>5, AddAttempts DEF Insert
  <2> QED
    BY <1>1, <2>2, <2>4, <2>5
<1>2. ASSUME NEW a \in Actors, BatchRun(a) PROVE AttemptsInOrder'
  <2>1. UNCHANGED <<state, attempts, token, due, batch, lease, faults>>
    BY <1>2 DEF BatchRun, Publish, Confirm, tables, outbox
  <2> QED
    BY <2>1, LeasesStay
<1>3. ASSUME NEW c \in Calls, FindByID(c) PROVE AttemptsInOrder'
  <2>1. c \notin Relays /\ c \in Actors
    BY ActorsAssumption DEF Actors
  <2>2. CASE Return(c, "illegal")
    BY <1>3, <2>1, <2>2, LeaveAttempts DEF FindByID, Return, tables, outbox
  <2>3. CASE UNCHANGED <<batch, sent, acked, lease, reply>>
    BY <1>3, <2>3, LeasesStay DEF FindByID, tables, outbox
  <2> QED
    BY <1>3, <2>2, <2>3 DEF FindByID
<1>4. ASSUME NEW c \in Calls, CallWriteBack(c) PROVE AttemptsInOrder'
  <2>1. lease[c] = NoToken /\ c \in Actors
    BY DEF IInv, LeasesInOrder, Actors
  <2>2. acked[c] \cup Failed(c) \cup {} = batch[c]
    BY <2>1 DEF Failed, IInv, BatchesInOrder
  <2>3. /\ UpdateOutbox(acked[c], Failed(c), {}, lease[c]) /\ Leave(c, "done")
        /\ faults' = faults
    BY <1>4, <2>1 DEF CallWriteBack, Return
  <2> QED
    BY <2>1, <2>2, <2>3, WriteBackAttempts
<1>5. ASSUME NEW r \in Relays, RelayWriteBack(r) PROVE AttemptsInOrder'
  <2> DEFINE retry == {k \in Failed(r) : attempts[k] < MaxAttempts}
             dead == Failed(r) \ retry
  <2>1. UpdateOutbox(acked[r], dead, retry, lease[r]) /\ Leave(r, "idle") /\ faults' = faults
    BY <1>5 DEF RelayWriteBack
  <2>2. /\ acked[r] \cup dead \cup retry = batch[r] /\ r \in Actors
        /\ acked[r] \cap retry = {} /\ dead \cap retry = {}
        /\ \A k \in retry : attempts[k] < MaxAttempts
    BY DEF Failed, IInv, BatchesInOrder, Actors
  <2> HIDE DEF retry, dead
  <2> QED
    BY <2>1, <2>2, WriteBackAttempts
<1>6. ASSUME NEW a \in Actors, RollBack(a) PROVE AttemptsInOrder'
  <2>1. a \in Relays => ~Sound(a)
    BY <1>6 DEF RollBack, Sound
  <2>2. UNCHANGED <<state, attempts, token, due, faults>>
    BY <1>6 DEF RollBack, tables, outbox
  <2>3. GiveUp(a)
    BY <1>6 DEF RollBack
  <2> QED
    BY <2>1, <2>2, <2>3, GiveUpLeaves, LeaveAttempts
<1>7. ASSUME NEW r \in Relays, NEW S \in SUBSET Claimable, Claim(r, S) PROVE AttemptsInOrder'
  BY <1>7, ClaimAttempts
<1>8. ASSUME NEW a \in Actors, FailWriteBack(a) \/ Crash(a) PROVE AttemptsInOrder'
  BY <1>8, FaultAttempts DEF FailWriteBack, Crash, tables, outbox, IInv
<1>9. ASSUME NEW k \in Keys, Overrun(k) PROVE AttemptsInOrder'
  BY <1>9, FaultAttempts DEF Overrun, Pass, IInv
<1>10. ASSUME NEW k \in Keys, Elapse(k) PROVE AttemptsInOrder'
  <2>1. /\ UNCHANGED <<state, attempts, token, batch, lease, faults>> /\ due' = due \cup {k}
        /\ ~Held(k)
    BY <1>10 DEF Elapse, Pass, locals
  <2>2. ASSUME NEW j \in Keys, state[j] = "PROCESSING", Leased(j) PROVE Leased(j)'
    <3>1. PICK r \in Relays : lease[r] = token[j] /\ Sound(r)
      BY <2>2 DEF Leased
    <3>2. lease[r] # NoToken
      BY <2>2, <3>1, LeasedRows
    <3>3. k \notin batch[r]
      BY <2>1, <3>1, <3>2 DEF Held, Sound, Matches
    <3>4. Sound(r)'
      BY <2>1, <3>1, <3>3, StaysSound
    <3> QED
      BY <2>1, <3>1, <3>4 DEF Leased
  <2> QED
    BY <2>1, <2>2, KeptAttempts DEF AttemptsInOrder
<1>11. ASSUME NEW k \in Keys, NEW s \in Reports, Callback(k, s) PROVE AttemptsInOrder'
  BY <1>11, LeasesStay DEF Callback, outbox, locals
<1>12. CASE UNCHANGED vars
  BY <1>12, LeasesStay DEF vars, tables, outbox, locals
<1> QED
  BY <1>1, <1>2, <1>3, <1>4, <1>5, <1>6, <1>7, <1>8, <1>9, <1>10, <1>11, <1>12
  DEF Next, CallStep, RelayStep, Environment, Actors

(* Attempts are only counted upwards, and faults up to their bound.        *)
LEMMA CountsGrow ==
    ASSUME IInv, faults <= MaxFaults, [Next]_vars
    PROVE  /\ faults' <= MaxFaults
           /\ \A k \in Keys : attempts'[k] = attempts[k] \/ attempts'[k] = attempts[k] + 1
<1>0. attempts \in [Keys -> Nat] /\ faults \in Nat
  BY DEF IInv, TypeOK, TablesTypeOK
<1>1. CASE UNCHANGED <<attempts, faults>>
  BY <1>1
<1>2. CASE Fault /\ UNCHANGED attempts
  BY <1>0, <1>2, LimitsAssumption DEF Fault
<1>3. ASSUME NEW r \in Relays, NEW S \in SUBSET Claimable, Claim(r, S)
      PROVE  /\ faults' = faults
             /\ \A k \in Keys : attempts'[k] = attempts[k] \/ attempts'[k] = attempts[k] + 1
  BY <1>0, <1>3 DEF Claim, ClaimPending
<1>4. ASSUME NEW a \in Actors, BatchRun(a) \/ RollBack(a) PROVE UNCHANGED <<attempts, faults>>
  BY <1>4 DEF BatchRun, Publish, Confirm, RollBack, tables, outbox
<1>5. ASSUME NEW a \in Actors, FailWriteBack(a) \/ Crash(a) PROVE Fault /\ UNCHANGED attempts
  BY <1>5 DEF FailWriteBack, Crash, tables, outbox
<1>6. ASSUME NEW c \in Calls,
             InsertFails(c) \/ InsertConflict(c) \/ Insert(c) \/ FindByID(c) \/ CallWriteBack(c)
      PROVE  UNCHANGED <<attempts, faults>>
  BY <1>6 DEF InsertFails, InsertConflict, Insert, FindByID, CallWriteBack, AddMessages,
     UpdateOutbox, tables, outbox
<1>7. ASSUME NEW r \in Relays, RelayWriteBack(r) PROVE UNCHANGED <<attempts, faults>>
  BY <1>7 DEF RelayWriteBack, UpdateOutbox
<1>8. ASSUME NEW k \in Keys, Elapse(k) PROVE UNCHANGED <<attempts, faults>>
  BY <1>8 DEF Elapse, Pass
<1>9. ASSUME NEW k \in Keys, Overrun(k) PROVE Fault /\ UNCHANGED attempts
  BY <1>9 DEF Overrun, Pass
<1>10. ASSUME NEW k \in Keys, NEW s \in Reports, Callback(k, s) PROVE UNCHANGED <<attempts, faults>>
  BY <1>10 DEF Callback, outbox
<1>11. CASE UNCHANGED vars
  BY <1>11 DEF vars, tables, outbox
<1> QED
  BY <1>1, <1>2, <1>3, <1>4, <1>5, <1>6, <1>7, <1>8, <1>9, <1>10, <1>11
  DEF Next, CallStep, RelayStep, Environment, Actors

(* Beyond MaxAttempts a row is claimed only as often as faults cut claims  *)
(* short: a message that nobody can send is given up.                      *)
THEOREM ClaimsAccountedHolds == Spec => []ClaimsAccounted
<1>1. AttemptsInOrder => ClaimsAccounted
  BY DEF AttemptsInOrder, ClaimsAccounted
<1> QED
  BY <1>1, InvCorrect, InvInit, InvNext, AttemptsInit, AttemptsNext, PTL DEF Spec
-----------------------------------------------------------------------------
(* Runs of BatchRun.                                                       *)

(* What actor a sees of its run: unchanged by the steps of others, over    *)
(* when a leaves, and nothing before it has a batch.                       *)
LEMMA RunStays ==
    ASSUME NEW a \in Actors,
           UNCHANGED <<pc[a], batch[a], sent[a], acked[a]>>
    PROVE  [RunOf(a)!Next]_(RunOf(a)!vars)
BY DEF RunOf!vars

(* A step of actor b moves only b's part.                                  *)
LEMMA RunEnds ==
    ASSUME TypeOK, NEW a \in Actors, NEW b \in Actors, NEW p, Leave(b, p),
           p # "publishing", pc[b] # "publishing"
    PROVE  [RunOf(a)!Next]_(RunOf(a)!vars)
<1>1. CASE a # b
  <2>1. UNCHANGED <<pc[a], batch[a], sent[a], acked[a]>>
    BY <1>1 DEF TypeOK, Leave
  <2> QED
    BY <2>1, RunStays
<1>2. CASE a = b
  <2>1. /\ pc'[a] = p /\ batch'[a] = {} /\ sent'[a] = {} /\ acked'[a] = {}
    BY <1>2 DEF TypeOK, Leave
  <2>2. RunOf(a)!Refuse({})
    BY <1>2, <2>1 DEF RunOf!Refuse
  <2> QED
    BY <2>2 DEF RunOf!Next
<1> QED
  BY <1>1, <1>2

(* A run begins with the batch, and with nothing taken or reported.        *)
LEMMA RunBegins ==
    ASSUME TypeOK, BatchesInOrder, NEW a \in Actors, NEW b \in Actors, NEW T \in SUBSET Keys,
           pc[b] \in {"start", "idle"}, pc' = [pc EXCEPT ![b] = "publishing"],
           batch' = [batch EXCEPT ![b] = T], UNCHANGED <<sent, acked>>
    PROVE  [RunOf(a)!Next]_(RunOf(a)!vars)
<1>1. CASE a # b
  <2>1. UNCHANGED <<pc[a], batch[a], sent[a], acked[a]>>
    BY <1>1 DEF TypeOK
  <2> QED
    BY <2>1, RunStays
<1>2. CASE a = b
  <2>1. sent[a] = {} /\ acked[a] = {}
    BY <1>2 DEF BatchesInOrder
  <2>2. RunOf(a)!Run(T)
    BY <1>2, <2>1 DEF TypeOK, RunOf!Run
  <2> QED
    BY <2>2 DEF RunOf!Next
<1> QED
  BY <1>1, <1>2

(* Publications and their outcome are what the contract lets a run do.     *)
LEMMA RunGoesOn ==
    ASSUME TypeOK, NEW a \in Actors, NEW b \in Actors, BatchRun(b)
    PROVE  [RunOf(a)!Next]_(RunOf(a)!vars)
<1>1. CASE a # b
  <2>1. UNCHANGED <<pc[a], batch[a], sent[a], acked[a]>>
    BY <1>1 DEF TypeOK, BatchRun, Publish, Confirm
  <2> QED
    BY <2>1, RunStays
<1>2. ASSUME a = b, NEW k \in batch[a], Publish(a, k)
      PROVE  RunOf(a)!Next
  <2>1. k \in Keys
    BY DEF TypeOK
  <2>2. RunOf(a)!Take(k)
    BY <1>2 DEF Publish, TypeOK, RunOf!Take
  <2> QED
    BY <2>1, <2>2 DEF RunOf!Next
<1>3. ASSUME a = b, NEW S \in SUBSET sent[a], Confirm(a, S)
      PROVE  RunOf(a)!Next
  <2>1. S \in SUBSET Keys
    BY DEF TypeOK
  <2>2. S \cap {k \in Keys : ~Routable(k)} = {} \/ S # batch[a]
    BY <1>3 DEF Confirm
  <2>3. RunOf(a)!Report(S)
    BY <1>3, <2>2 DEF Confirm, TypeOK, RunOf!Report
  <2> QED
    BY <2>1, <2>3 DEF RunOf!Next
<1> QED
  BY <1>1, <1>2, <1>3 DEF BatchRun

LEMMA RunsNext ==
    ASSUME IInv, [Next]_vars, NEW a \in Actors
    PROVE  \/ [RunOf(a)!Next]_(RunOf(a)!vars)
           \/ pc[a] = "publishing" /\ pc'[a] \in {"idle", "down"}
<1> DEFINE InContract == [RunOf(a)!Next]_(RunOf(a)!vars)
<1> USE DEF Actors
<1>t. TypeOK /\ BatchesInOrder
  BY DEF IInv
<1>1. CASE UNCHANGED <<pc, batch, sent, acked>>
  BY <1>1, RunStays
<1>2. ASSUME NEW b \in Actors, BatchRun(b) PROVE InContract
  BY <1>2, <1>t, RunGoesOn
<1>3. ASSUME NEW b \in Actors, NEW p \in {"done", "idle"}, Leave(b, p), pc[b] # "publishing"
      PROVE  InContract
  BY <1>3, <1>t, RunEnds
<1>4. ASSUME NEW c \in Calls, CallStep(c) PROVE InContract
  <2>1. CASE InsertFails(c) \/ InsertConflict(c)
    BY <1>3, <2>1 DEF InsertFails, InsertConflict, Return
  <2>2. CASE Insert(c)
    <3> DEFINE T == {k \in Work[c] : ReplayStatus(state[k]) = "open"}
    <3>1. /\ pc[c] = "start" /\ batch' = [batch EXCEPT ![c] = T] /\ UNCHANGED <<sent, acked>>
          /\ pc' = [pc EXCEPT ![c] = IF T # {} THEN "publishing"
                                     ELSE IF c \in Singles THEN "done" ELSE "settling"]
      BY <2>2 DEF Insert
    <3>2. T \in SUBSET Keys
      BY WorkAssumption
    <3>3. CASE T # {}
      <4>1. pc' = [pc EXCEPT ![c] = "publishing"]
        BY <3>1, <3>3
      <4> HIDE DEF T
      <4> QED
        BY <1>t, <3>1, <3>2, <4>1, RunBegins
    <3>4. CASE T = {}
      <4>1. batch[c] = {}
        BY <1>t, <3>1 DEF BatchesInOrder
      <4>2. UNCHANGED <<batch[a], sent[a], acked[a]>>
        BY <1>t, <3>1, <3>4, <4>1 DEF TypeOK
      <4>3. pc'[a] = "publishing" <=> pc[a] = "publishing"
        BY <1>t, <3>1, <3>4 DEF TypeOK
      <4> QED
        BY <4>2, <4>3 DEF RunOf!vars
    <3> QED
      BY <3>3, <3>4
  <2>3. CASE BatchRun(c)
    BY <1>2, <2>3
  <2>4. CASE FindByID(c)
    <3>1. CASE Return(c, "illegal")
      BY <1>3, <2>4, <3>1 DEF FindByID, Return
    <3>2. CASE pc' = [pc EXCEPT ![c] = "marking"] /\ UNCHANGED <<batch, sent, acked, lease, reply>>
      <4>1. pc'[a] = "publishing" <=> pc[a] = "publishing"
        BY <1>t, <2>4, <3>2 DEF TypeOK, FindByID
      <4> QED
        BY <3>2, <4>1 DEF RunOf!vars
    <3> QED
      BY <2>4, <3>1, <3>2 DEF FindByID
  <2>5. CASE CallWriteBack(c) \/ RollBack(c) \/ FailWriteBack(c)
    <3>1. pc[c] # "publishing"
      BY <2>5 DEF CallWriteBack, RollBack, FailWriteBack, Settling
    <3>2. Leave(c, "done") \/ Leave(c, "idle")
      BY <2>5, GiveUpLeaves DEF CallWriteBack, RollBack, FailWriteBack, Return
    <3> QED
      BY <1>3, <3>1, <3>2
  <2> QED
    BY <1>4, <2>1, <2>2, <2>3, <2>4, <2>5 DEF CallStep
<1>5. ASSUME NEW r \in Relays, RelayStep(r) PROVE InContract
  <2>1. ASSUME NEW S \in SUBSET Claimable, Claim(r, S) PROVE InContract
    <3>1. /\ pc[r] = "idle" /\ pc' = [pc EXCEPT ![r] = "publishing"]
          /\ batch' = [batch EXCEPT ![r] = S] /\ UNCHANGED <<sent, acked>>
      BY <2>1 DEF Claim
    <3>2. S \in SUBSET Keys
      BY <1>t DEF Claimable, TypeOK, TablesTypeOK
    <3> QED
      BY <1>t, <3>1, <3>2, RunBegins
  <2>2. CASE BatchRun(r)
    BY <1>2, <2>2
  <2>3. CASE RelayWriteBack(r) \/ RollBack(r) \/ FailWriteBack(r)
    <3>1. pc[r] # "publishing"
      BY <2>3 DEF RelayWriteBack, RollBack, FailWriteBack, Settling
    <3>2. Leave(r, "done") \/ Leave(r, "idle")
      BY <2>3, GiveUpLeaves DEF RelayWriteBack, RollBack, FailWriteBack
    <3> QED
      BY <1>3, <3>1, <3>2
  <2> QED
    BY <1>5, <2>1, <2>2, <2>3 DEF RelayStep
<1>6. ASSUME NEW b \in Actors, Crash(b)
      PROVE  InContract \/ (pc[a] = "publishing" /\ pc'[a] \in {"idle", "down"})
  <2>1. PICK p \in {"idle", "down"} : Leave(b, p)
    BY <1>6 DEF Crash
  <2>2. CASE pc[b] # "publishing"
    <3>1. p # "publishing"
      OBVIOUS
    <3>2. InContract
      BY <1>t, <2>1, <2>2, <3>1, RunEnds
    <3> QED
      BY <3>2
  <2>3. CASE a = b
    <3>1. pc'[a] = p
      BY <1>t, <2>1, <2>3 DEF TypeOK, Leave
    <3> QED
      BY <2>2, <2>3, <3>1
  <2>4. CASE a # b
    <3>1. UNCHANGED <<pc[a], batch[a], sent[a], acked[a]>>
      BY <1>t, <2>1, <2>4 DEF TypeOK, Leave
    <3>2. InContract
      BY <3>1, RunStays
    <3> QED
      BY <3>2
  <2> QED
    BY <2>3, <2>4
<1>7. CASE \/ UNCHANGED vars \/ \E k \in Keys : Elapse(k) \/ Overrun(k)
           \/ \E k \in Keys, s \in Reports : Callback(k, s)
  BY <1>1, <1>7 DEF vars, locals, Elapse, Overrun, Callback
<1> QED
  BY <1>4, <1>5, <1>6, <1>7 DEF Next, Environment

(* Calls and relays use BatchRun as BatchRunPort has it: a run at a time,  *)
(* with a report of what was taken, crashes apart.                         *)
THEOREM UsesBatchRunHolds == Spec => UsesBatchRun
<1>1. IInv /\ [Next]_vars =>
        [\A a \in Actors :
            \/ [RunOf(a)!Next]_(RunOf(a)!vars)
            \/ pc[a] = "publishing" /\ pc'[a] \in {"idle", "down"}]_vars
  BY RunsNext
<1> QED
  BY <1>1, InvCorrect, PTL DEF Spec, UsesBatchRun

(* And they cope with whatever the contract allows: any message may be     *)
(* taken next, and any report that the contract permits can be the one     *)
(* they go on with.                                                        *)
THEOREM AnyRunIsPossible ==
    ASSUME NEW a \in Actors, UNCHANGED <<tables, batch, lease, reply, faults>>
    PROVE  /\ \A k \in Keys :
                 /\ RunOf(a)!Take(k)
                 /\ sent' = [sent EXCEPT ![a] = @ \cup {k}]
                 /\ queue' = IF Routable(k) THEN queue \cup {k} ELSE queue
                 /\ UNCHANGED <<pc, acked>>
                 => BatchRun(a)
           /\ \A S \in SUBSET Keys :
                 /\ RunOf(a)!Report(S)
                 /\ acked' = [acked EXCEPT ![a] = S]
                 /\ pc' = [pc EXCEPT ![a] = "settling"]
                 /\ UNCHANGED <<queue, sent>>
                 => BatchRun(a)
BY DEF BatchRun, Publish, Confirm, RunOf!Take, RunOf!Report

=============================================================================
