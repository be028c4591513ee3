------------------------- MODULE PublishConfirmProofs -------------------------
(***************************************************************************)
(* Proofs about PublishConfirm, for any tasks and number of runs.          *)
(***************************************************************************)
EXTENDS PublishConfirm, TLAPS

USE DEF Reported, loop, result, channel

LEMMA InvInit == Init => IInv
BY TasksAssumption, RunsAssumption
DEF Init, IInv, TypeOK, ResultPartitionsBatch, SuccessWasTaken, ReturnsAreFailures,
    CleanHandOver, ResultInOrder, ChannelInOrder

(* The types of the steps of a run.                                        *)
LEMMA TypeNext == IInv /\ [Next]_vars => TypeOK'
<1> SUFFICES ASSUME IInv, [Next]_vars PROVE TypeOK'
  OBVIOUS
<1> USE TasksAssumption, RunsAssumption DEF IInv, TypeOK
<1>1. ASSUME NEW T \in SUBSET Tasks, Borrow(T) \/ BorrowFails(T) PROVE TypeOK'
  BY <1>1 DEF Borrow, BorrowFails
<1>2. ASSUME NEW t \in Tasks, PublishTask(t) PROVE TypeOK'
  <2>1. Tag(t) \in Tags
    BY <1>2 DEF PublishTask, Tag, Tags, Runs, ResultInOrder
  <2> QED
    BY <1>2, <2>1 DEF PublishTask
<1>3. CASE PublishFails \/ LoopEnds
  BY <1>3 DEF PublishFails, LoopEnds
<1>4. CASE GiveUp \/ AllAnswered
  BY <1>4 DEF GiveUp, AllAnswered, Finish, Unpublished
<1>5. ASSUME NEW t \in returns, ReadReturn(t) PROVE TypeOK'
  BY <1>5 DEF ReadReturn
<1>6. ASSUME NEW c \in confirms, ReadConfirm(c) PROVE TypeOK'
  <2>1. c.tag.task \in Tasks
    BY DEF Confirmations, Tags
  <2> QED
    BY <1>6, <2>1 DEF ReadConfirm
<1>7. ASSUME NEW m \in written, BrokerAck(m) \/ BrokerNack(m) PROVE TypeOK'
  <2>1. m.task \in Tasks /\ m \in Tags
    BY DEF Tags
  <2>2. \A a \in {"ack", "nack"} : [tag |-> m, answer |-> a] \in Confirmations
    BY <2>1 DEF Confirmations
  <2> QED
    BY <1>7, <2>1, <2>2 DEF BrokerAck, BrokerNack, Taking
<1>8. CASE ChannelCloses \/ Cancel
  BY <1>8 DEF ChannelCloses, Cancel
<1>9. CASE UNCHANGED vars
  BY <1>9 DEF vars
<1> QED
  BY <1>1, <1>2, <1>3, <1>4, <1>5, <1>6, <1>7, <1>8, <1>9
  DEF Next, Publishing, Waiting, Environment

Parts == /\ ResultPartitionsBatch /\ SuccessWasTaken /\ ReturnsAreFailures
         /\ CleanHandOver /\ ResultInOrder /\ ChannelInOrder

LEMMA InvNext == IInv /\ [Next]_vars => IInv'
<1> SUFFICES ASSUME IInv, [Next]_vars PROVE IInv'
  OBVIOUS
<1>0. TypeOK'
  BY TypeNext
<1> SUFFICES Parts'
  BY <1>0 DEF IInv, Parts
<1> USE DEF IInv, TypeOK, Parts, ResultPartitionsBatch, SuccessWasTaken, ReturnsAreFailures,
            CleanHandOver, ResultInOrder, ChannelInOrder
<1>1. ASSUME NEW T \in SUBSET Tasks, Borrow(T) PROVE Parts'
  BY <1>1 DEF Borrow
<1>2. ASSUME NEW T \in SUBSET Tasks, BorrowFails(T) PROVE Parts'
  BY <1>2 DEF BorrowFails
<1>3. ASSUME NEW t \in todo, PublishTask(t) PROVE Parts'
  BY <1>3 DEF PublishTask, Tag
<1>4. CASE PublishFails \/ LoopEnds
  BY <1>4 DEF PublishFails, LoopEnds
<1>5. CASE GiveUp
  BY <1>5 DEF GiveUp, Finish, Unpublished
<1>6. CASE AllAnswered
  BY <1>6 DEF AllAnswered, Finish, Unpublished
<1>7. ASSUME NEW t \in returns, ReadReturn(t) PROVE Parts'
  BY <1>7 DEF ReadReturn
<1>8. ASSUME NEW c \in confirms, ReadConfirm(c) PROVE Parts'
  <2> DEFINE t == c.tag.task
  <2>1. stage = "waiting" /\ stage' = "waiting" /\ c.tag.run = run /\ t \in unresolved
    BY <1>8 DEF ReadConfirm
  <2>2. unresolved' = unresolved \ {t} /\ confirms' = confirms \ {c}
    BY <1>8, <2>1 DEF ReadConfirm
  <2>3. \/ /\ c.answer = "ack" /\ t \notin returned
           /\ success' = success \cup {t} /\ failed' = failed
        \/ ~(c.answer = "ack" /\ t \notin returned) /\ success' = success /\ failed' = failed \cup {t}
    BY <1>8, <2>1 DEF ReadConfirm
  <2>4. UNCHANGED <<loop, returned, written, returns, taken>>
    BY <1>8 DEF ReadConfirm
  <2>5. \A d \in confirms' : d.tag.task # t
    BY <2>1, <2>2
  <2> QED
    BY <2>1, <2>2, <2>3, <2>4, <2>5
<1>9. ASSUME NEW m \in written, BrokerAck(m) \/ BrokerNack(m) PROVE Parts'
  <2>1. CASE Reported
    BY <1>9, <2>1 DEF BrokerAck, BrokerNack, Taking
  <2>2. CASE ~Reported
    <3>1. m.run = run /\ m.task \in unresolved /\ stage' = stage
      BY <1>9, <2>2 DEF BrokerAck, BrokerNack
    <3>2. PICK a \in {"ack", "nack"} : confirms' = confirms \cup {[tag |-> m, answer |-> a]}
      BY <1>9 DEF BrokerAck, BrokerNack
    <3>3. \A n \in written : n.task = m.task => n = m
      <4>1. \A n \in written : n.run = m.run
        BY <2>2
      <4> QED
        BY <4>1 DEF Tags
    <3>4. \A n \in written' : n \in written /\ n.task # m.task
      BY <1>9, <3>3 DEF BrokerAck, BrokerNack
    <3>5. \A c, d \in confirms' : c.tag.task = d.tag.task => c = d
      BY <2>2, <3>2
    <3>6. \A n \in written', c \in confirms' : n.task # c.tag.task
      BY <2>2, <3>2, <3>4
    <3>7. /\ \A c \in confirms' : c.tag.run = run /\ c.tag.task \in unresolved
          /\ \A c \in confirms' : c.answer = "ack" => c.tag.task \in taken'
      BY <1>9, <2>2, <3>1, <3>2 DEF BrokerAck, BrokerNack, Taking
    <3>8. /\ returns' \subseteq taken' /\ taken' \subseteq published /\ taken \subseteq taken'
          /\ taken' \cap Unroutable \subseteq returns' \cup returned
      BY <1>9, <2>2, <3>1 DEF BrokerAck, BrokerNack, Taking
    <3> QED
      BY <1>9, <2>2, <3>1, <3>4, <3>5, <3>6, <3>7, <3>8 DEF BrokerAck, BrokerNack
  <2> QED
    BY <2>1, <2>2
<1>10. CASE ChannelCloses \/ Cancel
  BY <1>10 DEF ChannelCloses, Cancel
<1>11. CASE UNCHANGED vars
  BY <1>11 DEF vars
<1> QED
  BY <1>1, <1>2, <1>3, <1>4, <1>5, <1>6, <1>7, <1>8, <1>9, <1>10, <1>11
  DEF Next, Publishing, Waiting, Environment

(* Whatever the order of publications, answers, reads, timeouts,           *)
(* cancellations and closures.                                             *)
THEOREM RunInvariant == Spec => []IInv
BY InvInit, InvNext, PTL DEF Spec

(* Every task of a batch is reported, and once.                            *)
THEOREM ResultPartitionsBatchHolds == Spec => []ResultPartitionsBatch
BY RunInvariant, PTL DEF IInv

(* Successes are messages the broker took during the run.                  *)
THEOREM SuccessWasTakenHolds == Spec => []SuccessWasTaken
BY RunInvariant, PTL DEF IInv

(* Reading an ack before the return that preceded it does no harm.         *)
THEOREM ReturnsAreFailuresHolds == Spec => []ReturnsAreFailures
BY RunInvariant, PTL DEF IInv

(* No confirm or return of one run is left for the next.                   *)
THEOREM CleanHandOverHolds == Spec => []CleanHandOver
BY RunInvariant, PTL DEF IInv

-----------------------------------------------------------------------------
(* The contract of the port.                                               *)

LEMMA ContractInit == Init => Port!Init
BY DEF Init, Port!Init

LEMMA ContractNext == IInv /\ [Next]_vars => [Port!Next]_(Port!vars)
<1> SUFFICES ASSUME IInv, [Next]_vars PROVE [Port!Next]_(Port!vars)
  OBVIOUS
<1>0. TypeOK /\ TypeOK'
  BY TypeNext DEF IInv
<1> USE <1>0 DEF Port!Next, Port!vars, TypeOK
<1>1. ASSUME NEW T \in SUBSET Tasks, Borrow(T) PROVE Port!Run(T)
  BY <1>1 DEF Borrow, Port!Run
<1>2. ASSUME NEW T \in SUBSET Tasks, BorrowFails(T) PROVE Port!Refuse(T)
  BY <1>2 DEF BorrowFails, Port!Refuse
<1>3. CASE Publishing
  BY <1>3 DEF Publishing, PublishTask, PublishFails, LoopEnds
<1>4. CASE GiveUp \/ AllAnswered
  <2>1. IInv' /\ success' \subseteq Tasks
    BY InvNext
  <2>2. success' \subseteq taken
    BY <1>4, <2>1 DEF IInv, SuccessWasTaken, GiveUp, AllAnswered
  <2>3. success' \cap Unroutable = {} \/ success' # batch
    <3>1. CASE GiveUp
      <4>1. PICK t \in unresolved : t \in batch \ success
        BY <3>1 DEF GiveUp, IInv, ResultInOrder
      <4> QED
        BY <3>1, <4>1 DEF GiveUp, Finish
    <3>2. CASE AllAnswered
      <4> DEFINE late == IF published = {} THEN {} ELSE returns
      <4>1. stage = "waiting" /\ success' = success \ (returned \cup late)
        BY <3>2 DEF AllAnswered, Finish
      <4>2. taken \cap Unroutable \subseteq returned \cup late
        <5>1. taken \subseteq published /\ taken \cap Unroutable \subseteq returns \cup returned
          BY <4>1 DEF IInv, ChannelInOrder
        <5> QED
          BY <5>1
      <4>3. success \subseteq taken
        BY DEF IInv, SuccessWasTaken
      <4> HIDE DEF late
      <4> QED
        BY <4>1, <4>2, <4>3
    <3> QED
      BY <1>4, <3>1, <3>2
  <2>4. Port!Report(success')
    BY <1>4, <2>2, <2>3 DEF Port!Report, GiveUp, AllAnswered, Finish
  <2> QED
    BY <2>1, <2>4
<1>5. ASSUME NEW t \in returns, ReadReturn(t) PROVE UNCHANGED Port!vars
  BY <1>5 DEF ReadReturn
<1>6. ASSUME NEW c \in confirms, ReadConfirm(c) PROVE UNCHANGED Port!vars
  BY <1>6 DEF ReadConfirm
<1>7. ASSUME NEW m \in written, BrokerAck(m) \/ BrokerNack(m) PROVE [Port!Next]_(Port!vars)
  <2>1. CASE taken' = taken
    BY <1>7, <2>1 DEF BrokerAck, BrokerNack
  <2>2. CASE taken' # taken
    <3>1. /\ m.task \in batch \ taken /\ taken' = taken \cup {m.task} /\ ~Reported
      <4>1. taken' = taken \cup {m.task} /\ ~Reported
        BY <1>7, <2>2 DEF BrokerAck, BrokerNack, Taking
      <4>2. m.task \in unresolved
        BY <4>1 DEF IInv, ChannelInOrder
      <4>3. unresolved \subseteq batch
        BY <4>1 DEF IInv, ResultInOrder
      <4>4. m.task \notin taken
        BY <2>2, <4>1
      <4> QED
        BY <4>1, <4>2, <4>3, <4>4
    <3>2. Port!Take(m.task)
      BY <1>7, <3>1 DEF Port!Take, BrokerAck, BrokerNack
    <3> QED
      BY <3>1, <3>2
  <2> QED
    BY <2>1, <2>2
<1>8. CASE ChannelCloses \/ Cancel
  BY <1>8 DEF ChannelCloses, Cancel
<1>9. CASE UNCHANGED vars
  BY <1>9 DEF vars
<1> QED
  BY <1>1, <1>2, <1>3, <1>4, <1>5, <1>6, <1>7, <1>8, <1>9 DEF Next, Waiting, Environment

(* BatchRun reports what Dispatch relies on.                               *)
THEOREM KeepsContractHolds == Spec => KeepsContract
BY RunInvariant, ContractInit, ContractNext, PTL DEF Spec, KeepsContract, Port!Spec

-----------------------------------------------------------------------------
(* A run comes to its end.                                                 *)

(* What may still happen in a run: the writes to come, the answers and the *)
(* confirms and returns to be read, the end of the publishing loop, of the *)
(* context and of the AMQP channel.                                        *)
Unwritten == IF stage = "publishing" THEN todo ELSE {}
Unanswered == Unwritten \cup {m.task : m \in written}
Unconfirmed == Unanswered \cup {c.tag.task : c \in confirms}
Unreturned == Unanswered \cup returns
Ends == {s \in {"publishing"} : stage = s} \cup {s \in {"live"} : ctx = s}
           \cup {s \in {"open"} : amqp = s}
Coming == <<Unwritten, Unanswered, Unconfirmed, Unreturned, Ends>>

Shrinks ==
    /\ Unwritten' \subseteq Unwritten /\ Unanswered' \subseteq Unanswered
    /\ Unconfirmed' \subseteq Unconfirmed /\ Unreturned' \subseteq Unreturned
    /\ Ends' \subseteq Ends
    /\ Coming' # Coming

(* Every step of a run, of the broker or of the caller leaves less to come *)
(* of that run.                                                            *)
RunProceeds == [][~Reported /\ ~Reported' => Shrinks]_vars

(* A message that was taken is answered.                                   *)
TakenAnswered == ~Reported => \A m \in written : m.task \notin taken

LEMMA TakenNext == IInv /\ TakenAnswered /\ [Next]_vars => TakenAnswered'
<1> SUFFICES ASSUME IInv, TakenAnswered, [Next]_vars PROVE TakenAnswered'
  OBVIOUS
<1> USE DEF TakenAnswered
<1>1. ASSUME NEW T \in SUBSET Tasks, Borrow(T) \/ BorrowFails(T) PROVE TakenAnswered'
  BY <1>1 DEF Borrow, BorrowFails
<1>2. ASSUME NEW t \in todo, PublishTask(t) PROVE TakenAnswered'
  <2>1. t \notin taken
    BY <1>2 DEF PublishTask, IInv, ResultInOrder, ChannelInOrder
  <2> QED
    BY <1>2, <2>1 DEF PublishTask, Tag
<1>3. CASE PublishFails \/ LoopEnds
  BY <1>3 DEF PublishFails, LoopEnds
<1>4. CASE GiveUp \/ AllAnswered
  BY <1>4 DEF GiveUp, AllAnswered, Finish
<1>5. CASE \/ \E t \in returns : ReadReturn(t)
           \/ \E c \in confirms : ReadConfirm(c)
  BY <1>5 DEF ReadReturn, ReadConfirm
<1>6. ASSUME NEW m \in written, BrokerAck(m) \/ BrokerNack(m), ~Reported'
      PROVE  TakenAnswered'
  <2>1. ~Reported /\ taken' \subseteq taken \cup {m.task} /\ written' = written \ {m}
    BY <1>6 DEF BrokerAck, BrokerNack, Taking
  <2>2. \A n \in written : n.run = run /\ n \in Tags
    BY <2>1 DEF IInv, TypeOK, ChannelInOrder
  <2>3. \A n \in written' : n.task # m.task
    BY <2>1, <2>2 DEF Tags
  <2> QED
    BY <2>1, <2>3
<1>7. CASE ChannelCloses \/ Cancel
  BY <1>7 DEF ChannelCloses, Cancel
<1>8. CASE UNCHANGED vars
  BY <1>8 DEF vars
<1> QED
  BY <1>1, <1>2, <1>3, <1>4, <1>5, <1>6, <1>7, <1>8
  DEF Next, Publishing, Waiting, Environment

LEMMA StepShrinks ==
    ASSUME IInv, TakenAnswered, Next, ~Reported, ~Reported'
    PROVE  Shrinks
<1> USE DEF Shrinks, Coming, Unwritten, Unanswered, Unconfirmed, Unreturned, Ends
<1>0. /\ \A m \in written : m.run = run /\ m.task \in published /\ m \in Tags
      /\ \A c \in confirms : c.tag.run = run /\ c.tag.task \in published
      /\ \A m \in written, c \in confirms : m.task # c.tag.task
      /\ \A c, d \in confirms : c.tag.task = d.tag.task => c = d
      /\ \A m \in written : m.task \notin taken
      /\ returns \subseteq taken /\ taken \subseteq published
      /\ todo \cap published = {}
  BY DEF IInv, TypeOK, ResultInOrder, ChannelInOrder, TakenAnswered
<1>1. ASSUME NEW t \in todo, PublishTask(t) PROVE Shrinks
  <2>1. /\ stage = "publishing" /\ todo' = todo \ {t} /\ written' = written \cup {Tag(t)}
        /\ UNCHANGED <<stage, ctx, amqp, confirms, returns>>
    BY <1>1 DEF PublishTask
  <2>2. {m.task : m \in written'} = {m.task : m \in written} \cup {t}
    <3>1. Tag(t).task = t
      BY DEF Tag
    <3> QED
      BY <2>1, <3>1
  <2>3. Unwritten' \subseteq Unwritten /\ Unwritten' # Unwritten
    BY <2>1
  <2>4. Unanswered' \subseteq Unanswered
    BY <2>1, <2>2
  <2> QED
    BY <2>1, <2>3, <2>4
<1>2. CASE PublishFails \/ LoopEnds
  <2>1. /\ stage = "publishing" /\ stage' = "waiting"
        /\ UNCHANGED <<todo, written, ctx, amqp, confirms, returns>>
    BY <1>2 DEF PublishFails, LoopEnds
  <2>2. Ends' \subseteq Ends /\ Ends' # Ends
    BY <2>1
  <2> QED
    BY <2>1, <2>2
<1>3. ASSUME NEW t \in returns, ReadReturn(t) PROVE Shrinks
  <2>1. /\ stage = "waiting" /\ returns' = returns \ {t}
        /\ UNCHANGED <<stage, todo, written, ctx, amqp, confirms>>
    BY <1>3 DEF ReadReturn
  <2>2. t \in Unreturned /\ t \notin Unreturned'
    BY <1>0, <2>1
  <2> QED
    BY <2>1, <2>2
<1>4. ASSUME NEW c \in confirms, ReadConfirm(c) PROVE Shrinks
  <2>1. /\ stage = "waiting" /\ confirms' = confirms \ {c}
        /\ UNCHANGED <<stage, todo, written, ctx, amqp, returns>>
    BY <1>4 DEF ReadConfirm
  <2>2. c.tag.task \in Unconfirmed /\ c.tag.task \notin Unconfirmed'
    BY <1>0, <2>1
  <2> QED
    BY <2>1, <2>2
<1>5. ASSUME NEW m \in written, BrokerAck(m) \/ BrokerNack(m) PROVE Shrinks
  <2>1. PICK a \in {"ack", "nack"} : confirms' = confirms \cup {[tag |-> m, answer |-> a]}
    BY <1>5 DEF BrokerAck, BrokerNack
  <2>2. /\ written' = written \ {m} /\ returns' \subseteq returns \cup {m.task}
        /\ UNCHANGED <<stage, todo, ctx, amqp>>
    BY <1>5 DEF BrokerAck, BrokerNack
  <2>3. \A n \in written' : n.task # m.task
    BY <1>0, <2>2 DEF Tags
  <2>4. m.task \in Unanswered /\ m.task \notin Unanswered'
    BY <1>0, <2>2, <2>3
  <2>5. Unanswered' \subseteq Unanswered /\ Unwritten' = Unwritten /\ Ends' = Ends
    BY <2>2
  <2>6. {c.tag.task : c \in confirms'} = {c.tag.task : c \in confirms} \cup {m.task}
    <3> DEFINE new == [tag |-> m, answer |-> a]
    <3>1. new.tag.task = m.task /\ confirms' = confirms \cup {new}
      BY <2>1
    <3> HIDE DEF new
    <3> QED
      BY <3>1
  <2>7. Unconfirmed' \subseteq Unconfirmed
    BY <2>4, <2>5, <2>6
  <2>8. Unreturned' \subseteq Unreturned
    BY <2>2, <2>4, <2>5
  <2> QED
    BY <2>4, <2>5, <2>7, <2>8
<1>6. CASE ChannelCloses \/ Cancel
  <2>1. /\ UNCHANGED <<stage, todo, written, confirms, returns>>
        /\ \/ ctx = "live" /\ ctx' = "done" /\ amqp' = amqp
           \/ amqp = "open" /\ amqp' = "closed" /\ ctx' = ctx
    BY <1>6 DEF ChannelCloses, Cancel
  <2>2. Ends' \subseteq Ends /\ Ends' # Ends
    BY <2>1
  <2> QED
    BY <2>1, <2>2
<1>7. CASE GiveUp \/ AllAnswered
  BY <1>7 DEF GiveUp, AllAnswered, Finish
<1>8. ASSUME NEW T \in SUBSET Tasks, Borrow(T) \/ BorrowFails(T) PROVE FALSE
  BY <1>8 DEF Borrow, BorrowFails
<1> QED
  BY <1>1, <1>2, <1>3, <1>4, <1>5, <1>6, <1>7, <1>8
  DEF Next, Publishing, Waiting, Environment

(* A run of BatchRun (of a finite batch) takes a bounded number of steps,  *)
(* whatever the broker, the caller and the two AMQP streams do in whatever *)
(* order: nothing comes into a run that was not to come when it began.     *)
THEOREM RunProceedsHolds == Spec => RunProceeds
<1>1. Init => TakenAnswered
  BY DEF Init, TakenAnswered
<1>2. IInv /\ TakenAnswered /\ [Next]_vars =>
        (UNCHANGED vars \/ (~Reported /\ ~Reported' => Shrinks))
  BY StepShrinks
<1> QED
  BY <1>1, <1>2, InvInit, InvNext, TakenNext, PTL DEF Spec, RunProceeds
=============================================================================
