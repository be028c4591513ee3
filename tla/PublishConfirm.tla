---------------------------- MODULE PublishConfirm ----------------------------
(***************************************************************************)
(* One pooled RabbitMQ channel and the BatchRuns that use it in turn:      *)
(* publish the tasks of a batch, then collect publisher confirms and       *)
(* returned messages, which the AMQP library delivers on two channels that *)
(* the select of waitConfirms reads in any order, until every message is   *)
(* answered, the confirm timeout or the caller's context runs out, or the  *)
(* AMQP channel closes.                                                    *)
(*                                                                         *)
(* A delivery tag is named by the run and the task it was drawn for: tags  *)
(* grow while an AMQP channel lives and so are not confused between the    *)
(* runs that share it.  A returned message only carries its task.          *)
(***************************************************************************)
EXTENDS Naturals

CONSTANTS
    Tasks,
    Unroutable,     \* the tasks whose version has no queue bound
    MaxRuns         \* bound: how many runs a behaviour has

ASSUME TasksAssumption == Unroutable \subseteq Tasks
ASSUME RunsAssumption == MaxRuns \in Nat

VARIABLES
    run,            \* the number of the current run, 0 before the first
    stage,          \* of that run; "idle" after it
    batch,          \* its tasks
    todo,           \* those the publishing loop has not reached
    published,      \* those written to the AMQP channel: publishedIDs
    unresolved,     \* those of them without a confirm: seq2id
    returned,       \* those waitConfirms has seen a return of
    success, failed,\* the partitions of the result
    ctx,            \* the caller's context: "live" or "done"
    pooled,         \* the pooledChannel: "usable", or "broken" and not to be
                    \* used again
    amqp,           \* the AMQP channel: "open" or "closed"
    written,        \* the tags of messages the broker has not answered
    taken,          \* the tasks of the run the broker has taken
    confirms,       \* the confirms delivered and not read
    returns         \* the returns delivered and not read

result == <<success, failed>>
loop == <<run, batch, todo, published>>
channel == <<amqp, written, confirms, returns>>
vars == <<loop, stage, unresolved, returned, result, ctx, pooled, channel, taken>>

Runs == 1..MaxRuns
Tags == [run : Runs, task : Tasks]
Confirmations == [tag : Tags, answer : {"ack", "nack"}]
Tag(t) == [run |-> run, task |-> t]

TypeOK ==
    /\ run \in 0..MaxRuns
    /\ stage \in {"idle", "publishing", "waiting"}
    /\ batch \in SUBSET Tasks
    /\ todo \in SUBSET Tasks
    /\ published \in SUBSET Tasks
    /\ unresolved \in SUBSET Tasks
    /\ returned \in SUBSET Tasks
    /\ success \in SUBSET Tasks
    /\ failed \in SUBSET Tasks
    /\ ctx \in {"live", "done"}
    /\ pooled \in {"usable", "broken"}
    /\ amqp \in {"open", "closed"}
    /\ written \in SUBSET Tags
    /\ taken \in SUBSET Tasks
    /\ confirms \in SUBSET Confirmations
    /\ returns \in SUBSET Tasks

Init ==
    /\ run = 0
    /\ stage = "idle"
    /\ batch = {} /\ todo = {} /\ published = {}
    /\ unresolved = {} /\ returned = {} /\ success = {} /\ failed = {}
    /\ ctx = "live" /\ pooled = "usable" /\ amqp = "open"
    /\ written = {} /\ taken = {} /\ confirms = {} /\ returns = {}

-----------------------------------------------------------------------------
(* Borrowing the channel.                                                  *)

(* A run of batch T borrows the channel; release has replaced a broken one *)
(* by a fresh one.                                                         *)
Borrow(T) ==
    /\ stage = "idle"
    /\ run < MaxRuns
    /\ T # {}
    /\ run' = run + 1
    /\ stage' = "publishing"
    /\ batch' = T /\ todo' = T /\ published' = {}
    /\ unresolved' = {} /\ returned' = {} /\ success' = {} /\ failed' = {}
    /\ ctx' = "live" /\ pooled' = "usable"
    /\ taken' = {}
    /\ IF pooled = "broken"
       THEN amqp' = "open" /\ written' = {} /\ confirms' = {} /\ returns' = {}
       ELSE UNCHANGED channel

(* No channel can be borrowed in time: failedAll.                          *)
BorrowFails(T) ==
    /\ stage = "idle"
    /\ run < MaxRuns
    /\ T # {}
    /\ run' = run + 1
    /\ batch' = T /\ todo' = T /\ published' = {}
    /\ unresolved' = {} /\ returned' = {} /\ success' = {} /\ failed' = T
    /\ ctx' \in {"live", "done"}
    /\ taken' = {}
    /\ UNCHANGED <<stage, pooled, channel>>

-----------------------------------------------------------------------------
(* The publishing loop of BatchRun.                                        *)

(* The next task is written to the AMQP channel, mandatory and persistent. *)
PublishTask(t) ==
    /\ stage = "publishing"
    /\ ctx = "live"
    /\ amqp = "open"
    /\ t \in todo
    /\ todo' = todo \ {t}
    /\ published' = published \cup {t}
    /\ unresolved' = unresolved \cup {t}
    /\ written' = written \cup {Tag(t)}
    /\ UNCHANGED <<run, batch, stage, returned, result, ctx, pooled,
                   amqp, confirms, returns, taken>>

(* Writing fails; the remaining tasks are not tried.                       *)
PublishFails ==
    /\ stage = "publishing"
    /\ ctx = "live"
    /\ todo # {}
    /\ stage' = "waiting"
    /\ pooled' = "broken"
    /\ UNCHANGED <<loop, unresolved, returned, result, ctx, channel, taken>>

(* The loop ends, early if the context is done.                            *)
LoopEnds ==
    /\ stage = "publishing"
    /\ ctx = "done" \/ todo = {}
    /\ stage' = "waiting"
    /\ UNCHANGED <<loop, unresolved, returned, result, ctx, pooled, channel, taken>>

-----------------------------------------------------------------------------
(* waitConfirms: the cases of its select.                                  *)

Unpublished == batch \ published

(* BatchRun gives the result back with success S; every other task of the  *)
(* batch, published or not, is a failure.                                  *)
Finish(S, F) ==
    /\ stage' = "idle"
    /\ success' = S
    /\ failed' = F \cup Unpublished
    /\ unresolved' = {}

GiveUpUnbroken ==   \* mutant: the channel is used again after a timeout
    /\ stage = "waiting"
    /\ unresolved # {}
    /\ Finish(success, failed \cup unresolved)
    /\ UNCHANGED <<loop, returned, ctx, pooled, channel, taken>>
GiveUpHopeful ==    \* mutant: what is not answered is not reported at all
    /\ stage = "waiting"
    /\ unresolved # {}
    /\ Finish(success, failed)
    /\ pooled' = "broken"
    /\ UNCHANGED <<loop, returned, ctx, channel, taken>>
GiveUpOnClose ==    \* mutant: no confirm timeout
    /\ stage = "waiting"
    /\ unresolved # {}
    /\ ctx = "done" \/ amqp = "closed"
    /\ Finish(success, failed \cup unresolved)
    /\ pooled' = "broken"
    /\ UNCHANGED <<loop, returned, ctx, channel, taken>>

(* The context is done, the timer fires (it may at any time), the AMQP     *)
(* channel or its stream of confirms is closed: what is unresolved has     *)
(* failed, and returns not read yet are ignored.                           *)
GiveUp ==
    /\ stage = "waiting"
    /\ unresolved # {}
    /\ Finish(success, failed \cup unresolved)
    /\ pooled' = "broken"
    /\ UNCHANGED <<loop, returned, ctx, channel, taken>>

ReadReturn(t) ==
    /\ stage = "waiting"
    /\ unresolved # {}
    /\ t \in returns
    /\ returns' = returns \ {t}
    /\ returned' = returned \cup {t}
    /\ UNCHANGED <<loop, stage, unresolved, result, ctx, pooled,
                   amqp, written, confirms, taken>>

ReadNackAsAck(c) ==   \* mutant: any confirm is a success
    /\ stage = "waiting"
    /\ unresolved # {}
    /\ c \in confirms
    /\ confirms' = confirms \ {c}
    /\ unresolved' = unresolved \ {c.tag.task}
    /\ success' = success \cup {c.tag.task}
    /\ UNCHANGED <<loop, stage, failed, returned, ctx, pooled, amqp, written, returns, taken>>

(* A confirm resolves its task; one that is left from an earlier run is    *)
(* skipped.                                                                *)
ReadConfirm(c) ==
    /\ stage = "waiting"
    /\ unresolved # {}
    /\ c \in confirms
    /\ confirms' = confirms \ {c}
    /\ LET t == c.tag.task
           ours == c.tag.run = run /\ t \in unresolved
           good == c.answer = "ack" /\ t \notin returned
       IN  /\ unresolved' = IF ours THEN unresolved \ {t} ELSE unresolved
           /\ success' = IF ours /\ good THEN success \cup {t} ELSE success
           /\ failed' = IF ours /\ ~good THEN failed \cup {t} ELSE failed
    /\ UNCHANGED <<loop, stage, returned, ctx, pooled,
                   amqp, written, returns, taken>>

AllAnsweredUndrained ==   \* mutant: returns are not drained at the end
    /\ stage = "waiting"
    /\ unresolved = {}
    /\ Finish(success \ returned, failed \cup (success \cap returned))
    /\ UNCHANGED <<loop, returned, ctx, pooled, channel, taken>>

(* Every message is answered.  A message is returned before it is          *)
(* acknowledged, so its return has been delivered by now, but the ack may  *)
(* have been read first: the remaining returns are read, and returned      *)
(* messages moved from the successes to the failures.  A run that          *)
(* published nothing does not look at the channel.                         *)
AllAnswered ==
    LET late == IF published = {} THEN {} ELSE returns
        back == returned \cup late
    IN  /\ stage = "waiting"
        /\ unresolved = {}
        /\ Finish(success \ back, failed \cup (success \cap back))
        /\ returned' = back
        /\ returns' = returns \ late
        /\ UNCHANGED <<loop, ctx, pooled, amqp, written, confirms, taken>>

-----------------------------------------------------------------------------
(* The environment.                                                        *)

(* What an answer to tag m says of the run in progress.  What the broker   *)
(* does with a message after its run is over is nobody's business here.    *)
Taking(m) ==
    taken' = IF m.run = run /\ stage # "idle" THEN taken \cup {m.task} ELSE taken

(* External: the broker queues the message, or returns it when no queue is *)
(* bound for its version, and acknowledges it in both cases.               *)
BrokerAck(m) ==
    /\ amqp = "open"
    /\ m \in written
    /\ written' = written \ {m}
    /\ Taking(m)
    /\ returns' = IF m.task \in Unroutable THEN returns \cup {m.task} ELSE returns
    /\ confirms' = confirms \cup {[tag |-> m, answer |-> "ack"]}
    /\ UNCHANGED <<loop, stage, unresolved, returned, result, ctx, pooled, amqp>>

(* External: the broker refuses the message.                               *)
BrokerNack(m) ==
    /\ amqp = "open"
    /\ m \in written
    /\ written' = written \ {m}
    /\ confirms' = confirms \cup {[tag |-> m, answer |-> "nack"]}
    /\ UNCHANGED <<loop, stage, unresolved, returned, result, ctx, pooled,
                   amqp, returns, taken>>

(* External: the AMQP channel or its connection closes; what has been      *)
(* delivered can still be read.                                            *)
ChannelCloses ==
    /\ amqp = "open"
    /\ amqp' = "closed"
    /\ UNCHANGED <<loop, stage, unresolved, returned, result, ctx, pooled,
                   written, confirms, returns, taken>>

(* The caller goes away or its deadline passes.                            *)
Cancel ==
    /\ stage # "idle"
    /\ ctx = "live"
    /\ ctx' = "done"
    /\ UNCHANGED <<loop, stage, unresolved, returned, result, pooled, channel, taken>>

-----------------------------------------------------------------------------
Publishing == (\E t \in todo : PublishTask(t)) \/ PublishFails \/ LoopEnds

Waiting ==
    \/ GiveUp \/ AllAnswered
    \/ \E t \in returns : ReadReturn(t)
    \/ \E c \in confirms : ReadConfirm(c)

Environment ==
    \/ \E m \in written : BrokerAck(m) \/ BrokerNack(m)
    \/ ChannelCloses \/ Cancel

Next ==
    \/ \E T \in SUBSET Tasks : Borrow(T) \/ BorrowFails(T)
    \/ Publishing
    \/ Waiting
    \/ Environment

Spec == Init /\ [][Next]_vars

(* The loop makes progress and the confirm timer fires.  The broker and    *)
(* the select promise nothing.                                             *)
FairSpec ==
    /\ Spec
    /\ WF_vars(Publishing)
    /\ WF_vars(GiveUp \/ AllAnswered)

-----------------------------------------------------------------------------
(* Properties.                                                             *)

Reported == stage = "idle"

(* The result partitions the batch, however the run ended: no task is      *)
(* missing, none is both a success and a failure.                          *)
ResultPartitionsBatch ==
    Reported => success \cup failed = batch /\ success \cap failed = {}

(* A success is a message of this very run that the broker has taken: not  *)
(* one it refused, and not one a confirm of an earlier run stands for.     *)
SuccessWasTaken == success \subseteq taken

(* A run whose messages were all answered reports no unroutable message as *)
(* a success, whichever of return and ack the select read first.           *)
ReturnsAreFailures == Reported /\ pooled = "usable" => success \cap Unroutable = {}

(* A channel that is handed to the next run carries nothing of the last.   *)
CleanHandOver == Reported /\ pooled = "usable" => written = {} /\ confirms = {} /\ returns = {}

(* BatchRun returns, also when the broker never answers.                   *)
RunReturns == ~Reported ~> Reported

-----------------------------------------------------------------------------
(* Why they hold: the parts of the inductive invariant that                *)
(* PublishConfirmProofs proves.                                            *)

(* During a run the published tasks are the unresolved ones, the successes *)
(* and the failures.                                                       *)
ResultInOrder ==
    /\ published \subseteq batch
    /\ ~Reported =>
        /\ run # 0
        /\ unresolved \cup success \cup failed = published
        /\ success \cap failed = {}
        /\ unresolved \cap (success \cup failed) = {}
        /\ todo \cap published = {} /\ todo \subseteq batch
        /\ (stage = "publishing" => success = {} /\ failed = {} /\ returned = {})

(* A channel in use carries only messages of this run that are unresolved, *)
(* and each in one place; an unroutable one that was taken is returned.    *)
ChannelInOrder ==
    ~Reported =>
        /\ \A m \in written : m.run = run /\ m.task \in unresolved
        /\ \A c \in confirms : c.tag.run = run /\ c.tag.task \in unresolved
        /\ \A c, d \in confirms : c.tag.task = d.tag.task => c = d
        /\ \A m \in written, c \in confirms : m.task # c.tag.task
        /\ \A c \in confirms : c.answer = "ack" => c.tag.task \in taken
        /\ returns \subseteq taken /\ taken \subseteq published
        /\ taken \cap Unroutable \subseteq returns \cup returned

IInv ==
    /\ TypeOK
    /\ ResultPartitionsBatch
    /\ SuccessWasTaken
    /\ ReturnsAreFailures
    /\ CleanHandOver
    /\ ResultInOrder
    /\ ChannelInOrder

-----------------------------------------------------------------------------
(* Refinement.                                                             *)

Port == INSTANCE BatchRunPort WITH
    unroutable <- Unroutable,
    ok <- IF Reported THEN success ELSE {},
    phase <- IF Reported THEN "reported" ELSE "running"

(* Publishing and confirming keep the contract Dispatch is built on, for a *)
(* borrowed channel.                                                       *)
KeepsContract == Port!Spec

-----------------------------------------------------------------------------
(* "mandatory: an unroutable message is a dispatch failure": the returns   *)
(* are ignored by a run that gives up.                                     *)
UnroutableIsFailure == Reported => success \cap Unroutable = {}
=============================================================================
