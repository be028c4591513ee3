------------------------------- MODULE Dispatch -------------------------------
(***************************************************************************)
(* The reliable dispatch of test cases: calls of the fast path (ExecuteCase *)
(* and the chunks of ExecuteAllCases) and the outbox relays of several      *)
(* engine instances, sharing two tables (Repository) and a RabbitMQ broker. *)
(*                                                                          *)
(* A call inserts its rows, publishes what nobody else has taken over and   *)
(* writes the outcome back; a relay leases the rows whose grace, backoff or *)
(* lease has run out, publishes them and settles them.  The database step,  *)
(* each publication, its confirmation and the write-back are separate       *)
(* steps: any two actors may interleave between them, and any actor may     *)
(* crash there.                                                             *)
(*                                                                          *)
(* The port BatchRun is used by its contract BatchRunPort, which            *)
(* PublishConfirm shows its RabbitMQ implementation to keep: some of the    *)
(* messages the broker took are reported as confirmed, all others failed.   *)
(***************************************************************************)
EXTENDS Repository, FiniteSets

CONSTANTS
    Singles,    \* calls of ExecuteCase
    Chunks,     \* chunks of ExecuteAllCases, one call of dispatchOneBatch each
    Relays,     \* OutboxRelay instances
    Work,       \* the keys of a call's request
    Wants,      \* the version a call asks for
    Bound,      \* the versions that have a queue bound at the exchange
    MaxAttempts,\* OutboxRelayConfig.MaxAttempts
    BatchLimit, \* OutboxRelayConfig.BatchSize
    Reports,    \* the statuses executors report through Python Web
    MaxFaults   \* bound: how many crashes, failed write-backs and overrun
                \* leases a behaviour has

Calls == Singles \cup Chunks
Actors == Calls \cup Relays

ASSUME WorkAssumption ==
    /\ Work \in [Calls -> SUBSET Keys]
    /\ Wants \in [Calls -> Versions]
    /\ Bound \subseteq Versions
    /\ Reports \subseteq {"RUNNING", "SUCCESS", "FAILED"}
ASSUME ActorsAssumption == Calls \cap Relays = {} /\ Singles \cap Chunks = {}
ASSUME LimitsAssumption ==
    /\ MaxAttempts \in Nat \ {0}
    /\ BatchLimit \in Nat \ {0}
    /\ MaxFaults \in Nat

VARIABLES
    queue,      \* the keys the broker has queued for executors, once or more
    pc,         \* where each actor is
    batch,      \* the keys an actor publishes: pendingRecords, messages
    sent,       \* those of them written to the broker
    acked,      \* those of them BatchRun reported as successes
    lease,      \* the token a relay got with its batch, NoToken for a call
    reply,      \* the outcome a call reports
    faults      \* faults so far

locals == <<pc, batch, sent, acked, lease, reply>>
vars == <<tables, queue, locals, faults>>

CallStages == {"start", "publishing", "settling", "marking", "done", "down"}
RelayStages == {"idle", "publishing", "settling"}
Errors == {"none", "insert", "version", "illegal", "writeback"}
Outcome(ok, bad, e) == [success |-> ok, failed |-> bad, err |-> e]

TypeOK ==
    /\ TablesTypeOK
    /\ queue \in SUBSET Keys
    /\ pc \in [Actors -> CallStages \cup RelayStages]
    /\ \A c \in Calls : pc[c] \in CallStages
    /\ \A r \in Relays : pc[r] \in RelayStages
    /\ batch \in [Actors -> SUBSET Keys]
    /\ sent \in [Actors -> SUBSET Keys]
    /\ acked \in [Actors -> SUBSET Keys]
    /\ lease \in [Actors -> Tokens \cup {NoToken}]
    /\ reply \in [Calls -> [success : SUBSET Keys, failed : SUBSET Keys, err : Errors]]
    /\ faults \in Nat

Init ==
    /\ TablesInit
    /\ queue = {}
    /\ pc = [a \in Actors |-> IF a \in Relays THEN "idle" ELSE "start"]
    /\ batch = [a \in Actors |-> {}]
    /\ sent = [a \in Actors |-> {}]
    /\ acked = [a \in Actors |-> {}]
    /\ lease = [a \in Actors |-> NoToken]
    /\ reply = [c \in Calls |-> Outcome({}, {}, "none")]
    /\ faults = 0

-----------------------------------------------------------------------------
(* Bookkeeping shared by the actions.                                      *)

(* Actor a goes on with stage p and forgets what it was publishing.        *)
Leave(a, p) ==
    /\ pc' = [pc EXCEPT ![a] = p]
    /\ batch' = [batch EXCEPT ![a] = {}]
    /\ sent' = [sent EXCEPT ![a] = {}]
    /\ acked' = [acked EXCEPT ![a] = {}]
    /\ lease' = [lease EXCEPT ![a] = NoToken]

(* completeBatchResult: what is not a reported success is a failure.       *)
Failed(a) == batch[a] \ acked[a]

(* Call c returns with e, to the replayed outcomes the published ones added. *)
Return(c, e) ==
    /\ Leave(c, "done")
    /\ reply' = [reply EXCEPT ![c] =
           Outcome(@.success \cup acked[c], @.failed \cup Failed(c), e)]

(* A relay's pass ends, a call returns an error.                           *)
GiveUp(a) ==
    IF a \in Relays THEN Leave(a, "idle") /\ UNCHANGED reply
                    ELSE Return(a, "writeback")

Fault == faults < MaxFaults /\ faults' = faults + 1

-----------------------------------------------------------------------------
(* Phase one of a call: a transaction that inserts what is missing, reads  *)
(* the rows back and decides from the outbox what is left to publish.      *)

(* The transaction fails (or validation does): nothing is written.         *)
InsertFails(c) ==
    /\ pc[c] = "start"
    /\ Return(c, "insert")
    /\ UNCHANGED <<tables, queue, faults>>

VersionConflict(c) ==
    \E k \in Work[c] : status[k] # "NONE" /\ version[k] # Wants[c]

(* A key is taken for another version: the call is refused, but after the  *)
(* transaction, so the rows it inserted for its other keys stay.           *)
InsertConflict(c) ==
    /\ pc[c] = "start"
    /\ VersionConflict(c)
    /\ AddRecords(Work[c], Wants[c])
    /\ AddMessages(Work[c])
    /\ Return(c, "version")
    /\ UNCHANGED <<queue, faults>>

(* Rows that are settled or leased are answered from the outbox, the       *)
(* others published.  With nothing to publish ExecuteCase returns, while a *)
(* chunk still runs its (empty) write-back.                                *)
Insert(c) ==
    LET answered(s) == {k \in Work[c] : ReplayStatus(state[k]) = s}
    IN  /\ pc[c] = "start"
        /\ ~VersionConflict(c)
        /\ AddRecords(Work[c], Wants[c])
        /\ AddMessages(Work[c])
        /\ batch' = [batch EXCEPT ![c] = answered("open")]
        /\ reply' = [reply EXCEPT ![c] =
               Outcome(answered("WAIT"), answered("DISPATCH_FAILED"), "none")]
        /\ pc' = [pc EXCEPT ![c] =
               IF answered("open") # {} THEN "publishing"
               ELSE IF c \in Singles THEN "done" ELSE "settling"]
        /\ UNCHANGED <<queue, sent, acked, lease, faults>>

-----------------------------------------------------------------------------
(* A relay pass.                                                           *)

TokensInRows == {token[k] : k \in Keys}  \* mutant: forgets lost leases

TokensInUse == {token[k] : k \in Keys} \cup {lease[r] : r \in Relays}

(* Relay r leases some of the claimable rows: at most a batch, and not     *)
(* those a concurrent claim has locked, hence any part of them.  The token *)
(* is drawn at random and thus one nobody knows; the names of tokens that  *)
(* no row and no relay holds any more are used again.                      *)
Claim(r, S) ==
    LET fresh == CHOOSE t \in Tokens : t \notin TokensInUse
    IN  /\ pc[r] = "idle"
        /\ S # {}
        /\ Cardinality(S) <= BatchLimit
        /\ \E t \in Tokens : t \notin TokensInUse
        /\ ClaimPending(S, fresh)
        /\ pc' = [pc EXCEPT ![r] = "publishing"]
        /\ batch' = [batch EXCEPT ![r] = S]
        /\ lease' = [lease EXCEPT ![r] = fresh]
        /\ UNCHANGED <<records, queue, sent, acked, reply, faults>>

-----------------------------------------------------------------------------
(* Phase two of both: BatchRun.                                            *)

Routable(k) == version[k] \in Bound

(* The broker takes one message of a's batch.  It queues the message if    *)
(* the version is bound and returns it otherwise; both are acknowledged.   *)
(* One it takes only after BatchRun gave up on it is taken earlier here.   *)
Publish(a, k) ==
    /\ pc[a] = "publishing"
    /\ k \in batch[a] \ sent[a]
    /\ sent' = [sent EXCEPT ![a] = @ \cup {k}]
    /\ queue' = IF Routable(k) THEN queue \cup {k} ELSE queue
    /\ UNCHANGED <<tables, pc, batch, acked, lease, reply, faults>>

ConfirmUnanswered(a, ok) ==   \* mutant: messages without an answer are successes
    /\ pc[a] = "publishing"
    /\ acked' = [acked EXCEPT ![a] = batch[a]]
    /\ pc' = [pc EXCEPT ![a] = "settling"]
    /\ UNCHANGED <<tables, queue, batch, sent, lease, reply, faults>>

(* BatchRun returns with ok confirmed.  The others were never written,     *)
(* nacked, returned, or are not confirmed in time.  When every message is  *)
(* answered the returned ones are failures; when BatchRun stops early one  *)
(* whose ack it happened to read before the return is still a success.     *)
Confirm(a, ok) ==
    /\ pc[a] = "publishing"
    /\ ok \subseteq sent[a]
    /\ (\A k \in ok : Routable(k)) \/ ok # batch[a]
    /\ acked' = [acked EXCEPT ![a] = ok]
    /\ pc' = [pc EXCEPT ![a] = "settling"]
    /\ UNCHANGED <<tables, queue, batch, sent, lease, reply, faults>>

-----------------------------------------------------------------------------
(* Phase three of both: one transaction for records and outbox rows.       *)

(* A single call whose publication failed reads its record first, and      *)
(* gives up with an error, leaving both rows alone, if an executor has     *)
(* already moved it.                                                       *)
FailedSingle(c) == c \in Singles /\ acked[c] = {}

FindByID(c) ==
    /\ pc[c] = "settling"
    /\ FailedSingle(c)
    /\ \/ /\ \A k \in batch[c] : CanTransitTo(status[k], "DISPATCH_FAILED")
          /\ pc' = [pc EXCEPT ![c] = "marking"]
          /\ UNCHANGED <<batch, sent, acked, lease, reply>>
       \/ /\ \E k \in batch[c] : ~CanTransitTo(status[k], "DISPATCH_FAILED")
          /\ Return(c, "illegal")
    /\ UNCHANGED <<tables, queue, faults>>

Settling(a) == pc[a] = IF FailedSingle(a) THEN "marking" ELSE "settling"

(* A call settles its own rows, as long as no relay has leased them: the   *)
(* confirmed ones are published, all others dead and dispatch-failed.      *)
CallWriteBack(c) ==
    /\ Settling(c)
    /\ BatchUpdateStatus(Failed(c))
    /\ UpdateOutbox(acked[c], Failed(c), {}, NoToken)
    /\ Return(c, "none")
    /\ UNCHANGED <<version, queue, faults>>

RelayWriteBackOnceMore(r) ==   \* mutant: off by one at MaxAttempts
    LET retry == {k \in Failed(r) : attempts[k] <= MaxAttempts}
    IN  /\ Settling(r)
        /\ BatchUpdateStatus(Failed(r) \ retry)
        /\ UpdateOutbox(acked[r], Failed(r) \ retry, retry, lease[r])
        /\ Leave(r, "idle")
        /\ UNCHANGED <<version, queue, reply, faults>>

(* A relay settles the rows it leased; a failure goes back to PENDING with *)
(* a backoff until the row has been claimed MaxAttempts times.             *)
RelayWriteBack(r) ==
    LET retry == {k \in Failed(r) : attempts[k] < MaxAttempts}
        dead == Failed(r) \ retry
    IN  /\ Settling(r)
        /\ BatchUpdateStatus(dead)
        /\ UpdateOutbox(acked[r], dead, retry, lease[r])
        /\ Leave(r, "idle")
        /\ UNCHANGED <<version, queue, reply, faults>>

RollBackOutboxOnly(a) ==   \* mutant: the records are written outside the transaction
    /\ Settling(a)
    /\ \E k \in batch[a] : ~Matches(k, lease[a])
    /\ BatchUpdateStatus(Failed(a))
    /\ GiveUp(a)
    /\ UNCHANGED <<version, outbox, queue, faults>>
RollBackSilently(a) ==   \* mutant: the lost write-back is not reported
    /\ Settling(a)
    /\ \E k \in batch[a] : ~Matches(k, lease[a])
    /\ IF a \in Relays THEN Leave(a, "idle") /\ UNCHANGED reply ELSE Return(a, "none")
    /\ UNCHANGED <<tables, queue, faults>>
RollBackOfRelays(a) ==   \* mutant: a call tries again until its rows match
    /\ a \in Relays
    /\ Settling(a)
    /\ \E k \in batch[a] : ~Matches(k, lease[a])
    /\ GiveUp(a)
    /\ UNCHANGED <<tables, queue, faults>>

(* One row of the batch was settled or leased by somebody else: the whole  *)
(* transaction rolls back.                                                 *)
RollBack(a) ==
    /\ Settling(a)
    /\ \E k \in batch[a] : ~Matches(k, lease[a])
    /\ GiveUp(a)
    /\ UNCHANGED <<tables, queue, faults>>

(* The database fails, or the context of the transaction runs out.         *)
FailWriteBack(a) ==
    /\ pc[a] \in {"settling", "marking"}
    /\ Fault
    /\ GiveUp(a)
    /\ UNCHANGED <<tables, queue>>

-----------------------------------------------------------------------------
(* The environment: time, crashes and the executors.                       *)

Held(k) == state[k] = "PROCESSING" /\ \E r \in Relays : lease[r] = token[k]

(* A grace, a backoff or the lease of a relay that is gone runs out.       *)
Elapse(k) ==
    /\ ~Held(k)
    /\ Pass(k)
    /\ UNCHANGED <<records, queue, locals, faults>>

(* A lease runs out while its holder is still publishing.                  *)
Overrun(k) ==
    /\ Held(k)
    /\ Fault
    /\ Pass(k)
    /\ UNCHANGED <<records, queue, locals>>

(* The engine instance of actor a crashes.  A relay starts over when it    *)
(* comes up, the client of a call gets no answer.                          *)
Crash(a) ==
    /\ pc[a] \in {"publishing", "settling", "marking"}
    /\ Fault
    /\ Leave(a, IF a \in Relays THEN "idle" ELSE "down")
    /\ UNCHANGED <<tables, queue, reply>>

(* External: an executor that took the message of key k reports progress,  *)
(* and Python Web moves the record along the same state machine.           *)
Callback(k, s) ==
    /\ k \in queue
    /\ CanTransitTo(status[k], s)
    /\ status' = [status EXCEPT ![k] = s]
    /\ UNCHANGED <<version, outbox, queue, locals, faults>>

-----------------------------------------------------------------------------
BatchRun(a) ==
    \/ \E k \in batch[a] : Publish(a, k)
    \/ \E ok \in SUBSET sent[a] : Confirm(a, ok)

CallStep(c) ==
    \/ InsertFails(c) \/ InsertConflict(c) \/ Insert(c)
    \/ BatchRun(c)
    \/ FindByID(c) \/ CallWriteBack(c) \/ RollBack(c) \/ FailWriteBack(c)

RelayStep(r) ==
    \/ \E S \in SUBSET Claimable : Claim(r, S)
    \/ BatchRun(r)
    \/ RelayWriteBack(r) \/ RollBack(r) \/ FailWriteBack(r)

Environment ==
    \/ \E k \in Keys : Elapse(k) \/ Overrun(k)
    \/ \E a \in Actors : Crash(a)
    \/ \E k \in Keys, s \in Reports : Callback(k, s)

Next ==
    \/ \E c \in Calls : CallStep(c)
    \/ \E r \in Relays : RelayStep(r)
    \/ Environment

Spec == Init /\ [][Next]_vars

(* A relay polls for ever (Run), BatchRun ends by a confirm, a timeout or   *)
(* its context, a call has deadlines, and time passes.  Nothing is assumed  *)
(* of the broker, of the executors or of a call's fortune.                  *)
Fairness ==
    /\ \A c \in Calls :
          /\ WF_vars(InsertConflict(c) \/ Insert(c))
          /\ WF_vars(\E ok \in SUBSET sent[c] : Confirm(c, ok))
          /\ WF_vars(FindByID(c) \/ CallWriteBack(c) \/ RollBack(c))
    /\ \A r \in Relays :
          /\ WF_vars(\E S \in SUBSET Claimable : Claim(r, S))
          /\ WF_vars(\E ok \in SUBSET sent[r] : Confirm(r, ok))
          /\ WF_vars(RelayWriteBack(r) \/ RollBack(r))
    /\ \A k \in Keys : WF_vars(Elapse(k))

FairSpec == Spec /\ Fairness

-----------------------------------------------------------------------------
(* Safety.                                                                 *)

(* A message marked PUBLISHED has been queued for an executor, whatever    *)
(* crashes, lost leases and late write-backs happened: no outbox row of a  *)
(* bound version is given up as published while its message is lost.       *)
PublishedWasQueued ==
    \A k \in Keys : state[k] = "PUBLISHED" /\ Routable(k) => k \in queue

(* The two tables agree: a record is DISPATCH_FAILED only if its message   *)
(* is DEAD, and a record whose message nobody will send again (DEAD) does  *)
(* not wait for an executor for ever.                                      *)
TablesAgree ==
    \A k \in Keys :
        /\ status[k] = "NONE" <=> state[k] = "NONE"
        /\ status[k] = "DISPATCH_FAILED" => state[k] = "DEAD"
        /\ state[k] = "DEAD" => status[k] # "WAIT"

(* A call that returns without an error has accounted for all its keys:    *)
(* each is in one partition, and a failed one is settled as DEAD for good. *)
(* (A successful one may be a row that a relay is sending: it is settled   *)
(* later, for better or worse.)                                            *)
HonestReply ==
    \A c \in Calls : pc[c] = "done" /\ reply[c].err = "none" =>
        /\ reply[c].success \cup reply[c].failed = Work[c]
        /\ reply[c].success \cap reply[c].failed = {}
        /\ \A k \in reply[c].failed : state[k] = "DEAD"

(* A request is only ever answered for its own version: reusing a          *)
(* request_id for another version never passes for a successful dispatch   *)
(* of that version, in whatever order the two requests insert.             *)
RightVersion ==
    \A c \in Calls : pc[c] = "done" /\ reply[c].err = "none" =>
        \A k \in Work[c] : version[k] = Wants[c]

(* Claims are counted in attempts, so that a message that kills its relay  *)
(* each time is still given up: beyond MaxAttempts a row is claimed only   *)
(* as often as a claim was cut short by a fault.                           *)
ClaimsAccounted == \A k \in Keys : attempts[k] <= MaxAttempts + faults

(* PUBLISHED and DEAD are final, whoever writes last.                      *)
SettledForGood ==
    [][\A k \in Keys : state[k] \in {"PUBLISHED", "DEAD"} => state'[k] = state[k]]_vars

(* An execution record only moves along CanTransitTo: no write-back undoes *)
(* what an executor has reported meanwhile.                                *)
StatusOnlyAdvances ==
    [][\A k \in Keys : status'[k] # status[k] =>
          status[k] = "NONE" \/ CanTransitTo(status[k], status'[k])]_vars

(* Of the relays that are publishing a row, because its lease passed from  *)
(* one to the next, at most one can settle it.                             *)
LeaseExclusive ==
    \A k \in Keys : \A r1, r2 \in Relays :
        /\ k \in batch[r1] \cap batch[r2]
        /\ lease[r1] = token[k] /\ lease[r2] = token[k]
        => r1 = r2 \/ state[k] # "PROCESSING"

(* A leased row is settled by the relay that holds its current lease and   *)
(* nobody else: not by a relay whose lease has passed to another, nor by a *)
(* late call of the fast path.                                             *)
OnlyHolderSettles ==
    [][\A k \in Keys : state[k] = "PROCESSING" /\ state'[k] # "PROCESSING" =>
          \E r \in Relays : /\ lease[r] = token[k]
                            /\ k \in batch[r]
                            /\ pc[r] = "settling" /\ pc'[r] = "idle"]_vars

-----------------------------------------------------------------------------
(* Liveness.                                                               *)

(* Every accepted message is settled in the end, by its call or a relay,   *)
(* if crashes and overrun leases stop.                                     *)
EverySettled ==
    \A k \in Keys : state[k] = "PENDING" ~> state[k] \in {"PUBLISHED", "DEAD"}

(* Every call is answered, or went down with its instance.                 *)
EveryCallAnswered == \A c \in Calls : <>(pc[c] \in {"done", "down"})

-----------------------------------------------------------------------------
(* Why the invariants hold: the parts of the inductive invariant that      *)
(* DispatchProofs proves.                                                  *)

(* An actor has written part of its batch to the broker, and of that part  *)
(* some is confirmed; its batch has rows, and what it wrote is queued.     *)
BatchesInOrder ==
    \A a \in Actors :
        /\ acked[a] \subseteq sent[a] /\ sent[a] \subseteq batch[a]
        /\ pc[a] \in {"start", "idle"} => batch[a] = {}
        /\ \A k \in batch[a] : state[k] # "NONE"
        /\ \A k \in sent[a] : Routable(k) => k \in queue

(* A lease belongs to one relay, which has every row with its token in its *)
(* batch; only relays have leases and only leased rows are PROCESSING.     *)
LeasesInOrder ==
    /\ \A c \in Calls : lease[c] = NoToken
    /\ \A r1, r2 \in Relays : lease[r1] = lease[r2] /\ lease[r1] # NoToken => r1 = r2
    /\ \A r \in Relays, k \in Keys :
          lease[r] = token[k] /\ token[k] # NoToken => k \in batch[r]
    /\ \A k \in Keys : state[k] = "PROCESSING" => token[k] # NoToken

(* While a call is under way, its keys are those it has answered from the  *)
(* outbox and those in its batch; when it is done without an error, all    *)
(* are answered.  All have rows of the version asked for.                  *)
UnderWay(c) == pc[c] \in {"publishing", "settling", "marking"}
ReplyInOrder(c) ==
    UnderWay(c) \/ (pc[c] = "done" /\ reply[c].err = "none") =>
        /\ reply[c].err = "none"
        /\ reply[c].success \cup reply[c].failed \cup batch[c] = Work[c]
        /\ reply[c].success \cap reply[c].failed = {}
        /\ (reply[c].success \cup reply[c].failed) \cap batch[c] = {}
        /\ pc[c] = "done" => batch[c] = {}
        /\ \A k \in reply[c].failed : state[k] = "DEAD"
        /\ \A k \in Work[c] : state[k] # "NONE" /\ version[k] = Wants[c]
RepliesInOrder == \A c \in Calls : ReplyInOrder(c)

(* A row that does not exist has no version.                               *)
RowsInOrder == \A k \in Keys : state[k] = "NONE" => version[k] = NoVersion

(* A relay's lease is sound while it has all of its batch and none of it   *)
(* has come due: then nobody can take a row from it.  What a claim beyond  *)
(* MaxAttempts needs is a row that was leased and whose lease was not      *)
(* sound to the end, and each fault spoils the lease of one relay.         *)
Sound(r) == \A k \in batch[r] : Matches(k, lease[r]) /\ k \notin due
Leased(k) == \E r \in Relays : lease[r] = token[k] /\ Sound(r)
AttemptsInOrder ==
    \A k \in Keys :
        /\ attempts[k] <= MaxAttempts + faults
        /\ state[k] \in {"NONE", "PENDING"} => attempts[k] < MaxAttempts
        /\ state[k] = "PROCESSING" /\ ~Leased(k) => attempts[k] < MaxAttempts + faults

IInv ==
    /\ TypeOK
    /\ TablesAgree
    /\ RowsInOrder
    /\ BatchesInOrder
    /\ LeasesInOrder
    /\ PublishedWasQueued

-----------------------------------------------------------------------------
(* Refinement.                                                             *)

Phase(s) == CASE s = "NONE" -> "absent"
              [] s = "PUBLISHED" -> "published"
              [] s = "DEAD" -> "dead"
              [] OTHER -> "owed"

Promise == INSTANCE Delivery WITH
    phase <- [k \in Keys |-> Phase(state[k])],
    verdict <- status,
    arrived <- queue,
    routable <- {k \in Keys : Routable(k)}

(* Calls, relays, leases, crashes and retries together keep the promise of *)
(* Delivery for every key.                                                 *)
KeepsPromise == Promise!Spec

(* What actor a sees of BatchRun.                                          *)
RunOf(a) == INSTANCE BatchRunPort WITH
    Tasks <- Keys,
    unroutable <- {k \in Keys : ~Routable(k)},
    batch <- batch[a],
    taken <- sent[a],
    ok <- acked[a],
    phase <- IF pc[a] = "publishing" THEN "running" ELSE "reported"

(* Each actor uses BatchRun as its contract has it, one run at a time, and *)
(* assumes no more of it, whatever the others do meanwhile.  Only a crash  *)
(* ends a run without a report.                                            *)
UsesBatchRun ==
    [][\A a \in Actors :
          \/ [RunOf(a)!Next]_(RunOf(a)!vars)
          \/ pc[a] = "publishing" /\ pc'[a] \in {"idle", "down"}]_vars

-----------------------------------------------------------------------------
(* What comments and documents say and the code does not keep: each is     *)
(* checked by a run of its own that shows how it fails.                    *)

(* "DISPATCH_FAILED: the message was certainly not delivered."             *)
DispatchFailedMeansUndelivered ==
    \A k \in Keys : status[k] = "DISPATCH_FAILED" => k \notin queue

(* "A record the executor has already moved on is no error for the         *)
(* write-back of a failed dispatch."                                       *)
AdvancedRecordIsNoError == \A c \in Calls : reply[c].err # "illegal"
=============================================================================
