------------------------------- MODULE Lifecycle -------------------------------
(***************************************************************************)
(* One engine process from its start to its end: main, the RPCs the gRPC   *)
(* server runs for its clients, and the outbox relay.  They meet in three  *)
(* places: a batch call holds one of the slots all batch calls share for   *)
(* as long as it lasts, calls and relay borrow channels of one RabbitMQ    *)
(* client, and main shuts everything down in turn, within one deadline     *)
(* that all the turns share.                                               *)
(*                                                                         *)
(* What a call does to the tables is module Dispatch, how its goroutines   *)
(* run is Pipeline: here it holds at most one channel at a time and works  *)
(* on one chunk after the other.  The client is its contract, PoolPort.    *)
(***************************************************************************)
EXTENDS Naturals, FiniteSets

CONSTANTS
    Singles,    \* clients that call ExecuteCase, one call after the other
    Batches,    \* clients that call ExecuteAllCases or ExecuteChannelCases
    Silent,     \* those of the latter that neither read their stream nor leave
    MaxConcurrentBatches,   \* Config.MaxConcurrentBatches
    PoolSize,               \* Config.ChannelPool
    MaxMore     \* bound: how many chunks a batch call may have after its first

ASSUME LifecycleAssumption ==
    /\ IsFiniteSet(Singles) /\ IsFiniteSet(Batches)
    /\ Singles \cap Batches = {}
    /\ Silent \subseteq Batches
    /\ MaxConcurrentBatches \in Nat \ {0}
    /\ PoolSize \in Nat \ {0}
    /\ MaxMore \in Nat

VARIABLES
    main,       \* how far run has come
    expired,    \* is the deadline of the shutdown over
    slots,      \* how many tokens are in batchSlots
    stage,      \* where the call of each client is, "none" if there is none
    more,       \* how many chunks it may take after the one it is at
    relay,      \* where the relay is
    idle, out, closed, drained  \* the RabbitMQ client, see PoolPort

client == <<idle, out, closed, drained>>
calls == <<stage, more>>
vars == <<main, expired, slots, calls, relay, client>>

Pool == INSTANCE PoolPort

Clients == Singles \cup Batches
Holding == {"inserting", "borrowing", "publishing", "recording", "reporting"}

TypeOK ==
    /\ main \in {"listening", "serving", "draining", "forced", "joining", "closing", "exited"}
    /\ expired \in BOOLEAN
    /\ slots \in 0..MaxConcurrentBatches
    /\ stage \in [Clients -> {"none", "queued"} \cup Holding]
    /\ more \in [Clients -> 0..MaxMore]
    /\ relay \in {"none", "polling", "borrowing", "publishing", "recording", "stopped"}
    /\ idle \in 0..PoolSize /\ drained \in 0..PoolSize
    /\ out \in Nat
    /\ closed \in BOOLEAN

(* MySQL and RabbitMQ are connected.                                       *)
Init ==
    /\ main = "listening" /\ expired = FALSE
    /\ slots = 0
    /\ stage = [r \in Clients |-> "none"]
    /\ more = [r \in Clients |-> 0]
    /\ relay = "none"
    /\ Pool!Init

Forced == main = "forced"       \* grpc.Stop ends the contexts of all calls
Stopping == main \in {"joining", "closing", "exited"}  \* relayCancel was called
Running == main # "exited"
NoCall == \A r \in Clients : stage[r] = "none"
CallsIn(A, S) == {r \in A : stage[r] \in S}

-----------------------------------------------------------------------------
(* A call.                                                                 *)

Goto(r, s) == stage' = [stage EXCEPT ![r] = s]
HasMore(r, n) == more' = [more EXCEPT ![r] = n]

(* The server accepts calls until it has told its clients to go away and   *)
(* has no calls left; a batch call, which will go through a catalogue of   *)
(* cases, waits for a slot ...                                             *)
Arrive(r) ==
    /\ main \in {"serving", "draining"}
    /\ stage[r] = "none"
    /\ Goto(r, IF r \in Batches THEN "queued" ELSE "inserting")
    /\ HasMore(r, IF r \in Batches THEN MaxMore ELSE 0)
    /\ UNCHANGED <<main, expired, slots, relay, client>>

TakeSlotUnbounded(r) ==   \* mutant: batchSlots has no capacity
    /\ stage[r] = "queued"
    /\ slots' = slots + 1
    /\ Goto(r, "inserting")
    /\ UNCHANGED <<more, main, expired, relay, client>>

TakeSlot(r) ==
    /\ stage[r] = "queued"
    /\ slots < MaxConcurrentBatches
    /\ slots' = slots + 1
    /\ Goto(r, "inserting")
    /\ UNCHANGED <<more, main, expired, relay, client>>

LeaveQueueDeferred(r) ==   \* mutant: the slot is given back by whoever asked for one
    /\ stage[r] = "queued"
    /\ Goto(r, "none") /\ HasMore(r, 0)
    /\ slots' = IF slots > 0 THEN slots - 1 ELSE 0
    /\ UNCHANGED <<main, expired, relay, client>>

(* ... or until its context ends: it has no slot to give back.             *)
LeaveQueue(r) ==
    /\ stage[r] = "queued"
    /\ Goto(r, "none") /\ HasMore(r, 0)
    /\ UNCHANGED <<main, expired, slots, relay, client>>

(* A chunk, or the one case, is inserted and has to be published, or there *)
(* is an error or a replay to report.                                      *)
Insert(r) ==
    /\ stage[r] = "inserting"
    /\ \/ Goto(r, "borrowing")
       \/ Goto(r, "reporting")
    /\ UNCHANGED <<more, main, expired, slots, relay, client>>

Borrow(r) ==
    /\ stage[r] = "borrowing"
    /\ Goto(r, "publishing")
    /\ Pool!Take
    /\ UNCHANGED <<more, main, expired, slots, relay>>

(* The context of the call ends, or the RabbitMQ client is closed: all of  *)
(* the chunk has failed.                                                   *)
BorrowFails(r) ==
    /\ stage[r] = "borrowing"
    /\ r \notin Silent \/ Forced \/ closed
    /\ Goto(r, "recording")
    /\ UNCHANGED <<more, main, expired, slots, relay, client>>

(* BatchRun ends, at the latest by its timer, and releases its channel.    *)
Published(r) ==
    /\ stage[r] = "publishing"
    /\ Goto(r, "recording")
    /\ Pool!Return
    /\ UNCHANGED <<more, main, expired, slots, relay>>

(* The result is written back on a context of its own.                     *)
Recorded(r) ==
    /\ stage[r] = "recording"
    /\ Goto(r, "reporting")
    /\ UNCHANGED <<more, main, expired, slots, relay, client>>

ReportedAgain(r) ==   \* mutant: a chunk that failed is taken once more
    /\ stage[r] = "reporting"
    /\ r \notin Silent \/ Forced
    /\ more[r] > 0
    /\ Goto(r, "inserting")
    /\ UNCHANGED <<more, main, expired, slots, relay, client>>

(* The client has read the report, and a batch call goes on with its next  *)
(* chunk.  A cancelled call may do so too: each of its selects chooses at  *)
(* random between the context, which is done, and the room for the report  *)
(* in progressCh or the next chunk in batchCh.                             *)
Reported(r) ==
    /\ stage[r] = "reporting"
    /\ r \notin Silent \/ Forced
    /\ more[r] > 0
    /\ Goto(r, "inserting") /\ HasMore(r, more[r] - 1)
    /\ UNCHANGED <<main, expired, slots, relay, client>>

CallEndsHolding(r) ==   \* mutant: a call that ends early keeps its slot
    /\ \/ r \in Batches /\ stage[r] = "inserting"
       \/ stage[r] = "reporting" /\ (r \notin Silent \/ Forced)
    /\ Goto(r, "none") /\ HasMore(r, 0)
    /\ slots' = IF r \in Batches /\ stage[r] = "inserting" THEN slots - 1 ELSE slots
    /\ UNCHANGED <<main, expired, relay, client>>

(* A call ends when it has no chunk left, or sending fails, or its context *)
(* ends.  A batch call keeps its slot until then.                          *)
CallEnds(r) ==
    /\ \/ r \in Batches /\ stage[r] = "inserting"
       \/ stage[r] = "reporting" /\ (r \notin Silent \/ Forced)
    /\ Goto(r, "none") /\ HasMore(r, 0)
    /\ slots' = IF r \in Batches THEN slots - 1 ELSE slots
    /\ UNCHANGED <<main, expired, relay, client>>

-----------------------------------------------------------------------------
(* The relay.                                                              *)

RelayGoto(s) == relay' = s

(* A pass that has claimed rows; with a context that is done it claims none. *)
RelayClaims ==
    /\ relay = "polling"
    /\ ~Stopping
    /\ RelayGoto("borrowing")
    /\ UNCHANGED <<main, expired, slots, calls, client>>

RelayBorrows ==
    /\ relay = "borrowing"
    /\ RelayGoto("publishing")
    /\ Pool!Take
    /\ UNCHANGED <<main, expired, slots, calls>>

RelayBorrowFails ==
    /\ relay = "borrowing"
    /\ Stopping \/ closed
    /\ RelayGoto("recording")
    /\ UNCHANGED <<main, expired, slots, calls, client>>

RelayPublished ==
    /\ relay = "publishing"
    /\ RelayGoto("recording")
    /\ Pool!Return
    /\ UNCHANGED <<main, expired, slots, calls>>

(* Its write-back uses its own context, and fails once that is done.       *)
RelayRecorded ==
    /\ relay = "recording"
    /\ RelayGoto("polling")
    /\ UNCHANGED <<main, expired, slots, calls, client>>

RelayStops ==
    /\ relay = "polling"
    /\ Stopping
    /\ RelayGoto("stopped")
    /\ UNCHANGED <<main, expired, slots, calls, client>>

-----------------------------------------------------------------------------
(* main.                                                                   *)

(* The listener is there: only now the relay is started, if the outbox is  *)
(* enabled, and the server serves.                                         *)
Serve ==
    /\ main = "listening"
    /\ main' = "serving"
    /\ relay' \in {"none", "polling"}
    /\ UNCHANGED <<expired, slots, calls, client>>

(* Or there is no listener: run returns and closes the RabbitMQ client.    *)
ListenFails ==
    /\ main = "listening"
    /\ main' = "closing"
    /\ Pool!Close
    /\ UNCHANGED <<expired, slots, calls, relay>>

(* A signal arrives or Serve returns an error: no new clients.             *)
StopServing ==
    /\ main = "serving"
    /\ main' = "draining"
    /\ UNCHANGED <<expired, slots, calls, relay, client>>

Deadline ==
    /\ main \in {"draining", "forced", "joining", "closing"}
    /\ ~expired
    /\ expired' = TRUE
    /\ UNCHANGED <<main, slots, calls, relay, client>>

ForceStopDrained ==   \* mutant: Stop comes after <-done
    /\ main = "draining"
    /\ expired
    /\ NoCall
    /\ main' = "forced"
    /\ UNCHANGED <<expired, slots, calls, relay, client>>

(* Calls that have not ended by the deadline are cancelled.                *)
ForceStop ==
    /\ main = "draining"
    /\ expired
    /\ main' = "forced"
    /\ UNCHANGED <<expired, slots, calls, relay, client>>

StoppedAtOnce ==   \* mutant: Stop is not followed by <-done
    /\ main \in {"draining", "forced"}
    /\ main = "draining" => NoCall
    /\ main' = "joining"
    /\ UNCHANGED <<expired, slots, calls, relay, client>>

(* grpc's GracefulStop has returned: every handler has.                    *)
Stopped ==
    /\ main \in {"draining", "forced"}
    /\ NoCall
    /\ main' = "joining"
    /\ UNCHANGED <<expired, slots, calls, relay, client>>

CloseUnjoined ==   \* mutant: the relay is told to stop and not waited for
    /\ main = "joining"
    /\ main' = "closing"
    /\ Pool!Close
    /\ UNCHANGED <<expired, slots, calls, relay>>

(* The relay was told to stop and has, or the deadline is over: Close      *)
(* begins ...                                                              *)
CloseClient ==
    /\ main = "joining"
    /\ relay \in {"none", "stopped"} \/ expired
    /\ main' = "closing"
    /\ Pool!Close
    /\ UNCHANGED <<expired, slots, calls, relay>>

(* ... and empties the pool.                                               *)
DrainClient ==
    /\ main = "closing"
    /\ Pool!Drain
    /\ UNCHANGED <<main, expired, slots, calls, relay>>

(* It has the whole pool, or the deadline is over; then the connections of *)
(* RabbitMQ and MySQL are closed and the process ends.                     *)
Exit ==
    /\ main = "closing"
    /\ drained = PoolSize \/ expired
    /\ main' = "exited"
    /\ UNCHANGED <<expired, slots, calls, relay, client>>

-----------------------------------------------------------------------------
(* External: the broker fails and comes back.                              *)
Broker ==
    /\ Pool!Lose \/ Pool!Refill
    /\ UNCHANGED <<main, expired, slots, calls, relay>>

(* The steps a call takes by itself; it ends when it is through.           *)
CallStep(r) ==
    \/ Insert(r) \/ Published(r) \/ Recorded(r) \/ Reported(r)
    \/ more[r] = 0 /\ CallEnds(r)
RelayStep == RelayClaims \/ RelayBorrowFails \/ RelayPublished \/ RelayRecorded \/ RelayStops
Shutdown == ForceStop \/ Stopped \/ CloseClient \/ DrainClient \/ Exit

Next ==
    \/ /\ Running
       /\ \/ \E r \in Clients :
                \/ Arrive(r) \/ LeaveQueue(r) \/ CallStep(r)
                \/ Borrow(r) \/ BorrowFails(r) \/ CallEnds(r)
          \/ \E r \in Batches : TakeSlot(r)
          \/ RelayStep \/ RelayBorrows
          \/ Broker
    \/ Serve \/ ListenFails \/ StopServing \/ Deadline
    \/ Shutdown

Spec == Init /\ [][Next]_vars

(* The database answers, runs end, and clients that are not silent read for *)
(* ever; batchSlots and the pool serve their waiters in turn; the deadline *)
(* passes, and a cancelled call does not wait.  Neither need clients leave, *)
(* nor the broker be there, nor the relay do anything, nor need the        *)
(* cancelled calls, of all they may choose, choose to end.                 *)
FairSpec ==
    /\ Spec
    /\ \A r \in Clients : WF_vars(CallStep(r))
    /\ \A r \in Batches \ Silent : SF_vars(TakeSlot(r)) /\ SF_vars(Borrow(r))
    /\ WF_vars(Forced /\ \E r \in Clients : LeaveQueue(r) \/ BorrowFails(r))
    /\ WF_vars(Deadline) /\ WF_vars(Shutdown)

-----------------------------------------------------------------------------
(* Properties.                                                             *)

(* batchSlots holds a token for each batch call that is running, and none  *)
(* for one that waits or has gone: the bound on concurrent calls neither   *)
(* leaks nor is passed, however calls end.                                 *)
SlotsBalanced ==
    /\ slots = Cardinality(CallsIn(Batches, Holding))
    /\ slots <= MaxConcurrentBatches

(* "GracefulStop, then the MQ client, then MySQL": nothing is closed under *)
(* a call, not even under one that had to be cancelled: what it published  *)
(* it has written back.  And nothing is closed under the relay as long as  *)
(* there is time.                                                          *)
ClosedBehindLastUser ==
    closed => NoCall /\ (relay \in {"none", "stopped"} \/ expired)

(* A shutdown that is over in time leaves no AMQP channel behind: Close has *)
(* taken all of them out of the pool.                                      *)
CleanExit ==
    main = "exited" /\ ~expired => idle = 0 /\ out = 0 /\ drained = PoolSize

(* The process ends, although clients may not read, the broker may be away *)
(* and the relay may hang.                                                 *)
ShutdownEnds == main = "draining" ~> main = "exited"

(* As long as channels keep coming into the pool, the batch calls of       *)
(* clients that read get the slot they wait for, or the process stops:     *)
(* clients that do not read keep theirs, if there are fewer of them than   *)
(* slots.                                                                  *)
SlotsServed ==
    []<>(idle > 0 \/ closed) =>
        \A r \in Batches \ Silent : stage[r] = "queued" ~> (stage[r] # "queued" \/ ~Running)

(* Why it ends: the stages a call still has to leave, for the chunk it is   *)
(* at and for those after it, and those main has to leave, ...             *)
Ahead ==
    [none |-> {}, reporting |-> {"reporting"}, recording |-> {"recording", "reporting"},
     publishing |-> Holding \ {"inserting", "borrowing"}, borrowing |-> Holding \ {"inserting"},
     inserting |-> Holding, queued |-> Holding \cup {"queued"}]
CallsLeft == {c \in Clients \X (0..MaxMore) \X (Holding \cup {"queued"}) :
    c[2] < more[c[1]] \/ (c[2] = more[c[1]] /\ c[3] \in Ahead[stage[c[1]]])}
MainLeft ==
    IF main \in {"forced", "joining", "closing"}
    THEN [forced |-> {"forced", "joining", "closing"}, joining |-> {"joining", "closing"},
          closing |-> {"closing"}][main]
    ELSE {}

(* ... and that main or, if it waits for calls, one of these can go on: the *)
(* channel that a call gives back is one that is out.                      *)
CanGoOn ==
    \/ main \in {"draining", "joining", "closing", "exited"}
    \/ main = "forced" /\ NoCall
    \/ main = "forced" /\ \E r \in Clients :
           stage[r] # "none" /\ (stage[r] = "publishing" => out > 0)

(* Once the deadline is over the shutdown is never stuck, and from Stop on *)
(* each step of main or of a call brings the end nearer: no call comes in  *)
(* or has to wait for a slot, a channel or its client, a cancelled one that *)
(* takes a chunk all the same has one less to take, and nothing that the   *)
(* relay or the broker do puts the end off.                                *)
ShutdownProceeds ==
    [][expired' =>
        /\ CanGoOn'
        /\ main \in {"forced", "joining", "closing"} =>
              /\ CallsLeft' \subseteq CallsLeft /\ (calls' # calls => CallsLeft' # CallsLeft)
              /\ MainLeft' \subseteq MainLeft /\ (main' # main => MainLeft' # MainLeft)
              /\ drained' \in drained..PoolSize]_vars

-----------------------------------------------------------------------------
(* Why they hold: a channel that is out is with a call or with the relay,  *)
(* and main is only ever past a wait when the wait is over.                *)
OutAccounted ==
    out = Cardinality(CallsIn(Clients, {"publishing"})) + (IF relay = "publishing" THEN 1 ELSE 0)

InOrder ==
    /\ closed <=> main \in {"closing", "exited"}
    /\ Stopping => NoCall
    /\ closed => relay \in {"none", "stopped"} \/ expired
    /\ relay = "stopped" => Stopping
    /\ main = "listening" => NoCall /\ relay = "none"
    /\ main = "exited" => drained = PoolSize \/ expired
    /\ idle <= PoolSize - drained
    /\ ~closed => drained = 0
    /\ expired => main \notin {"listening", "serving"}
    /\ main = "forced" => expired

IInv == TypeOK /\ SlotsBalanced /\ OutAccounted /\ InOrder
=============================================================================
