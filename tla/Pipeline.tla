------------------------------- MODULE Pipeline -------------------------------
(***************************************************************************)
(* dispatchStream: how one batch call drives its chunks through a producer *)
(* that scans the cases, a pool of workers that dispatch a chunk each, and *)
(* an aggregator that reports the chunks to the caller, one callback at a  *)
(* time.  They are joined by two bounded Go channels and by an errgroup,   *)
(* whose context (gctx) is done once the caller's is or once a goroutine   *)
(* has returned an error, and which keeps the first such error.            *)
(*                                                                         *)
(* A chunk is a page of the scan that CaseScan models, and is known by its *)
(* number.  What a worker does with it is module Dispatch; here it is a    *)
(* step.                                                                   *)
(***************************************************************************)
EXTENDS CaseScan

CONSTANT Workers

ASSUME PipelineAssumption == IsFiniteSet(Workers) /\ Workers # {}

VARIABLES
    caller,     \* "waiting" for a slot, "running" or "done"
    ctx,        \* its context: "live" or "done"
    first,      \* the first error of the group, "none" if there is none
    producer,   \* "scanning" for a page, "sending" it or "done"
    pages,      \* the pages the scan has yielded
    batchCh,    \* open until the producer is done
    stage,      \* each worker is "free", "busy", "emitting" or "done"
    chunk,      \* the chunk it has taken last, 0 before the first
    progressCh,
    progress,   \* is progressCh "open" or "closed"
    aggregator, \* "reading", "calling" back or "done"
    current,    \* the chunk it calls back with
    reports     \* how often the callback has accepted each chunk

scan == <<producer, pages>>
work == <<stage, chunk>>
report == <<aggregator, current, reports>>
vars == <<caller, ctx, first, scan, batchCh, work, progressCh, progress, report, catalogue>>

Chunks == Nat \ {0}
WorkerCount == Cardinality(Workers)
Errors == {"cancelled", "count", "scan", "callback"}

TypeOK ==
    /\ caller \in {"waiting", "running", "done"}
    /\ ctx \in {"live", "done"}
    /\ first \in Errors \cup {"none"}
    /\ producer \in {"scanning", "sending", "done"}
    /\ pages \in Seq(SUBSET Cases)
    /\ batchCh \in Seq(Chunks) /\ Len(batchCh) <= 2 * WorkerCount
    /\ stage \in [Workers -> {"free", "busy", "emitting", "done"}]
    /\ chunk \in [Workers -> Chunks \cup {0}]
    /\ progressCh \in Seq(Chunks) /\ Len(progressCh) <= WorkerCount
    /\ progress \in {"open", "closed"}
    /\ aggregator \in {"reading", "calling", "done"}
    /\ current \in Chunks \cup {0}
    /\ reports \in Seq(Nat)
    /\ cases \in SUBSET Cases /\ steady \in SUBSET cases /\ changes \in 0..MaxChanges

Init ==
    /\ caller = "waiting" /\ ctx = "live" /\ first = "none"
    /\ producer = "scanning" /\ pages = <<>> /\ batchCh = <<>>
    /\ stage = [w \in Workers |-> "free"]
    /\ chunk = [w \in Workers |-> 0]
    /\ progressCh = <<>> /\ progress = "open"
    /\ aggregator = "reading" /\ current = 0 /\ reports = <<>>
    /\ CatalogueInit

Cancelled == ctx = "done" \/ first # "none"      \* gctx.Done

(* A goroutine of the group returns error e.                               *)
Fail(e) == first' = IF first = "none" THEN e ELSE first

-----------------------------------------------------------------------------
(* The caller.                                                             *)

(* A slot is free and there are cases: the goroutines are started.         *)
Start ==
    /\ caller = "waiting"
    /\ cases # {}
    /\ caller' = "running"
    /\ UNCHANGED <<ctx, first, scan, batchCh, work, progressCh, progress, report, catalogue>>

(* The call ends at once: there are no cases, they cannot be counted, or   *)
(* the context is done before a slot is free.                              *)
EndAtOnce ==
    /\ caller = "waiting"
    /\ \/ cases = {} /\ UNCHANGED first
       \/ Fail("count")
       \/ ctx = "done" /\ Fail("cancelled")
    /\ caller' = "done"
    /\ UNCHANGED <<ctx, scan, batchCh, work, progressCh, progress, report, catalogue>>

(* External: the client goes away or its deadline passes.                  *)
Cancel ==
    /\ caller # "done"
    /\ ctx = "live"
    /\ ctx' = "done"
    /\ UNCHANGED <<caller, first, scan, batchCh, work, progressCh, progress, report, catalogue>>

(* Every goroutine has returned.                                           *)
Wait ==
    /\ caller = "running"
    /\ producer = "done" /\ progress = "closed" /\ aggregator = "done"
    /\ caller' = "done"
    /\ UNCHANGED <<ctx, first, scan, batchCh, work, progressCh, progress, report, catalogue>>

-----------------------------------------------------------------------------
(* The producer.                                                           *)

(* The scan calls back with the next page unless gctx is done; ...         *)
ScanPage ==
    /\ caller = "running"
    /\ producer = "scanning"
    /\ ~Cancelled
    /\ ~LastPage(pages) /\ Page(pages) # {}
    /\ pages' = Append(pages, Page(pages))
    /\ reports' = Append(reports, 0)
    /\ producer' = "sending"
    /\ UNCHANGED <<caller, ctx, first, batchCh, work, progressCh, progress, aggregator, current, catalogue>>

SendUnbounded ==   \* mutant: batchCh has no capacity
    /\ producer = "sending"
    /\ batchCh' = Append(batchCh, Len(pages))
    /\ producer' = "scanning"
    /\ UNCHANGED <<caller, ctx, first, pages, work, progressCh, progress, report, catalogue>>

(* ... the callback puts it into batchCh when there is room, ...           *)
Send ==
    /\ producer = "sending"
    /\ Len(batchCh) < 2 * WorkerCount
    /\ batchCh' = Append(batchCh, Len(pages))
    /\ producer' = "scanning"
    /\ UNCHANGED <<caller, ctx, first, pages, work, progressCh, progress, report, catalogue>>

(* ... or finds gctx done, as the scan itself may: no error is returned.   *)
ScanCancelled ==
    /\ caller = "running"
    /\ producer # "done"
    /\ Cancelled
    /\ producer' = "done"
    /\ UNCHANGED <<caller, ctx, first, pages, batchCh, work, progressCh, progress, report, catalogue>>

ScanEnds ==
    /\ caller = "running"
    /\ producer = "scanning"
    /\ LastPage(pages) \/ Page(pages) = {}
    /\ producer' = "done"
    /\ UNCHANGED <<caller, ctx, first, pages, batchCh, work, progressCh, progress, report, catalogue>>

ScanFailsSilently ==   \* mutant: every error of the scan is swallowed
    /\ caller = "running"
    /\ producer = "scanning"
    /\ producer' = "done"
    /\ UNCHANGED <<caller, ctx, first, pages, batchCh, work, progressCh, progress, report, catalogue>>

(* The database fails the scan.                                            *)
ScanFails ==
    /\ caller = "running"
    /\ producer = "scanning"
    /\ producer' = "done"
    /\ Fail("scan")
    /\ UNCHANGED <<caller, ctx, pages, batchCh, work, progressCh, progress, report, catalogue>>

-----------------------------------------------------------------------------
(* A worker.  Its selects take any case that is ready.                     *)

Goto(w, s) == stage' = [stage EXCEPT ![w] = s]

TakeChunk(w) ==
    /\ caller = "running"
    /\ stage[w] = "free"
    /\ batchCh # <<>>
    /\ batchCh' = Tail(batchCh)
    /\ chunk' = [chunk EXCEPT ![w] = Head(batchCh)]
    /\ Goto(w, "busy")
    /\ UNCHANGED <<caller, ctx, first, scan, progressCh, progress, report, catalogue>>

(* batchCh is closed and empty.                                            *)
NoMoreChunks(w) ==
    /\ stage[w] = "free"
    /\ producer = "done" /\ batchCh = <<>>
    /\ Goto(w, "done")
    /\ UNCHANGED <<caller, ctx, first, scan, batchCh, chunk, progressCh, progress, report, catalogue>>

(* dispatchOneBatch returns no error but that of emitProgress: whatever    *)
(* goes wrong with a chunk is part of its Progress.                        *)
DispatchOneBatch(w) ==
    /\ stage[w] = "busy"
    /\ Goto(w, "emitting")
    /\ UNCHANGED <<caller, ctx, first, scan, batchCh, chunk, progressCh, progress, report, catalogue>>

Emit(w) ==
    /\ stage[w] = "emitting"
    /\ Len(progressCh) < WorkerCount
    /\ progressCh' = Append(progressCh, chunk[w])
    /\ Goto(w, "free")
    /\ UNCHANGED <<caller, ctx, first, scan, batchCh, chunk, progress, report, catalogue>>

StopBeforeChunk(w) ==   \* mutant: emitProgress waits for room only
    /\ caller = "running"
    /\ stage[w] = "free"
    /\ Cancelled
    /\ Goto(w, "done")
    /\ Fail("cancelled")
    /\ UNCHANGED <<caller, ctx, scan, batchCh, chunk, progressCh, progress, report, catalogue>>
StopWhenFull(w) ==   \* mutant: emitProgress does not wait for room at all
    /\ caller = "running"
    /\ stage[w] = "emitting"
    /\ Cancelled \/ Len(progressCh) = WorkerCount
    /\ Goto(w, "done")
    /\ Fail("cancelled")
    /\ UNCHANGED <<caller, ctx, scan, batchCh, chunk, progressCh, progress, report, catalogue>>

(* gctx is done, before a chunk or with a Progress that is then lost.      *)
WorkerStops(w) ==
    /\ caller = "running"
    /\ stage[w] \in {"free", "emitting"}
    /\ Cancelled
    /\ Goto(w, "done")
    /\ Fail("cancelled")
    /\ UNCHANGED <<caller, ctx, scan, batchCh, chunk, progressCh, progress, report, catalogue>>

(* The closer: all workers are done.                                       *)
CloseProgress ==
    /\ progress = "open"
    /\ \A w \in Workers : stage[w] = "done"
    /\ progress' = "closed"
    /\ UNCHANGED <<caller, ctx, first, scan, batchCh, work, progressCh, report, catalogue>>

-----------------------------------------------------------------------------
(* The aggregator.                                                         *)

ReadProgress ==
    /\ aggregator = "reading"
    /\ progressCh # <<>>
    /\ current' = Head(progressCh)
    /\ progressCh' = Tail(progressCh)
    /\ aggregator' = "calling"
    /\ UNCHANGED <<caller, ctx, first, scan, batchCh, work, progress, reports, catalogue>>

CallbackReturns ==
    /\ aggregator = "calling"
    /\ reports' = [reports EXCEPT ![current] = @ + 1]
    /\ aggregator' = "reading"
    /\ UNCHANGED <<caller, ctx, first, scan, batchCh, work, progressCh, progress, current, catalogue>>

CallbackFailsQuietly ==   \* mutant: the error of the callback is logged, not returned
    /\ aggregator = "calling"
    /\ aggregator' = "done"
    /\ UNCHANGED <<caller, ctx, first, scan, batchCh, work, progressCh, progress, current, reports, catalogue>>

(* The client is gone: nobody reads progressCh any more.                   *)
CallbackFails ==
    /\ aggregator = "calling"
    /\ aggregator' = "done"
    /\ Fail("callback")
    /\ UNCHANGED <<caller, ctx, scan, batchCh, work, progressCh, progress, current, reports, catalogue>>

NoMoreProgress ==
    /\ aggregator = "reading"
    /\ progress = "closed" /\ progressCh = <<>>
    /\ aggregator' = "done"
    /\ UNCHANGED <<caller, ctx, first, scan, batchCh, work, progressCh, progress, current, reports, catalogue>>

-----------------------------------------------------------------------------
(* External: other changes than those during the scan make no difference.  *)
CatalogueChanges ==
    /\ caller = "running" /\ producer # "done"
    /\ Upstream
    /\ UNCHANGED <<caller, ctx, first, scan, batchCh, work, progressCh, progress, report>>

Producer == ScanPage \/ Send \/ ScanCancelled \/ ScanEnds \/ ScanFails

Worker(w) ==
    \/ TakeChunk(w) \/ NoMoreChunks(w) \/ DispatchOneBatch(w)
    \/ Emit(w) \/ WorkerStops(w)

Aggregator == ReadProgress \/ CallbackReturns \/ CallbackFails \/ NoMoreProgress

Next ==
    \/ Start \/ EndAtOnce \/ Cancel \/ Wait
    \/ Producer
    \/ \E w \in Workers : Worker(w)
    \/ CloseProgress
    \/ Aggregator
    \/ CatalogueChanges

Spec == Init /\ [][Next]_vars

(* Every goroutine runs, and the calls it makes return: those to the       *)
(* database and the broker by their timeouts, the callback because sending *)
(* to a client that is gone fails.  The client may never cancel.           *)
FairSpec ==
    /\ Spec
    /\ WF_vars(Producer)
    /\ \A w \in Workers : WF_vars(Worker(w))
    /\ WF_vars(CloseProgress)
    /\ WF_vars(Aggregator)
    /\ WF_vars(Wait)

-----------------------------------------------------------------------------
(* Properties.                                                             *)

ChunksOf(c) == {i \in DOMAIN pages : c \in pages[i]}

Complete ==
    /\ \A i \in DOMAIN pages : reports[i] = 1
    /\ \A c \in Cases : Cardinality(ChunksOf(c)) <= 1
    /\ \A c \in steady : ChunksOf(c) # {}

(* A call that ends without an error and that its client did not abandon   *)
(* has reported each chunk once and has each case in one chunk at most;    *)
(* the cases that were there all the time are all in.  None is lost or     *)
(* doubled by the paging, whatever cases come and go, nor between producer, *)
(* workers and aggregator, whatever order they end in.                     *)
NilMeansComplete == caller = "done" /\ first = "none" /\ ctx = "live" => Complete

(* The error of a call its client did not abandon is what went wrong, not  *)
(* the cancellation of the other goroutines that follows from it.          *)
CauseIsReported == ctx = "live" => first # "cancelled"

(* The call ends: neither full channels, nor a callback that fails, nor a  *)
(* client that goes away leaves its goroutines waiting for each other.     *)
StreamEnds == caller = "running" ~> caller = "done"

(* Why it ends: while the call runs, one of its goroutines can go on, ...  *)
NeverStuck ==
    caller = "running" =>
        \/ producer = "scanning"
        \/ producer = "sending" /\ (Cancelled \/ Len(batchCh) < 2 * WorkerCount)
        \/ \E w \in Workers :
              \/ stage[w] = "free" /\ (Cancelled \/ batchCh # <<>> \/ producer = "done")
              \/ stage[w] = "busy"
              \/ stage[w] = "emitting" /\ (Cancelled \/ Len(progressCh) < WorkerCount)
        \/ progress = "open" /\ \A w \in Workers : stage[w] = "done"
        \/ aggregator = "calling"
        \/ aggregator = "reading" /\ (progressCh # <<>> \/ progress = "closed")
        \/ producer = "done" /\ progress = "closed" /\ aggregator = "done"

(* ... and this many steps they have left at most: a case that no page has *)
(* yet costs the scan, a chunk, a worker and the callback.                 *)
Unseen == Cases \ UNION {pages[i] : i \in DOMAIN pages}
In(s) == {w \in Workers : stage[w] = s}
ProducerLeft == [sending |-> 7, scanning |-> 1, done |-> 0][producer]
WorkersLeft == 5 * Cardinality(In("busy")) + 4 * Cardinality(In("emitting")) + Cardinality(In("free"))
CloserLeft == [open |-> 1, closed |-> 0][progress]
AggregatorLeft == [calling |-> 2, reading |-> 1, done |-> 0][aggregator]
CallerLeft == [waiting |-> 2, running |-> 1, done |-> 0][caller]
StepsLeft ==
    7 * Cardinality(Unseen) + ProducerLeft + 5 * Len(batchCh) + WorkersLeft
    + 2 * Len(progressCh) + CloserLeft + AggregatorLeft + CallerLeft

Goroutines ==
    Producer \/ (\E w \in Workers : Worker(w)) \/ CloseProgress \/ Aggregator \/ Wait

(* A running call is never stuck and never goes round in circles: every    *)
(* step of a goroutine brings its end nearer, and nothing else, be it a    *)
(* change of the catalogue or a cancellation, puts it off.                 *)
StreamProceeds ==
    [][/\ NeverStuck'
       /\ StepsLeft' <= StepsLeft
       /\ Goroutines => StepsLeft' < StepsLeft]_vars

(* "errgroup already has the cancellation as its main error": a call that  *)
(* is cut short returns an error.  But the group knows only what its       *)
(* goroutines return, the producer returns nil when it is cancelled, and   *)
(* a worker that finds batchCh closed does too.                            *)
CutShortIsAnError == caller = "done" /\ first = "none" => Complete

-----------------------------------------------------------------------------
(* Why the types hold: who passes a chunk on has one.                      *)
ChunksInHand ==
    /\ producer = "sending" => pages # <<>>
    /\ \A w \in Workers : stage[w] \in {"busy", "emitting"} => chunk[w] # 0
    /\ aggregator = "calling" => current # 0

IInv == TypeOK /\ ChunksInHand

(* Why the goroutines never wait for each other: one that ends before it   *)
(* has nothing left to do leaves the group cancelled.                      *)
EarlyEndsCancel ==
    /\ \A w \in Workers : stage[w] = "done" => Cancelled \/ producer = "done"
    /\ progress = "closed" => \A w \in Workers : stage[w] = "done"
    /\ aggregator = "done" => Cancelled \/ progress = "closed"

-----------------------------------------------------------------------------
(* Why a call that ends well is complete.  As long as nothing has gone     *)
(* wrong (Quiet) every chunk is in one place between the scan and the      *)
(* callback, or was reported once.                                         *)
Quiet == ctx = "live" /\ first = "none"

Elements(s) == {s[i] : i \in DOMAIN s}
Distinct(s) == \A i, j \in DOMAIN s : s[i] = s[j] => i = j

AtWork == {w \in Workers : stage[w] \in {"busy", "emitting"}}
Scanned == IF producer = "sending" THEN {Len(pages)} ELSE {}
Worked == {chunk[w] : w \in AtWork}
Called == IF aggregator = "calling" THEN {current} ELSE {}
OnTheWay == Scanned \cup Elements(batchCh) \cup Worked \cup Elements(progressCh) \cup Called

ChunksInPlace ==
    /\ Distinct(batchCh) /\ Distinct(progressCh)
    /\ \A v, w \in AtWork : chunk[v] = chunk[w] => v = w
    /\ Scanned \cap (Elements(batchCh) \cup Worked \cup Elements(progressCh) \cup Called) = {}
    /\ Elements(batchCh) \cap (Worked \cup Elements(progressCh) \cup Called) = {}
    /\ Worked \cap (Elements(progressCh) \cup Called) = {}
    /\ Elements(progressCh) \cap Called = {}
    /\ OnTheWay \subseteq 1..Len(pages)
    /\ Len(reports) = Len(pages)
    /\ \A i \in 1..Len(pages) : reports[i] = IF i \in OnTheWay THEN 0 ELSE 1

(* Each page is behind the one before, and a case that was there all the   *)
(* time is in a page or behind all of them; behind the last page is none.  *)
AllScanned == \A c \in steady : \E i \in DOMAIN pages : c \in pages[i]
PagesInOrder ==
    /\ \A i, j \in DOMAIN pages : i < j => \A c \in pages[i], d \in pages[j] : c < d
    /\ \A c \in steady :
          \/ \E i \in DOMAIN pages : c \in pages[i]
          \/ \A i \in DOMAIN pages : \A d \in pages[i] : d < c
    /\ LastPage(pages) => AllScanned

(* Goroutines end one after the other, each with nothing left to do.       *)
Untouched ==
    /\ producer = "scanning" /\ pages = <<>> /\ batchCh = <<>>
    /\ \A w \in Workers : stage[w] = "free"
    /\ progressCh = <<>> /\ progress = "open" /\ aggregator = "reading"
EndsInOrder ==
    /\ caller = "waiting" => Untouched
    /\ caller = "done" =>
          \/ Untouched /\ steady = {}
          \/ producer = "done" /\ aggregator = "done"
    /\ producer = "done" => AllScanned
    /\ \A w \in Workers : stage[w] = "done" => producer = "done" /\ batchCh = <<>>
    /\ progress = "closed" => \A w \in Workers : stage[w] = "done"
    /\ aggregator = "done" => progress = "closed" /\ progressCh = <<>>

NilInv == PagesInOrder /\ (Quiet => ChunksInPlace /\ EndsInOrder)
=============================================================================
