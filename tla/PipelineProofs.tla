---------------------------- MODULE PipelineProofs ----------------------------
(* Proofs about Pipeline, for any number of workers and pages.             *)
EXTENDS Pipeline, TLAPS, SequenceTheorems, FiniteSetTheorems

USE DEF vars, scan, work, report, catalogue

(* A page is a set of cases, and a scan that has yielded it one longer.    *)
LEMMA PageAppended ==
    ASSUME NEW P \in SUBSET Cases, pages \in Seq(SUBSET Cases)
    PROVE  Append(pages, P) \in Seq(SUBSET Cases) /\ Append(pages, P) # <<>>
<1> DEFINE S == SUBSET Cases
<1> HIDE DEF S
<1>1. ASSUME NEW p \in Seq(S), NEW e \in S PROVE Append(p, e) \in Seq(S) /\ Append(p, e) # <<>>
  BY AppendProperties
<1> QED
  BY <1>1 DEF S

(* Who passes a chunk on has one, and no Go channel exceeds its capacity.  *)
LEMMA InvariantNext == IInv /\ [Next]_vars => IInv'
<1> SUFFICES ASSUME IInv, [Next]_vars PROVE IInv'
  OBVIOUS
<1> USE PipelineAssumption DEF IInv, TypeOK, ChunksInHand, Fail, Errors, Goto
<1>0. WorkerCount \in Nat
  BY FS_CardinalityType DEF WorkerCount
<1>1. CASE Start \/ EndAtOnce \/ Cancel \/ Wait
  BY <1>1 DEF Start, EndAtOnce, Cancel, Wait
<1>2. CASE Producer
  <2>1. CASE Send
    <3>1. Len(pages) \in Chunks
      BY <2>1, LenProperties, EmptySeq DEF Send, Chunks
    <3> QED
      BY <3>1, <2>1, <1>0, AppendProperties DEF Send
  <2>2. CASE ScanPage
    <3>1. Page(pages) \in SUBSET Cases
      BY DEF Page
    <3>2. Append(pages, Page(pages)) \in Seq(SUBSET Cases) /\ Append(pages, Page(pages)) # <<>>
      BY <3>1, PageAppended
    <3>3. Append(reports, 0) \in Seq(Nat)
      BY AppendProperties
    <3> QED
      BY <3>2, <3>3, <2>2 DEF ScanPage
  <2>3. CASE ScanCancelled \/ ScanEnds \/ ScanFails
    BY <2>3 DEF ScanCancelled, ScanEnds, ScanFails
  <2> QED
    BY <1>2, <2>1, <2>2, <2>3 DEF Producer
<1>3. ASSUME NEW w \in Workers, Worker(w) PROVE IInv'
  <2>1. CASE TakeChunk(w)
    <3>1. /\ Head(batchCh) \in Chunks /\ Head(batchCh) # 0
          /\ Tail(batchCh) \in Seq(Chunks) /\ Len(Tail(batchCh)) = Len(batchCh) - 1
      BY <2>1, HeadTailProperties DEF TakeChunk, Chunks
    <3> QED
      BY <3>1, <2>1, <1>0, LenProperties DEF TakeChunk
  <2>2. CASE Emit(w)
    BY <2>2, <1>0, AppendProperties DEF Emit
  <2>3. CASE NoMoreChunks(w)
    BY <2>3 DEF NoMoreChunks
  <2>4. CASE DispatchOneBatch(w)
    BY <2>4 DEF DispatchOneBatch
  <2>5. CASE WorkerStops(w)
    BY <2>5 DEF WorkerStops
  <2> QED
    BY <1>3, <2>1, <2>2, <2>3, <2>4, <2>5 DEF Worker
<1>4. CASE CloseProgress
  BY <1>4 DEF CloseProgress
<1>5. CASE Aggregator
  <2>1. CASE ReadProgress
    <3>1. /\ Head(progressCh) \in Chunks /\ Head(progressCh) # 0
          /\ Tail(progressCh) \in Seq(Chunks) /\ Len(Tail(progressCh)) = Len(progressCh) - 1
      BY <2>1, HeadTailProperties DEF ReadProgress, Chunks
    <3> QED
      BY <3>1, <2>1, <1>0, LenProperties DEF ReadProgress
  <2>2. CASE CallbackReturns
    <3>1. [reports EXCEPT ![current] = @ + 1] \in Seq(Nat)
      <4>1. CASE current \in 1..Len(reports)
        <5>1. reports[current] + 1 \in Nat
          BY <4>1, ElementOfSeq
        <5> QED
          BY <4>1, <5>1, ExceptSeq
      <4>2. CASE current \notin 1..Len(reports)
        <5>1. [reports EXCEPT ![current] = @ + 1] = reports
          BY <4>2, LenProperties
        <5> QED
          BY <5>1
      <4> QED
        BY <4>1, <4>2
    <3> QED
      BY <3>1, <2>2 DEF CallbackReturns
  <2>3. CASE CallbackFails \/ NoMoreProgress
    BY <2>3 DEF CallbackFails, NoMoreProgress
  <2> QED
    BY <1>5, <2>1, <2>2, <2>3 DEF Aggregator
<1>6. CASE CatalogueChanges
  <2>1. MaxChanges \in Nat /\ Changing \subseteq Cases
    BY CaseScanAssumption
  <2>2. changes' \in 0..MaxChanges
    BY <1>6, <2>1 DEF CatalogueChanges, Upstream
  <2>3. cases' \in SUBSET Cases /\ steady' \in SUBSET cases'
    BY <1>6, <2>1 DEF CatalogueChanges, Upstream
  <2>4. UNCHANGED <<caller, ctx, first, scan, batchCh, work, progressCh, progress, report>>
    BY <1>6 DEF CatalogueChanges
  <2> QED
    BY <2>2, <2>3, <2>4
<1>7. CASE UNCHANGED vars
  BY <1>7
<1> QED
  BY <1>1, <1>2, <1>3, <1>4, <1>5, <1>6, <1>7 DEF Next
THEOREM InvariantHolds == Spec => []IInv
<1>1. Init => IInv
  BY PipelineAssumption, CaseScanAssumption, FS_CardinalityType
     DEF Init, CatalogueInit, IInv, TypeOK, ChunksInHand, WorkerCount, Chunks
<1> QED
  BY <1>1, InvariantNext, PTL DEF Spec

(* Type correctness: the Go channels never hold more than their capacity.  *)
THEOREM TypeCorrect == Spec => []TypeOK
<1>1. IInv => TypeOK
  BY DEF IInv
<1> QED
  BY <1>1, InvariantHolds, PTL

(* The error of a call that its client did not abandon is a cause: a       *)
(* goroutine only returns the cancellation after another has failed.       *)
THEOREM CauseIsReportedHolds == Spec => []CauseIsReported
<1>1. Init => CauseIsReported
  BY DEF Init, CauseIsReported
<1>2. CauseIsReported /\ [Next]_vars => CauseIsReported'
  <2> SUFFICES ASSUME CauseIsReported, [Next]_vars PROVE CauseIsReported'
    OBVIOUS
  <2> USE DEF CauseIsReported, Fail, Cancelled
  <2>1. CASE Start \/ EndAtOnce \/ Cancel \/ Wait
    BY <2>1 DEF Start, EndAtOnce, Cancel, Wait
  <2>2. CASE Producer
    BY <2>2 DEF Producer, ScanPage, Send, ScanCancelled, ScanEnds, ScanFails
  <2>3. ASSUME NEW w \in Workers, Worker(w) PROVE CauseIsReported'
    BY <2>3 DEF Worker, TakeChunk, NoMoreChunks, DispatchOneBatch, Emit, WorkerStops
  <2>4. CASE CloseProgress
    BY <2>4 DEF CloseProgress
  <2>5. CASE Aggregator
    BY <2>5 DEF Aggregator, ReadProgress, CallbackReturns, CallbackFails, NoMoreProgress
  <2>6. CASE CatalogueChanges \/ UNCHANGED vars
    BY <2>6 DEF CatalogueChanges
  <2> QED
    BY <2>1, <2>2, <2>3, <2>4, <2>5, <2>6 DEF Next
<1> QED
  BY <1>1, <1>2, PTL DEF Spec

-----------------------------------------------------------------------------
(* Pages.                                                                  *)

LEMMA BelowType ==
    ASSUME NEW S \in SUBSET Cases, NEW c
    PROVE  /\ IsFiniteSet(S) /\ IsFiniteSet({d \in S : d < c})
           /\ Below(c, S) \in Nat /\ Below(c, S) <= Cardinality(S)
<1>1. IsFiniteSet(S)
  BY CaseScanAssumption, FS_Subset
<1>2. {d \in S : d < c} \in SUBSET S
  OBVIOUS
<1> QED
  BY <1>1, <1>2, FS_Subset, FS_CardinalityType DEF Below

LEMMA BelowGrows ==
    ASSUME NEW S \in SUBSET Cases, NEW c \in S, NEW d \in S, c < d
    PROVE  Below(c, S) < Below(d, S)
<1> DEFINE C == {e \in S : e < c}
           D == {e \in S : e < d}
<1>1. IsFiniteSet(C) /\ Cardinality(C) \in Nat /\ IsFiniteSet(D) /\ Cardinality(D) \in Nat
  BY BelowType DEF Below
<1>2. S \subseteq Nat
  BY CaseScanAssumption
<1>3. C \cup {c} \in SUBSET D /\ c \notin C
  <2>1. ASSUME NEW e \in C PROVE e < d
    BY <1>2
  <2>2. ~(c < c)
    BY <1>2
  <2> QED
    BY <2>1, <2>2
<1>4. Cardinality(C \cup {c}) = Cardinality(C) + 1
  BY <1>1, <1>3, FS_AddElement
<1>5. Cardinality(C \cup {c}) <= Cardinality(D)
  BY <1>1, <1>3, FS_Subset
<1> HIDE DEF C, D
<1>6. Cardinality(C) < Cardinality(D)
  BY <1>1, <1>4, <1>5
<1> QED
  BY <1>6 DEF C, D, Below

(* The BatchSize lowest of S, if it has that many: to be the n-th lowest   *)
(* maps S one to one onto 0..Cardinality(S) - 1.                           *)
LEMMA LowestOfMany ==
    ASSUME NEW S \in SUBSET Cases, NEW x \in S, Below(x, S) >= BatchSize
    PROVE  Cardinality({c \in S : Below(c, S) < BatchSize}) >= BatchSize
<1> DEFINE n == Cardinality(S)
           f == [c \in S |-> Below(c, S)]
           P == {c \in S : Below(c, S) < BatchSize}
<1>0. S \subseteq Nat /\ IsFiniteSet(S) /\ BatchSize \in Nat \ {0}
  BY CaseScanAssumption, BelowType
<1>1. n \in Nat
  BY <1>0, FS_CardinalityType
<1>2. ASSUME NEW c \in S PROVE Below(c, S) \in 0..(n - 1)
  <2> DEFINE C == {e \in S : e < c}
  <2>1. IsFiniteSet(C) /\ Cardinality(C) \in Nat
    BY BelowType DEF Below
  <2>2. C \cup {c} \in SUBSET S /\ c \notin C
    BY <1>0
  <2>3. Cardinality(C \cup {c}) = Cardinality(C) + 1 /\ Cardinality(C \cup {c}) <= n
    BY <1>0, <2>1, <2>2, FS_AddElement, FS_Subset
  <2> HIDE DEF C, n
  <2>4. Cardinality(C) \in 0..(n - 1)
    BY <1>1, <2>1, <2>3
  <2> QED
    BY <2>4 DEF C, Below
<1>3. f \in [S -> 0..(n - 1)]
  BY <1>2
<1>4. ASSUME NEW c \in S, NEW d \in S, f[c] = f[d] PROVE c = d
  <2>1. Below(c, S) \in Nat /\ Below(d, S) \in Nat /\ Below(c, S) = Below(d, S)
    BY <1>2, <1>4
  <2>2. ~(c < d) /\ ~(d < c)
    BY <2>1, BelowGrows
  <2> QED
    BY <1>0, <2>2
<1>5. f \in Injection(S, 0..(n - 1))
  <2> HIDE DEF f, n
  <2> QED
    BY <1>3, <1>4 DEF Injection, IsInjective
<1>6. IsFiniteSet(0..(n - 1)) /\ Cardinality(0..(n - 1)) = n
  <2>1. 0 \in Int /\ n - 1 \in Int
    BY <1>1
  <2> HIDE DEF n
  <2> QED
    BY <2>1, <1>1, FS_Interval
<1>7. f \in Surjection(S, 0..(n - 1))
  BY <1>5, <1>6, FS_Injection
<1>8. BatchSize \in 0..(n - 1)
  BY <1>0, <1>1, <1>2
<1>9. PICK m \in S : Below(m, S) = BatchSize
  BY <1>7, <1>8 DEF Surjection
<1>10. {d \in S : d < m} \in SUBSET P
  BY <1>9, BelowGrows
<1>11. P \in SUBSET S
  OBVIOUS
<1>12. IsFiniteSet(P)
  BY <1>0, <1>11, FS_Subset
<1>13. Cardinality({d \in S : d < m}) <= Cardinality(P)
  BY <1>10, <1>12, FS_Subset
<1> QED
  BY <1>9, <1>13 DEF Below

Rest == {c \in cases : \A i \in DOMAIN pages : \A d \in pages[i] : d < c}

(* A page is the lowest of the rest, and all of it if it is not full.      *)
LEMMA PageOfRest ==
    ASSUME TypeOK
    PROVE  /\ Page(pages) \in SUBSET Rest /\ Rest \in SUBSET Cases
           /\ \A c \in Rest \ Page(pages) : \A d \in Page(pages) : d < c
           /\ Cardinality(Page(pages)) < BatchSize => Page(pages) = Rest
           /\ Page(pages) = {} => Rest = {}
<1>1. Rest \in SUBSET Cases /\ Rest \subseteq Nat
  BY CaseScanAssumption DEF Rest, TypeOK
<1>2. Page(pages) = {c \in Rest : Below(c, Rest) < BatchSize}
  BY DEF Page, Rest
<1>3. BatchSize \in Nat \ {0}
  BY CaseScanAssumption
<1>4. \A c \in Rest : Below(c, Rest) \in Nat
  BY <1>1, BelowType
<1>5. ASSUME NEW c \in Rest \ Page(pages), NEW d \in Page(pages) PROVE d < c
  <2>1. c \in Rest /\ d \in Rest /\ Below(c, Rest) \in Nat /\ Below(d, Rest) \in Nat
    BY <1>2, <1>4, <1>5
  <2>2. Below(d, Rest) < Below(c, Rest)
    BY <1>2, <1>3, <1>5, <2>1
  <2>3. ~(c < d)
    <3> SUFFICES ASSUME c < d PROVE FALSE
      OBVIOUS
    <3>1. Below(c, Rest) < Below(d, Rest)
      BY <1>1, <2>1, BelowGrows
    <3> QED
      BY <2>1, <2>2, <3>1
  <2>4. c # d
    BY <2>1, <2>2
  <2>5. c \in Nat /\ d \in Nat
    BY <1>1, <2>1
  <2> QED
    BY <2>3, <2>4, <2>5
<1>6. ASSUME NEW c \in Rest, c \notin Page(pages)
      PROVE  Cardinality(Page(pages)) >= BatchSize
  <2>1. Below(c, Rest) >= BatchSize
    BY <1>2, <1>3, <1>4, <1>6
  <2> QED
    BY <1>1, <1>2, <2>1, LowestOfMany
<1>7. Page(pages) \subseteq Rest
  BY <1>2
<1>8. IsFiniteSet(Page(pages)) /\ Cardinality(Page(pages)) \in Nat
  BY <1>1, <1>7, BelowType, FS_Subset, FS_CardinalityType
<1>9. Cardinality(Page(pages)) < BatchSize => Page(pages) = Rest
  BY <1>3, <1>6, <1>7, <1>8
<1>10. Page(pages) = {} => Rest = {}
  BY <1>3, <1>9, FS_EmptySet
<1> QED
  BY <1>1, <1>5, <1>7, <1>9, <1>10

(* The scan goes on behind the last page.                                  *)
LEMMA PageYielded ==
    ASSUME TypeOK, PagesInOrder, ScanPage
    PROVE  PagesInOrder'
<1> DEFINE P == Page(pages)
           n == Len(pages) + 1
<1>1. /\ Len(pages) \in Nat /\ DOMAIN pages = 1..Len(pages)
      /\ \A i \in DOMAIN pages : pages[i] \in SUBSET Cases
  BY LenProperties, ElementOfSeq DEF TypeOK
<1>2. /\ P \in SUBSET Rest /\ Rest \in SUBSET Cases
      /\ \A c \in Rest \ P : \A d \in P : d < c
      /\ Cardinality(P) < BatchSize => P = Rest
  BY PageOfRest
<1>3. P \in SUBSET Cases
  BY <1>2
<1> HIDE DEF P
<1>4. /\ DOMAIN pages' = 1..n /\ Len(pages') = n
      /\ \A i \in DOMAIN pages : pages'[i] = pages[i]
      /\ pages'[n] = P
  <2> DEFINE S == SUBSET Cases
  <2> HIDE DEF S
  <2>1. ASSUME NEW p \in Seq(S), NEW e \in S
        PROVE  /\ Append(p, e) \in Seq(S) /\ Len(Append(p, e)) = Len(p) + 1
               /\ \A i \in 1..Len(p) : Append(p, e)[i] = p[i]
               /\ Append(p, e)[Len(p) + 1] = e
               /\ DOMAIN Append(p, e) = 1..(Len(p) + 1)
    BY AppendProperties, LenProperties
  <2>2. pages \in Seq(S) /\ P \in S /\ pages' = Append(pages, P)
    BY <1>3 DEF TypeOK, S, ScanPage, P
  <2> QED
    BY <1>1, <2>1, <2>2
<1>5. \A c \in Rest : \A i \in DOMAIN pages : \A d \in pages[i] : d < c
  BY DEF Rest
<1>6. /\ steady' = steady
      /\ \A c \in steady : c \in Rest \/ \E i \in DOMAIN pages : c \in pages[i]
  BY DEF PagesInOrder, Rest, ScanPage, TypeOK
<1>7. DOMAIN pages' = DOMAIN pages \cup {n} /\ n \notin DOMAIN pages
  BY <1>1, <1>4
<1>8. ASSUME NEW i \in DOMAIN pages', NEW j \in DOMAIN pages', i < j,
             NEW c \in pages'[i], NEW d \in pages'[j]
      PROVE  c < d
  <2>1. CASE j = n
    <3>1. i \in DOMAIN pages /\ c \in pages[i] /\ d \in Rest
      BY <1>1, <1>2, <1>4, <1>8, <2>1
    <3> QED
      BY <1>5, <3>1
  <2>2. CASE j # n
    <3>1. i \in DOMAIN pages /\ j \in DOMAIN pages
      BY <1>1, <1>4, <1>8, <2>2
    <3> QED
      BY <1>4, <1>8, <3>1 DEF PagesInOrder
  <2> QED
    BY <2>1, <2>2
<1>9. ASSUME NEW c \in steady'
      PROVE  \/ \E i \in DOMAIN pages' : c \in pages'[i]
             \/ \A i \in DOMAIN pages' : \A d \in pages'[i] : d < c
  <2>1. CASE \E i \in DOMAIN pages : c \in pages[i]
    BY <1>4, <1>7, <2>1
  <2>2. CASE c \in P
    BY <1>4, <1>7, <2>2
  <2>3. CASE c \in Rest \ P
    BY <1>2, <1>4, <1>5, <1>7, <2>3
  <2> QED
    BY <1>6, <1>9, <2>1, <2>2, <2>3
<1>10. LastPage(pages)' => AllScanned'
  <2> SUFFICES ASSUME LastPage(pages)' PROVE AllScanned'
    OBVIOUS
  <2>1. Cardinality(P) < BatchSize
    BY <1>4 DEF LastPage
  <2>2. \A c \in steady' : c \in P \/ \E i \in DOMAIN pages : c \in pages[i]
    BY <1>2, <1>6, <2>1
  <2> QED
    BY <1>4, <1>7, <2>2 DEF AllScanned
<1> QED
  BY <1>8, <1>9, <1>10 DEF PagesInOrder

(* Cases that come and go do not matter to what is in the pages.           *)
LEMMA PagesStay ==
    ASSUME PagesInOrder, pages' = pages, steady' \subseteq steady
    PROVE  PagesInOrder' /\ (AllScanned => AllScanned')
BY DEF PagesInOrder, AllScanned, LastPage

(* When the scan ends, it has seen all that was there all the time.        *)
LEMMA ScanSawAll ==
    ASSUME TypeOK, PagesInOrder, ScanEnds
    PROVE  AllScanned
<1>1. CASE LastPage(pages)
  BY <1>1 DEF PagesInOrder
<1>2. CASE Page(pages) = {}
  BY <1>2, PageOfRest DEF PagesInOrder, AllScanned, Rest, TypeOK
<1> QED
  BY <1>1, <1>2 DEF ScanEnds

-----------------------------------------------------------------------------
(* Chunks on their way.                                                    *)

LEMMA TailOfDistinct ==
    ASSUME NEW s \in Seq(Chunks), s # <<>>, Distinct(s)
    PROVE  /\ Distinct(Tail(s)) /\ Head(s) \notin Elements(Tail(s))
           /\ Elements(s) = Elements(Tail(s)) \cup {Head(s)}
<1>1. /\ Len(s) \in Nat \ {0} /\ DOMAIN s = 1..Len(s)
      /\ Tail(s) \in Seq(Chunks) /\ Len(Tail(s)) = Len(s) - 1
      /\ \A i \in 1..Len(Tail(s)) : Tail(s)[i] = s[i + 1]
      /\ Head(s) = s[1]
  BY HeadTailProperties, LenProperties, EmptySeq
<1>2. DOMAIN Tail(s) = 1..(Len(s) - 1)
  BY <1>1, LenProperties
<1> DEFINE t == Tail(s)
           h == Head(s)
<1>3. /\ \A i \in DOMAIN t : i + 1 \in DOMAIN s /\ t[i] = s[i + 1] /\ i + 1 # 1
      /\ \A j \in DOMAIN s : j # 1 => j - 1 \in DOMAIN t /\ t[j - 1] = s[j]
      /\ 1 \in DOMAIN s /\ h = s[1]
      /\ \A i, j \in DOMAIN t : i + 1 = j + 1 => i = j
  BY <1>1, <1>2
<1> HIDE DEF t, h
<1>4. Distinct(t) /\ h \notin Elements(t)
  BY <1>3 DEF Distinct, Elements
<1>5. Elements(s) \subseteq Elements(t) \cup {h}
  BY <1>3 DEF Elements
<1>6. Elements(t) \cup {h} \subseteq Elements(s)
  BY <1>3 DEF Elements
<1> QED
  BY <1>4, <1>5, <1>6 DEF t, h

LEMMA AppendToDistinct ==
    ASSUME NEW s \in Seq(Chunks), NEW e \in Chunks, Distinct(s), e \notin Elements(s)
    PROVE  /\ Distinct(Append(s, e))
           /\ Elements(Append(s, e)) = Elements(s) \cup {e}
<1> DEFINE t == Append(s, e)
           n == Len(s) + 1
<1>1. /\ Len(s) \in Nat /\ DOMAIN s = 1..Len(s)
      /\ t \in Seq(Chunks) /\ Len(t) = n
      /\ \A i \in 1..Len(s) : t[i] = s[i]
      /\ t[n] = e
  BY AppendProperties, LenProperties
<1>2. DOMAIN t = 1..n
  BY <1>1, LenProperties
<1>3. /\ DOMAIN t = DOMAIN s \cup {n} /\ t[n] = e
      /\ \A i \in DOMAIN s : t[i] = s[i]
  BY <1>1, <1>2
<1> HIDE DEF t, n
<1>4. Distinct(t)
  BY <1>3 DEF Distinct, Elements
<1>5. Elements(t) = Elements(s) \cup {e}
  BY <1>3 DEF Elements
<1> QED
  BY <1>4, <1>5 DEF t

(* A worker takes a chunk, or passes on the one it has.                    *)
LEMMA WorkedGrows ==
    ASSUME TypeOK, NEW w \in Workers, w \notin AtWork, NEW c,
           AtWork' = AtWork \cup {w}, chunk' = [chunk EXCEPT ![w] = c]
    PROVE  Worked' = Worked \cup {c}
BY DEF Worked, TypeOK, AtWork

LEMMA WorkedShrinks ==
    ASSUME TypeOK, NEW w \in AtWork, AtWork' = AtWork \ {w}, chunk' = chunk,
           \A u, v \in AtWork : chunk[u] = chunk[v] => u = v
    PROVE  Worked' = Worked \ {chunk[w]}
BY DEF Worked

(* What one place loses the next one gains.                                *)
LEMMA ChunksKept ==
    ASSUME IInv, ChunksInPlace, [Next]_vars, Quiet'
    PROVE  ChunksInPlace'
<1> DEFINE B == Elements(batchCh)
           G == Elements(progressCh)
<1> USE DEF IInv, Quiet
<1>0. /\ Len(pages) \in Nat /\ Len(reports) \in Nat
      /\ DOMAIN reports = 1..Len(reports) /\ DOMAIN pages = 1..Len(pages)
      /\ batchCh \in Seq(Chunks) /\ progressCh \in Seq(Chunks)
  BY LenProperties DEF TypeOK
<1>1. CASE /\ UNCHANGED <<pages, reports, batchCh, progressCh>>
           /\ Scanned' = Scanned /\ AtWork' = AtWork /\ chunk' = chunk /\ Called' = Called
  <2>1. B' = B /\ G' = G /\ Worked' = Worked
    BY <1>1 DEF Elements, Worked
  <2>2. Distinct(batchCh)' /\ Distinct(progressCh)'
    BY <1>1 DEF ChunksInPlace, Distinct
  <2>3. OnTheWay' = OnTheWay
    BY <1>1, <2>1 DEF OnTheWay
  <2> HIDE DEF B, G
  <2>4. \A v, w \in AtWork' : chunk'[v] = chunk'[w] => v = w
    BY <1>1 DEF ChunksInPlace
  <2>5. /\ OnTheWay' \subseteq 1..Len(pages') /\ Len(reports') = Len(pages')
        /\ \A i \in 1..Len(pages') : reports'[i] = IF i \in OnTheWay' THEN 0 ELSE 1
    BY <1>1, <2>3 DEF ChunksInPlace
  <2> QED
    BY <1>1, <2>1, <2>2, <2>4, <2>5 DEF ChunksInPlace, B, G
<1>2. CASE Start \/ EndAtOnce \/ Cancel \/ Wait
  BY <1>1, <1>2 DEF Start, EndAtOnce, Cancel, Wait, Scanned, AtWork, Called
<1>3. CASE ScanPage
  <2>1. /\ Len(pages') = Len(pages) + 1
        /\ Len(reports') = Len(reports) + 1 /\ reports'[Len(reports) + 1] = 0
        /\ \A i \in 1..Len(reports) : reports'[i] = reports[i]
    <3>1. Page(pages) \in SUBSET Cases
      BY DEF Page, TypeOK
    <3> DEFINE S == SUBSET Cases
    <3> HIDE DEF S
    <3>2. ASSUME NEW p \in Seq(S), NEW e \in S PROVE Len(Append(p, e)) = Len(p) + 1
      BY AppendProperties
    <3>3. Len(pages') = Len(pages) + 1
      BY <1>3, <3>1, <3>2 DEF ScanPage, TypeOK, S
    <3>4. reports \in Seq(Nat) /\ reports' = Append(reports, 0)
      BY <1>3 DEF ScanPage, TypeOK
    <3> QED
      BY <3>3, <3>4, AppendProperties
  <2>2. /\ Scanned = {} /\ Scanned' = {Len(pages) + 1}
        /\ B' = B /\ G' = G /\ Worked' = Worked /\ Called' = Called
        /\ AtWork' = AtWork /\ chunk' = chunk
        /\ UNCHANGED <<batchCh, progressCh>>
    BY <1>3, <2>1 DEF ScanPage, Scanned, Worked, Called, AtWork, Elements
  <2>3. OnTheWay' = OnTheWay \cup {Len(pages) + 1} /\ OnTheWay \subseteq 1..Len(pages)
    BY <2>2 DEF OnTheWay, ChunksInPlace
  <2>4. OnTheWay' \subseteq 1..Len(pages') /\ Len(pages) + 1 \notin OnTheWay
    <3>1. 1..Len(pages') = 1..Len(pages) \cup {Len(pages) + 1} /\ Len(pages) + 1 \notin 1..Len(pages)
      BY <1>0, <2>1
    <3> QED
      BY <2>3, <3>1
  <2>5. \A i \in 1..Len(pages') : reports'[i] = IF i \in OnTheWay' THEN 0 ELSE 1
    BY <1>0, <2>1, <2>3 DEF ChunksInPlace
  <2> HIDE DEF B, G
  <2>6. /\ Scanned' \cap (B \cup Worked \cup G \cup Called) = {}
    BY <2>2, <2>4 DEF OnTheWay, B, G
  <2>7. Distinct(batchCh)' /\ Distinct(progressCh)'
    BY <2>2 DEF ChunksInPlace, Distinct
  <2>8. Len(reports') = Len(pages')
    BY <1>0, <2>1 DEF ChunksInPlace
  <2> QED
    BY <2>2, <2>4, <2>5, <2>6, <2>7, <2>8 DEF ChunksInPlace, B, G
<1>4. CASE Send
  <2>1. /\ Scanned = {Len(pages)} /\ Scanned' = {}
        /\ Len(pages) \in Chunks
        /\ G' = G /\ Worked' = Worked /\ Called' = Called
        /\ AtWork' = AtWork /\ chunk' = chunk
        /\ UNCHANGED <<pages, reports, progressCh>>
        /\ batchCh' = Append(batchCh, Len(pages))
    BY <1>4, EmptySeq DEF Send, Scanned, Worked, Called, AtWork, Elements, Chunks, ChunksInHand, TypeOK
  <2>2. Len(pages) \notin B
    BY <2>1 DEF ChunksInPlace
  <2>3. Distinct(batchCh)' /\ B' = B \cup {Len(pages)}
    BY <1>0, <2>1, <2>2, AppendToDistinct DEF ChunksInPlace
  <2>4. Distinct(progressCh)'
    BY <2>1 DEF ChunksInPlace, Distinct
  <2>5. OnTheWay' = OnTheWay
    BY <2>1, <2>3 DEF OnTheWay
  <2> HIDE DEF B, G
  <2> QED
    BY <2>1, <2>2, <2>3, <2>4, <2>5 DEF ChunksInPlace, B, G
<1>5. CASE ScanCancelled \/ ScanFails
  BY <1>5 DEF ScanCancelled, ScanFails, Cancelled, Fail
<1>6. CASE ScanEnds
  BY <1>1, <1>6 DEF ScanEnds, Scanned, AtWork, Called
<1>7. ASSUME NEW w \in Workers, TakeChunk(w) PROVE ChunksInPlace'
  <2> DEFINE c == Head(batchCh)
  <2>1. /\ batchCh # <<>> /\ batchCh' = Tail(batchCh)
        /\ UNCHANGED <<pages, reports, progressCh>>
        /\ Scanned' = Scanned /\ G' = G /\ Called' = Called
        /\ w \notin AtWork /\ chunk' = [chunk EXCEPT ![w] = c]
    BY <1>7 DEF TakeChunk, Scanned, Called, AtWork, Elements
  <2>2. AtWork' = AtWork \cup {w}
    BY <1>7 DEF TakeChunk, Goto, AtWork, TypeOK
  <2>3. Distinct(batchCh)' /\ c \notin B' /\ B = B' \cup {c}
    BY <1>0, <2>1, TailOfDistinct DEF ChunksInPlace
  <2>4. Worked' = Worked \cup {c}
    <3> HIDE DEF c
    <3> QED
      BY <2>1, <2>2, WorkedGrows
  <2> HIDE DEF c, B, G
  <2>5. c \notin Worked
    BY <2>3 DEF ChunksInPlace, B, G
  <2>6. \A u, v \in AtWork' : chunk'[u] = chunk'[v] => u = v
    <3>1. \A v \in AtWork : v \in Workers /\ chunk'[v] = chunk[v] /\ chunk[v] # c
      BY <2>1, <2>5 DEF Worked, AtWork, TypeOK
    <3>2. chunk'[w] = c
      BY <2>1 DEF TypeOK
    <3> QED
      BY <2>2, <3>1, <3>2 DEF ChunksInPlace
  <2>7. Distinct(progressCh)'
    BY <2>1 DEF ChunksInPlace, Distinct
  <2>8. OnTheWay' = OnTheWay
    BY <2>1, <2>3, <2>4 DEF OnTheWay, B, G
  <2> QED
    BY <2>1, <2>3, <2>4, <2>5, <2>6, <2>7, <2>8 DEF ChunksInPlace, B, G
<1>8. ASSUME NEW w \in Workers, NoMoreChunks(w) \/ DispatchOneBatch(w) PROVE ChunksInPlace'
  <2>1. AtWork' = AtWork
    BY <1>8 DEF NoMoreChunks, DispatchOneBatch, Goto, AtWork, TypeOK
  <2> QED
    BY <1>1, <1>8, <2>1 DEF NoMoreChunks, DispatchOneBatch, Scanned, Called
<1>9. ASSUME NEW w \in Workers, Emit(w) PROVE ChunksInPlace'
  <2> DEFINE c == chunk[w]
  <2>1. /\ progressCh' = Append(progressCh, c)
        /\ UNCHANGED <<pages, reports, batchCh, chunk>>
        /\ Scanned' = Scanned /\ B' = B /\ Called' = Called
        /\ w \in AtWork
    BY <1>9 DEF Emit, Scanned, Called, AtWork, Elements
  <2>2. AtWork' = AtWork \ {w}
    BY <1>9 DEF Emit, Goto, AtWork, TypeOK
  <2>3. c \in Chunks /\ c \in Worked
    BY <1>9, <2>1 DEF Emit, Chunks, ChunksInHand, TypeOK, Worked
  <2>4. c \notin G
    BY <2>3 DEF ChunksInPlace
  <2>5. Distinct(progressCh)' /\ G' = G \cup {c}
    BY <1>0, <2>1, <2>3, <2>4, AppendToDistinct DEF ChunksInPlace
  <2>6. Worked' = Worked \ {c}
    BY <2>1, <2>2, WorkedShrinks DEF ChunksInPlace
  <2> HIDE DEF c, B, G
  <2>7. \A u, v \in AtWork' : chunk'[u] = chunk'[v] => u = v
    BY <2>1, <2>2 DEF ChunksInPlace
  <2>8. Distinct(batchCh)'
    BY <2>1 DEF ChunksInPlace, Distinct
  <2>9. OnTheWay' = OnTheWay
    BY <2>1, <2>3, <2>5, <2>6 DEF OnTheWay, B, G
  <2> QED
    BY <2>1, <2>3, <2>4, <2>5, <2>6, <2>7, <2>8, <2>9 DEF ChunksInPlace, B, G
<1>10. ASSUME NEW w \in Workers, WorkerStops(w) PROVE ChunksInPlace'
  BY <1>10 DEF WorkerStops, Cancelled, Fail
<1>11. CASE CloseProgress \/ NoMoreProgress
  BY <1>1, <1>11 DEF CloseProgress, NoMoreProgress, Scanned, AtWork, Called
<1>12. CASE ReadProgress
  <2> DEFINE c == Head(progressCh)
  <2>1. /\ progressCh # <<>> /\ progressCh' = Tail(progressCh)
        /\ UNCHANGED <<pages, reports, batchCh, chunk>>
        /\ Scanned' = Scanned /\ B' = B /\ Worked' = Worked /\ AtWork' = AtWork
        /\ Called = {} /\ Called' = {c}
    BY <1>12 DEF ReadProgress, Scanned, Called, AtWork, Worked, Elements
  <2>2. Distinct(progressCh)' /\ c \notin G' /\ G = G' \cup {c}
    BY <1>0, <2>1, TailOfDistinct DEF ChunksInPlace
  <2>3. Distinct(batchCh)'
    BY <2>1 DEF ChunksInPlace, Distinct
  <2> HIDE DEF c, B, G
  <2>4. OnTheWay' = OnTheWay
    BY <2>1, <2>2 DEF OnTheWay, B, G
  <2> QED
    BY <2>1, <2>2, <2>3, <2>4 DEF ChunksInPlace, B, G
<1>13. CASE CallbackReturns
  <2>1. /\ reports' = [reports EXCEPT ![current] = reports[current] + 1]
        /\ UNCHANGED <<pages, batchCh, progressCh, chunk>>
        /\ Scanned' = Scanned /\ B' = B /\ G' = G /\ Worked' = Worked /\ AtWork' = AtWork
        /\ Called = {current} /\ Called' = {}
    BY <1>13 DEF CallbackReturns, Scanned, Called, AtWork, Worked, Elements
  <2> HIDE DEF B, G
  <2>2. OnTheWay' = OnTheWay \ {current} /\ current \in OnTheWay
    BY <2>1 DEF OnTheWay, ChunksInPlace, B, G
  <2>3. current \in 1..Len(pages) /\ reports[current] = 0
    BY <2>2 DEF ChunksInPlace
  <2>4. Len(reports') = Len(reports)
    BY <2>1
  <2>5. \A i \in 1..Len(pages) : reports'[i] = IF i \in OnTheWay' THEN 0 ELSE 1
    BY <1>0, <2>1, <2>2, <2>3 DEF ChunksInPlace
  <2>6. Distinct(batchCh)' /\ Distinct(progressCh)'
    BY <2>1 DEF ChunksInPlace, Distinct
  <2> QED
    BY <2>1, <2>2, <2>4, <2>5, <2>6 DEF ChunksInPlace, B, G
<1>14. CASE CallbackFails
  BY <1>14 DEF CallbackFails, Fail
<1>15. CASE CatalogueChanges \/ UNCHANGED vars
  BY <1>1, <1>15 DEF CatalogueChanges, Scanned, AtWork, Called
<1> QED
  BY <1>2, <1>3, <1>4, <1>5, <1>6, <1>7, <1>8, <1>9, <1>10, <1>11, <1>12, <1>13, <1>14, <1>15
  DEF Next, Producer, Worker, Aggregator

(* The goroutines end from the scan down.                                  *)
LEMMA EndsKept ==
    ASSUME IInv, PagesInOrder, EndsInOrder, [Next]_vars, Quiet'
    PROVE  EndsInOrder'
<1> USE DEF IInv, Quiet, Cancelled, Fail
<1>1. CASE pages' = pages /\ steady' = steady
  <2>1. AllScanned' = AllScanned
    BY <1>1 DEF AllScanned
  <2> USE DEF EndsInOrder, Untouched
  <2>2. CASE Start \/ EndAtOnce \/ Cancel \/ Wait
    BY <2>1, <2>2 DEF Start, EndAtOnce, Cancel, Wait, TypeOK
  <2>3. CASE Send \/ ScanCancelled \/ ScanFails
    BY <2>1, <2>3 DEF Send, ScanCancelled, ScanFails
  <2>4. CASE ScanEnds
    BY <2>1, <2>4, ScanSawAll DEF ScanEnds
  <2>5. ASSUME NEW w \in Workers, TakeChunk(w) PROVE EndsInOrder'
    BY <2>1, <2>5 DEF TakeChunk, Goto, TypeOK
  <2>6. ASSUME NEW w \in Workers, NoMoreChunks(w) \/ DispatchOneBatch(w) PROVE EndsInOrder'
    BY <2>1, <2>6 DEF NoMoreChunks, DispatchOneBatch, Goto, TypeOK
  <2>7. ASSUME NEW w \in Workers, Emit(w) \/ WorkerStops(w) PROVE EndsInOrder'
    BY <2>1, <2>7 DEF Emit, WorkerStops, Goto, TypeOK
  <2>8. CASE CloseProgress
    BY <2>1, <2>8, PipelineAssumption DEF CloseProgress
  <2>9. CASE Aggregator
    BY <2>1, <2>9 DEF Aggregator, ReadProgress, CallbackReturns, CallbackFails, NoMoreProgress
  <2>10. CASE ScanPage \/ CatalogueChanges
    BY <2>1, <2>10 DEF ScanPage, CatalogueChanges
  <2>11. CASE UNCHANGED vars
    BY <2>1, <2>11
  <2> QED
    BY <2>2, <2>3, <2>4, <2>5, <2>6, <2>7, <2>8, <2>9, <2>10, <2>11
    DEF Next, Producer, Worker
<1>2. CASE ScanPage
  BY <1>2 DEF ScanPage, EndsInOrder
<1>3. CASE CatalogueChanges
  <2>1. /\ caller = "running" /\ steady' \subseteq steady
        /\ UNCHANGED <<caller, producer, pages, batchCh, stage, progressCh, progress, aggregator>>
    BY <1>3 DEF CatalogueChanges, Upstream
  <2> QED
    BY <2>1, PagesStay DEF EndsInOrder
<1>4. ASSUME ~ScanPage, ~CatalogueChanges PROVE pages' = pages /\ steady' = steady
  BY <1>4 DEF Next, Start, EndAtOnce, Cancel, Wait, Producer, Send, ScanCancelled, ScanEnds,
     ScanFails, Worker, TakeChunk, NoMoreChunks, DispatchOneBatch, Emit, WorkerStops,
     CloseProgress, Aggregator, ReadProgress, CallbackReturns, CallbackFails, NoMoreProgress
<1> QED
  BY <1>1, <1>2, <1>3, <1>4

LEMMA PagesKept ==
    ASSUME TypeOK, PagesInOrder, [Next]_vars
    PROVE  PagesInOrder'
<1>1. CASE ScanPage
  BY <1>1, PageYielded
<1>2. ASSUME ~ScanPage PROVE pages' = pages /\ steady' \subseteq steady
  BY <1>2 DEF Next, Start, EndAtOnce, Cancel, Wait, Producer, Send, ScanCancelled, ScanEnds,
     ScanFails, Worker, TakeChunk, NoMoreChunks, DispatchOneBatch, Emit, WorkerStops,
     CloseProgress, Aggregator, ReadProgress, CallbackReturns, CallbackFails, NoMoreProgress,
     CatalogueChanges, Upstream
<1> QED
  BY <1>1, <1>2, PagesStay

(* When a quiet call is done, nothing is on its way any more.              *)
LEMMA NilInvSuffices ==
    ASSUME TypeOK, NilInv
    PROVE  NilMeansComplete
<1> SUFFICES ASSUME caller = "done", Quiet PROVE Complete
  BY DEF NilMeansComplete, Quiet
<1>1. ChunksInPlace /\ EndsInOrder /\ PagesInOrder
  BY DEF NilInv
<1>2. Len(pages) \in Nat /\ DOMAIN pages = 1..Len(pages)
  BY LenProperties DEF TypeOK
<1>3. OnTheWay = {} /\ AllScanned
  <2>1. CASE Untouched /\ steady = {}
    BY <2>1 DEF Untouched, OnTheWay, Scanned, Worked, AtWork, Called, Elements, AllScanned
  <2>2. CASE producer = "done" /\ aggregator = "done"
    <3>1. /\ AllScanned /\ progressCh = <<>>
          /\ \A w \in Workers : stage[w] = "done"
      BY <1>1, <2>2 DEF EndsInOrder
    <3>2. batchCh = <<>>
      BY <1>1, <3>1, PipelineAssumption DEF EndsInOrder
    <3> QED
      BY <2>2, <3>1, <3>2 DEF OnTheWay, Scanned, Worked, AtWork, Called, Elements
  <2> QED
    BY <1>1, <2>1, <2>2 DEF EndsInOrder
<1>4. \A i \in DOMAIN pages : reports[i] = 1
  BY <1>1, <1>2, <1>3 DEF ChunksInPlace
<1>5. ASSUME NEW c \in Cases PROVE Cardinality(ChunksOf(c)) <= 1
  <2>1. \A i, j \in ChunksOf(c) : i = j
    <3> SUFFICES ASSUME NEW i \in ChunksOf(c), NEW j \in ChunksOf(c), i < j PROVE FALSE
      BY <1>2 DEF ChunksOf
    <3>1. c < c
      BY <1>1 DEF PagesInOrder, ChunksOf
    <3> QED
      BY <3>1, CaseScanAssumption
  <2>2. ChunksOf(c) = {} \/ \E i : ChunksOf(c) = {i}
    BY <2>1
  <2>3. Cardinality(ChunksOf(c)) \in {0, 1}
    BY <2>2, FS_EmptySet, FS_Singleton
  <2> QED
    BY <2>3
<1>6. \A c \in steady : ChunksOf(c) # {}
  BY <1>3 DEF AllScanned, ChunksOf
<1> QED
  BY <1>4, <1>5, <1>6 DEF Complete

(* A call that ends well has reported all there was, once: as long as      *)
(* nothing has failed, each chunk is in one place between the scan and the *)
(* callback, and a goroutine ends with nothing left behind it.             *)
THEOREM NilMeansCompleteHolds == Spec => []NilMeansComplete
<1>1. Init => NilInv
  <2> SUFFICES ASSUME Init PROVE NilInv
    OBVIOUS
  <2>1. PagesInOrder
    BY DEF Init, PagesInOrder, LastPage
  <2>2. EndsInOrder
    BY PipelineAssumption DEF Init, EndsInOrder, Untouched
  <2>3. ChunksInPlace
    <3>1. Len(pages) = 0 /\ Len(reports) = 0
      BY EmptySeq DEF Init
    <3>2. OnTheWay = {} /\ AtWork = {}
      BY DEF Init, OnTheWay, Scanned, Worked, AtWork, Called, Elements
    <3> QED
      BY <3>1, <3>2 DEF Init, ChunksInPlace, Scanned, Worked, Called, Elements, Distinct, OnTheWay
  <2> QED
    BY <2>1, <2>2, <2>3 DEF NilInv
<1>2. IInv /\ NilInv /\ [Next]_vars => NilInv'
  <2> SUFFICES ASSUME IInv, NilInv, [Next]_vars PROVE NilInv'
    OBVIOUS
  <2>1. PagesInOrder'
    BY PagesKept DEF NilInv, IInv
  <2>2. ASSUME Quiet' PROVE ChunksInPlace' /\ EndsInOrder'
    <3>1. Quiet
      BY <2>2 DEF Quiet, Next, Start, EndAtOnce, Cancel, Wait, Producer, ScanPage, Send,
         ScanCancelled, ScanEnds, ScanFails, Worker, TakeChunk, NoMoreChunks,
         DispatchOneBatch, Emit, WorkerStops, CloseProgress, Aggregator, ReadProgress,
         CallbackReturns, CallbackFails, NoMoreProgress, CatalogueChanges, Fail, IInv, TypeOK
    <3>2. ChunksInPlace /\ EndsInOrder /\ PagesInOrder
      BY <3>1 DEF NilInv
    <3> QED
      BY <2>2, <3>2, ChunksKept, EndsKept
  <2> QED
    BY <2>1, <2>2 DEF NilInv
<1>3. IInv /\ NilInv => NilMeansComplete
  BY NilInvSuffices DEF IInv
<1> QED
  BY <1>1, <1>2, <1>3, InvariantHolds, PTL DEF Spec

-----------------------------------------------------------------------------
(* The goroutines never all wait: an early end cancels the group.          *)
LEMMA EarlyEndsInit == Init => EarlyEndsCancel
BY DEF Init, EarlyEndsCancel

LEMMA EarlyEndsNext == TypeOK /\ EarlyEndsCancel /\ [Next]_vars => EarlyEndsCancel'
<1> SUFFICES ASSUME TypeOK, EarlyEndsCancel, [Next]_vars PROVE EarlyEndsCancel'
  OBVIOUS
<1> USE DEF EarlyEndsCancel, Cancelled, Fail, TypeOK
<1>1. CASE Start \/ EndAtOnce \/ Cancel \/ Wait
  BY <1>1 DEF Start, EndAtOnce, Cancel, Wait, Errors
<1>2. CASE Producer
  BY <1>2 DEF Producer, ScanPage, Send, ScanCancelled, ScanEnds, ScanFails
<1>3. ASSUME NEW w \in Workers, Worker(w) PROVE EarlyEndsCancel'
  <2>1. CASE WorkerStops(w)
    BY <2>1 DEF WorkerStops, Goto, Errors
  <2>2. CASE TakeChunk(w) \/ NoMoreChunks(w) \/ DispatchOneBatch(w) \/ Emit(w)
    BY <2>2 DEF TakeChunk, NoMoreChunks, DispatchOneBatch, Emit, Goto
  <2> QED
    BY <1>3, <2>1, <2>2 DEF Worker
<1>4. CASE CloseProgress
  BY <1>4 DEF CloseProgress
<1>5. CASE Aggregator
  BY <1>5 DEF Aggregator, ReadProgress, CallbackReturns, CallbackFails, NoMoreProgress, Errors
<1>6. CASE CatalogueChanges \/ UNCHANGED vars
  BY <1>6 DEF CatalogueChanges
<1> QED
  BY <1>1, <1>2, <1>3, <1>4, <1>5, <1>6 DEF Next

(* From the callback back to the scan: who waits, waits for somebody else  *)
(* who can go on, or for nobody.                                           *)
LEMMA SomebodyGoesOn == TypeOK /\ EarlyEndsCancel => NeverStuck
<1> SUFFICES ASSUME TypeOK, EarlyEndsCancel, ~NeverStuck PROVE FALSE
  OBVIOUS
<1>0. WorkerCount \in Nat /\ WorkerCount > 0
  <2>1. WorkerCount \in Nat
    BY PipelineAssumption, FS_CardinalityType DEF WorkerCount
  <2>2. WorkerCount # 0
    BY PipelineAssumption, FS_EmptySet DEF WorkerCount
  <2> QED
    BY <2>1, <2>2
<1>1. producer \in {"sending", "done"} /\ aggregator \in {"reading", "done"}
  BY DEF NeverStuck, TypeOK
<1>2. \A w \in Workers : stage[w] \in {"free", "emitting", "done"}
  BY DEF NeverStuck, TypeOK
<1>3. CASE Cancelled
  <2>1. \A w \in Workers : stage[w] = "done"
    BY <1>2, <1>3 DEF NeverStuck
  <2>2. producer = "done" /\ progress = "closed"
    BY <1>1, <1>3, <2>1 DEF NeverStuck, TypeOK
  <2> QED
    BY <1>1, <2>2 DEF NeverStuck
<1>4. CASE ~Cancelled
  <2>1. CASE aggregator = "done"
    <3>1. progress = "closed" /\ \A w \in Workers : stage[w] = "done"
      BY <1>4, <2>1 DEF EarlyEndsCancel
    <3>2. producer = "done"
      BY <1>4, <3>1, PipelineAssumption DEF EarlyEndsCancel
    <3> QED
      BY <2>1, <3>1, <3>2 DEF NeverStuck
  <2>2. CASE aggregator = "reading"
    <3>1. progressCh = <<>> /\ progress = "open"
      BY <2>2 DEF NeverStuck, TypeOK
    <3>2. Len(progressCh) < WorkerCount
      BY <1>0, <3>1, EmptySeq
    <3>3. \A w \in Workers : stage[w] \in {"free", "done"}
      BY <1>2, <3>2 DEF NeverStuck
    <3>4. PICK w \in Workers : stage[w] = "free"
      BY <3>1, <3>3 DEF NeverStuck
    <3>5. batchCh = <<>> /\ producer = "sending"
      BY <1>1, <3>4 DEF NeverStuck
    <3>6. Len(batchCh) < 2 * WorkerCount
      BY <1>0, <3>5, EmptySeq
    <3> QED
      BY <3>5, <3>6 DEF NeverStuck
  <2> QED
    BY <1>1, <2>1, <2>2
<1> QED
  BY <1>3, <1>4

(* What is left to do: a number of steps for each goroutine.               *)
LeftParts ==
    /\ Cardinality(Unseen) \in Nat /\ IsFiniteSet(Unseen)
    /\ Len(batchCh) \in Nat /\ Len(progressCh) \in Nat
    /\ \A s : IsFiniteSet(In(s)) /\ Cardinality(In(s)) \in Nat
    /\ ProducerLeft = IF producer = "sending" THEN 7 ELSE IF producer = "scanning" THEN 1 ELSE 0
    /\ CloserLeft = IF progress = "open" THEN 1 ELSE 0
    /\ AggregatorLeft = IF aggregator = "calling" THEN 2 ELSE IF aggregator = "reading" THEN 1 ELSE 0
    /\ CallerLeft = IF caller = "waiting" THEN 2 ELSE IF caller = "running" THEN 1 ELSE 0

LEMMA LeftPartsType == TypeOK => LeftParts
<1> SUFFICES ASSUME TypeOK PROVE LeftParts
  OBVIOUS
<1>1. IsFiniteSet(Unseen) /\ Cardinality(Unseen) \in Nat
  <2>1. Unseen \in SUBSET Cases
    BY DEF Unseen
  <2> QED
    BY <2>1, CaseScanAssumption, FS_Subset, FS_CardinalityType
<1>2. ASSUME NEW s PROVE IsFiniteSet(In(s)) /\ Cardinality(In(s)) \in Nat
  <2>1. In(s) \in SUBSET Workers
    BY DEF In
  <2> QED
    BY <2>1, PipelineAssumption, FS_Subset, FS_CardinalityType
<1>3. Len(batchCh) \in Nat /\ Len(progressCh) \in Nat
  BY LenProperties DEF TypeOK
<1>4. ProducerLeft = IF producer = "sending" THEN 7 ELSE IF producer = "scanning" THEN 1 ELSE 0
  BY DEF TypeOK, ProducerLeft
<1>5. CloserLeft = IF progress = "open" THEN 1 ELSE 0
  BY DEF TypeOK, CloserLeft
<1>6. AggregatorLeft = IF aggregator = "calling" THEN 2 ELSE IF aggregator = "reading" THEN 1 ELSE 0
  BY DEF TypeOK, AggregatorLeft
<1>7. CallerLeft = IF caller = "waiting" THEN 2 ELSE IF caller = "running" THEN 1 ELSE 0
  BY DEF TypeOK, CallerLeft
<1> QED
  BY <1>1, <1>2, <1>3, <1>4, <1>5, <1>6, <1>7 DEF LeftParts

LEMMA LeftPartsTypeNext == TypeOK' => LeftParts'
BY LeftPartsType, PTL

(* A worker that goes from one stage to the next.                          *)
LEMMA WorkerMoves ==
    ASSUME TypeOK, NEW w \in Workers, NEW t, NEW s, stage[w] = t, t # s, Goto(w, s)
    PROVE  /\ Cardinality(In(s)') = Cardinality(In(s)) + 1
           /\ Cardinality(In(t)') = Cardinality(In(t)) - 1
           /\ \A u : u # s /\ u # t => In(u)' = In(u)
<1>1. stage' = [stage EXCEPT ![w] = s] /\ stage \in [Workers -> {"free", "busy", "emitting", "done"}]
  BY DEF Goto, TypeOK
<1>2. /\ In(s)' = In(s) \cup {w} /\ w \notin In(s)
      /\ In(t)' = In(t) \ {w} /\ w \in In(t)
      /\ \A u : u # s /\ u # t => In(u)' = In(u)
  BY <1>1 DEF In
<1>3. IsFiniteSet(In(s)) /\ IsFiniteSet(In(t))
  BY LeftPartsType DEF LeftParts
<1>4. Cardinality(In(s) \cup {w}) = Cardinality(In(s)) + 1
  BY <1>2, <1>3, FS_AddElement
<1>5. Cardinality(In(t) \ {w}) = Cardinality(In(t)) - 1
  BY <1>2, <1>3, FS_RemoveElement
<1> QED
  BY <1>2, <1>4, <1>5

(* A page takes cases from those that no page has.                         *)
LEMMA UnseenShrinks ==
    ASSUME TypeOK, ScanPage
    PROVE  Cardinality(Unseen') < Cardinality(Unseen)
<1> DEFINE P == Page(pages)
<1>1. P \in SUBSET Cases /\ P # {} /\ \A c \in P : \A i \in DOMAIN pages : \A d \in pages[i] : d < c
  BY DEF Page, TypeOK, ScanPage
<1>2. P \subseteq Unseen
  <2> SUFFICES ASSUME NEW c \in P, NEW i \in DOMAIN pages, c \in pages[i] PROVE FALSE
    BY <1>1 DEF Unseen
  <2>1. c < c /\ c \in Nat
    BY <1>1, CaseScanAssumption
  <2> QED
    BY <2>1
<1>3. /\ DOMAIN pages' = 1..(Len(pages) + 1) /\ DOMAIN pages = 1..Len(pages) /\ Len(pages) \in Nat
      /\ \A i \in DOMAIN pages : pages'[i] = pages[i]
      /\ pages'[Len(pages) + 1] = P
  <2> DEFINE S == SUBSET Cases
  <2> HIDE DEF S, P
  <2>1. ASSUME NEW p \in Seq(S), NEW e \in S
        PROVE  /\ DOMAIN Append(p, e) = 1..(Len(p) + 1) /\ DOMAIN p = 1..Len(p) /\ Len(p) \in Nat
               /\ \A i \in 1..Len(p) : Append(p, e)[i] = p[i]
               /\ Append(p, e)[Len(p) + 1] = e
    BY AppendProperties, LenProperties
  <2>2. pages \in Seq(S) /\ P \in S /\ pages' = Append(pages, P)
    BY <1>1 DEF TypeOK, S, ScanPage, P
  <2> QED
    BY <2>1, <2>2
<1> HIDE DEF P
<1>4. Unseen' = Unseen \ P
  <2>1. UNION {pages'[i] : i \in DOMAIN pages'} = P \cup UNION {pages[i] : i \in DOMAIN pages}
    <3>1. DOMAIN pages' = DOMAIN pages \cup {Len(pages) + 1}
      BY <1>3
    <3> QED
      BY <1>3, <3>1
  <2> QED
    BY <2>1 DEF Unseen
<1>5. Unseen' \in SUBSET Unseen /\ Unseen' # Unseen
  BY <1>1, <1>2, <1>4
<1>6. IsFiniteSet(Unseen) /\ Cardinality(Unseen) \in Nat
  BY LeftPartsType DEF LeftParts
<1>7. Cardinality(Unseen') \in Nat /\ Cardinality(Unseen') <= Cardinality(Unseen)
      /\ Cardinality(Unseen') # Cardinality(Unseen)
  BY <1>5, <1>6, FS_Subset, FS_CardinalityType
<1> QED
  BY <1>6, <1>7

(* What a page costs the producer is less than what its cases were worth.  *)
LEMMA PageWeighs ==
    ASSUME NEW u \in Nat, NEW v \in Nat, v < u, NEW r \in Nat
    PROVE  7 * v + 7 + r < 7 * u + 1 + r
OBVIOUS

(* Every step of a goroutine leaves fewer, no other step leaves more.      *)
LEMMA StepsRunOut ==
    ASSUME IInv, [Next]_vars
    PROVE  StepsLeft' <= StepsLeft /\ (Goroutines => StepsLeft' < StepsLeft)
<1> DEFINE U == Cardinality(Unseen)
           b == Len(batchCh)
           g == Len(progressCh)
           p == ProducerLeft
           c == CloserLeft
           a == AggregatorLeft
           k == CallerLeft
           busy == Cardinality(In("busy"))
           emitting == Cardinality(In("emitting"))
           free == Cardinality(In("free"))
           W == WorkersLeft
<1>0. TypeOK /\ TypeOK'
  BY InvariantNext DEF IInv
<1>1. LeftParts /\ LeftParts'
  BY <1>0, LeftPartsType, LeftPartsTypeNext
<1>2. /\ U \in Nat /\ b \in Nat /\ g \in Nat /\ busy \in Nat /\ emitting \in Nat /\ free \in Nat
      /\ U' \in Nat /\ b' \in Nat /\ g' \in Nat /\ busy' \in Nat /\ emitting' \in Nat /\ free' \in Nat
  BY <1>1 DEF LeftParts
<1>3. /\ p = IF producer = "sending" THEN 7 ELSE IF producer = "scanning" THEN 1 ELSE 0
      /\ c = IF progress = "open" THEN 1 ELSE 0
      /\ a = IF aggregator = "calling" THEN 2 ELSE IF aggregator = "reading" THEN 1 ELSE 0
      /\ k = IF caller = "waiting" THEN 2 ELSE IF caller = "running" THEN 1 ELSE 0
  BY <1>1 DEF LeftParts
<1>4. /\ p' = IF producer' = "sending" THEN 7 ELSE IF producer' = "scanning" THEN 1 ELSE 0
      /\ c' = IF progress' = "open" THEN 1 ELSE 0
      /\ a' = IF aggregator' = "calling" THEN 2 ELSE IF aggregator' = "reading" THEN 1 ELSE 0
      /\ k' = IF caller' = "waiting" THEN 2 ELSE IF caller' = "running" THEN 1 ELSE 0
  BY <1>1 DEF LeftParts
<1>5. W = 5 * busy + 4 * emitting + free /\ W' = 5 * busy' + 4 * emitting' + free'
  BY DEF WorkersLeft
<1>6. /\ pages' = pages => U' = U
      /\ stage' = stage => busy' = busy /\ emitting' = emitting /\ free' = free
      /\ batchCh' = batchCh => b' = b
      /\ progressCh' = progressCh => g' = g
  BY DEF Unseen, In
<1>7. /\ StepsLeft = 7 * U + p + 5 * b + W + 2 * g + c + a + k
      /\ StepsLeft' = 7 * U' + p' + 5 * b' + W' + 2 * g' + c' + a' + k'
  BY DEF StepsLeft
<1>8. ASSUME NEW w \in Workers, NEW t, NEW s, stage[w] = t, t # s, Goto(w, s)
      PROVE  /\ s = "busy" => busy' = busy + 1
             /\ s = "emitting" => emitting' = emitting + 1
             /\ s = "free" => free' = free + 1
             /\ t = "busy" => busy' = busy - 1
             /\ t = "emitting" => emitting' = emitting - 1
             /\ t = "free" => free' = free - 1
             /\ s # "busy" /\ t # "busy" => busy' = busy
             /\ s # "emitting" /\ t # "emitting" => emitting' = emitting
             /\ s # "free" /\ t # "free" => free' = free
  BY <1>0, <1>8, WorkerMoves
<1>9. /\ batchCh \in Seq(Chunks) /\ progressCh \in Seq(Chunks) /\ DOMAIN pages = 1..Len(pages)
  BY <1>0, LenProperties DEF TypeOK
<1>10. /\ ScanPage => U' < U
       /\ Send => b' = b + 1
       /\ \A w \in Workers : TakeChunk(w) => b' = b - 1
       /\ \A w \in Workers : Emit(w) => g' = g + 1
       /\ ReadProgress => g' = g - 1
  <2>1. ScanPage => U' < U
    BY <1>0, UnseenShrinks
  <2>2. Send => b' = b + 1
    <3> SUFFICES ASSUME Send PROVE b' = b + 1
      OBVIOUS
    <3>1. Len(pages) \in Chunks
      BY LenProperties, EmptySeq DEF Send, Chunks, IInv, ChunksInHand, TypeOK
    <3> QED
      BY <1>9, <3>1, AppendProperties DEF Send
  <2>3. ASSUME NEW w \in Workers, TakeChunk(w) PROVE b' = b - 1
    BY <1>9, <2>3, HeadTailProperties DEF TakeChunk
  <2>4. ASSUME NEW w \in Workers, Emit(w) PROVE g' = g + 1
    <3>1. chunk[w] \in Chunks
      BY <2>4 DEF Emit, IInv, ChunksInHand, TypeOK, Chunks
    <3> QED
      BY <1>9, <2>4, <3>1, AppendProperties DEF Emit
  <2>5. ReadProgress => g' = g - 1
    BY <1>9, HeadTailProperties DEF ReadProgress
  <2> QED
    BY <2>1, <2>2, <2>3, <2>4, <2>5
<1>11. /\ p \in Nat /\ c \in Nat /\ a \in Nat /\ k \in Nat
       /\ p' \in Nat /\ c' \in Nat /\ a' \in Nat /\ k' \in Nat
  <2> HIDE DEF p, c, a, k
  <2> QED
    BY <1>3, <1>4
<1> HIDE DEF U, b, g, p, c, a, k, busy, emitting, free, W
<1> DEFINE Down(dU, dp, db, dy, de, df, dg, dc, da, dk) ==
             /\ U' = U + dU /\ p' = p + dp /\ b' = b + db
             /\ busy' = busy + dy /\ emitting' = emitting + de /\ free' = free + df
             /\ g' = g + dg /\ c' = c + dc /\ a' = a + da /\ k' = k + dk
<1>12. ASSUME NEW dU \in Int, NEW dp \in Int, NEW db \in Int, NEW dy \in Int, NEW de \in Int,
              NEW df \in Int, NEW dg \in Int, NEW dc \in Int, NEW da \in Int, NEW dk \in Int,
              Down(dU, dp, db, dy, de, df, dg, dc, da, dk),
              7 * dU + dp + 5 * db + 5 * dy + 4 * de + df + 2 * dg + dc + da + dk < 0
       PROVE  StepsLeft' < StepsLeft
  BY <1>2, <1>5, <1>7, <1>11, <1>12
<1>13. ASSUME Start PROVE StepsLeft' < StepsLeft
  <2>1. Down(0, 0, 0, 0, 0, 0, 0, 0, 0, -1)
    BY <1>2, <1>3, <1>4, <1>6, <1>11, <1>13 DEF Start
  <2> HIDE DEF Down
  <2> QED
    BY <1>12, <2>1
<1>14. ASSUME EndAtOnce PROVE StepsLeft' < StepsLeft
  <2>1. Down(0, 0, 0, 0, 0, 0, 0, 0, 0, -2)
    BY <1>2, <1>3, <1>4, <1>6, <1>11, <1>14 DEF EndAtOnce
  <2> HIDE DEF Down
  <2> QED
    BY <1>12, <2>1
<1>15. ASSUME Wait PROVE StepsLeft' < StepsLeft
  <2>1. Down(0, 0, 0, 0, 0, 0, 0, 0, 0, -1)
    BY <1>2, <1>3, <1>4, <1>6, <1>11, <1>15 DEF Wait
  <2> HIDE DEF Down
  <2> QED
    BY <1>12, <2>1
<1>16. ASSUME ScanPage PROVE StepsLeft' < StepsLeft
  <2>1. U' < U /\ p = 1 /\ p' = 7
    BY <1>3, <1>4, <1>10, <1>16 DEF ScanPage
  <2>2. b' = b /\ g' = g /\ c' = c /\ a' = a /\ k' = k
        /\ busy' = busy /\ emitting' = emitting /\ free' = free
    BY <1>3, <1>4, <1>6, <1>16 DEF ScanPage
  <2>3. W' = W /\ W \in Nat
    BY <1>2, <1>5, <2>2
  <2> DEFINE rest == 5 * b + W + 2 * g + c + a + k
  <2>4. rest' = rest /\ rest \in Nat
    BY <1>2, <1>11, <2>2, <2>3
  <2>5. StepsLeft = 7 * U + 1 + rest /\ StepsLeft' = 7 * U' + 7 + rest
    BY <1>2, <1>7, <1>11, <2>1, <2>2, <2>3
  <2> HIDE DEF rest
  <2> QED
    BY <1>2, <2>1, <2>4, <2>5, PageWeighs
<1>17. ASSUME Send PROVE StepsLeft' < StepsLeft
  <2>1. Down(0, -6, 1, 0, 0, 0, 0, 0, 0, 0)
    BY <1>2, <1>3, <1>4, <1>6, <1>11, <1>10, <1>17 DEF Send
  <2> HIDE DEF Down
  <2> QED
    BY <1>12, <2>1
<1>18. ASSUME ScanCancelled \/ ScanEnds \/ ScanFails PROVE StepsLeft' < StepsLeft
  <2>1. producer' = "done" /\ producer \in {"scanning", "sending"}
    <3>1. producer \in {"scanning", "sending", "done"}
      BY <1>0 DEF TypeOK
    <3> QED
      BY <1>18, <3>1 DEF ScanCancelled, ScanEnds, ScanFails
  <2>2. UNCHANGED <<caller, pages, batchCh, stage, progressCh, progress, aggregator>>
    BY <1>18 DEF ScanCancelled, ScanEnds, ScanFails
  <2>3. /\ U' = U /\ b' = b /\ g' = g
        /\ busy' = busy /\ emitting' = emitting /\ free' = free
    BY <1>6, <2>2
  <2>4. c' = c /\ a' = a /\ k' = k
    BY <1>3, <1>4, <2>2
  <2>5. p' = p - 7 \/ p' = p - 1
    BY <1>3, <1>4, <2>1
  <2> QED
    <3>1. CASE p' = p - 7
      <4>1. Down(0, -7, 0, 0, 0, 0, 0, 0, 0, 0)
        BY <1>2, <1>11, <2>3, <2>4, <3>1
      <4> HIDE DEF Down
      <4> QED
        BY <1>12, <4>1
    <3>2. CASE p' = p - 1
      <4>1. Down(0, -1, 0, 0, 0, 0, 0, 0, 0, 0)
        BY <1>2, <1>11, <2>3, <2>4, <3>2
      <4> HIDE DEF Down
      <4> QED
        BY <1>12, <4>1
    <3> QED
      BY <2>5, <3>1, <3>2
<1>19. ASSUME NEW w \in Workers, TakeChunk(w) PROVE StepsLeft' < StepsLeft
  <2>1. stage[w] = "free" /\ Goto(w, "busy")
    BY <1>19 DEF TakeChunk
  <2>2. Down(0, 0, -1, 1, 0, -1, 0, 0, 0, 0)
    <3>1. b' = b - 1
      BY <1>10, <1>19
    <3>2. busy' = busy + 1 /\ free' = free - 1 /\ emitting' = emitting
      BY <1>8, <2>1
    <3>3. U' = U /\ g' = g /\ p' = p /\ c' = c /\ a' = a /\ k' = k
      BY <1>3, <1>4, <1>6, <1>19 DEF TakeChunk
    <3> QED
      BY <1>2, <1>11, <3>1, <3>2, <3>3
  <2> HIDE DEF Down
  <2> QED
    BY <1>12, <2>2
<1>20. ASSUME NEW w \in Workers, NoMoreChunks(w) PROVE StepsLeft' < StepsLeft
  <2>1. stage[w] = "free" /\ Goto(w, "done")
    BY <1>20 DEF NoMoreChunks
  <2>2. Down(0, 0, 0, 0, 0, -1, 0, 0, 0, 0)
    BY <1>2, <1>3, <1>4, <1>6, <1>8, <1>11, <1>20, <2>1 DEF NoMoreChunks
  <2> HIDE DEF Down
  <2> QED
    BY <1>12, <2>2
<1>21. ASSUME NEW w \in Workers, DispatchOneBatch(w) PROVE StepsLeft' < StepsLeft
  <2>1. stage[w] = "busy" /\ Goto(w, "emitting")
    BY <1>21 DEF DispatchOneBatch
  <2>2. Down(0, 0, 0, -1, 1, 0, 0, 0, 0, 0)
    BY <1>2, <1>3, <1>4, <1>6, <1>8, <1>11, <1>21, <2>1 DEF DispatchOneBatch
  <2> HIDE DEF Down
  <2> QED
    BY <1>12, <2>2
<1>22. ASSUME NEW w \in Workers, Emit(w) PROVE StepsLeft' < StepsLeft
  <2>1. stage[w] = "emitting" /\ Goto(w, "free")
    BY <1>22 DEF Emit
  <2>2. Down(0, 0, 0, 0, -1, 1, 1, 0, 0, 0)
    BY <1>2, <1>3, <1>4, <1>6, <1>8, <1>11, <1>10, <1>22, <2>1 DEF Emit
  <2> HIDE DEF Down
  <2> QED
    BY <1>12, <2>2
<1>23. ASSUME NEW w \in Workers, WorkerStops(w) PROVE StepsLeft' < StepsLeft
  <2>1. stage[w] \in {"free", "emitting"} /\ Goto(w, "done")
    BY <1>23 DEF WorkerStops
  <2>2. \/ Down(0, 0, 0, 0, 0, -1, 0, 0, 0, 0)
        \/ Down(0, 0, 0, 0, -1, 0, 0, 0, 0, 0)
    BY <1>2, <1>3, <1>4, <1>6, <1>8, <1>11, <1>23, <2>1 DEF WorkerStops
  <2> HIDE DEF Down
  <2> QED
    BY <1>12, <2>2
<1>24. ASSUME CloseProgress PROVE StepsLeft' < StepsLeft
  <2>1. Down(0, 0, 0, 0, 0, 0, 0, -1, 0, 0)
    BY <1>2, <1>3, <1>4, <1>6, <1>11, <1>24 DEF CloseProgress
  <2> HIDE DEF Down
  <2> QED
    BY <1>12, <2>1
<1>25. ASSUME ReadProgress PROVE StepsLeft' < StepsLeft
  <2>1. Down(0, 0, 0, 0, 0, 0, -1, 0, 1, 0)
    BY <1>2, <1>3, <1>4, <1>6, <1>11, <1>10, <1>25 DEF ReadProgress
  <2> HIDE DEF Down
  <2> QED
    BY <1>12, <2>1
<1>26. ASSUME CallbackReturns PROVE StepsLeft' < StepsLeft
  <2>1. Down(0, 0, 0, 0, 0, 0, 0, 0, -1, 0)
    BY <1>2, <1>3, <1>4, <1>6, <1>11, <1>26 DEF CallbackReturns
  <2> HIDE DEF Down
  <2> QED
    BY <1>12, <2>1
<1>27. ASSUME CallbackFails PROVE StepsLeft' < StepsLeft
  <2>1. Down(0, 0, 0, 0, 0, 0, 0, 0, -2, 0)
    BY <1>2, <1>3, <1>4, <1>6, <1>11, <1>27 DEF CallbackFails
  <2> HIDE DEF Down
  <2> QED
    BY <1>12, <2>1
<1>28. ASSUME NoMoreProgress PROVE StepsLeft' < StepsLeft
  <2>1. Down(0, 0, 0, 0, 0, 0, 0, 0, -1, 0)
    BY <1>2, <1>3, <1>4, <1>6, <1>11, <1>28 DEF NoMoreProgress
  <2> HIDE DEF Down
  <2> QED
    BY <1>12, <2>1
<1>29. Goroutines => StepsLeft' < StepsLeft
  BY <1>15, <1>16, <1>17, <1>18, <1>19, <1>20, <1>21, <1>22, <1>23, <1>24, <1>25, <1>26, <1>27, <1>28
  DEF Goroutines, Producer, Worker, Aggregator
<1>30. ASSUME Cancel \/ CatalogueChanges \/ UNCHANGED vars PROVE StepsLeft' = StepsLeft
  <2>1. UNCHANGED <<caller, producer, pages, batchCh, stage, progressCh, progress, aggregator>>
    BY <1>30 DEF Cancel, CatalogueChanges
  <2> QED
    BY <1>3, <1>4, <1>5, <1>6, <1>7, <2>1
<1>31. StepsLeft \in Int /\ StepsLeft' \in Int
  BY <1>2, <1>5, <1>7, <1>11
<1>32. Goroutines \/ Start \/ EndAtOnce \/ Cancel \/ CatalogueChanges \/ UNCHANGED vars
  BY DEF Next, Goroutines
<1> QED
  BY <1>13, <1>14, <1>29, <1>30, <1>31, <1>32

(* A running call is never stuck and never goes round in circles, for any  *)
(* number of workers and cases.                                            *)
THEOREM StreamProceedsHolds == Spec => StreamProceeds
<1>1. TypeOK' /\ EarlyEndsCancel' => NeverStuck'
  BY SomebodyGoesOn, PTL
<1>2. IInv /\ IInv' /\ EarlyEndsCancel' /\ [Next]_vars
      => [/\ NeverStuck'
          /\ StepsLeft' <= StepsLeft
          /\ Goroutines => StepsLeft' < StepsLeft]_vars
  BY <1>1, StepsRunOut DEF IInv
<1>3. Spec => []EarlyEndsCancel
  <2>1. IInv => TypeOK
    BY DEF IInv
  <2> QED
    BY <2>1, InvariantHolds, EarlyEndsInit, EarlyEndsNext, PTL DEF Spec
<1> QED
  BY <1>2, <1>3, InvariantHolds, PTL DEF Spec, StreamProceeds
=============================================================================
