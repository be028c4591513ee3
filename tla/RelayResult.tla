----------------------------- MODULE RelayResult -----------------------------
(***************************************************************************)
(* The two computations between the end of a BatchRun and the write-back   *)
(* of its result: the result is made to cover each record of the batch     *)
(* once, and the failed messages that have attempts left get the time of   *)
(* their next one.  Dispatch abstracts from both, it says that what was    *)
(* not acked has Failed and that a row comes due again some time after     *)
(* RelayWriteBack; here they are computed for the batches that come up in  *)
(* its behaviours.                                                         *)
(***************************************************************************)
EXTENDS Dispatch, Sequences, FiniteSetsExt, Functions

CONSTANT MaxDelay    \* bound: the initial and the longest delay, in units

(* The keys are the (task, case) pairs of two columns of bounded width.    *)
ASSUME RelayResultAssumption == IsFiniteSet(Keys) /\ MaxDelay \in Nat

(* The ids in a list.                                                      *)
Ids(list) == {list[i] : i \in DOMAIN list}

(* The messages whose ids are in S, in the order of the batch.             *)
Pick(messages, S) ==
    LET I == {i \in DOMAIN messages : messages[i] \in S}
    IN  [n \in 1..Cardinality(I) |->
            messages[CHOOSE i \in I : Cardinality({j \in I : j <= i}) = n]]

completeForgetful(messages, result) ==   \* mutant: ids in neither list are left out
    LET failed == Ids(result.FailedIDs)
        success == Ids(result.SuccessIDs) \ failed
    IN  [SuccessIDs |-> Pick(messages, success), FailedIDs |-> Pick(messages, failed)]

(* A port may hand back ids twice, in both lists, or of no record, and may *)
(* leave some out.                                                         *)
completeBatchResult(messages, result) ==
    LET failed == Ids(result.FailedIDs)
        success == Ids(result.SuccessIDs) \ failed
    IN  [SuccessIDs |-> Pick(messages, success),
         FailedIDs |-> Pick(messages, Ids(messages) \ success)]

retryBackoffUncapped(initial, cap, attempt) ==   \* mutant: only the loop looks at the cap
    LET delay[i \in 1..(attempt + 1)] ==
            IF i = 1 THEN initial
            ELSE IF delay[i - 1] < cap THEN 2 * delay[i - 1] ELSE delay[i - 1]
    IN  delay[IF attempt < 1 THEN 1 ELSE attempt]

(* The delay is doubled attempt by attempt while it is below the cap.      *)
retryBackoff(initial, cap, attempt) ==
    LET delay[i \in 1..(attempt + 1)] ==
            IF i = 1 THEN initial
            ELSE IF delay[i - 1] < cap THEN Min({2 * delay[i - 1], cap}) ELSE delay[i - 1]
    IN  delay[IF attempt < 1 THEN 1 ELSE attempt]

(* All messages of a pass wait for as long as the most tried that failed,  *)
(* even if that one is given up.                                           *)
RetryDelay(initial, cap, failed) == retryBackoff(initial, cap, Max({1} \cup failed))

-----------------------------------------------------------------------------
(* Properties.                                                             *)

(* S, element by element: TLC then computes a constant set once.           *)
Listed(S) == {x : x \in S}

(* The orders of a batch, and what a port may return for it: lists of some *)
(* length with some ids twice, in both lists or of no record of the batch. *)
Orders(S) == {b \in [1..Cardinality(S) -> S] : IsInjective(b)}
Lists == UNION {[1..n -> Keys] : n \in 0..Cardinality(Keys) + 1}
Results == [SuccessIDs : Lists, FailedIDs : Lists]
(* The ids reported as successes and never as failures.                    *)
Confirmed(messages, result) == Ids(messages) \cap (Ids(result.SuccessIDs) \ Ids(result.FailedIDs))

(* Which of two ids comes before the other.                                *)
Pairs(list) == UNION {{<<list[i], list[j]>> : j \in (i + 1)..Len(list)} : i \in DOMAIN list}

(* Whatever the port returns that confirms the messages ok of S, and in    *)
(* whatever order the batch is, each message is settled once, in that      *)
(* order: those of ok as successes, all others, also those that the port   *)
(* did not mention, as failures.                                           *)
CoveredBy(S, ok) ==
    \A messages \in Orders(S), result \in Results :
        Confirmed(messages, result) = ok =>
            LET r == completeBatchResult(messages, result)
            IN  /\ Ids(r.SuccessIDs) = ok /\ Ids(r.FailedIDs) = S \ ok
                /\ Len(r.SuccessIDs) + Len(r.FailedIDs) = Len(messages)
                /\ Pairs(r.SuccessIDs) \cup Pairs(r.FailedIDs) \subseteq Pairs(messages)
Covered == Listed({p \in (SUBSET Keys) \X (SUBSET Keys) : CoveredBy(p[1], p[2])})

(* Every batch is settled by the result of its BatchRun as Dispatch has    *)
(* it, Failed being all that is not acked.                                 *)
ResultCoversBatch == \A a \in Actors : pc[a] = "settling" => <<batch[a], acked[a]>> \in Covered

(* The delay doubled with every attempt after the first, without a cap.    *)
Doubled(initial, attempt) ==
    LET delay[i \in 1..attempt] == IF i = 1 THEN initial ELSE 2 * delay[i - 1]
    IN  delay[attempt]

(* The delay of messages that were tried so often: each waits at least as  *)
(* long as its own attempts ask for, in closed form, and none longer than  *)
(* the cap, or the initial delay if that is configured to be the longer.   *)
CappedFor(tried) ==
    \A initial, cap \in 1..MaxDelay :
        LET delay == RetryDelay(initial, cap, tried)
            own(n) == Max({initial, Min({Doubled(initial, n), cap})})
        IN  /\ delay <= Max({initial, cap})
            /\ \A n \in tried : delay >= own(n)
            /\ delay \in {own(n) : n \in tried}
Capped == Listed({tried \in (SUBSET (1..(MaxAttempts + MaxFaults))) \ {{}} : CappedFor(tried)})

(* "Exponential backoff with a cap": so every batch of a relay with        *)
(* failures is delayed.                                                    *)
BackoffIsCapped ==
    \A r \in Relays : pc[r] = "settling" /\ Failed(r) # {} =>
        {attempts[k] : k \in Failed(r)} \in Capped
=============================================================================
