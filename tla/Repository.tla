------------------------------ MODULE Repository ------------------------------
(***************************************************************************)
(* The two MySQL tables of the dispatch engine, execution_record and       *)
(* dispatch_outbox, and the statements its repositories run on them.  A    *)
(* row is named by its idempotency key (request_id, case_id): both tables  *)
(* have one row per key, written in one transaction.                       *)
(*                                                                         *)
(* Statements of one transaction are conjoined into one step.  They take   *)
(* row locks and only ever read a row to update it, so a transaction is    *)
(* equivalent to one that runs at the instant of its last statement.       *)
(***************************************************************************)
EXTENDS Naturals

CONSTANTS
    Keys,       \* idempotency keys (request_id, case_id)
    Versions,   \* case versions, also the AMQP routing keys
    Tokens,     \* lease tokens ClaimPending can draw
    NoVersion,  \* version column of a row that does not exist
    NoToken     \* the empty lease token

ASSUME NoVersionAssumption == NoVersion \notin Versions
ASSUME NoTokenAssumption == NoToken \notin Tokens

VARIABLES
    status,     \* execution_record.execution_status, "NONE" for no row
    version,    \* execution_record.version
    state,      \* dispatch_outbox.state, "NONE" for no row
    attempts,   \* dispatch_outbox.attempts: how often the row was claimed
    token,      \* dispatch_outbox.lease_token
    due         \* the rows whose available_at (PENDING) or lease_until
                \* (PROCESSING) has passed: all that is kept of the clock

records == <<status, version>>
outbox == <<state, attempts, token, due>>
tables == <<records, outbox>>

Statuses == {"WAIT", "RUNNING", "SUCCESS", "FAILED", "DISPATCH_FAILED"}
States == {"PENDING", "PROCESSING", "PUBLISHED", "DEAD"}

TablesTypeOK ==
    /\ status \in [Keys -> Statuses \cup {"NONE"}]
    /\ version \in [Keys -> Versions \cup {NoVersion}]
    /\ state \in [Keys -> States \cup {"NONE"}]
    /\ attempts \in [Keys -> Nat]
    /\ token \in [Keys -> Tokens \cup {NoToken}]
    /\ due \in SUBSET Keys

TablesInit ==
    /\ status = [k \in Keys |-> "NONE"]
    /\ version = [k \in Keys |-> NoVersion]
    /\ state = [k \in Keys |-> "NONE"]
    /\ attempts = [k \in Keys |-> 0]
    /\ token = [k \in Keys |-> NoToken]
    /\ due = {}

-----------------------------------------------------------------------------
(* The execution record's state machine: the edges of CanTransitTo.        *)
CanTransitTo(s, next) ==
    \/ s = "WAIT" /\ next \in {"RUNNING", "FAILED", "SUCCESS", "DISPATCH_FAILED"}
    \/ s = "RUNNING" /\ next \in {"SUCCESS", "FAILED"}

(* What a retry with a used key is told: the outcome the outbox row stands *)
(* for, or "open" when the caller is to publish the message itself.        *)
ReplayStatus(s) ==
    CASE s = "DEAD" -> "DISPATCH_FAILED"
      [] s \in {"PUBLISHED", "PROCESSING"} -> "WAIT"
      [] OTHER -> "open"

-----------------------------------------------------------------------------
UpsertRecords(W, v) ==   \* mutant: ON DUPLICATE KEY UPDATE version
    /\ status' = [k \in Keys |-> IF k \in W /\ status[k] = "NONE"
                                 THEN "WAIT" ELSE status[k]]
    /\ version' = [k \in Keys |-> IF k \in W THEN v ELSE version[k]]

(* INSERT ... ON CONFLICT DO NOTHING into both tables: existing rows keep  *)
(* everything, also a version other than v.                                *)
AddRecords(W, v) ==
    /\ status' = [k \in Keys |-> IF k \in W /\ status[k] = "NONE"
                                 THEN "WAIT" ELSE status[k]]
    /\ version' = [k \in Keys |-> IF k \in W /\ status[k] = "NONE"
                                  THEN v ELSE version[k]]

UpsertMessages(W) ==   \* mutant: ON DUPLICATE KEY UPDATE state
    /\ state' = [k \in Keys |-> IF k \in W THEN "PENDING" ELSE state[k]]
    /\ UNCHANGED <<attempts, token, due>>

(* A new message is PENDING, never claimed, and reserved for the call that *)
(* inserts it until the fast-path grace has passed (not due).              *)
AddMessages(W) ==
    /\ state' = [k \in Keys |-> IF k \in W /\ state[k] = "NONE"
                                THEN "PENDING" ELSE state[k]]
    /\ UNCHANGED <<attempts, token, due>>

OverwriteStatus(dead) ==   \* mutant: not conditional on WAIT
    status' = [k \in Keys |-> IF k \in dead THEN "DISPATCH_FAILED" ELSE status[k]]
WriteState(dead) ==   \* mutant: writes the state of the message
    status' = [k \in Keys |-> IF k \in dead /\ status[k] = "WAIT"
                              THEN "DEAD" ELSE status[k]]

(* The conditional status update: a record the executor has already moved  *)
(* past WAIT keeps its status, and that is no error.                       *)
BatchUpdateStatus(dead) ==
    status' = [k \in Keys |-> IF k \in dead /\ status[k] = "WAIT"
                              THEN "DISPATCH_FAILED" ELSE status[k]]

-----------------------------------------------------------------------------
ClaimablePending == {k \in due : state[k] = "PENDING"}  \* mutant: leases never expire

(* The rows the SELECT ... FOR UPDATE SKIP LOCKED can return.              *)
Claimable == {k \in due : state[k] \in {"PENDING", "PROCESSING"}}

(* Lease the rows S under the new token t.                                 *)
ClaimPending(S, t) ==
    /\ state' = [k \in Keys |-> IF k \in S THEN "PROCESSING" ELSE state[k]]
    /\ attempts' = [k \in Keys |-> IF k \in S THEN attempts[k] + 1 ELSE attempts[k]]
    /\ token' = [k \in Keys |-> IF k \in S THEN t ELSE token[k]]
    /\ due' = due \ S

MatchesToken(k, t) == token[k] = t   \* mutant: the state is not compared
MatchesState(k, t) ==                \* mutant: the token is not compared
    state[k] = IF t = NoToken THEN "PENDING" ELSE "PROCESSING"

(* The compare half of the compare-and-update: the holder of token t may   *)
(* settle the rows it has leased, a caller without a token those nobody    *)
(* has leased.                                                             *)
Matches(k, t) ==
    IF t = NoToken THEN state[k] = "PENDING"
                   ELSE state[k] = "PROCESSING" /\ token[k] = t

(* MarkPublished, MarkDead and MarkRetry in one transaction: every row is  *)
(* matched or the transaction rolls back.                                  *)
UpdateOutbox(published, dead, retry, t) ==
    /\ \A k \in published \cup dead \cup retry : Matches(k, t)
    /\ state' = [k \in Keys |-> CASE k \in published -> "PUBLISHED"
                                  [] k \in dead -> "DEAD"
                                  [] k \in retry -> "PENDING"
                                  [] OTHER -> state[k]]
    /\ token' = [k \in Keys |-> IF k \in published \cup dead \cup retry
                                THEN NoToken ELSE token[k]]
    /\ due' = due \ (published \cup dead \cup retry)
    /\ UNCHANGED attempts

(* The clock reaches available_at or lease_until of row k.                 *)
Pass(k) ==
    /\ state[k] \in {"PENDING", "PROCESSING"}
    /\ k \notin due
    /\ due' = due \cup {k}
    /\ UNCHANGED <<state, attempts, token>>
=============================================================================
