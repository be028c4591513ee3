----------------------------- MODULE BatchRunPort -----------------------------
(***************************************************************************)
(* What the port UtCaseExecutorClient.BatchRun promises its callers: it    *)
(* reports a part of the messages the broker took as successes, everything *)
(* else is a failure, and a success of the whole batch is a batch of       *)
(* messages that reached a queue.  Dispatch is built on this contract      *)
(* (Publish is Take, Confirm is Report), PublishConfirm implements it.     *)
(***************************************************************************)
CONSTANT Tasks

VARIABLES
    unroutable,     \* an input: the tasks whose version has no queue bound
    batch,          \* the tasks of the run
    taken,          \* those the broker took, to queue or to return them
    ok,             \* those reported as successes
    phase           \* "running" or "reported"

vars == <<batch, taken, ok, phase>>

Init == batch = {} /\ taken = {} /\ ok = {} /\ phase = "reported"

Run(T) ==
    /\ phase = "reported"
    /\ batch' = T /\ taken' = {} /\ ok' = {} /\ phase' = "running"

(* No message of T can even be sent.                                       *)
Refuse(T) ==
    /\ phase = "reported"
    /\ batch' = T /\ taken' = {} /\ ok' = {}
    /\ UNCHANGED phase

Take(t) ==
    /\ phase = "running"
    /\ t \in batch \ taken
    /\ taken' = taken \cup {t}
    /\ UNCHANGED <<batch, ok, phase>>

Report(S) ==
    /\ phase = "running"
    /\ S \subseteq taken
    /\ S \cap unroutable = {} \/ S # batch
    /\ ok' = S
    /\ phase' = "reported"
    /\ UNCHANGED <<batch, taken>>

Next ==
    \/ \E T \in SUBSET Tasks : Run(T) \/ Refuse(T)
    \/ \E t \in Tasks : Take(t)
    \/ \E S \in SUBSET Tasks : Report(S)

Spec == Init /\ [][Next]_vars
=============================================================================
