------------------------------- MODULE Delivery -------------------------------
(***************************************************************************)
(* What the dispatch engine promises for each idempotency key, without the *)
(* calls, relays, leases and retries that bring it about: an accepted      *)
(* message is owed until it is settled once and for all, it may be sent    *)
(* any number of times, it is settled as published only if it was sent,    *)
(* and giving it up tells the record's owner, unless an executor has got   *)
(* it already.                                                             *)
(***************************************************************************)
CONSTANTS
    Keys,
    Reports     \* the statuses executors report

VARIABLES
    phase,      \* "absent", "owed", "published" or "dead"
    verdict,    \* the status of the execution record, "NONE" if absent
    arrived,    \* the keys whose message has been sent
    routable    \* the keys whose message, once sent, reaches a queue

vars == <<phase, verdict, arrived, routable>>

Init ==
    /\ phase = [k \in Keys |-> "absent"]
    /\ verdict = [k \in Keys |-> "NONE"]
    /\ arrived = {}
    /\ routable = {}

(* A request is accepted: its new keys are owed.  R are those of them that *)
(* can be routed.                                                          *)
Accept(K, R) ==
    /\ \A k \in K : phase[k] = "absent"
    /\ phase' = [k \in Keys |-> IF k \in K THEN "owed" ELSE phase[k]]
    /\ verdict' = [k \in Keys |-> IF k \in K THEN "WAIT" ELSE verdict[k]]
    /\ routable' = routable \cup (R \cap K)
    /\ UNCHANGED arrived

(* At least once: a message may be sent again, even after it was settled.  *)
Send(k) ==
    /\ phase[k] # "absent"
    /\ k \in routable
    /\ arrived' = arrived \cup {k}
    /\ UNCHANGED <<phase, verdict, routable>>

(* P is settled as published, D given up.                                  *)
Settle(P, D) ==
    /\ \A k \in P \cup D : phase[k] = "owed"
    /\ P \cap D = {}
    /\ P \cap routable \subseteq arrived
    /\ phase' = [k \in Keys |-> IF k \in P THEN "published"
                                ELSE IF k \in D THEN "dead" ELSE phase[k]]
    /\ verdict' = [k \in Keys |-> IF k \in D /\ verdict[k] = "WAIT"
                                  THEN "DISPATCH_FAILED" ELSE verdict[k]]
    /\ UNCHANGED <<arrived, routable>>

(* An executor that got the message reports.                               *)
Report(k, s) ==
    /\ k \in arrived
    /\ verdict[k] = "WAIT" \/ (verdict[k] = "RUNNING" /\ s # "RUNNING")
    /\ verdict' = [verdict EXCEPT ![k] = s]
    /\ UNCHANGED <<phase, arrived, routable>>

Next ==
    \/ \E K, R \in SUBSET Keys : Accept(K, R)
    \/ \E k \in Keys : Send(k)
    \/ \E P, D \in SUBSET Keys : Settle(P, D)
    \/ \E k \in Keys, s \in Reports : Report(k, s)

Spec == Init /\ [][Next]_vars
=============================================================================
