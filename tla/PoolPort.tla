------------------------------- MODULE PoolPort -------------------------------
(***************************************************************************)
(* What the RabbitMQ client promises those who borrow channels of it and   *)
(* the one who closes it, in numbers: a channel is taken out of the pool   *)
(* and may or may not come back, the pool empties when the connection      *)
(* breaks down and is filled when it is back, and once the client is       *)
(* closed nothing is ever put into the pool again.  The last is why Close  *)
(* may count what it takes out, and why it may wait for ever for more.     *)
(* Lifecycle is built on this contract, ChannelPool implements it.         *)
(***************************************************************************)
EXTENDS Naturals

CONSTANT PoolSize       \* Config.ChannelPool

VARIABLES
    idle,       \* how many channels are in the pool
    out,        \* how many are borrowed, or being replaced by their borrower
    closed,     \* Close was called
    drained     \* how many channels Close has taken out of the pool

vars == <<idle, out, closed, drained>>

Init == idle = PoolSize /\ out = 0 /\ closed = FALSE /\ drained = 0

Take ==
    /\ idle > 0
    /\ idle' = idle - 1
    /\ out' = out + 1
    /\ UNCHANGED <<closed, drained>>

(* The channel, or one in its place, is back in the pool, or was dropped.  *)
Return ==
    /\ out > 0
    /\ out' = out - 1
    /\ \/ UNCHANGED idle
       \/ ~closed /\ idle < PoolSize /\ idle' = idle + 1
    /\ UNCHANGED <<closed, drained>>

(* The connection is gone and an idle channel with it.                     *)
Lose ==
    /\ idle > 0
    /\ idle' = idle - 1
    /\ UNCHANGED <<out, closed, drained>>

(* It is back.                                                             *)
Refill ==
    /\ ~closed
    /\ idle' = PoolSize
    /\ UNCHANGED <<out, closed, drained>>

Close ==
    /\ closed' = TRUE
    /\ UNCHANGED <<idle, out, drained>>

Drain ==
    /\ closed
    /\ idle > 0 /\ drained < PoolSize
    /\ idle' = idle - 1
    /\ drained' = drained + 1
    /\ UNCHANGED <<out, closed>>

Next == Take \/ Return \/ Lose \/ Refill \/ Close \/ Drain

Spec == Init /\ [][Next]_vars
=============================================================================
