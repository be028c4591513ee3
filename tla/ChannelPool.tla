------------------------------ MODULE ChannelPool ------------------------------
(***************************************************************************)
(* The RabbitMQ client's pool of AMQP channels: workers borrow a channel   *)
(* for one BatchRun and release it, the reconnect loop replaces a dead     *)
(* connection and refills the pool, Close stops everything.  They share    *)
(* conn, pool, connReady and closed under a mutex that no network call is  *)
(* made under: a worker that replaces a broken channel works with a        *)
(* snapshot of the connection, and every other goroutine may run between.  *)
(*                                                                         *)
(* Connections are numbered as they are dialled and so are the connReady   *)
(* signals, one per disconnection.                                         *)
(***************************************************************************)
EXTENDS Naturals, FiniteSets

CONSTANTS
    Workers,
    Channels,   \* identities of AMQP channels, used again once closed
    PoolSize,   \* Config.ChannelPool
    None,       \* no channel
    InitialBackoff, MaxBackoff, \* of the reconnect loop
    MaxConns    \* bound: how many connections a behaviour dials

ASSUME PoolAssumption ==
    /\ PoolSize \in Nat \ {0}
    /\ MaxConns \in Nat \ {0}
    /\ IsFiniteSet(Workers) /\ IsFiniteSet(Channels)
    /\ Cardinality(Channels) >= 2 * PoolSize + Cardinality(Workers)
    /\ None \notin Channels
    /\ InitialBackoff \in Nat \ {0} /\ MaxBackoff \in Nat \ {0}

VARIABLES
    conn,       \* Client.conn, 0 for nil
    pool,       \* the channels in Client.pool
    ready,      \* the signal in Client.connReady
    signalled,  \* the signals that are closed: their connection is ready
    closed,     \* Client.closed and stopCh
    up,         \* the connections that are open
    dialled,    \* how many were dialled
    of,         \* the connection of a channel, 0 if the channel is closed
    stage,      \* where each worker is
    held,       \* the channel a worker has borrowed or opened
    sees,       \* the signal it waits for, or the connection it works with
    loop,       \* where the reconnect loop is
    watch,      \* the connection it watches
    built,      \* the channels it has opened and not yet put into the pool
    backoff,    \* how long it waits before it dials again, 0 when it need not
    closer,     \* where Close is
    closing     \* the connection it closes in the end, and how many channels
                \* it has taken out of the pool

workers == <<stage, held, sees>>
reconnecting == <<loop, watch, built, backoff>>
closes == <<closer, closing>>
shared == <<conn, pool, ready, signalled, closed>>
network == <<up, dialled, of>>
vars == <<shared, network, workers, reconnecting, closes>>

Conns == 1..MaxConns
LongestBackoff == IF InitialBackoff > MaxBackoff THEN InitialBackoff ELSE MaxBackoff
Working == {"using", "replacing", "backfilling", "dropping"}

TypeOK ==
    /\ conn \in Conns \cup {0}
    /\ pool \in SUBSET Channels /\ Cardinality(pool) <= PoolSize
    /\ ready \in 0..MaxConns /\ signalled \in SUBSET (0..MaxConns)
    /\ closed \in BOOLEAN
    /\ up \in SUBSET Conns /\ dialled \in Conns
    /\ of \in [Channels -> Conns \cup {0}]
    /\ stage \in [Workers -> {"idle", "waiting", "picking"} \cup Working]
    /\ held \in [Workers -> Channels \cup {None}]
    /\ sees \in [Workers -> 0..MaxConns]
    /\ loop \in {"top", "watching", "draining", "dialling", "filling", "signalling", "stopped"}
    /\ watch \in Conns \cup {0}
    /\ built \in SUBSET Channels
    /\ backoff \in 0..LongestBackoff
    /\ closer \in {"none", "draining", "done"}
    /\ closing \in [conn : Conns \cup {0}, drained : 0..PoolSize]

Alive(c) == of[c] \in up
Unused == {c \in Channels : of[c] = 0}

(* Some n channels that do not exist yet; which ones makes no difference.  *)
Fresh(n) == CHOOSE S \in SUBSET Unused : Cardinality(S) = n

Init ==
    /\ conn = 1 /\ ready = 0 /\ signalled = {0} /\ closed = FALSE
    /\ pool = CHOOSE S \in SUBSET Channels : Cardinality(S) = PoolSize
    /\ up = {1} /\ dialled = 1
    /\ of = [c \in Channels |-> IF c \in pool THEN 1 ELSE 0]
    /\ stage = [w \in Workers |-> "idle"]
    /\ held = [w \in Workers |-> None]
    /\ sees = [w \in Workers |-> 0]
    /\ loop = "top" /\ watch = 0 /\ built = {} /\ backoff = 0
    /\ closer = "none" /\ closing = [conn |-> 0, drained |-> 0]

-----------------------------------------------------------------------------
(* A worker.                                                               *)

Goto(w, s) == stage' = [stage EXCEPT ![w] = s]
Leave(w) ==
    /\ Goto(w, "idle")
    /\ held' = [held EXCEPT ![w] = None]
    /\ sees' = [sees EXCEPT ![w] = 0]
Shut(S) == of' = [c \in Channels |-> IF c \in S THEN 0 ELSE of[c]]

(* borrow takes the current signal, ...                                    *)
BorrowStart(w) ==
    /\ stage[w] = "idle"
    /\ ~closed
    /\ Goto(w, "waiting")
    /\ sees' = [sees EXCEPT ![w] = ready]
    /\ UNCHANGED <<shared, network, held, reconnecting, closes>>

(* ... waits for it (or for the client to be closed), ...                  *)
ConnectionReady(w) ==
    /\ stage[w] = "waiting"
    /\ sees[w] \in signalled
    /\ Goto(w, "picking")
    /\ UNCHANGED <<shared, network, held, sees, reconnecting, closes>>

BorrowClosed(w) ==
    /\ stage[w] \in {"waiting", "picking"}
    /\ closed
    /\ Leave(w)
    /\ UNCHANGED <<shared, network, reconnecting, closes>>

(* ... or for its context, ...                                             *)
BorrowCancelled(w) ==
    /\ stage[w] \in {"waiting", "picking"}
    /\ Leave(w)
    /\ UNCHANGED <<shared, network, reconnecting, closes>>

(* ... and takes a channel out of the pool, also one whose connection is   *)
(* gone, or when the context is done already, as the select may.           *)
Pick(w) ==
    /\ stage[w] = "picking"
    /\ \E c \in pool :
          /\ pool' = pool \ {c}
          /\ held' = [held EXCEPT ![w] = c]
          /\ sees' = [sees EXCEPT ![w] = 0]
    /\ Goto(w, "using")
    /\ UNCHANGED <<conn, ready, signalled, closed, network, reconnecting, closes>>

PutBackAlways(c) == pool' = pool \cup {c} /\ UNCHANGED of   \* mutant: never full

(* Put channel c into the pool, or close it if there is no room.           *)
PutBack(c) ==
    IF Cardinality(pool) < PoolSize
    THEN pool' = pool \cup {c} /\ UNCHANGED of
    ELSE Shut({c}) /\ UNCHANGED pool

ReleaseIntoClosed(w) ==   \* mutant: closed is not looked at
    /\ stage[w] = "using"
    /\ PutBack(held[w])
    /\ Leave(w)
    /\ UNCHANGED <<conn, ready, signalled, closed, up, dialled, reconnecting, closes>>

(* release of a channel that has not failed BatchRun: one that works, or   *)
(* one whose connection went after the last confirm, or before a BatchRun  *)
(* that found its context done and published nothing.                      *)
ReleaseSound(w) ==
    /\ stage[w] = "using"
    /\ IF closed THEN Shut({held[w]}) /\ UNCHANGED pool ELSE PutBack(held[w])
    /\ Leave(w)
    /\ UNCHANGED <<conn, ready, signalled, closed, up, dialled, reconnecting, closes>>

ReleaseForgotten(w) ==   \* mutant: a broken channel is not replaced
    /\ stage[w] = "using"
    /\ Shut({held[w]})
    /\ Leave(w)
    /\ UNCHANGED <<shared, up, dialled, reconnecting, closes>>

(* release of a broken channel closes it and goes on with a snapshot of    *)
(* the connection.                                                         *)
ReleaseBroken(w) ==
    /\ stage[w] = "using"
    /\ Shut({held[w]})
    /\ IF closed
       THEN Leave(w)
       ELSE /\ Goto(w, "replacing")
            /\ held' = [held EXCEPT ![w] = None]
            /\ sees' = [sees EXCEPT ![w] = conn]
    /\ UNCHANGED <<shared, up, dialled, reconnecting, closes>>

(* Without a connection the replacement is left to the reconnect loop.     *)
LeaveToReconnect(w) ==
    /\ stage[w] = "replacing"
    /\ sees[w] \notin up
    /\ Leave(w)
    /\ UNCHANGED <<shared, network, reconnecting, closes>>

OpenReplacement(w) ==
    /\ stage[w] = "replacing"
    /\ sees[w] \in up
    /\ \E c \in Fresh(1) :
          /\ of' = [of EXCEPT ![c] = sees[w]]
          /\ held' = [held EXCEPT ![w] = c]
    /\ Goto(w, "backfilling")
    /\ UNCHANGED <<shared, up, dialled, sees, reconnecting, closes>>

OpenFails(w) ==
    /\ stage[w] = "replacing"
    /\ sees[w] \in up
    /\ dialled < MaxConns
    /\ Goto(w, "dropping")
    /\ UNCHANGED <<shared, network, held, sees, reconnecting, closes>>

BackfillUnchecked(w) ==   \* mutant: the overflowing replacement stays open
    /\ stage[w] = "backfilling"
    /\ pool' = IF ~closed /\ Cardinality(pool) < PoolSize THEN pool \cup {held[w]} ELSE pool
    /\ Leave(w)
    /\ UNCHANGED <<conn, ready, signalled, closed, network, reconnecting, closes>>

(* The replacement goes into the pool if its connection is still current.  *)
Backfill(w) ==
    /\ stage[w] = "backfilling"
    /\ IF closed \/ conn # sees[w]
       THEN Shut({held[w]}) /\ UNCHANGED pool
       ELSE PutBack(held[w])
    /\ Leave(w)
    /\ UNCHANGED <<conn, ready, signalled, closed, up, dialled, reconnecting, closes>>

GiveUpQuietly(w) ==   \* mutant: a failed replacement shrinks the pool
    /\ stage[w] = "dropping"
    /\ Leave(w)
    /\ UNCHANGED <<shared, network, reconnecting, closes>>

(* A connection that cannot open channels any more is closed, so that the  *)
(* reconnect loop refills the pool.                                        *)
ForceReconnect(w) ==
    /\ stage[w] = "dropping"
    /\ up' = IF ~closed /\ conn = sees[w] THEN up \ {conn} ELSE up
    /\ Leave(w)
    /\ UNCHANGED <<shared, dialled, of, reconnecting, closes>>

-----------------------------------------------------------------------------
(* The reconnect loop.                                                     *)

Watch ==
    /\ loop = "top"
    /\ conn # 0
    /\ loop' = "watching"
    /\ watch' = conn
    /\ UNCHANGED <<shared, network, workers, built, backoff, closes>>

Stop ==
    /\ loop \in {"top", "watching", "dialling"}
    /\ closed
    /\ loop' = "stopped"
    /\ UNCHANGED <<shared, network, workers, watch, built, backoff, closes>>

(* The connection is gone: borrowers are made to wait for a new signal.    *)
HandleDisconnect ==
    /\ loop = "watching"
    /\ watch \notin up
    /\ conn' = 0
    /\ ready' = ready + 1
    /\ loop' = "draining"
    /\ UNCHANGED <<pool, signalled, closed, network, workers, watch, built, backoff, closes>>

(* Idle channels are taken out of the pool one by one until it is empty.   *)
DrainPool ==
    /\ loop = "draining"
    /\ \/ /\ \E c \in pool : pool' = pool \ {c} /\ Shut({c})
          /\ UNCHANGED <<loop, backoff>>
       \/ /\ pool = {}
          /\ loop' = "dialling"
          /\ backoff' = InitialBackoff
          /\ UNCHANGED <<pool, of>>
    /\ UNCHANGED <<conn, ready, signalled, closed, up, dialled, workers, watch, built, closes>>

DialFailsUncapped ==   \* mutant: the backoff only doubles
    /\ loop = "dialling"
    /\ backoff <= 2 * MaxBackoff
    /\ backoff' = 2 * backoff
    /\ UNCHANGED <<shared, network, workers, loop, watch, built, closes>>

(* An attempt that fails leaves nothing behind but a longer backoff.       *)
DialFails ==
    /\ loop = "dialling"
    /\ backoff' = IF 2 * backoff > MaxBackoff THEN MaxBackoff ELSE 2 * backoff
    /\ UNCHANGED <<shared, network, workers, loop, watch, built, closes>>

(* One that succeeds dials a connection and opens a poolful of channels.   *)
Dial ==
    /\ loop = "dialling"
    /\ dialled < MaxConns
    /\ dialled' = dialled + 1
    /\ up' = up \cup {dialled'}
    /\ watch' = dialled'
    /\ built' = Fresh(PoolSize)
    /\ of' = [c \in Channels |-> IF c \in built' THEN dialled' ELSE of[c]]
    /\ loop' = "filling"
    /\ backoff' = 0
    /\ UNCHANGED <<shared, workers, closes>>

FillUnchecked ==   \* mutant: Close during the dialling goes unnoticed
    /\ loop = "filling"
    /\ conn' = watch
    /\ \E S \in SUBSET built :
          /\ Cardinality(S) + Cardinality(pool) <= PoolSize
          /\ S = built \/ Cardinality(S) + Cardinality(pool) = PoolSize
          /\ pool' = pool \cup S
          /\ Shut(built \ S)
    /\ built' = {}
    /\ loop' = "signalling"
    /\ UNCHANGED <<ready, signalled, closed, up, dialled, workers, watch, backoff, closes>>

(* The new connection and what fits of its channels are handed over, or    *)
(* all closed again if the client was closed meanwhile.                    *)
Fill ==
    /\ loop = "filling"
    /\ IF closed
       THEN /\ Shut(built)
            /\ up' = up \ {watch}
            /\ loop' = "stopped"
            /\ UNCHANGED <<conn, pool>>
       ELSE /\ conn' = watch
            /\ \E S \in SUBSET built :
                  /\ Cardinality(S) + Cardinality(pool) <= PoolSize
                  /\ S = built \/ Cardinality(S) + Cardinality(pool) = PoolSize
                  /\ pool' = pool \cup S
                  /\ Shut(built \ S)
            /\ loop' = "signalling"
            /\ UNCHANGED up
    /\ built' = {}
    /\ UNCHANGED <<ready, signalled, closed, dialled, workers, watch, backoff, closes>>

SignalReadyAnew ==   \* mutant: the signal is replaced before it is closed
    /\ loop = "signalling"
    /\ ready' = ready + 1
    /\ signalled' = signalled \cup {ready'}
    /\ loop' = "top"
    /\ UNCHANGED <<conn, pool, closed, network, workers, watch, built, backoff, closes>>

(* Everybody who waits is woken up.                                        *)
SignalReady ==
    /\ loop = "signalling"
    /\ signalled' = signalled \cup {ready}
    /\ loop' = "top"
    /\ UNCHANGED <<conn, pool, ready, closed, network, workers, watch, built, backoff, closes>>

-----------------------------------------------------------------------------
(* Close.                                                                  *)

CloseStart ==
    /\ closer = "none"
    /\ closed' = TRUE
    /\ closing' = [conn |-> conn, drained |-> 0]
    /\ conn' = 0
    /\ closer' = "draining"
    /\ UNCHANGED <<pool, ready, signalled, network, workers, reconnecting>>

CloseDrain ==
    /\ closer = "draining"
    /\ closing.drained < PoolSize
    /\ \E c \in pool : pool' = pool \ {c} /\ Shut({c})
    /\ closing' = [closing EXCEPT !.drained = @ + 1]
    /\ UNCHANGED <<conn, ready, signalled, closed, up, dialled, workers, reconnecting, closer>>

(* A poolful of channels is closed, or the context of Close is done, which *)
(* it may be at any time.  Close has to wait for the context when channels *)
(* are borrowed or the connection is gone: they never come back.           *)
CloseEnd ==
    /\ closer = "draining"
    /\ closer' = "done"
    /\ up' = up \ {closing.conn}
    /\ UNCHANGED <<shared, dialled, of, workers, reconnecting, closing>>

-----------------------------------------------------------------------------
(* External: a connection breaks down.                                     *)
ConnectionDies ==
    /\ dialled < MaxConns
    /\ \E c \in up : up' = up \ {c}
    /\ UNCHANGED <<shared, dialled, of, workers, reconnecting, closes>>

BorrowStep(w) == ConnectionReady(w) \/ BorrowClosed(w) \/ Pick(w)
ReleaseStep(w) ==
    \/ ReleaseBroken(w)
    \/ LeaveToReconnect(w) \/ OpenReplacement(w)
    \/ Backfill(w) \/ ForceReconnect(w)
Reconnect ==
    Watch \/ Stop \/ HandleDisconnect \/ DrainPool \/ Dial \/ Fill \/ SignalReady

Next ==
    \/ \E w \in Workers :
          \/ BorrowStart(w) \/ BorrowStep(w) \/ BorrowCancelled(w)
          \/ ReleaseSound(w) \/ ReleaseStep(w) \/ OpenFails(w)
    \/ Reconnect \/ DialFails
    \/ CloseStart \/ CloseDrain \/ CloseEnd
    \/ ConnectionDies

Spec == Init /\ [][Next]_vars

(* Every BatchRun ends and its channel is released, the reconnect loop     *)
(* keeps trying and in the end succeeds, and waiting for a channel is fair *)
(* among the workers.  Contexts need not end, connections need not last.   *)
FairSpec ==
    /\ Spec
    /\ WF_vars(Reconnect)
    /\ \A w \in Workers :
          /\ WF_vars(ConnectionReady(w) \/ BorrowClosed(w)) /\ SF_vars(Pick(w))
          /\ WF_vars(ReleaseSound(w) \/ ReleaseStep(w))

-----------------------------------------------------------------------------
(* Properties.                                                             *)

(* While a connection serves, the channels in the pool and those that      *)
(* workers will bring back are a poolful: whatever channels broke,         *)
(* replacements failed and reconnections came in between, the pool does    *)
(* not shrink for good.  That counts channels of an earlier connection too *)
(* which were put back unmarked: the next run finds them broken, and they  *)
(* are replaced.                                                           *)
PoolNeverShrinks ==
    ~closed /\ conn # 0 /\ conn \in up =>
        Cardinality(pool) + Cardinality({w \in Workers : stage[w] \in Working}) >= PoolSize

(* A channel of an open connection is in the pool, held by one worker, or  *)
(* about to be put into the pool: none is left open and forgotten.         *)
NoChannelForgotten ==
    closer # "done" =>
        \A c \in Channels : Alive(c) => c \in pool \cup built \/ \E w \in Workers : held[w] = c

(* When Close has returned and the reconnect loop has stopped, no          *)
(* connection is left open, not even one that was being dialled.           *)
NothingLeftOpen == closer = "done" /\ loop = "stopped" => up = {}

(* Whoever waits for a signal that is not closed waits for the one that    *)
(* the reconnect loop is about to close, whatever disconnections came      *)
(* between its look at connReady and its wait; and that one is not closed  *)
(* before the pool is full again.  Nobody sleeps through a reconnection or *)
(* wakes up early.                                                         *)
WokenByRefill ==
    ~closed =>
        /\ ready \in signalled => loop \in {"top", "watching"}
        /\ \A w \in Workers : stage[w] = "waiting" =>
              \/ sees[w] \in signalled
              \/ sees[w] = ready /\ loop \in {"draining", "dialling", "filling", "signalling"}

(* A worker that waits for a channel is served, or the client is closed:   *)
(* broken connections, broken channels and failing replacements do not     *)
(* starve it.                                                              *)
BorrowersServed ==
    \A w \in Workers : stage[w] \in {"waiting", "picking"} ~> stage[w] \notin {"waiting", "picking"}

(* The client keeps the contract PoolPort.                                 *)
Port == INSTANCE PoolPort WITH
    idle <- Cardinality(pool),
    out <- Cardinality({w \in Workers : stage[w] \in Working}),
    drained <- closing.drained
KeepsPort == Port!Spec

(* "Channels in use by a worker are marked broken and release drops them,   *)
(* because conn is nil": while there is no connection nothing is put into  *)
(* the pool.  But a channel is marked by the BatchRun that uses it, and a  *)
(* BatchRun that was finished when the connection went has marked nothing. *)
NothingPooledWhileDisconnected == [][conn = 0 /\ conn' = 0 => pool' \subseteq pool]_vars

-----------------------------------------------------------------------------
(* Why they hold.  Every open channel is in one place: in the pool, with   *)
(* the reconnect loop, or with one worker.                                 *)
PlacesInOrder ==
    /\ \A w \in Workers : held[w] # None <=> stage[w] \in {"using", "backfilling"}
    /\ \A w \in Workers : held[w] \notin pool \cup built
    /\ \A v, w \in Workers : held[v] = held[w] => v = w \/ held[v] = None
    /\ pool \cap built = {}
    /\ \A c \in Channels : of[c] # 0 <=> c \in pool \cup built \/ \E w \in Workers : held[w] = c

(* The loop works on a new connection only while there is none, and Close  *)
(* takes over the one there is.                                            *)
LoopInOrder ==
    /\ closed <=> closer # "none"
    /\ closed => conn = 0
    /\ ~closed => closing = [conn |-> 0, drained |-> 0]
    /\ conn # 0 => loop \in {"top", "watching", "signalling"}
    /\ loop = "watching" => conn \in {0, watch}
    /\ IF loop = "filling" THEN Cardinality(built) = PoolSize ELSE built = {}
    /\ ready <= dialled
    /\ loop \in {"top", "watching", "filling", "signalling"} => ready < dialled

(* A connection is open only if somebody is going to close it.             *)
ConnectionsInOrder ==
    /\ closer = "done" => up \subseteq {watch}
    /\ up \subseteq {conn, closing.conn, watch}
    /\ loop # "filling" => up \subseteq {conn, closing.conn}
    /\ closer = "done" /\ loop # "filling" => up = {}

(* Only the latest signal may be open, and it is while the loop reconnects. *)
(* The loop ends only when the client is closed.                           *)
SignalsInOrder ==
    /\ \A i \in 0..MaxConns : i < ready => i \in signalled
    /\ loop \in {"top", "watching"} => ready \in signalled
    /\ loop \in {"draining", "dialling", "filling", "signalling"} => ready \notin signalled
    /\ \A i \in signalled : i <= ready
    /\ loop = "stopped" => closed
    /\ \A w \in Workers : stage[w] = "waiting" => sees[w] <= ready

(* Those workers count that use the current connection, or still may.      *)
Serving == {w \in Workers :
    \/ stage[w] = "using"
    \/ stage[w] \in Working /\ sees[w] = conn}

PoolKept ==
    ~closed /\ conn # 0 /\ conn \in up => Cardinality(pool) + Cardinality(Serving) >= PoolSize

IInv ==
    /\ TypeOK
    /\ PlacesInOrder /\ LoopInOrder /\ ConnectionsInOrder /\ SignalsInOrder
    /\ PoolKept
=============================================================================
