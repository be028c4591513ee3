----------------------------- MODULE MCDispatch -----------------------------
(* Instances of Dispatch for TLC: which call asks for which keys.          *)
EXTENDS Dispatch, TLC

CONSTANTS k1, k2,   \* keys
          s1,       \* a call of ExecuteCase
          c1,       \* a chunk
          v1, v2    \* versions

(* Two requests for the same chunk and, with k1, for its first case alone. *)
MCWork == [c \in Calls |-> IF c \in Singles THEN {k1} ELSE Keys]
MCWants == [c \in Calls |-> v1]
(* ExecuteCase uses the request_id of the chunk for another version.       *)
MCWantsOther == [c \in Calls |-> IF c \in Singles THEN v2 ELSE v1]

RelaySymmetry == Permutations(Relays)
=============================================================================
