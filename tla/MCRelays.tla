------------------------------ MODULE MCRelays ------------------------------
(* The instance of Dispatch with two relays, with what is computed between *)
(* their BatchRun and their write-back.                                    *)
EXTENDS MCDispatch, RelayResult
=============================================================================
