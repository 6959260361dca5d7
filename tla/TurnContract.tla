---------------------------- MODULE TurnContract -----------------------------
(* What Adapter.Stream promises its callers (adapter/vendor.go; the retry    *)
(* loops of api/server.go rely on it): a call that fails has emitted         *)
(* nothing, so that it may be made again with another account; one that      *)
(* succeeds has emitted everything, Ended last, or was told to stop.         *)
EXTENDS Sequences

CONSTANT Kinds   \* kinds of events

VARIABLES out, over   \* the events, and how the call ended

contractVars == <<out, over>>

ContractInit == out = <<>> /\ over = "no"

LastIs(kind) == out # <<>> /\ out[Len(out)] = kind

Emits ==
  /\ over = "no" /\ ~LastIs("ended")
  /\ \E kind \in Kinds : out' = Append(out, kind)
  /\ UNCHANGED over

(* emit returns false: the caller has gone.                                  *)
Stopped == over = "no" /\ over' = "stopped" /\ UNCHANGED out

Succeeds == over = "no" /\ LastIs("ended") /\ over' = "ok" /\ UNCHANGED out

Fails == over = "no" /\ out = <<>> /\ over' = "error" /\ UNCHANGED out

ContractNext == Emits \/ Stopped \/ Succeeds \/ Fails

ContractSpec == ContractInit /\ [][ContractNext]_contractVars
=============================================================================
