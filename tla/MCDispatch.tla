----------------------------- MODULE MCDispatch -----------------------------
(* Instances of Dispatch for TLC.                                            *)
EXTENDS Dispatch, TLC

CONSTANTS r1, r2

ClaudeJSON  == [r \in Requests |-> "claudeJSON"]
StreamKinds == (r1 :> "chatStream") @@ (r2 :> "claudeStream")
OpenAIKinds == (r1 :> "chatStream") @@ (r2 :> "chatJSON")

AccountSymmetry == Permutations(Accounts)
SlotSymmetry == Permutations(Accounts) \cup Permutations(Requests)
=============================================================================
