------------------------- MODULE MCSessionAffinity -------------------------
(* Instances of SessionAffinity for TLC: two prompt-cache keys, each seen    *)
(* with and without the conversation they share, the conversation alone, and *)
(* a request without any identifier.                                         *)
EXTENDS SessionAffinity, TLC

CONSTANTS p1, p2, conv

SharedConversation ==
  {[primary |-> p1, fallback |-> conv], [primary |-> p2, fallback |-> conv],
   [primary |-> p1, fallback |-> NoKey], [primary |-> conv, fallback |-> NoKey],
   [primary |-> NoKey, fallback |-> NoKey]}

TwoSessions ==
  {[primary |-> p1, fallback |-> NoKey], [primary |-> p2, fallback |-> NoKey]}

Symmetry == Permutations(Accounts) \cup Permutations(Requests)
=============================================================================
