-------------------------------- MODULE Reply --------------------------------
(* What the client of a chat endpoint may rely on, whatever the protocol:    *)
(* all it is shown comes from one round at the upstream, however often the   *)
(* gateway tries; nothing shown is taken back, and what is added comes after *)
(* it; a reply that is complete has shown something (server.go:563: an empty *)
(* 200 is a success that is none); and nothing follows the end.              *)
EXTENDS Naturals

VARIABLES
  shown,    \* for the place of every item in the reply, the round it comes from
  status    \* "open", "complete", "failed", or "gone": the client has left

replyVars == <<shown, status>>

NothingShown == [place \in {} |-> 0]

ReplyInit == shown = NothingShown /\ status = "open"

ShowsMore ==
  /\ \A i \in DOMAIN shown : i \in DOMAIN shown' /\ shown'[i] = shown[i]
  /\ \A i \in DOMAIN shown, j \in DOMAIN shown' : j \notin DOMAIN shown => i < j
  /\ \A i, j \in DOMAIN shown' : shown'[i] = shown'[j]

Show == status = "open" /\ ShowsMore /\ UNCHANGED status

Complete == status = "open" /\ ShowsMore /\ DOMAIN shown' # {} /\ status' = "complete"

BreakOff == status = "open" /\ status' \in {"failed", "gone"} /\ UNCHANGED shown

ReplyNext == Show \/ Complete \/ BreakOff

ReplySpec == ReplyInit /\ [][ReplyNext]_replyVars
=============================================================================
