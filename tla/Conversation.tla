---------------------------- MODULE Conversation ----------------------------
(* A conversation on its way to the upstream and back.  The client sends all *)
(* of it in its own protocol with every request; the handlers turn it into   *)
(* chat messages, the adapter folds those into one prompt, whose last user   *)
(* message is the request (buildInput), and takes the calls out of what the  *)
(* model answers, since the upstream knows no tools of a client.             *)
(*                                                                           *)
(* Texts, calls, results and images are tokens, numbered as they are said.   *)
(* System messages, documents, arguments, wording and what is not for the    *)
(* model are left out; so are images elsewhere than with what a user says.   *)
EXTENDS Naturals, Sequences, FiniteSets, SequencesExt, Folds

CONSTANTS
  Protocols,        \* of "openai", "anthropic", "responses", "gemini"
  Names, NoName,    \* tools; the label of a result nobody asked for
  ImageSizes,       \* in units of the budget
  PerImage, Budget, \* inlineB64Budget and inlineB64Total
  MaxTurns          \* bound: turns of user and model

ASSUME ConversationAssumption ==
  /\ Protocols \subseteq {"openai", "anthropic", "responses", "gemini"}
  /\ NoName \notin Names /\ ImageSizes \subseteq Nat
  /\ PerImage \in Nat /\ Budget \in Nat /\ MaxTurns \in Nat

VARIABLES
  protocol, tools,  \* of the client, and whether it declares tools
  dialogue,         \* turns: who, the parts of it, and the tokens that were said
  spoken,           \* tokens so far
  compacted         \* history: the client has dropped old turns

dialogVars == <<protocol, tools, dialogue, spoken, compacted>>

Part(kind, token, id, name) == [kind |-> kind, token |-> token, id |-> id, name |-> name]
Image(token, size, shrinks) ==
  [kind |-> "image", token |-> token, id |-> 0, name |-> NoName, size |-> size, shrinks |-> shrinks]
Kind(parts, kinds) == SelectSeq(parts, LAMBDA p : p.kind \in kinds)

Speaker == IF dialogue = <<>> THEN "nobody" ELSE Last(dialogue).who

DialogInit ==
  /\ protocol \in Protocols /\ tools \in BOOLEAN
  /\ dialogue = <<>> /\ spoken = 0 /\ compacted = FALSE
-----------------------------------------------------------------------------
(* What the model says: text, calls, and calls that were begun and not       *)
(* closed.  extractToolCallsFromText matches from such a beginning to the    *)
(* end of the next call, which is no JSON then and stays what it is: text.   *)
Answers ==
  {<<"text">>, <<"call">>, <<"text", "call", "call">>, <<"call", "text">>,
   <<"open", "call">>, <<"call", "open", "text", "call">>}

Closing(says, i) ==
  /\ says[i] = "call"
  /\ \E j \in 1..i-1 : says[j] = "open" /\ \A k \in j+1..i-1 : says[k] # "call"

IsCall(says, i) == says[i] = "call" /\ ~Closing(says, i)

(* A Gemini call has no id but its name.                                     *)
Id(token, name) == IF protocol = "gemini" THEN name ELSE token

(* mutant of Extracted: the text is dropped if there is a call *)
ExtractedCallsOnly(says, names) ==
  LET part(i) == IF tools /\ IsCall(says, i)
                 THEN Part("call", spoken + i, Id(spoken + i, names[i]), names[i])
                 ELSE Part("text", spoken + i, 0, NoName)
      parts == [i \in DOMAIN says |-> part(i)]
      calls == Kind(parts, {"call"})
  IN IF calls = <<>> THEN parts ELSE calls

(* The text without the calls comes first, then they.                        *)
Extracted(says, names) ==
  LET part(i) == IF tools /\ IsCall(says, i)
                 THEN Part("call", spoken + i, Id(spoken + i, names[i]), names[i])
                 ELSE Part("text", spoken + i, 0, NoName)
      parts == [i \in DOMAIN says |-> part(i)]
  IN Kind(parts, {"text"}) \o Kind(parts, {"call"})

Saying(who, parts, n) == [who |-> who, parts |-> parts, tokens |-> spoken + 1 .. spoken + n]

Speaks(who, parts, n) ==
  /\ Len(dialogue) + (IF compacted THEN 2 ELSE 0) < MaxTurns
  /\ dialogue' = Append(dialogue, Saying(who, parts, n)) /\ spoken' = spoken + n
  /\ UNCHANGED <<protocol, tools, compacted>>

ModelAnswers ==
  /\ Speaker = "user"
  /\ \E says \in Answers : \E names \in [DOMAIN says -> Names] :
       Speaks("model", Extracted(says, names), Len(says))

(* A user says something, has his client answer the calls, in any order, or  *)
(* both.                                                                     *)
Asked == IF dialogue = <<>> THEN <<>> ELSE Kind(Last(dialogue).parts, {"call"})

Words ==
  {<<>>} \cup {<<Part("text", spoken + Len(Asked) + 1, 0, NoName)>>}
  \cup {<<Image(spoken + Len(Asked) + 1, s, b)>> : s \in ImageSizes, b \in BOOLEAN}

UserSays ==
  /\ Speaker # "user"
  /\ \E words \in Words, order \in SetToSeqs(DOMAIN Asked), first \in BOOLEAN :
       LET results == [i \in DOMAIN order |->
                         Part("result", spoken + i, Asked[order[i]].id, NoName)]
       IN /\ results \o words # <<>> /\ (first => results # <<>> /\ words # <<>>)
          /\ Speaks("user", IF first THEN words \o results ELSE results \o words,
                    Len(results) + Len(words))

(* The client makes room for more, once.                                   *)
Compact ==
  /\ ~compacted /\ Len(dialogue) > 2 /\ Speaker = "user"
  /\ dialogue' = Tail(Tail(dialogue)) /\ compacted' = TRUE
  /\ UNCHANGED <<protocol, tools, spoken>>

DialogNext == ModelAnswers \/ UserSays \/ Compact
DialogSpec == DialogInit /\ [][DialogNext]_dialogVars
-----------------------------------------------------------------------------
(* Chat messages: words, then calls; or the result of a call.                *)
Message(role, words, calls) == [role |-> role, words |-> words, calls |-> calls, result |-> <<>>]
ResultMessage(p) == [role |-> "tool", words |-> <<>>, calls |-> <<>>, result |-> <<p>>]

Spoken(who, words, calls) ==
  IF words \o calls = <<>> THEN <<>> ELSE <<Message(who, words, calls)>>
Results(parts) ==
  LET r == Kind(parts, {"result"}) IN [i \in DOMAIN r |-> ResultMessage(r[i])]

(* mutant of FromAnthropic: the words before a result are not put out first *)
FromAnthropicUnflushed(turn) ==
  LET Step(acc, p) ==
        CASE p.kind = "result" -> [acc EXCEPT !.out = Append(@, ResultMessage(p)), !.words = <<>>]
          [] p.kind = "call" -> [acc EXCEPT !.calls = Append(@, p)]
          [] OTHER -> [acc EXCEPT !.words = Append(@, p)]
      end == FoldLeft(Step, [out |-> <<>>, words |-> <<>>, calls |-> <<>>], turn.parts)
  IN end.out \o Spoken(turn.who, end.words, end.calls)

(* convertAnthropicMessage                                                   *)
FromAnthropic(turn) ==
  LET Step(acc, p) ==
        CASE p.kind = "result" ->
               [acc EXCEPT !.out = @ \o Spoken(turn.who, acc.words, <<>>) \o <<ResultMessage(p)>>,
                           !.words = <<>>]
          [] p.kind = "call" -> [acc EXCEPT !.calls = Append(@, p)]
          [] OTHER -> [acc EXCEPT !.words = Append(@, p)]
      end == FoldLeft(Step, [out |-> <<>>, words |-> <<>>, calls |-> <<>>], turn.parts)
  IN end.out \o Spoken(turn.who, end.words, end.calls)

(* responsesToChatRequest: a call and a result are items of their own.       *)
FromResponses(turn) ==
  LET item(p) == CASE p.kind = "result" -> ResultMessage(p)
                   [] p.kind = "call" -> Message(turn.who, <<>>, <<p>>)
                   [] OTHER -> Message(turn.who, <<p>>, <<>>)
  IN [i \in DOMAIN turn.parts |-> item(turn.parts[i])]

(* geminiToChatRequest: the results of a turn come after what else it says.  *)
FromGemini(turn) ==
  Spoken(turn.who, Kind(turn.parts, {"text", "image"}), Kind(turn.parts, {"call"}))
    \o Results(turn.parts)

(* A client of chat completions sends messages.                              *)
FromOpenAI(turn) ==
  Results(turn.parts)
    \o Spoken(turn.who, Kind(turn.parts, {"text", "image"}), Kind(turn.parts, {"call"}))

Messages ==
  LET of(turn) == CASE protocol = "anthropic" -> FromAnthropic(turn)
                    [] protocol = "responses" -> FromResponses(turn)
                    [] protocol = "gemini" -> FromGemini(turn)
                    [] OTHER -> FromOpenAI(turn)
  IN FlattenSeq([i \in DOMAIN dialogue |-> of(dialogue[i])])
-----------------------------------------------------------------------------
(* buildInput, of the messages M.  The request is the last thing the user    *)
(* says; what he and the model said before, and after it, is the history.    *)
Request(M) ==
  LET S == {i \in DOMAIN M : M[i].role = "user"} IN
  IF S = {} THEN 0 ELSE CHOOSE i \in S : \A j \in S : j <= i

Tokens(parts) == [i \in DOMAIN parts |-> parts[i].token]

History(M) ==
  FlattenSeq([i \in DOMAIN M |->
    IF i = Request(M) THEN <<>> ELSE Tokens(M[i].words \o M[i].calls)])

Current(M) == IF Request(M) = 0 THEN <<>> ELSE Tokens(M[Request(M)].words)

(* mutant of Claimed: the oldest call that was not answered has the result *)
ClaimedInOrder(pending, id) == IF pending = <<>> THEN 0 ELSE 1

(* claimToolName: the call of that id, or else the first there is.           *)
Claimed(pending, id) ==
  LET S == {i \in DOMAIN pending : pending[i].id = id} IN
  IF S # {} THEN CHOOSE i \in S : \A j \in S : i <= j
  ELSE IF pending = <<>> THEN 0 ELSE 1

Labelled(M) ==
  LET calls   == FlattenSeq([i \in DOMAIN M |-> M[i].calls])
      results == FlattenSeq([i \in DOMAIN M |-> M[i].result])
      Step(acc, p) ==
        LET i == Claimed(acc.pending, p.id) IN
        IF i = 0 THEN [acc EXCEPT !.out = Append(@, [token |-> p.token, id |-> p.id, label |-> NoName])]
        ELSE [pending |-> RemoveAt(acc.pending, i),
              out |-> Append(acc.out, [token |-> p.token, id |-> p.id, label |-> acc.pending[i].name])]
  IN FoldLeft(Step, [pending |-> calls, out |-> <<>>], results).out

(* renderImage: the images of the request are inlined first, then older ones *)
(* from the newest on, each in what is left of the budget; one too large is  *)
(* shrunk, if it can be.                                                     *)
Images(M) ==
  LET of(i) == Kind(M[i].words, {"image"}) IN
  IF Request(M) = 0 THEN <<>>
  ELSE FlattenSeq([k \in 1..Request(M) |-> of(Request(M) + 1 - k)])

(* mutant of Cost: every image may take all there is for one *)
CostAlone(p, left) == IF p.size <= PerImage THEN p.size ELSE IF p.shrinks THEN PerImage ELSE 0

Cost(p, left) ==
  LET limit == IF left < PerImage THEN left ELSE PerImage IN
  IF p.size <= limit THEN p.size ELSE IF p.shrinks THEN limit ELSE 0

Inlined(M) ==
  LET Step(acc, p) ==
        [left |-> acc.left - Cost(p, acc.left),
         in |-> IF Cost(p, acc.left) > 0 THEN Append(acc.in, <<p.token, Cost(p, acc.left)>>) ELSE acc.in]
  IN FoldLeft(Step, [left |-> Budget, in |-> <<>>], Images(M)).in

(* attachmentName of an image without one: its place in its own message.     *)
FileName(M, token) ==
  LET i == CHOOSE j \in DOMAIN M : \E p \in ToSet(M[j].words) : p.token = token
      files == Kind(M[i].words, {"image"})
  IN CHOOSE k \in DOMAIN files : files[k].token = token
-----------------------------------------------------------------------------
Sending == Speaker = "user"

(* Whatever protocol the client speaks: each word, call and result of the    *)
(* conversation, and each word and call the model answered with, is in the   *)
(* prompt exactly once.                                                      *)
NothingLost ==
  Sending =>
    LET M   == Messages
        all == History(M) \o Tokens(Labelled(M)) \o Current(M)
    IN /\ IsInjective(all)
       /\ ToSet(all) = UNION {dialogue[i].tokens : i \in DOMAIN dialogue}

(* A result is shown to the model as one of the tool that was called, in     *)
(* whatever order several are answered.                                      *)
ResultsNamed ==
  Sending /\ ~compacted =>
    LET M == Messages IN
    \A r \in ToSet(Labelled(M)) :
      \E i \in DOMAIN M : \E c \in ToSet(M[i].calls) : c.id = r.id /\ c.name = r.label

(* The images of a prompt keep to the budget of a request.                   *)
WithinBudget ==
  Sending => FoldLeft(LAMBDA sum, x : sum + x[2], 0, Inlined(Messages)) <= Budget

(* The prompt is the conversation: all of it, with the results where they    *)
(* belong, and no more images than a request may carry.                      *)
ConversationKept == NothingLost /\ ResultsNamed /\ WithinBudget

(* stream.go:82: results are claimed in order if they have no id.  Fails: a  *)
(* result whose call the client has dropped takes the name of another call,  *)
(* and that one's own result has none or the next.                           *)
StrangersUnnamed ==
  Sending =>
    LET M == Messages IN
    \A r \in ToSet(Labelled(M)) :
      r.label # NoName =>
        \E i \in DOMAIN M : \E c \in ToSet(M[i].calls) : c.id = r.id /\ c.name = r.label

(* attachments.go:46: attachments of one name can be told apart.  Fails: the *)
(* digest is not used, and images are restored to a file named by their      *)
(* place in their own message, the later one over the earlier.               *)
FilesApart ==
  Sending =>
    LET M == Messages IN
    \A x, y \in ToSet(Inlined(M)) : FileName(M, x[1]) = FileName(M, y[1]) => x = y
=============================================================================
