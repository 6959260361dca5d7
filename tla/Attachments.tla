----------------------------- MODULE Attachments -----------------------------
(* How the files of a request are collected: chat_map.go goes through the    *)
(* messages, and extractFiles (api/chat_files.go) resolves what the parts of *)
(* one carry, downloading remote files side by side.                         *)
(*                                                                           *)
(* Abstracted: a payload is nothing, data that decodes or does not, or an    *)
(* address; whether a download succeeds (status, size, redirects, 20 s) is a *)
(* choice.  A file is the index of its part.                                 *)
EXTENDS Naturals, Sequences, FiniteSets

CONSTANTS
  MaxAttachments,     \* maxAttachments
  FetchConcurrency,   \* remoteFetchConcurrency
  Letters             \* bound: the requests, as sequences of messages

Payload == {"nothing", "data", "garbage", "remote"}

ASSUME AttachmentsAssumption ==
  /\ MaxAttachments \in Nat /\ FetchConcurrency \in Nat \ {0}
  /\ \A l \in Letters : l \in Seq(Seq(Payload))

VARIABLES
  letter,     \* the messages of the request
  reading,    \* the message that is mapped
  download,   \* slots of its parts: "none", "queued", "open", "got" or "failed"
  merging,    \* the slot that the merge is at, 0 before
  files,      \* out, of each message
  answers     \* history: the downloads that have succeeded

attachmentVars == <<letter, reading, download, merging, files, answers>>

AttachmentsInit ==
  /\ letter \in Letters /\ reading = 1 /\ download = <<>> /\ merging = 0
  /\ files = [m \in 1..Len(letter) |-> <<>>] /\ answers = {}

PartsOf(m) == 1..Len(letter[m])
Reading == reading <= Len(letter)
Open == {i \in DOMAIN download : download[i] = "open"}

(* resolveAttachment, and what is left for the downloads.                    *)
SlotOf(payload) ==
  CASE payload = "nothing" -> "none"
    [] payload = "data"    -> "got"
    [] payload = "garbage" -> "failed"
    [] payload = "remote"  -> "queued"

Collect ==
  /\ Reading /\ merging = 0 /\ download = <<>>
  /\ download' = [i \in PartsOf(reading) |-> SlotOf(letter[reading][i])]
  /\ merging' = IF PartsOf(reading) = {} THEN 1 ELSE 0
  /\ UNCHANGED <<letter, reading, files, answers>>

(* A goroutine of its own for every address, four of which proceed.          *)
FetchOpens(i) ==
  /\ i \in DOMAIN download /\ download[i] = "queued"
  /\ Cardinality(Open) < FetchConcurrency
  /\ download' = [download EXCEPT ![i] = "open"]
  /\ UNCHANGED <<letter, reading, merging, files, answers>>

FetchSucceeds(i) ==
  /\ i \in Open
  /\ download' = [download EXCEPT ![i] = "got"]
  /\ answers' = answers \cup {<<reading, i>>}
  /\ UNCHANGED <<letter, reading, merging, files>>

FetchIsLost(i) ==
  /\ i \in Open
  /\ download' = [download EXCEPT ![i] = "failed"]
  /\ UNCHANGED <<letter, reading, merging, files, answers>>

(* wg.Wait                                                                   *)
AllFetched ==
  /\ merging = 0 /\ download # <<>>
  /\ \A i \in DOMAIN download : download[i] \notin {"queued", "open"}
  /\ merging' = 1
  /\ UNCHANGED <<letter, reading, download, files, answers>>

(* mutant of Merge: failed downloads use up the limit too                    *)
MergeBySlot ==
  /\ merging \in DOMAIN download
  /\ files' = [files EXCEPT ![reading] =
       IF merging > MaxAttachments \/ download[merging] # "got" THEN @
       ELSE Append(@, merging)]
  /\ merging' = merging + 1
  /\ UNCHANGED <<letter, reading, download, answers>>

(* The merge goes through the slots; only files count for the limit.         *)
Merge ==
  /\ merging \in DOMAIN download
  /\ files' = [files EXCEPT ![reading] =
       IF Len(@) >= MaxAttachments \/ download[merging] # "got" THEN @
       ELSE Append(@, merging)]
  /\ merging' = merging + 1
  /\ UNCHANGED <<letter, reading, download, answers>>

(* toAdapterRequest goes on to the next message.                             *)
NextMessage ==
  /\ Reading /\ merging > Len(download)
  /\ reading' = reading + 1 /\ merging' = 0 /\ download' = <<>>
  /\ UNCHANGED <<letter, files, answers>>

AttachmentsNext ==
  \/ Collect \/ AllFetched \/ Merge \/ NextMessage
  \/ \E i \in DOMAIN download : FetchOpens(i) \/ FetchSucceeds(i) \/ FetchIsLost(i)

AttachmentsSpec == AttachmentsInit /\ [][AttachmentsNext]_attachmentVars
-----------------------------------------------------------------------------
(* What the loop without goroutines would have taken: the parts that resolve *)
(* and have fewer than MaxAttachments such parts before them.                *)
Resolves(m, i) ==
  letter[m][i] = "data" \/ (letter[m][i] = "remote" /\ <<m, i>> \in answers)
Taken(m) ==
  {i \in PartsOf(m) : Resolves(m, i) /\
     Cardinality({j \in 1..(i - 1) : Resolves(m, j)}) < MaxAttachments}

(* In whatever order downloads end and fail, a message that has been read    *)
(* has the files the serial loop gives it, in the order of its parts         *)
(* (chat_files.go:112, :171-172).                                            *)
FilesAsSerial ==
  \A m \in 1..(reading - 1) :
    /\ {files[m][k] : k \in 1..Len(files[m])} = Taken(m)
    /\ \A k \in 1..(Len(files[m]) - 1) : files[m][k] < files[m][k + 1]

(* Not true of the code: a request has at most maxAttachments files          *)
(* (chat_files.go:35).  The limit is counted for each message.               *)
RequestWithinLimit ==
  Cardinality({p \in (1..Len(letter)) \X (1..MaxAttachments) : p[2] <= Len(files[p[1]])})
    <= MaxAttachments

(* Not true of the code: files beyond the limit are not downloaded, as the   *)
(* serial loop did not (chat_files.go:40).                                   *)
NothingInVain ==
  Reading /\ merging > Len(download) /\ download # <<>> =>
    \A i \in PartsOf(reading) : <<reading, i>> \in answers => i \in Taken(reading)
=============================================================================
