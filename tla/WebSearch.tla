----------------------------- MODULE WebSearch -----------------------------
(* The emulated web search: the upstream is asked first, then the keys of a  *)
(* search service in turn, while administrators edit those keys on a page    *)
(* that shows only masks of them, and sends the masks back.                  *)
(*                                                                           *)
(* A secret is a number, its mask the negative of it, 0 none.  Sealing, the  *)
(* number of results, and the rest of the emulation settings are left out.   *)
EXTENDS Integers, Sequences, FiniteSets, SequencesExt

CONSTANTS
  Searchers, PageEditors,
  MaxKeys,     \* maxTavilyKeys
  MaxSecrets,  \* bound: secrets ever given
  MaxSearches, MaxSaves  \* bounds

VARIABLES
  pool,      \* TavilyKeys: id, secret, enabled and last_error of each
  file,      \* the document
  turn,      \* tavilyRR
  page,      \* editor -> what it was shown
  search,    \* searcher -> where it is
  given,     \* history: the secrets given for an id, by id
  searches, saves

searchVars == <<pool, file, turn, page, search, given, searches, saves>>

NoPage == [open |-> FALSE, keys |-> <<>>]
NoSearch == [at |-> "idle", keys |-> <<>>, first |-> 0, tried |-> <<>>, late |-> FALSE]

SearchInit ==
  /\ pool = <<>> /\ file = <<>> /\ turn = 0
  /\ page = [e \in PageEditors |-> NoPage] /\ search = [u \in Searchers |-> NoSearch]
  /\ given = <<>> /\ searches = 0 /\ saves = 0
-----------------------------------------------------------------------------
(* PublicView                                                                *)
Mask(s) == IF s > 0 THEN 0 - s ELSE s

View(e) ==
  /\ ~page[e].open
  /\ page' = [page EXCEPT ![e] =
       [open |-> TRUE, keys |-> [i \in DOMAIN pool |-> [pool[i] EXCEPT !.secret = Mask(@)]]]]
  /\ UNCHANGED <<pool, file, turn, search, given, searches, saves>>

(* mutant of Before: the key that is in its place now *)
BeforeByPlace(i, k) == IF i \in DOMAIN pool THEN {pool[i]} ELSE {}

(* The key of the same id that is in the pool.                               *)
Before(i, k) == {p \in ToSet(pool) : p.id = k.id}

Merged(i, k) ==
  LET prev == Before(i, k) IN
  IF prev = {} THEN k
  ELSE LET p == CHOOSE p \in prev : TRUE IN
       [k EXCEPT !.secret = IF @ <= 0 THEN p.secret ELSE @,
                 !.error  = IF @ THEN @ ELSE p.error]

(* mergeTavilyKeys                                                           *)
MergedKeys(incoming) ==
  LET all == [i \in DOMAIN incoming |-> Merged(i, incoming[i])]
      out == SelectSeq(all, LAMBDA k : k.secret # 0 \/ k.enabled)
  IN SubSeq(out, 1, IF Len(out) < MaxKeys THEN Len(out) ELSE MaxKeys)

(* What an administrator makes of a page: nothing, a key less, one switched  *)
(* on or off, with another secret, or a new one.  Ids are given in order.    *)
NewSecret == Len(given) + Cardinality(UNION {given[i] : i \in DOMAIN given}) + 1

PageEdits(shown) ==
  {<<shown, 0>>}
  \cup {<<RemoveAt(shown, i), 0>> : i \in DOMAIN shown}
  \cup {<<[shown EXCEPT ![i].enabled = ~@], 0>> : i \in DOMAIN shown}
  \cup (IF NewSecret > MaxSecrets THEN {}
        ELSE {<<[shown EXCEPT ![i].secret = NewSecret], shown[i].id>> : i \in DOMAIN shown}
             \cup {<<Append(shown, [id |-> Len(given) + 1, secret |-> NewSecret,
                                    enabled |-> TRUE, error |-> FALSE]), Len(given) + 1>>})

(* Store.Update: the pool changes even if it cannot be stored.               *)
SaveKeys(e) ==
  /\ page[e].open /\ saves < MaxSaves /\ saves' = saves + 1
  /\ \E x \in PageEdits(page[e].keys) :
       /\ pool' = MergedKeys(x[1])
       /\ given' = CASE x[2] = 0 -> given
                     [] x[2] \in DOMAIN given -> [given EXCEPT ![x[2]] = @ \cup {NewSecret}]
                     [] OTHER -> Append(given, {NewSecret})
  /\ file' \in {pool', file} /\ page' = [page EXCEPT ![e] = NoPage]
  /\ UNCHANGED <<turn, search, searches>>
-----------------------------------------------------------------------------
Go(u, r) == search' = [search EXCEPT ![u] = r]

(* The upstream takes what time it needs of the 45 seconds a search has.     *)
AsksUpstream(u) ==
  /\ search[u].at = "idle" /\ searches < MaxSearches /\ searches' = searches + 1
  /\ \/ Go(u, [NoSearch EXCEPT !.at = "found"])
     \/ \E late \in BOOLEAN : Go(u, [NoSearch EXCEPT !.at = "pool", !.late = late])
  /\ UNCHANGED <<pool, file, turn, page, given, saves>>

(* enabledTavilyKeys                                                         *)
Usable == SelectSeq(pool, LAMBDA k : k.enabled /\ k.secret # 0)

(* SearchTavilyPool, of the keys there are at this time.                     *)
TakesKeys(u) ==
  /\ search[u].at = "pool"
  /\ IF Usable = <<>> THEN Go(u, [search[u] EXCEPT !.at = "failed"]) /\ UNCHANGED turn
     ELSE /\ Go(u, [search[u] EXCEPT !.at = "trying", !.keys = Usable,
                                     !.first = turn % Len(Usable)])
          /\ turn' = turn + 1
  /\ UNCHANGED <<pool, file, page, given, searches, saves>>

(* mutant of TurnOf: from where the round robin is to the end                *)
TurnOfUnwrapped(s) == LET i == s.first + Len(s.tried) + 1 IN
                      IF i > Len(s.keys) THEN Len(s.keys) ELSE i

TurnOf(s) == ((s.first + Len(s.tried)) % Len(s.keys)) + 1

(* markTavily: the key of that id, if there is one by now.                   *)
Marked(id, failed) ==
  [i \in DOMAIN pool |-> IF pool[i].id = id THEN [pool[i] EXCEPT !.error = failed] ELSE pool[i]]

TriesKey(u) ==
  LET s == search[u]
      k == s.keys[TurnOf(s)]
      tried == Append(s.tried, k.id)
  IN /\ s.at = "trying"
     /\ \E works \in BOOLEAN, late \in BOOLEAN :
          /\ works => ~s.late /\ k.secret > 0 /\ ~late
          /\ s.late => late
          /\ pool' = Marked(k.id, ~works) /\ file' \in {pool', file}
          /\ Go(u, [s EXCEPT !.tried = tried, !.late = late,
                             !.at = IF works THEN "found"
                                    ELSE IF Len(tried) = Len(s.keys) THEN "failed" ELSE @])
     /\ UNCHANGED <<turn, page, given, searches, saves>>

SearchEnds(u) ==
  /\ search[u].at \in {"found", "failed"} /\ Go(u, NoSearch)
  /\ UNCHANGED <<pool, file, turn, page, given, searches, saves>>

SearchRestart ==
  /\ saves < MaxSaves /\ saves' = saves + 1 /\ pool' = file /\ turn' = 0
  /\ page' = [e \in PageEditors |-> NoPage] /\ search' = [u \in Searchers |-> NoSearch]
  /\ UNCHANGED <<file, given, searches>>

SearchNext ==
  \/ SearchRestart
  \/ \E e \in PageEditors : View(e) \/ SaveKeys(e)
  \/ \E u \in Searchers : AsksUpstream(u) \/ TakesKeys(u) \/ TriesKey(u) \/ SearchEnds(u)

SearchSpec == SearchInit /\ [][SearchNext]_searchVars
-----------------------------------------------------------------------------
(* A search that fails has tried every key that was usable when it began,    *)
(* each once, wherever the round robin has made it begin.                    *)
TriesAll ==
  \A u \in Searchers : search[u].at = "failed" =>
    \A k \in ToSet(search[u].keys) :
      Cardinality({i \in DOMAIN search[u].tried : search[u].tried[i] = k.id}) = 1

(* However pages overlap with searches, other pages and restarts: what is    *)
(* stored for a key was given for that key, or is the mask of it.            *)
NoneMixedUp ==
  \A k \in ToSet(pool) : k.secret # 0 =>
    k.secret \in given[k.id] \/ (0 - k.secret) \in given[k.id]

(* Keys keep their own secrets, and a search that fails has tried them all.  *)
PoolSound == NoneMixedUp /\ TriesAll

(* store.go:75: for a mask the stored secret is kept.  Fails: if another     *)
(* administrator has removed the key since, its mask is stored as a secret   *)
(* and tried as one.                                                         *)
NoMaskStored == \A k \in ToSet(pool) : k.secret >= 0

(* The error shown with a key is its own.  Fails: when the upstream, or      *)
(* another key, has used up the time, every further key is given the error   *)
(* of the deadline; and a page brings back errors that are over.             *)
BlamesFailing ==
  [][\A u \in Searchers : TriesKey(u) => ~search[u].late]_searchVars

(* config.go:71: the upstream first, the keys if it fails.  Fails if the     *)
(* upstream fails by taking too long.                                        *)
FallsBack ==
  \A u \in Searchers : search[u].at = "failed" => search[u].keys = <<>> \/ ~search[u].late
=============================================================================
