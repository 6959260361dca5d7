----------------------------- MODULE Credentials -----------------------------
(* The life of one account's credentials: auth.TokenManager, the keep-alive  *)
(* loop that refreshes it, the adapter's ExchangeCredential, the requests    *)
(* that lose the access token, the administrator's login task, and what a    *)
(* restart restores.                                                         *)
(*                                                                           *)
(* The account is imported with a re-login bundle (e-mail and password).     *)
(* Access tokens are numbered as the site issues them, 0 is no token.  The   *)
(* removal of an account is its removal by the keep-alive loop; the other    *)
(* ways to remove or replace one are in AccountStore.                        *)
EXTENDS Naturals

CONSTANTS
  MaxFailures,   \* KeepaliveConfig.MaxFailures
  MaxIssued,     \* bound: access tokens the site issues
  MaxRestarts,   \* bound: restarts of the process
  CookieAlways   \* the site sends a session cookie with every exchange

ASSUME CredentialsAssumption ==
  /\ MaxFailures \in Nat \ {0} /\ MaxIssued \in Nat /\ MaxRestarts \in Nat
  /\ CookieAlways \in BOOLEAN

Issuable == 1..MaxIssued
Access == 0..MaxIssued

VARIABLES
  present,    \* the account is in the pool
  enabled,    \* Account.enabled
  apiKey,     \* TokenManager.apiKey
  tok,        \* TokenManager.token
  doc,        \* the token part of the account's stored document
  dirty,      \* the account is marked for the flusher
  failClass,  \* Account.failClass is Auth
  login,      \* the administrator's login task is at work
  issued,     \* access tokens the site has issued so far
  valid,      \* those it accepts
  fresh,      \* those not about to expire
  failures,   \* Keepalive.failures
  backoff,    \* now is before Keepalive.nextTry
  flight,     \* the exchange in flight, refreshFlight
  restarts,   \* restarts so far
  streak,     \* history: failed refreshes since a login or refresh succeeded
  forbidden   \* history: 403 answers in a row

site == <<issued, valid, fresh>>
loop == <<failures, backoff, flight, streak>>
account == <<present, enabled, apiKey, tok, doc, dirty>>
vars == <<account, failClass, login, site, loop, restarts, forbidden>>

Token(a, r, k) == [access |-> a, refresh |-> r, key |-> k]
Imported == Token(0, "bundle", 0)

NoFlight == [on |-> FALSE, bundle |-> FALSE, access |-> 0, keepalive |-> FALSE]

Saturated(n, max) == IF n < max THEN n + 1 ELSE max

(* Imported to be logged in later (disabled), or enabled at once.            *)
Init ==
  /\ present = TRUE /\ enabled \in BOOLEAN
  /\ apiKey = 0 /\ tok = Imported /\ doc = Imported /\ dirty = FALSE
  /\ failClass = FALSE /\ login = FALSE
  /\ issued = 0 /\ valid = {} /\ fresh = {}
  /\ failures = 0 /\ backoff = FALSE /\ flight = NoFlight
  /\ restarts = 0 /\ streak = 0 /\ forbidden = 0
-----------------------------------------------------------------------------
(* The site: it issues a token, revokes one, and lets one come near its      *)
(* expiry.                                                                   *)
Issue ==
  /\ issued < MaxIssued
  /\ issued' = issued + 1
  /\ valid' = valid \cup {issued + 1}
  /\ fresh' = fresh \cup {issued + 1}

Revoke(a) ==
  /\ a \in valid
  /\ valid' = valid \ {a}
  /\ UNCHANGED <<account, failClass, login, issued, fresh, loop, restarts,
                 forbidden>>

Age(a) ==
  /\ a \in fresh
  /\ fresh' = fresh \ {a}
  /\ UNCHANGED <<account, failClass, login, issued, valid, loop, restarts,
                 forbidden>>
-----------------------------------------------------------------------------
(* marshalPersisted, the token part: a token without a key takes the         *)
(* manager's.                                                                *)
Persisted(t, k) == IF t.key = 0 THEN [t EXCEPT !.key = k] ELSE t

(* TokenManager.SetToken: the key of the first token set is the manager's    *)
(* for good.                                                                 *)
KeyAfter(k, t) == IF k = 0 THEN t.key ELSE k

(* Pool.Flush, in one step: AccountStore has its two phases.                 *)
Flush ==
  /\ present /\ dirty
  /\ doc' = Persisted(tok, apiKey)
  /\ dirty' = FALSE
  /\ UNCHANGED <<present, enabled, apiKey, tok, failClass, login, site, loop,
                 restarts, forbidden>>

(* The login task starts with the bundle it reads from the account.          *)
LoginStart ==
  /\ present /\ ~login /\ tok.refresh = "bundle" /\ issued < MaxIssued
  /\ login' = TRUE
  /\ UNCHANGED <<account, failClass, site, loop, restarts, forbidden>>

(* The sidecar has logged in: Pool.SetToken stores and saves the token, on a *)
(* new account if there is none of that name, and the account is enabled.    *)
LoginDone ==
  /\ login /\ Issue
  /\ tok' = Token(issued', "bundle", issued')
  /\ apiKey' = KeyAfter(IF present THEN apiKey ELSE 0, tok')
  /\ doc' = Persisted(tok', apiKey')
  /\ present' = TRUE /\ enabled' = TRUE /\ dirty' = TRUE
  /\ login' = FALSE /\ streak' = 0
  /\ failClass' = (present /\ failClass)
  /\ forbidden' = IF present THEN forbidden ELSE 0
  /\ UNCHANGED <<failures, backoff, flight, restarts>>

LoginFailed ==
  /\ login /\ login' = FALSE
  /\ UNCHANGED <<account, failClass, site, loop, restarts, forbidden>>
-----------------------------------------------------------------------------
(* Requests.  A picked account has an access token.                          *)
InUse == present /\ enabled /\ tok.access # 0

Drop(t) == [t EXCEPT !.access = 0]

(* MarkFailure, a 401: the access token is dropped.                          *)
Unauthorized ==
  /\ InUse /\ tok.access \notin valid
  /\ tok' = Drop(tok)
  /\ failClass' = TRUE /\ dirty' = TRUE /\ forbidden' = 0
  /\ UNCHANGED <<present, enabled, apiKey, doc, login, site, loop, restarts>>

(* MarkFailure, a 403, be it the token's or the site's own trouble: dropped  *)
(* if the failure before it was of class Auth too.                           *)
Forbidden ==
  /\ InUse
  /\ tok' = IF failClass THEN Drop(tok) ELSE tok
  /\ failClass' = TRUE /\ dirty' = TRUE
  /\ forbidden' = Saturated(forbidden, 2)
  /\ UNCHANGED <<present, enabled, apiKey, doc, login, site, loop, restarts>>

(* MarkSuccess, or a failure of another class.                               *)
Served ==
  /\ InUse /\ failClass
  /\ failClass' = FALSE /\ dirty' = TRUE /\ forbidden' = 0
  /\ UNCHANGED <<present, enabled, apiKey, tok, doc, login, site, loop,
                 restarts>>
-----------------------------------------------------------------------------
(* Refresh: the API key is preferred to the refresh token.                   *)
HasSecret == apiKey # 0 \/ tok.refresh # "none"
Exchange(k) ==
  [on |-> TRUE, access |-> apiKey, keepalive |-> k,
   bundle |-> apiKey = 0 /\ tok.refresh = "bundle"]

DueExpiringOnly ==                          \* mutant of Due
  tok.refresh # "none" /\ tok.access # 0 /\ tok.access \notin fresh

(* KeepaliveDue.                                                             *)
Due == tok.refresh # "none" /\ (tok.access = 0 \/ tok.access \notin fresh)

(* Keepalive.Tick and refreshOne; the loop joins an exchange in flight.      *)
KeepaliveStart ==
  /\ present /\ enabled /\ Due /\ ~backoff /\ ~flight.keepalive
  /\ flight' = IF flight.on THEN [flight EXCEPT !.keepalive = TRUE]
               ELSE Exchange(TRUE)
  /\ UNCHANGED <<account, failClass, login, site, failures, backoff, streak,
                 restarts, forbidden>>

(* The request path, TokenManager.Token: the access token is gone or has     *)
(* expired by the time the picked account's client asks for it.              *)
RequestRefresh ==
  /\ present /\ enabled /\ ~flight.on /\ HasSecret
  /\ tok.access = 0 \/ tok.access \notin fresh
  /\ flight' = Exchange(FALSE)
  /\ UNCHANGED <<account, failClass, login, site, failures, backoff, streak,
                 restarts, forbidden>>

(* ExchangeCredential: a bundle logs in again and comes back with the token; *)
(* an access token the site still accepts comes back as it was, with the     *)
(* session cookie, if any, for refresh token.                                *)
Exchanged ==
  \/ /\ flight.bundle /\ Issue
     /\ tok' = Token(issued', "bundle", issued')
  \/ /\ ~flight.bundle /\ flight.access \in valid
     /\ \E r \in (IF CookieAlways THEN {"session"} ELSE {"session", "none"}) :
          tok' = Token(flight.access, r, flight.access)
     /\ UNCHANGED site

RefreshSucceeds ==
  /\ flight.on /\ present
  /\ Exchanged
  /\ dirty' = TRUE
  /\ flight' = NoFlight
  /\ failures' = IF flight.keepalive THEN 0 ELSE failures
  /\ backoff' = (backoff /\ ~flight.keepalive)
  /\ streak' = 0
  /\ UNCHANGED <<present, enabled, apiKey, doc, failClass, login, restarts,
                 forbidden>>

(* Keepalive.refreshOne, a failure: counted, with a backoff; MaxFailures of  *)
(* them and OnDead removes the account.                                      *)
Dead == failures + 1 >= MaxFailures

RefreshFails ==
  /\ flight.on /\ present
  /\ flight' = NoFlight
  /\ streak' = Saturated(streak, MaxFailures)
  /\ IF flight.keepalive
     THEN /\ failures' = IF Dead THEN 0 ELSE failures + 1
          /\ backoff' = ~Dead
          /\ present' = ~Dead
     ELSE UNCHANGED <<failures, backoff, present>>
  /\ UNCHANGED <<enabled, apiKey, tok, doc, dirty, failClass, login, site,
                 restarts, forbidden>>

BackoffOver ==
  /\ backoff
  /\ backoff' = FALSE
  /\ UNCHANGED <<account, failClass, login, site, failures, flight, streak,
                 restarts, forbidden>>

RestartForgetsKey ==                        \* mutant of Restart
  /\ present /\ restarts < MaxRestarts
  /\ restarts' = restarts + 1
  /\ apiKey' = 0 /\ tok' = doc /\ dirty' = FALSE /\ login' = FALSE
  /\ failures' = 0 /\ backoff' = FALSE /\ flight' = NoFlight
  /\ streak' = 0 /\ forbidden' = 0 /\ failClass' \in BOOLEAN
  /\ UNCHANGED <<present, enabled, doc, site>>

(* A restart, loadAll: the key of the document becomes the manager's.  The   *)
(* failure class is in the document too: as it is, or was before a lost mark.*)
Restart ==
  /\ present /\ restarts < MaxRestarts
  /\ restarts' = restarts + 1
  /\ apiKey' = doc.key /\ tok' = doc /\ dirty' = FALSE /\ login' = FALSE
  /\ failures' = 0 /\ backoff' = FALSE /\ flight' = NoFlight
  /\ streak' = 0 /\ forbidden' = 0 /\ failClass' \in BOOLEAN
  /\ UNCHANGED <<present, enabled, doc, site>>

Next ==
  \/ \E a \in Issuable : Revoke(a) \/ Age(a)
  \/ Flush \/ LoginStart \/ LoginDone \/ LoginFailed
  \/ Unauthorized \/ Forbidden \/ Served
  \/ KeepaliveStart \/ RequestRefresh \/ RefreshSucceeds \/ RefreshFails
  \/ BackoffOver \/ Restart

Spec == Init /\ [][Next]_vars

(* The loop ticks every minute, an exchange is bounded (30 s, 150 s for a    *)
(* login), a backoff is at most an hour.                                     *)
FairSpec ==
  /\ Spec
  /\ WF_vars(KeepaliveStart) /\ WF_vars(RefreshSucceeds \/ RefreshFails)
  /\ WF_vars(BackoffOver)
-----------------------------------------------------------------------------
(* Properties.                                                               *)

Tokens == [access : Access, refresh : {"bundle", "session", "none"}, key : Access]
Flights ==
  [on : BOOLEAN, bundle : BOOLEAN, access : Access, keepalive : BOOLEAN]

(* Types of the variables; nothing stored or in memory is newer than what    *)
(* the site has issued, and a token's key is the one its access token had.   *)
TypeOK ==
  /\ present \in BOOLEAN /\ enabled \in BOOLEAN /\ dirty \in BOOLEAN
  /\ failClass \in BOOLEAN /\ login \in BOOLEAN /\ backoff \in BOOLEAN
  /\ issued \in Access /\ valid \subseteq 1..issued /\ fresh \subseteq 1..issued
  /\ apiKey \in 0..issued
  /\ tok \in Tokens /\ tok.key <= issued /\ tok.access \in {0, tok.key}
  /\ doc \in Tokens /\ doc.key <= issued /\ doc.access \in {0, doc.key}
  /\ flight \in Flights
  /\ failures \in 0..(MaxFailures - 1)
  /\ restarts \in 0..MaxRestarts /\ streak \in 0..MaxFailures
  /\ forbidden \in 0..2

(* Whatever refreshes, drops, logins and restarts an account goes through,   *)
(* something to log in with stays at hand: an API key or the bundle.         *)
SecretAtHand == present => apiKey # 0 \/ tok.refresh = "bundle"

(* An enabled account that has lost its access token gets one back or is     *)
(* removed: the pool keeps no account that is neither alive nor dead.        *)
BackOrRemoved ==
  present /\ enabled /\ tok.access = 0 ~> tok.access # 0 \/ ~present

(* "The refresh token (the re-login bundle) is kept whole": an account       *)
(* imported with a bundle can log in again for as long as it is in the pool. *)
BundleKept == present => tok.refresh = "bundle"

(* "Failures in a row": the loop removes an account only if none of its      *)
(* logins and refreshes has succeeded since MaxFailures refreshes ago.       *)
RemovedAfterFailuresInARow ==
  [][present /\ ~present' => streak' >= MaxFailures]_vars

(* "A 403 must be the second in a row to drop the token."                    *)
ForbiddenTwiceToDrop ==
  [][Forbidden /\ tok'.access = 0 => forbidden' = 2]_vars
=============================================================================
