--------------------------- MODULE CredentialsProofs ---------------------------
(* An account never runs out of something to log in with, for every limit of *)
(* failures and however many tokens are issued.  The invariant is made       *)
(* inductive by what the document and the exchange in flight must satisfy    *)
(* for a restart and a refresh to keep it.                                   *)
EXTENDS Credentials, TLAPS

(* What a restart would restore has a secret.                                *)
DocHasSecret == doc.key # 0 \/ doc.refresh = "bundle"

(* An exchange that is not a login used an API key, which is still there.    *)
FlightHasKey == flight.on /\ ~flight.bundle => apiKey # 0

IInv == TypeOK /\ SecretAtHand /\ DocHasSecret /\ FlightHasKey

(* The site's answer to a login is a token it has not issued before.         *)
LEMMA IssueTyped ==
  ASSUME TypeOK, Issue
  PROVE  /\ issued' \in Access /\ issued' = issued + 1 /\ issued' # 0
         /\ valid' \subseteq 1..issued' /\ fresh' \subseteq 1..issued'
BY CredentialsAssumption DEF TypeOK, Issue, Access

(* What the operators on tokens and exchanges return.                        *)
LEMMA TokenTyped ==
  ASSUME NEW a \in Access, NEW r \in {"bundle", "session", "none"}, NEW k \in Access
  PROVE  /\ Token(a, r, k) \in Tokens
         /\ Token(a, r, k).access = a
         /\ Token(a, r, k).refresh = r /\ Token(a, r, k).key = k
BY DEF Token, Tokens

LEMMA DropTyped ==
  ASSUME NEW t \in Tokens
  PROVE  /\ Drop(t) \in Tokens /\ Drop(t).access = 0
         /\ Drop(t).refresh = t.refresh /\ Drop(t).key = t.key
BY CredentialsAssumption DEF Drop, Tokens, Access

LEMMA PersistedTyped ==
  ASSUME NEW t \in Tokens, NEW k \in Access
  PROVE  /\ Persisted(t, k) \in Tokens
         /\ Persisted(t, k).access = t.access
         /\ Persisted(t, k).refresh = t.refresh
         /\ Persisted(t, k).key = IF t.key = 0 THEN k ELSE t.key
BY DEF Persisted, Tokens

LEMMA NoFlightTyped ==
  NoFlight \in Flights /\ ~NoFlight.on
BY CredentialsAssumption DEF NoFlight, Flights, Access

LEMMA ExchangeTyped ==
  ASSUME TypeOK, NEW k \in BOOLEAN
  PROVE  Exchange(k) \in Flights
<1>1. apiKey \in Access
  BY CredentialsAssumption DEF TypeOK, Access
<1>2. (apiKey = 0 /\ tok.refresh = "bundle") \in BOOLEAN
  OBVIOUS
<1>3. QED
  BY <1>1, <1>2, Zenon DEF Exchange, Flights

(* The initial states satisfy the invariant.                                 *)
LEMMA InitIInv == Init => IInv
<1> SUFFICES ASSUME Init PROVE IInv
  OBVIOUS
<1>1. 0 \in Access /\ 0 \in 0..(MaxFailures - 1) /\ 0 \in 0..MaxRestarts
      /\ 0 \in 0..MaxFailures
  BY CredentialsAssumption DEF Access
<1>2. /\ tok \in Tokens /\ tok.key = 0 /\ tok.access = 0 /\ tok.refresh = "bundle"
      /\ doc \in Tokens /\ doc.key = 0 /\ doc.access = 0 /\ doc.refresh = "bundle"
  BY <1>1, TokenTyped DEF Init, Imported
<1>3. flight \in Flights /\ ~flight.on
  BY NoFlightTyped DEF Init
<1>4. issued = 0 /\ apiKey \in 0..issued /\ forbidden \in 0..2
  BY DEF Init
<1>5. /\ present \in BOOLEAN /\ enabled \in BOOLEAN /\ dirty \in BOOLEAN
      /\ failClass \in BOOLEAN /\ login \in BOOLEAN /\ backoff \in BOOLEAN
  BY DEF Init
<1>6. valid \subseteq 1..issued /\ fresh \subseteq 1..issued
  BY DEF Init
<1>7. /\ failures \in 0..(MaxFailures - 1) /\ restarts \in 0..MaxRestarts
      /\ streak \in 0..MaxFailures
  BY <1>1 DEF Init
<1>8. /\ issued \in Access /\ tok.key <= issued /\ tok.access \in {0, tok.key}
      /\ doc.key <= issued /\ doc.access \in {0, doc.key}
  BY <1>1, <1>2, <1>4
<1>9. TypeOK
  BY <1>2, <1>3, <1>4, <1>5, <1>6, <1>7, <1>8 DEF TypeOK
<1>10. QED
  BY <1>2, <1>3, <1>9 DEF IInv, SecretAtHand, DocHasSecret, FlightHasKey

(* Every step keeps the types.                                               *)
LEMMA TypeStep == TypeOK /\ [Next]_vars => TypeOK'
<1> SUFFICES ASSUME TypeOK, [Next]_vars PROVE TypeOK'
  OBVIOUS
<1> USE CredentialsAssumption
<1>1. CASE \E a \in Issuable : Revoke(a) \/ Age(a)
  BY <1>1 DEF TypeOK, Revoke, Age, account, loop
<1>2. CASE Flush
  <2>1. apiKey \in Access
    BY DEF TypeOK, Access
  <2>2. /\ doc' \in Tokens /\ doc'.access = tok.access
        /\ doc'.key = IF tok.key = 0 THEN apiKey ELSE tok.key
    BY <1>2, <2>1, PersistedTyped DEF Flush, TypeOK
  <2>3. doc'.key <= issued /\ doc'.access \in {0, doc'.key}
    BY <2>2 DEF TypeOK, Access
  <2>4. QED
    BY <1>2, <2>2, <2>3 DEF TypeOK, Flush, site, loop
<1>3. CASE LoginStart \/ LoginFailed
  BY <1>3 DEF TypeOK, LoginStart, LoginFailed, account, site, loop
<1>4. CASE LoginDone
  <2>1. /\ issued' \in Access /\ issued' = issued + 1 /\ issued' # 0
        /\ valid' \subseteq 1..issued' /\ fresh' \subseteq 1..issued'
    BY <1>4, IssueTyped DEF LoginDone
  <2>2. /\ tok' \in Tokens /\ tok'.key = issued' /\ tok'.access = issued'
    BY <1>4, <2>1, TokenTyped DEF LoginDone
  <2>3. apiKey' \in 0..issued'
    BY <1>4, <2>1, <2>2 DEF LoginDone, KeyAfter, TypeOK, Access
  <2>4. doc' = tok'
    BY <1>4, <2>1, <2>2 DEF LoginDone, Persisted
  <2>5. failClass' \in BOOLEAN /\ forbidden' \in 0..2
    BY <1>4 DEF LoginDone, TypeOK
  <2>6. /\ present' = TRUE /\ enabled' = TRUE /\ dirty' = TRUE
        /\ login' = FALSE /\ streak' = 0
        /\ UNCHANGED <<failures, backoff, flight, restarts>>
    BY <1>4 DEF LoginDone
  <2>7. issued' <= issued' /\ 0 \in 0..MaxFailures
    BY <2>1 DEF Access
  <2>8. QED
    BY <2>1, <2>2, <2>3, <2>4, <2>5, <2>6, <2>7 DEF TypeOK
<1>5. CASE Unauthorized
  <2>1. /\ tok' \in Tokens /\ tok'.key <= issued /\ tok'.access \in {0, tok'.key}
    BY <1>5, DropTyped DEF Unauthorized, TypeOK
  <2>2. QED
    BY <1>5, <2>1 DEF TypeOK, Unauthorized, site, loop
<1>6. CASE Forbidden
  <2>1. /\ tok' \in Tokens /\ tok'.key <= issued /\ tok'.access \in {0, tok'.key}
    BY <1>6, DropTyped DEF Forbidden, TypeOK
  <2>2. forbidden' \in 0..2
    BY <1>6 DEF Forbidden, Saturated, TypeOK
  <2>3. QED
    BY <1>6, <2>1, <2>2 DEF TypeOK, Forbidden, site, loop
<1>7. CASE Served
  <2>1. failClass' = FALSE /\ dirty' = TRUE /\ forbidden' = 0
    BY <1>7, Zenon DEF Served
  <2>2. UNCHANGED <<present, enabled, apiKey, tok, doc, login, issued, valid,
                    fresh, failures, backoff, flight, streak, restarts>>
    BY <1>7 DEF Served, site, loop
  <2>3. failClass' \in BOOLEAN /\ dirty' \in BOOLEAN
    BY <2>1, Zenon
  <2>4. forbidden' \in 0..2
    BY <2>1
  <2>5. QED
    BY <2>2, <2>3, <2>4 DEF TypeOK
<1>8. CASE KeepaliveStart
  <2>1. flight' \in Flights
    BY <1>8, ExchangeTyped DEF KeepaliveStart, TypeOK, Flights
  <2>2. QED
    BY <1>8, <2>1 DEF TypeOK, KeepaliveStart, account, site
<1>9. CASE RequestRefresh
  <2>1. flight' \in Flights
    BY <1>9, ExchangeTyped DEF RequestRefresh
  <2>2. QED
    BY <1>9, <2>1 DEF TypeOK, RequestRefresh, account, site
<1>10. CASE RefreshSucceeds
  <2>1. /\ issued' \in Access /\ issued <= issued'
        /\ valid' \subseteq 1..issued' /\ fresh' \subseteq 1..issued'
    <3>1. CASE Issue
      BY <3>1, IssueTyped DEF TypeOK, Access
    <3>2. CASE UNCHANGED site
      BY <3>2 DEF site, TypeOK, Access
    <3>3. QED
      BY <1>10, <3>1, <3>2 DEF RefreshSucceeds, Exchanged
  <2>2. PICK n \in Access, r \in {"bundle", "session", "none"} :
          n <= issued' /\ tok' = Token(n, r, n)
    <3>1. CASE Issue /\ tok' = Token(issued', "bundle", issued')
      BY <3>1, <2>1 DEF Access
    <3>2. CASE /\ flight.access \in valid /\ UNCHANGED site
               /\ \E r \in {"session", "none"} :
                     tok' = Token(flight.access, r, flight.access)
      <4>1. flight.access \in 1..issued /\ issued' = issued /\ issued \in Access
        BY <3>2 DEF TypeOK, site
      <4>2. flight.access \in Access /\ flight.access <= issued'
        BY <4>1 DEF Access
      <4>3. QED
        BY <3>2, <4>2
    <3>3. QED
      BY <3>1, <3>2, <1>10 DEF RefreshSucceeds, Exchanged
  <2>3. tok' \in Tokens /\ tok'.key <= issued' /\ tok'.access \in {0, tok'.key}
    BY <2>2, TokenTyped
  <2>4. flight' \in Flights
    BY <1>10, NoFlightTyped DEF RefreshSucceeds
  <2>5. failures' \in 0..(MaxFailures - 1) /\ streak' \in 0..MaxFailures
    BY <1>10 DEF RefreshSucceeds, TypeOK
  <2>6. backoff' \in BOOLEAN
    BY <1>10 DEF RefreshSucceeds, TypeOK
  <2>7. doc'.key <= issued' /\ apiKey' \in 0..issued'
    BY <1>10, <2>1 DEF RefreshSucceeds, TypeOK, Access, Tokens
  <2>8. QED
    BY <1>10, <2>1, <2>3, <2>4, <2>5, <2>6, <2>7 DEF RefreshSucceeds, TypeOK
<1>11. CASE RefreshFails
  <2>1. flight' \in Flights
    BY <1>11, NoFlightTyped DEF RefreshFails
  <2>2. streak' \in 0..MaxFailures /\ failures' \in 0..(MaxFailures - 1)
    <3>1. streak \in 0..MaxFailures /\ failures \in 0..(MaxFailures - 1)
      BY DEF TypeOK
    <3>2. streak' \in 0..MaxFailures
      BY <1>11, <3>1 DEF RefreshFails, Saturated
    <3>3. failures' \in {failures, 0} \/ (~Dead /\ failures' = failures + 1)
      BY <1>11 DEF RefreshFails
    <3>4. QED
      BY <3>1, <3>2, <3>3 DEF Dead
  <2>3. backoff' \in BOOLEAN /\ present' \in BOOLEAN
    BY <1>11 DEF RefreshFails, TypeOK
  <2>4. QED
    BY <1>11, <2>1, <2>2, <2>3 DEF RefreshFails, TypeOK, site
<1>12. CASE BackoffOver
  BY <1>12 DEF TypeOK, BackoffOver, account, site
<1>13. CASE Restart
  <2>1. flight' \in Flights
    BY <1>13, NoFlightTyped DEF Restart
  <2>2. /\ restarts' \in 0..MaxRestarts
        /\ failures' \in 0..(MaxFailures - 1) /\ streak' \in 0..MaxFailures
        /\ forbidden' \in 0..2
    BY <1>13 DEF Restart, TypeOK
  <2>3. apiKey' \in 0..issued
    BY <1>13 DEF Restart, TypeOK, Access, Tokens
  <2>4. QED
    BY <1>13, <2>1, <2>2, <2>3 DEF Restart, TypeOK, site
<1>14. CASE UNCHANGED vars
  BY <1>14 DEF TypeOK, vars, account, site, loop
<1>15. QED
  BY <1>1, <1>2, <1>3, <1>4, <1>5, <1>6, <1>7, <1>8, <1>9, <1>10, <1>11,
     <1>12, <1>13, <1>14 DEF Next

(* Every step keeps a secret in the manager, in the document and behind the  *)
(* exchange in flight.                                                       *)
LEMMA SecretStep == IInv /\ [Next]_vars => (SecretAtHand /\ DocHasSecret /\ FlightHasKey)'
<1> SUFFICES ASSUME IInv, [Next]_vars
             PROVE  (SecretAtHand /\ DocHasSecret /\ FlightHasKey)'
  OBVIOUS
<1> USE DEF IInv, SecretAtHand, DocHasSecret, FlightHasKey
<1>1. CASE \E a \in Issuable : Revoke(a) \/ Age(a)
  BY <1>1 DEF Revoke, Age, account, loop
<1>2. CASE Flush
  BY <1>2 DEF TypeOK, Flush, Persisted, site, loop, Tokens, Access
<1>3. CASE LoginStart \/ LoginFailed
  BY <1>3 DEF LoginStart, LoginFailed, account, site, loop
<1>4. CASE LoginDone
  <2>1. issued' # 0
    BY <1>4, IssueTyped DEF LoginDone
  <2>2. tok' = [access |-> issued', refresh |-> "bundle", key |-> issued']
    BY <1>4 DEF LoginDone, Token
  <2>3. apiKey' # 0
    BY <1>4, <2>1, <2>2 DEF LoginDone, KeyAfter
  <2>4. doc'.key # 0
    BY <1>4, <2>1, <2>2 DEF LoginDone, Persisted
  <2>5. QED
    BY <1>4, <2>2, <2>3, <2>4
<1>5. CASE Unauthorized
  BY <1>5 DEF TypeOK, Unauthorized, Drop, Tokens, site, loop
<1>6. CASE Forbidden
  BY <1>6 DEF TypeOK, Forbidden, Drop, Tokens, site, loop
<1>7. CASE Served
  BY <1>7 DEF Served, site, loop
<1>8. CASE KeepaliveStart
  BY <1>8 DEF TypeOK, KeepaliveStart, Exchange, Flights, account, site
<1>9. CASE RequestRefresh
  BY <1>9 DEF TypeOK, RequestRefresh, Exchange, account, site
<1>10. CASE RefreshSucceeds
  <2>1. tok'.refresh = "bundle" \/ (flight.on /\ ~flight.bundle)
    BY <1>10 DEF RefreshSucceeds, Exchanged, Token
  <2>2. QED
    BY <1>10, <2>1 DEF RefreshSucceeds, NoFlight
<1>11. CASE RefreshFails
  BY <1>11 DEF RefreshFails, NoFlight, site
<1>12. CASE BackoffOver
  BY <1>12 DEF BackoffOver, account, site
<1>13. CASE Restart
  BY <1>13 DEF Restart, NoFlight, site
<1>14. CASE UNCHANGED vars
  BY <1>14 DEF vars, account, site, loop
<1>15. QED
  BY <1>1, <1>2, <1>3, <1>4, <1>5, <1>6, <1>7, <1>8, <1>9, <1>10, <1>11,
     <1>12, <1>13, <1>14 DEF Next

(* The strengthened invariant holds in every behaviour.                      *)
THEOREM CredentialsIInv == Spec => []IInv
<1>1. IInv /\ [Next]_vars => IInv'
  BY TypeStep, SecretStep DEF IInv
<1>2. QED
  BY <1>1, InitIInv, PTL DEF Spec

(* The types of Credentials, for every value of the constants.               *)
THEOREM CredentialsTyped == Spec => []TypeOK
<1>1. IInv => TypeOK
  BY DEF IInv
<1>2. QED
  BY <1>1, CredentialsIInv, PTL

(* Whatever the interleaving of logins, refreshes, refusals, flushes and     *)
(* restarts, an account in the pool keeps an API key or its bundle.          *)
THEOREM SecretKept == Spec => []SecretAtHand
<1>1. IInv => SecretAtHand
  BY DEF IInv
<1>2. QED
  BY <1>1, CredentialsIInv, PTL
=============================================================================
