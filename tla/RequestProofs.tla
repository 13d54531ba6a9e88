----------------------------- MODULE RequestProofs -----------------------------
(* Proofs about handlers of the controller that go over several awaits with what *)
(* they have read before: the token check of the integration API, the dialogs that *)
(* show a secret once, the registration of an agent, an edit of a policy, one of a *)
(* schedule, and the syncs of registry credentials.                          *)
EXTENDS Access, Enrolment, UpdatePolicies, CheckSchedules, Registries, FiniteSetTheorems,
        TLAPS

-----------------------------------------------------------------------------
(* The token check.                                                          *)

TokensTyped ==
  /\ secrets \in [Secret -> {"none", "live", "revoked", "regenerated", "registered"}]
  /\ uses \in [Use -> [pc : {"none", "arrived", "read", "admitted"},
                       secret : Secret \cup {NoSecret}, valid : BOOLEAN, wasLive : BOOLEAN]]

\* A token that is live was live when a request under way arrived: one that is revoked or
\* expired stays so.
ArrivedLive ==
  \A u \in Use : uses[u].pc = "arrived" =>
    /\ uses[u].secret \in Secret /\ secrets[uses[u].secret] # "none"
    /\ secrets[uses[u].secret] = "live" /\ uses[u].secret \notin expired => uses[u].wasLive

ReadLive ==
  \A u \in Use :
    uses[u].pc = "read" /\ uses[u].valid /\ uses[u].secret \notin expired => uses[u].wasLive

CheckIInv == TokensTyped /\ ArrivedLive /\ ReadLive /\ RevokedStaysOut

LEMMA CheckStep == CheckIInv /\ [AccessNext]_accessVars => CheckIInv'
<1> SUFFICES ASSUME CheckIInv, [AccessNext]_accessVars PROVE CheckIInv'
  OBVIOUS
<1> USE DEF CheckIInv, TokensTyped, ArrivedLive, ReadLive, RevokedStaysOut
<1>1. CASE UNCHANGED <<secrets, expired, uses>>
  BY <1>1
<1>2. ASSUME NEW d \in Dialog, NEW s \in Secret,
             NEW state \in {"live", "regenerated", "registered"}, Stores(d, s, state)
      PROVE  CheckIInv'
  <2>1. /\ secrets' = [secrets EXCEPT ![s] = state] /\ secrets[s] = "none"
        /\ UNCHANGED <<expired, uses>>
    BY <1>2 DEF Stores
  <2> QED BY <2>1
<1>3. ASSUME NEW s \in Secret, RevokeApiToken(s) PROVE CheckIInv'
  BY <1>3 DEF RevokeApiToken
<1>4. ASSUME NEW s \in Secret, TokenExpires(s) PROVE CheckIInv'
  BY <1>4 DEF TokenExpires
<1>5. ASSUME NEW u \in Use, NEW s \in Secret, UseToken(u, s) PROVE CheckIInv'
  BY <1>5 DEF UseToken
<1>6. ASSUME NEW u \in Use, ReadCandidateTokens(u) PROVE CheckIInv'
  <2>1. PICK valid \in BOOLEAN : valid = IsCandidate(uses[u].secret)
    BY DEF IsCandidate
  <2>2. valid => secrets[uses[u].secret] = "live"
    BY <2>1 DEF IsCandidate
  <2>3. /\ uses[u].pc = "arrived"
        /\ uses' = [uses EXCEPT ![u].pc = "read", ![u].valid = valid]
        /\ UNCHANGED <<secrets, expired>>
    BY <1>6, <2>1 DEF ReadCandidateTokens
  <2>4. TokensTyped'
    <3>1. PICK use : use = [uses[u] EXCEPT !.pc = "read", !.valid = valid]
      OBVIOUS
    <3>2. use \in [pc : {"none", "arrived", "read", "admitted"},
                   secret : Secret \cup {NoSecret}, valid : BOOLEAN, wasLive : BOOLEAN]
      BY <3>1
    <3>3. uses' = [uses EXCEPT ![u] = use] /\ UNCHANGED secrets
      BY <2>3, <3>1
    <3>4. uses' \in [Use -> [pc : {"none", "arrived", "read", "admitted"},
                            secret : Secret \cup {NoSecret}, valid : BOOLEAN, wasLive : BOOLEAN]]
      BY <3>2, <3>3
    <3> HIDE DEF ArrivedLive, ReadLive, RevokedStaysOut
    <3> QED BY <3>3, <3>4
  <2>5. /\ \A w \in Use : w # u => uses'[w] = uses[w]
        /\ uses'[u].pc = "read" /\ uses'[u].valid = valid
        /\ uses'[u].secret = uses[u].secret /\ uses'[u].wasLive = uses[u].wasLive
    BY <2>3
  <2>6. ReadLive'
    <3>1. valid /\ uses[u].secret \notin expired => uses[u].wasLive
      BY <2>2, <2>3
    <3> QED BY <2>3, <2>5, <3>1
  <2> QED BY <2>3, <2>4, <2>5, <2>6
<1>7. ASSUME NEW u \in Use, CheckToken(u) PROVE CheckIInv'
  <2>1. CASE uses' = [uses EXCEPT ![u] = NoUse]
    BY <1>7, <2>1 DEF CheckToken, NoUse
  <2>2. CASE /\ uses[u].valid /\ uses[u].secret \notin expired
             /\ uses' = [uses EXCEPT ![u].pc = "admitted"]
    BY <1>7, <2>2 DEF CheckToken
  <2> QED BY <1>7, <2>1, <2>2 DEF CheckToken
<1>8. ASSUME NEW u \in Use, UseEnds(u) PROVE CheckIInv'
  BY <1>8 DEF UseEnds, NoUse
<1>9. CASE \/ Login \/ Logout \/ LogoutArrives \/ SessionExpires
           \/ QueryRefused \/ RefusalArrives \/ Reload \/ EscapeRegister
           \/ HandleCreate \/ HandleRegenerate \/ HandleRegister
           \/ \E d \in Dialog : \/ OpenDialog(d) \/ HandleClose(d) \/ LeavePage(d)
                                \/ SecretArrives(d) \/ AskFails(d)
           \/ \E s \in Secret : HandleRevoke(s)
  <2>1. UNCHANGED <<secrets, expired, uses>>
    BY <1>9 DEF Login, Logout, LogoutArrives, SessionExpires, QueryRefused, RefusalArrives,
                Reload, EscapeRegister, HandleCreate, HandleRegenerate, HandleRegister, Asks,
                OpenDialog, HandleClose, LeavePage, SecretArrives, AskFails, HandleRevoke,
                Unmount, tokenVars
  <2> QED BY <1>1, <2>1
<1>10. CASE UNCHANGED accessVars
  BY <1>1, <1>10 DEF accessVars, tokenVars
<1> QED BY <1>2, <1>3, <1>4, <1>5, <1>6, <1>7, <1>8, <1>9, <1>10
        DEF AccessNext, CreateApiToken, RegenerateAgentToken, RegisterNewAgent, Dialog

\* For any number of tokens and requests: nobody is admitted with a token that was revoked
\* or had expired when the request arrived (requireApiToken, DELETE /api/api-tokens/:id).
THEOREM RevokedTokensStayOut == AccessSpec => []RevokedStaysOut
<1>1. AccessInit => CheckIInv
  BY DEF AccessInit, CheckIInv, TokensTyped, ArrivedLive, ReadLive, RevokedStaysOut, NoUse
<1>2. CheckIInv => RevokedStaysOut
  BY DEF CheckIInv
<1> QED BY <1>1, <1>2, CheckStep, PTL DEF AccessSpec

-----------------------------------------------------------------------------
(* The dialogs that show a secret.                                           *)

\* The answer to a dialog's request is kept for the dialog, which shows nothing meanwhile.
AskFine(d) ==
  /\ asks[d].secret # NoSecret <=> asks[d].pc = "stored"
  /\ asks[d].pc # "none" => dialogs[d].secret = NoSecret
  /\ asks[d].secret # NoSecret /\ ~asks[d].heard => asks[d].secret \in lost

\* A secret is in one place.
OnePlace(s) ==
  \A d, e \in Dialog :
    /\ asks[d].secret = s => dialogs[e].secret # s
    /\ asks[d].secret = s /\ asks[e].secret = s => d = e
    /\ dialogs[d].secret = s /\ dialogs[e].secret = s => d = e

\* It has been shown if its dialog was open, and not before.
ShownOnce(s) ==
  \A d \in Dialog :
    /\ asks[d].secret = s => displays[s] = 0 /\ secrets[s] # "none"
    /\ dialogs[d].secret = s => secrets[s] # "none"
    /\ dialogs[d].secret = s /\ dialogs[d].open => displays[s] # 0
    /\ dialogs[d].secret = s /\ ~dialogs[d].open /\ d # "register" => displays[s] = 0
    /\ d = "register" /\ s \in {asks[d].secret, dialogs[d].secret} => secrets[s] = "registered"

SecretFine(s) ==
  /\ OnePlace(s)
  /\ ShownOnce(s)
  /\ secrets[s] = "none" => displays[s] = 0
  /\ s \in revoking => secrets[s] \in {"live", "revoked"}
  /\ displays[s] > 1 => secrets[s] = "registered"
  /\ secrets[s] # "none" /\ displays[s] = 0 /\ s \notin lost =>
       \E d \in Dialog : asks[d].secret = s \/ dialogs[d].secret = s

ShownIInv == AccessTypeOK /\ (\A d \in Dialog : AskFine(d)) /\ \A s \in Secret : SecretFine(s)

LEMMA DisplayTyped ==
  ASSUME displays \in [Secret -> 0..2], NEW s \in Secret \cup {NoSecret}, Display(s)
  PROVE  /\ displays' \in [Secret -> 0..2]
         /\ \A r \in Secret : r # s => displays'[r] = displays[r]
         /\ s \in Secret => displays'[s] > 0 /\ displays'[s] >= displays[s]
                              /\ (displays[s] = 0 => displays'[s] = 1)
BY AccessAssumption DEF Display

LEMMA DialogsTyped ==
  ASSUME AccessTypeOK, [AccessNext]_accessVars
  PROVE  AccessTypeOK'
<1> DEFINE Ty == /\ dialogs' \in [Dialog -> [open : BOOLEAN, secret : Secret \cup {NoSecret}]]
                 /\ asks' \in [Dialog -> [pc : {"none", "sent", "stored"},
                                         secret : Secret \cup {NoSecret}, heard : BOOLEAN]]
                 /\ lost' \in SUBSET Secret
<1>a. /\ secrets \in [Secret -> {"none", "live", "revoked", "regenerated", "registered"}]
      /\ expired \in SUBSET Secret /\ revoking \in SUBSET Secret /\ lost \in SUBSET Secret
      /\ uses \in [Use -> [pc : {"none", "arrived", "read", "admitted"},
                           secret : Secret \cup {NoSecret}, valid : BOOLEAN, wasLive : BOOLEAN]]
      /\ dialogs \in [Dialog -> [open : BOOLEAN, secret : Secret \cup {NoSecret}]]
      /\ asks \in [Dialog -> [pc : {"none", "sent", "stored"},
                              secret : Secret \cup {NoSecret}, heard : BOOLEAN]]
      /\ displays \in [Secret -> 0..2]
      /\ cookie \in BOOLEAN /\ signedIn \in BOOLEAN /\ refused \in BOOLEAN /\ leaving \in BOOLEAN
  BY DEF AccessTypeOK
<1>d. dialogs \in [Dialog -> [open : BOOLEAN, secret : Secret \cup {NoSecret}]]
  BY <1>a
<1>k. asks \in [Dialog -> [pc : {"none", "sent", "stored"},
                         secret : Secret \cup {NoSecret}, heard : BOOLEAN]]
  BY <1>a
<1>u. uses \in [Use -> [pc : {"none", "arrived", "read", "admitted"},
                      secret : Secret \cup {NoSecret}, valid : BOOLEAN, wasLive : BOOLEAN]]
  BY <1>a
<1>b. DialogClosed \in [open : BOOLEAN, secret : Secret \cup {NoSecret}]
      /\ NotAsked \in [pc : {"none", "sent", "stored"}, secret : Secret \cup {NoSecret}, heard : BOOLEAN]
      /\ {"create", "regenerate", "register"} \subseteq Dialog
  BY DEF DialogClosed, NotAsked, Dialog
<1>c. ASSUME secrets' \in [Secret -> {"none", "live", "revoked", "regenerated", "registered"}],
             UNCHANGED <<expired, uses, revoking>>, Ty, displays' \in [Secret -> 0..2],
             cookie' \in BOOLEAN, signedIn' \in BOOLEAN, refused' \in BOOLEAN, leaving' \in BOOLEAN
      PROVE  AccessTypeOK'
  BY <1>a, <1>c DEF AccessTypeOK
<1>1. ASSUME NEW ds \in SUBSET Dialog, Unmount(ds) PROVE Ty /\ UNCHANGED <<tokenVars, displays>>
  <2>1. dialogs' \in [Dialog -> [open : BOOLEAN, secret : Secret \cup {NoSecret}]]
    BY <1>1, <1>a, <1>b DEF Unmount
  <2>2. asks' \in [Dialog -> [pc : {"none", "sent", "stored"},
                             secret : Secret \cup {NoSecret}, heard : BOOLEAN]]
    <3>1. \A d \in Dialog : [asks[d] EXCEPT !.heard = FALSE] \in
            [pc : {"none", "sent", "stored"}, secret : Secret \cup {NoSecret}, heard : BOOLEAN]
      BY <1>k
    <3>2. asks' = [d \in Dialog |-> IF d \in ds /\ asks[d].pc # "none"
                                   THEN [asks[d] EXCEPT !.heard = FALSE] ELSE asks[d]]
      BY <1>1 DEF Unmount
    <3> QED BY <1>k, <3>1, <3>2
  <2>3. lost' \in SUBSET Secret
    BY <1>1, <1>a DEF Unmount
  <2> QED BY <1>1, <2>1, <2>2, <2>3 DEF Unmount
<1>2. CASE Logout \/ Reload \/ RefusalArrives \/ \E d \in Dialog : LeavePage(d)
  <2>1. (\E ds \in SUBSET Dialog : Unmount(ds)) \/ UNCHANGED <<tokenVars, dialogVars>>
    BY <1>2 DEF Logout, Reload, RefusalArrives, LeavePage
  <2>2. Ty /\ UNCHANGED <<tokenVars, displays>>
    BY <1>1, <1>a, <2>1 DEF dialogVars
  <2>3. cookie' \in BOOLEAN /\ signedIn' \in BOOLEAN /\ refused' \in BOOLEAN /\ leaving' \in BOOLEAN
    BY <1>2, <1>a DEF Logout, Reload, RefusalArrives, LeavePage, sessionVars
  <2> QED BY <1>a, <1>c, <2>2, <2>3 DEF tokenVars
<1>3. CASE Login \/ LogoutArrives \/ SessionExpires \/ QueryRefused
  BY <1>3, <1>a, <1>c DEF Login, LogoutArrives, SessionExpires, QueryRefused, tokenVars, dialogVars
<1>4. ASSUME NEW d \in Dialog, OpenDialog(d) PROVE AccessTypeOK'
  <2>1. dialogs[d].secret \in Secret \cup {NoSecret}
    BY <1>a
  <2>2. displays' \in [Secret -> 0..2]
    BY <1>4, <1>a, <2>1, DisplayTyped DEF OpenDialog
  <2>3. dialogs' \in [Dialog -> [open : BOOLEAN, secret : Secret \cup {NoSecret}]]
    <3>1. dialogs' = [dialogs EXCEPT ![d] = [dialogs[d] EXCEPT !.open = TRUE]]
      BY <1>4 DEF OpenDialog
    <3> QED BY <1>d, <3>1
  <2>4. UNCHANGED <<tokenVars, asks, lost, sessionVars>>
    BY <1>4 DEF OpenDialog
  <2> QED BY <1>a, <1>c, <2>2, <2>3, <2>4 DEF tokenVars, sessionVars
<1>5. ASSUME NEW d \in Dialog, HandleClose(d) PROVE AccessTypeOK'
  BY <1>5, <1>a, <1>b, <1>c DEF HandleClose, tokenVars, sessionVars
<1>6. CASE EscapeRegister
  BY <1>6, <1>a, <1>b, <1>c DEF EscapeRegister, tokenVars, sessionVars
<1>7. ASSUME NEW d \in Dialog, Asks(d) PROVE AccessTypeOK'
  <2>1. CASE cookie
    <3>1. asks' = [asks EXCEPT ![d].pc = "sent"]
      BY <1>7, <2>1 DEF Asks
    <3>2. asks' \in [Dialog -> [pc : {"none", "sent", "stored"},
                               secret : Secret \cup {NoSecret}, heard : BOOLEAN]]
      BY <1>a, <3>1
    <3> QED BY <1>7, <1>a, <1>c, <2>1, <3>2 DEF Asks, tokenVars
  <2>2. CASE ~cookie
    BY <1>7, <1>a, <1>c, <2>2 DEF Asks, tokenVars
  <2> QED BY <2>1, <2>2
<1>8. ASSUME NEW d \in Dialog, NEW s \in Secret,
             NEW state \in {"live", "regenerated", "registered"}, Stores(d, s, state)
      PROVE  AccessTypeOK'
  <2>1. secrets' \in [Secret -> {"none", "live", "revoked", "regenerated", "registered"}]
    BY <1>8, <1>a DEF Stores
  <2>2. PICK ask : ask = [asks[d] EXCEPT !.pc = "stored", !.secret = s]
    OBVIOUS
  <2>3. ask \in [pc : {"none", "sent", "stored"}, secret : Secret \cup {NoSecret}, heard : BOOLEAN]
    BY <1>k, <2>2
  <2>4. asks' = [asks EXCEPT ![d] = ask]
    BY <1>8, <2>2 DEF Stores
  <2>5. asks' \in [Dialog -> [pc : {"none", "sent", "stored"},
                             secret : Secret \cup {NoSecret}, heard : BOOLEAN]]
    BY <1>k, <2>3, <2>4
  <2>6. lost' \in SUBSET Secret /\ UNCHANGED <<expired, uses, revoking, dialogs, displays, sessionVars>>
    BY <1>8, <1>a DEF Stores
  <2> QED BY <1>a, <1>c, <2>1, <2>5, <2>6 DEF sessionVars
<1>9. ASSUME NEW d \in Dialog, SecretArrives(d) PROVE AccessTypeOK'
  <2>1. asks[d].secret \in Secret \cup {NoSecret}
    BY <1>a
  <2>2. displays' \in [Secret -> 0..2]
    BY <1>9, <1>a, <2>1, DisplayTyped DEF SecretArrives
  <2> QED BY <1>9, <1>a, <1>b, <1>c, <2>2 DEF SecretArrives, tokenVars, sessionVars
<1>10. ASSUME NEW d \in Dialog, AskFails(d) PROVE AccessTypeOK'
  BY <1>10, <1>a, <1>b, <1>c DEF AskFails, tokenVars, sessionVars
<1>11. ASSUME NEW s \in Secret, HandleRevoke(s) \/ RevokeApiToken(s) \/ TokenExpires(s)
       PROVE  AccessTypeOK'
  BY <1>11, <1>a DEF AccessTypeOK, HandleRevoke, RevokeApiToken, TokenExpires, dialogVars, sessionVars
<1>12. ASSUME NEW u \in Use, NEW s \in Secret, UseToken(u, s) PROVE AccessTypeOK'
  <2>1. PICK was \in BOOLEAN : was = (secrets[s] = "live" /\ s \notin expired)
    OBVIOUS
  <2>2. uses' = [uses EXCEPT ![u] = [pc |-> "arrived", secret |-> s, valid |-> FALSE, wasLive |-> was]]
    BY <1>12, <2>1 DEF UseToken
  <2>3. uses' \in [Use -> [pc : {"none", "arrived", "read", "admitted"},
                           secret : Secret \cup {NoSecret}, valid : BOOLEAN, wasLive : BOOLEAN]]
    BY <1>a, <2>2
  <2> QED BY <1>12, <1>a, <2>3 DEF AccessTypeOK, UseToken, dialogVars, sessionVars
<1>13. ASSUME NEW u \in Use, ReadCandidateTokens(u) \/ CheckToken(u) \/ UseEnds(u) PROVE AccessTypeOK'
  <2>1. IsCandidate(uses[u].secret) \in BOOLEAN /\ NoUse \in [pc : {"none", "arrived", "read", "admitted"},
                           secret : Secret \cup {NoSecret}, valid : BOOLEAN, wasLive : BOOLEAN]
    BY DEF IsCandidate, NoUse
  <2>2. uses' \in [Use -> [pc : {"none", "arrived", "read", "admitted"},
                           secret : Secret \cup {NoSecret}, valid : BOOLEAN, wasLive : BOOLEAN]]
    <3>1. CASE ReadCandidateTokens(u)
      <4>1. PICK valid \in BOOLEAN : valid = IsCandidate(uses[u].secret)
        BY <2>1
      <4>2. uses' = [uses EXCEPT ![u].pc = "read", ![u].valid = valid]
        BY <3>1, <4>1 DEF ReadCandidateTokens
      <4>3. PICK use : use = [uses[u] EXCEPT !.pc = "read", !.valid = valid]
        OBVIOUS
      <4>4. use \in [pc : {"none", "arrived", "read", "admitted"},
                     secret : Secret \cup {NoSecret}, valid : BOOLEAN, wasLive : BOOLEAN]
        BY <1>u, <4>3
      <4>5. uses' = [uses EXCEPT ![u] = use]
        BY <4>2, <4>3
      <4> QED BY <1>u, <4>4, <4>5
    <3>2. CASE CheckToken(u)
      <4>1. uses' = [uses EXCEPT ![u] = NoUse] \/ uses' = [uses EXCEPT ![u].pc = "admitted"]
        BY <3>2 DEF CheckToken
      <4>2. CASE uses' = [uses EXCEPT ![u] = NoUse]
        BY <1>a, <2>1, <4>2
      <4>3. CASE uses' = [uses EXCEPT ![u].pc = "admitted"]
        BY <1>a, <4>3
      <4> QED BY <4>1, <4>2, <4>3
    <3>3. CASE UseEnds(u)
      BY <1>a, <2>1, <3>3 DEF UseEnds
    <3> QED BY <1>13, <3>1, <3>2, <3>3
  <2> QED BY <1>13, <1>a, <2>2
        DEF AccessTypeOK, ReadCandidateTokens, CheckToken, UseEnds, dialogVars, sessionVars
<1>14. CASE UNCHANGED accessVars
  BY <1>14, <1>a DEF AccessTypeOK, accessVars, tokenVars, dialogVars, sessionVars
<1> HIDE DEF Ty
<1> QED BY <1>2, <1>3, <1>4, <1>5, <1>6, <1>7, <1>8, <1>9, <1>10, <1>11, <1>12, <1>13, <1>14, <1>b
        DEF AccessNext, HandleCreate, HandleRegenerate, HandleRegister, CreateApiToken,
            RegenerateAgentToken, RegisterNewAgent

\* A page that goes takes its dialogs and leaves the answers under way with nobody.
LEMMA UnmountShown ==
  ASSUME ShownIInv, NEW ds \in SUBSET Dialog, Unmount(ds)
  PROVE  (\A d \in Dialog : AskFine(d))' /\ (\A s \in Secret : SecretFine(s))'
<1>a. /\ \A d \in Dialog : AskFine(d)
      /\ \A s \in Secret : SecretFine(s)
      /\ dialogs \in [Dialog -> [open : BOOLEAN, secret : Secret \cup {NoSecret}]]
      /\ asks \in [Dialog -> [pc : {"none", "sent", "stored"},
                              secret : Secret \cup {NoSecret}, heard : BOOLEAN]]
      /\ UNCHANGED <<secrets, revoking, displays>>
  BY DEF ShownIInv, AccessTypeOK, Unmount, tokenVars
<1>1. \A d \in Dialog :
        /\ d \in ds => dialogs'[d].secret = NoSecret /\ ~dialogs'[d].open
        /\ d \notin ds => dialogs'[d] = dialogs[d]
        /\ asks'[d].secret = asks[d].secret /\ asks'[d].pc = asks[d].pc
        /\ d \notin ds => asks'[d] = asks[d]
  BY <1>a DEF Unmount, DialogClosed
<1>2. /\ lost \subseteq lost'
      /\ \A d \in ds : /\ asks[d].secret # NoSecret => asks[d].secret \in lost'
                       /\ ~dialogs[d].open /\ dialogs[d].secret # NoSecret =>
                            dialogs[d].secret \in lost'
  BY DEF Unmount
<1>3. ASSUME NEW d \in Dialog PROVE AskFine(d)'
  BY <1>a, <1>1, <1>2 DEF AskFine
<1>4. ASSUME NEW s \in Secret PROVE SecretFine(s)'
  <2>a. SecretFine(s) /\ s # NoSecret
    BY <1>a, AccessAssumption
  <2>b. \A d \in Dialog : /\ asks'[d].secret = s <=> asks[d].secret = s
                          /\ dialogs'[d].secret = s => dialogs'[d] = dialogs[d]
    BY <1>1, <2>a
  <2>1. OnePlace(s)'
    BY <2>a, <2>b DEF SecretFine, OnePlace
  <2>2. ShownOnce(s)'
    BY <1>a, <2>a, <2>b DEF SecretFine, ShownOnce
  <2>3. ASSUME secrets[s] # "none", displays[s] = 0, s \notin lost'
        PROVE  \E d \in Dialog : asks'[d].secret = s \/ dialogs'[d].secret = s
    <3>1. PICK d \in Dialog : asks[d].secret = s \/ dialogs[d].secret = s
      BY <1>2, <2>3, <2>a DEF SecretFine
    <3>2. ~(d \in ds /\ dialogs[d].secret = s)
      BY <1>2, <2>3, <2>a DEF SecretFine, ShownOnce
    <3> QED BY <1>1, <2>b, <3>1, <3>2
  <2> QED BY <1>a, <2>a, <2>1, <2>2, <2>3 DEF SecretFine
<1> QED BY <1>3, <1>4

\* An API token is revoked, whatever the dialogs show.
LEMMA RevokesShown ==
  ASSUME ShownIInv, UNCHANGED <<dialogs, asks, displays, lost>>,
         \/ UNCHANGED <<secrets, revoking>>
         \/ \E r \in Secret : HandleRevoke(r) \/ RevokeApiToken(r)
  PROVE  (\A d \in Dialog : AskFine(d))' /\ (\A s \in Secret : SecretFine(s))'
<1>a. /\ \A d \in Dialog : AskFine(d)
      /\ \A s \in Secret : SecretFine(s)
      /\ secrets \in [Secret -> {"none", "live", "revoked", "regenerated", "registered"}]
      /\ revoking \in SUBSET Secret
  BY DEF ShownIInv, AccessTypeOK
<1>1. ASSUME NEW d \in Dialog PROVE AskFine(d)'
  BY <1>a DEF AskFine
<1>2. ASSUME NEW s \in Secret PROVE SecretFine(s)'
  <2>1. CASE UNCHANGED <<secrets, revoking>>
    BY <1>a, <2>1 DEF SecretFine, OnePlace, ShownOnce
  <2>2. ASSUME NEW r \in Secret, HandleRevoke(r) PROVE SecretFine(s)'
    BY <1>a, <2>2 DEF HandleRevoke, SecretFine, OnePlace, ShownOnce
  <2>3. ASSUME NEW r \in Secret, RevokeApiToken(r) PROVE SecretFine(s)'
    <3>1. /\ r = s => secrets[s] \in {"live", "revoked"} /\ secrets'[s] = "revoked"
          /\ r # s => secrets'[s] = secrets[s]
          /\ s \in revoking' => s \in revoking /\ r # s
      BY <1>a, <2>3 DEF RevokeApiToken, SecretFine
    <3> QED BY <1>a, <3>1 DEF SecretFine, OnePlace, ShownOnce
  <2> QED BY <2>1, <2>2, <2>3
<1> QED BY <1>1, <1>2

\* A dialog that is opened shows what it has: an answer that came before.
LEMMA OpenShown ==
  ASSUME ShownIInv, NEW d \in Dialog, OpenDialog(d)
  PROVE  (\A e \in Dialog : AskFine(e))' /\ (\A s \in Secret : SecretFine(s))'
<1>a. /\ \A e \in Dialog : AskFine(e)
      /\ \A s \in Secret : SecretFine(s)
      /\ dialogs \in [Dialog -> [open : BOOLEAN, secret : Secret \cup {NoSecret}]]
      /\ displays \in [Secret -> 0..2]
      /\ UNCHANGED <<secrets, revoking, asks, lost>>
  BY DEF ShownIInv, AccessTypeOK, OpenDialog, tokenVars
<1>1. \A e \in Dialog : /\ dialogs'[e].secret = dialogs[e].secret
                        /\ ~dialogs[e].open
                        /\ dialogs'[e].open <=> e = d
  BY <1>a DEF OpenDialog
<1>2. /\ displays' \in [Secret -> 0..2]
      /\ \A r \in Secret : r # dialogs[d].secret => displays'[r] = displays[r]
      /\ dialogs[d].secret \in Secret =>
           /\ displays'[dialogs[d].secret] > 0
           /\ displays[dialogs[d].secret] = 0 => displays'[dialogs[d].secret] = 1
  <2>1. dialogs[d].secret \in Secret \cup {NoSecret} /\ Display(dialogs[d].secret)
    BY <1>a DEF OpenDialog
  <2> QED BY <1>a, <2>1, DisplayTyped
<1>3. ASSUME NEW e \in Dialog PROVE AskFine(e)'
  BY <1>a, <1>1 DEF AskFine
<1>4. ASSUME NEW s \in Secret PROVE SecretFine(s)'
  <2>a. SecretFine(s)
    BY <1>a
  <2>1. CASE dialogs[d].secret = s
    <3>1. \A e \in Dialog : asks[e].secret # s /\ (e # d => dialogs[e].secret # s)
      BY <2>a, <2>1 DEF SecretFine, OnePlace
    <3>2. secrets[s] # "none" /\ displays'[s] > 0 /\ displays'[s] # 0
      BY <1>a, <1>2, <2>a, <2>1 DEF SecretFine, ShownOnce
    <3>3. displays'[s] > 1 => secrets[s] = "registered"
      <4>1. CASE d = "register"
        BY <2>a, <2>1, <4>1 DEF SecretFine, ShownOnce
      <4>2. CASE d # "register"
        <5>1. displays[s] = 0
          BY <1>1, <2>a, <2>1, <4>2 DEF SecretFine, ShownOnce
        <5> QED BY <1>2, <2>1, <5>1
      <4> QED BY <4>1, <4>2
    <3>4. OnePlace(s)'
      BY <1>a, <1>1, <2>a DEF SecretFine, OnePlace
    <3>5. ShownOnce(s)'
      BY <1>a, <1>1, <2>a, <2>1, <3>1, <3>2 DEF SecretFine, ShownOnce
    <3> QED BY <1>a, <2>a, <3>2, <3>3, <3>4, <3>5 DEF SecretFine
  <2>2. CASE dialogs[d].secret # s
    <3>1. displays'[s] = displays[s]
      BY <1>2, <2>2
    <3>2. OnePlace(s)' /\ ShownOnce(s)'
      BY <1>a, <1>1, <2>a, <2>2, <3>1 DEF SecretFine, OnePlace, ShownOnce
    <3> QED BY <1>a, <1>1, <2>a, <3>1, <3>2 DEF SecretFine
  <2> QED BY <2>1, <2>2
<1> QED BY <1>3, <1>4

\* A dialog that is closed has shown its secret already, whether it keeps it or not.
LEMMA CloseShown ==
  ASSUME ShownIInv, (\E d \in Dialog : HandleClose(d)) \/ EscapeRegister
  PROVE  (\A e \in Dialog : AskFine(e))' /\ (\A s \in Secret : SecretFine(s))'
<1>a. /\ \A e \in Dialog : AskFine(e)
      /\ \A s \in Secret : SecretFine(s)
      /\ dialogs \in [Dialog -> [open : BOOLEAN, secret : Secret \cup {NoSecret}]]
      /\ "register" \in Dialog
      /\ UNCHANGED <<secrets, revoking, asks, lost, displays>>
  BY DEF ShownIInv, AccessTypeOK, HandleClose, EscapeRegister, tokenVars, Dialog
<1>1. PICK d \in Dialog : /\ dialogs[d].open /\ ~dialogs'[d].open
                          /\ \/ dialogs'[d].secret = NoSecret
                             \/ d = "register" /\ dialogs'[d].secret = dialogs[d].secret
                          /\ \A e \in Dialog : e # d => dialogs'[e] = dialogs[e]
  <2>1. ASSUME NEW d \in Dialog, HandleClose(d)
        PROVE  /\ dialogs[d].open /\ ~dialogs'[d].open
               /\ dialogs'[d].secret = NoSecret
               /\ \A e \in Dialog : e # d => dialogs'[e] = dialogs[e]
    BY <1>a, <2>1 DEF HandleClose, DialogClosed
  <2>2. CASE EscapeRegister
    <3>1. /\ dialogs["register"].open /\ ~dialogs'["register"].open
          /\ dialogs'["register"].secret = dialogs["register"].secret
          /\ \A e \in Dialog : e # "register" => dialogs'[e] = dialogs[e]
      BY <1>a, <2>2 DEF EscapeRegister
    <3> QED BY <1>a, <3>1
  <2> QED BY <2>1, <2>2
<1>2. ASSUME NEW e \in Dialog PROVE AskFine(e)'
  BY <1>a, <1>1 DEF AskFine
<1>3. ASSUME NEW s \in Secret PROVE SecretFine(s)'
  <2>a. SecretFine(s) /\ s # NoSecret
    BY <1>a, AccessAssumption
  <2>1. OnePlace(s)' /\ ShownOnce(s)'
    BY <1>a, <1>1, <2>a DEF SecretFine, OnePlace, ShownOnce
  <2>2. ASSUME NEW e \in Dialog, dialogs[e].secret = s, displays[s] = 0
        PROVE  dialogs'[e].secret = s
    BY <1>1, <2>a, <2>2 DEF SecretFine, ShownOnce
  <2> QED BY <1>a, <2>a, <2>1, <2>2 DEF SecretFine
<1> QED BY <1>2, <1>3

\* The answer to a request is kept where the request was, and nowhere else.
LEMMA AsksShown ==
  ASSUME ShownIInv, NEW d \in Dialog,
         Asks(d) \/ \E s \in Secret, state \in {"live", "regenerated", "registered"} :
                       Stores(d, s, state) /\ (d = "register" => state = "registered")
  PROVE  (\A e \in Dialog : AskFine(e))' /\ (\A s \in Secret : SecretFine(s))'
<1>a. /\ \A e \in Dialog : AskFine(e)
      /\ \A s \in Secret : SecretFine(s)
      /\ secrets \in [Secret -> {"none", "live", "revoked", "regenerated", "registered"}]
      /\ asks \in [Dialog -> [pc : {"none", "sent", "stored"},
                              secret : Secret \cup {NoSecret}, heard : BOOLEAN]]
      /\ UNCHANGED <<revoking, dialogs, displays>>
  BY DEF ShownIInv, AccessTypeOK, Asks, Stores, tokenVars
<1>1. CASE Asks(d)
  <2>1. /\ \A e \in Dialog : asks'[e].secret = asks[e].secret
        /\ \A e \in Dialog : e # d => asks'[e] = asks[e]
        /\ asks[d].pc = "none" /\ asks[d].secret = NoSecret /\ asks[d].heard
        /\ asks'[d].pc \in {"none", "sent"} /\ dialogs[d].secret = NoSecret
        /\ UNCHANGED <<secrets, lost>>
    <3>1. CASE cookie
      BY <1>a, <1>1, <3>1 DEF Asks, NotAsked, tokenVars
    <3>2. CASE ~cookie
      BY <1>a, <1>1, <3>2 DEF Asks, NotAsked, tokenVars
    <3> QED BY <3>1, <3>2
  <2>2. ASSUME NEW e \in Dialog PROVE AskFine(e)'
    BY <1>a, <2>1 DEF AskFine
  <2>3. ASSUME NEW s \in Secret PROVE SecretFine(s)'
    BY <1>a, <2>1 DEF SecretFine, OnePlace, ShownOnce
  <2> QED BY <2>2, <2>3
<1>2. ASSUME NEW r \in Secret, NEW state \in {"live", "regenerated", "registered"},
             Stores(d, r, state), d = "register" => state = "registered"
      PROVE  (\A e \in Dialog : AskFine(e))' /\ (\A s \in Secret : SecretFine(s))'
  <2>1. /\ asks'[d].pc = "stored" /\ asks'[d].secret = r /\ asks'[d].heard = asks[d].heard
        /\ asks[d].pc = "sent" /\ asks[d].secret = NoSecret /\ dialogs[d].secret = NoSecret
        /\ \A e \in Dialog : e # d => asks'[e] = asks[e]
    <3>1. asks[d].pc = "sent" /\ asks' = [asks EXCEPT ![d].pc = "stored", ![d].secret = r]
      BY <1>2 DEF Stores
    <3> QED BY <1>a, <3>1 DEF AskFine
  <2>2. /\ secrets[r] = "none" /\ secrets'[r] = state /\ state # "none"
        /\ \A s \in Secret : s # r => secrets'[s] = secrets[s]
        /\ lost \subseteq lost' /\ (~asks[d].heard => r \in lost')
        /\ \A s \in lost' : s # r => s \in lost
    BY <1>a, <1>2 DEF Stores
  <2>3. /\ displays[r] = 0 /\ r \notin revoking
        /\ \A e \in Dialog : asks[e].secret # r /\ dialogs[e].secret # r
    BY <1>a, <2>2 DEF SecretFine, ShownOnce
  <2>4. ASSUME NEW e \in Dialog PROVE AskFine(e)'
    BY <1>a, <2>1, <2>2, AccessAssumption DEF AskFine
  <2>5. ASSUME NEW s \in Secret PROVE SecretFine(s)'
    <3>a. s # NoSecret /\ SecretFine(s)
      BY <1>a, AccessAssumption
    <3>1. CASE s = r
      <4>1. OnePlace(s)' /\ ShownOnce(s)'
        BY <1>2, <1>a, <2>1, <2>2, <2>3, <3>1, <3>a DEF OnePlace, ShownOnce
      <4> QED BY <1>a, <2>1, <2>2, <2>3, <3>1, <4>1 DEF SecretFine
    <3>2. CASE s # r
      <4>1. \A e \in Dialog : asks'[e].secret = s <=> asks[e].secret = s
        BY <2>1, <3>2, <3>a
      <4>2. OnePlace(s)'
        BY <1>a, <3>a, <4>1 DEF SecretFine, OnePlace
      <4>3. ShownOnce(s)'
        <5>1. ASSUME NEW e \in Dialog
              PROVE  e = "register" /\ s \in {asks'[e].secret, dialogs'[e].secret} =>
                       secrets'[s] = "registered"
          BY <1>a, <2>2, <3>2, <3>a, <4>1 DEF SecretFine, ShownOnce
        <5> QED BY <1>a, <2>2, <3>2, <3>a, <4>1, <5>1 DEF SecretFine, ShownOnce
      <4>4. secrets[s] # "none" /\ displays[s] = 0 /\ s \notin lost' =>
              \E e \in Dialog : asks'[e].secret = s \/ dialogs'[e].secret = s
        BY <1>a, <2>2, <3>a, <4>1 DEF SecretFine
      <4> QED BY <1>a, <2>2, <3>2, <3>a, <4>2, <4>3, <4>4 DEF SecretFine
    <3> QED BY <3>1, <3>2
  <2> QED BY <2>4, <2>5
<1> QED BY <1>1, <1>2

\* What is answered is shown by the open dialog, kept for the closed one, or lost.
LEMMA AnswersShown ==
  ASSUME ShownIInv, NEW d \in Dialog, SecretArrives(d) \/ AskFails(d)
  PROVE  (\A e \in Dialog : AskFine(e))' /\ (\A s \in Secret : SecretFine(s))'
<1>a. /\ \A e \in Dialog : AskFine(e)
      /\ \A s \in Secret : SecretFine(s)
      /\ dialogs \in [Dialog -> [open : BOOLEAN, secret : Secret \cup {NoSecret}]]
      /\ asks \in [Dialog -> [pc : {"none", "sent", "stored"},
                              secret : Secret \cup {NoSecret}, heard : BOOLEAN]]
      /\ displays \in [Secret -> 0..2]
      /\ UNCHANGED <<secrets, revoking>>
  BY DEF ShownIInv, AccessTypeOK, SecretArrives, AskFails, tokenVars
<1>1. /\ asks'[d].pc = "none" /\ asks'[d].secret = NoSecret /\ asks'[d].heard
      /\ \A e \in Dialog : e # d => asks'[e] = asks[e]
      /\ dialogs[d].secret = NoSecret /\ asks[d].pc # "none"
  BY <1>a DEF SecretArrives, AskFails, NotAsked, AskFine
<1>2. CASE AskFails(d) \/ (SecretArrives(d) /\ ~asks[d].heard)
  <2>1. UNCHANGED <<dialogs, displays>> /\ lost \subseteq lost'
        /\ (asks[d].secret # NoSecret => asks[d].secret \in lost')
    <3>1. CASE AskFails(d)
      BY <3>1 DEF AskFails
    <3>2. CASE SecretArrives(d) /\ ~asks[d].heard
      BY <1>a, <3>2 DEF SecretArrives, AskFine
    <3> QED BY <1>2, <3>1, <3>2
  <2>2. ASSUME NEW e \in Dialog PROVE AskFine(e)'
    BY <1>a, <1>1, <2>1 DEF AskFine
  <2>3. ASSUME NEW s \in Secret PROVE SecretFine(s)'
    <3>a. SecretFine(s) /\ s # NoSecret
      BY <1>a, AccessAssumption
    <3>1. \A e \in Dialog : asks'[e].secret = s => asks[e].secret = s
      BY <1>1, <3>a
    <3>2. OnePlace(s)' /\ ShownOnce(s)'
      BY <1>a, <2>1, <3>1, <3>a DEF SecretFine, OnePlace, ShownOnce
    <3>3. ASSUME NEW e \in Dialog, asks[e].secret = s, s \notin lost' PROVE asks'[e].secret = s
      BY <1>1, <2>1, <3>a, <3>3
    <3> QED BY <1>a, <2>1, <3>2, <3>3, <3>a DEF SecretFine
  <2> QED BY <2>2, <2>3
<1>3. CASE SecretArrives(d) /\ asks[d].heard
  <2> DEFINE r == asks[d].secret
  <2>1. r \in Secret /\ r # NoSecret
    BY <1>3, <1>a DEF SecretArrives, AskFine
  <2>2. /\ dialogs'[d].secret = r /\ dialogs'[d].open = dialogs[d].open
        /\ \A e \in Dialog : e # d => dialogs'[e] = dialogs[e]
        /\ lost' = lost
    BY <1>3, <1>a DEF SecretArrives
  <2>3. /\ displays[r] = 0 /\ secrets[r] # "none"
        /\ \A e \in Dialog : dialogs[e].secret # r /\ (e # d => asks[e].secret # r)
        /\ d = "register" => secrets[r] = "registered"
    BY <1>a, <2>1 DEF SecretFine, OnePlace, ShownOnce
  <2>4. /\ displays'[r] = IF dialogs[d].open THEN 1 ELSE 0
        /\ \A s \in Secret : s # r => displays'[s] = displays[s]
    <3>1. CASE dialogs[d].open
      <4>1. Display(r) /\ r \in Secret \cup {NoSecret}
        BY <1>3, <2>1, <3>1 DEF SecretArrives
      <4> HIDE DEF r
      <4> QED BY <1>a, <2>1, <2>3, <3>1, <4>1, DisplayTyped
    <3>2. CASE ~dialogs[d].open
      BY <1>3, <2>3, <3>2 DEF SecretArrives
    <3> QED BY <3>1, <3>2
  <2>a. asks[d].secret = r
    OBVIOUS
  <2> HIDE DEF r
  <2>5. ASSUME NEW e \in Dialog PROVE AskFine(e)'
    BY <1>a, <1>1, <2>2 DEF AskFine
  <2>6. ASSUME NEW s \in Secret PROVE SecretFine(s)'
    <3>a. SecretFine(s) /\ s # NoSecret
      BY <1>a, AccessAssumption
    <3>1. CASE s = r
      <4>1. \A e \in Dialog : asks'[e].secret # s /\ (dialogs'[e].secret = s <=> e = d)
        BY <1>1, <2>2, <2>3, <3>1, <3>a
      <4>2. displays'[s] = (IF dialogs'[d].open THEN 1 ELSE 0) /\ secrets'[s] # "none"
        BY <1>a, <2>2, <2>3, <2>4, <3>1
      <4>3. OnePlace(s)'
        BY <4>1 DEF OnePlace
      <4>4. ShownOnce(s)'
        BY <1>a, <2>3, <3>1, <4>1, <4>2 DEF ShownOnce
      <4> QED BY <1>a, <3>a, <4>1, <4>2, <4>3, <4>4 DEF SecretFine
    <3>2. CASE s # r
      <4>1. \A e \in Dialog : /\ asks'[e].secret = s <=> asks[e].secret = s
                              /\ dialogs'[e].secret = s <=> dialogs[e].secret = s
                              /\ dialogs'[e].open = dialogs[e].open
        BY <1>1, <2>2, <2>a, <3>2, <3>a
      <4>2. displays'[s] = displays[s]
        BY <2>4, <3>2
      <4>3. OnePlace(s)' /\ ShownOnce(s)'
        BY <1>a, <3>a, <4>1, <4>2 DEF SecretFine, OnePlace, ShownOnce
      <4> QED BY <1>a, <2>2, <3>a, <4>1, <4>2, <4>3 DEF SecretFine
    <3> QED BY <3>1, <3>2
  <2> QED BY <2>5, <2>6
<1> QED BY <1>2, <1>3

LEMMA ShownStep == ShownIInv /\ [AccessNext]_accessVars => ShownIInv'
<1> SUFFICES ASSUME ShownIInv, [AccessNext]_accessVars
             PROVE  (\A d \in Dialog : AskFine(d))' /\ (\A s \in Secret : SecretFine(s))'
  BY DialogsTyped DEF ShownIInv
<1>a. {"create", "regenerate", "register"} \subseteq Dialog
  BY DEF Dialog
<1>1. CASE Logout \/ Reload \/ RefusalArrives \/ \E d \in Dialog : LeavePage(d)
  <2>1. (\E ds \in SUBSET Dialog : Unmount(ds))
        \/ UNCHANGED <<dialogs, asks, displays, lost, secrets, revoking>>
    BY <1>1 DEF Logout, Reload, RefusalArrives, LeavePage, tokenVars, dialogVars
  <2> QED BY <2>1, UnmountShown, RevokesShown
<1>2. CASE Login \/ LogoutArrives \/ SessionExpires \/ QueryRefused
  <2>1. UNCHANGED <<dialogs, asks, displays, lost, secrets, revoking>>
    BY <1>2 DEF Login, LogoutArrives, SessionExpires, QueryRefused, tokenVars, dialogVars
  <2> QED BY <2>1, RevokesShown
<1>3. ASSUME NEW d \in Dialog,
             OpenDialog(d) \/ HandleClose(d) \/ SecretArrives(d) \/ AskFails(d) \/ Asks(d)
      PROVE  (\A e \in Dialog : AskFine(e))' /\ (\A s \in Secret : SecretFine(s))'
  BY <1>3, OpenShown, CloseShown, AnswersShown, AsksShown
<1>4. CASE EscapeRegister
  BY <1>4, CloseShown
<1>5. ASSUME NEW s \in Secret,
             CreateApiToken(s) \/ RegenerateAgentToken(s) \/ RegisterNewAgent(s)
      PROVE  (\A e \in Dialog : AskFine(e))' /\ (\A t \in Secret : SecretFine(t))'
  <2>1. PICK d \in Dialog, state \in {"live", "regenerated", "registered"} :
          Stores(d, s, state) /\ (d = "register" => state = "registered")
    BY <1>5, <1>a DEF CreateApiToken, RegenerateAgentToken, RegisterNewAgent
  <2> QED BY <2>1, AsksShown
<1>6. ASSUME NEW s \in Secret, HandleRevoke(s) \/ RevokeApiToken(s) \/ TokenExpires(s)
      PROVE  (\A e \in Dialog : AskFine(e))' /\ (\A t \in Secret : SecretFine(t))'
  <2>1. UNCHANGED <<dialogs, asks, displays, lost>>
        /\ (TokenExpires(s) => UNCHANGED <<secrets, revoking>>)
    BY <1>6 DEF HandleRevoke, RevokeApiToken, TokenExpires, dialogVars
  <2> QED BY <1>6, <2>1, RevokesShown
<1>7. ASSUME NEW u \in Use, \/ \E s \in Secret : UseToken(u, s)
                            \/ ReadCandidateTokens(u) \/ CheckToken(u) \/ UseEnds(u)
      PROVE  (\A e \in Dialog : AskFine(e))' /\ (\A s \in Secret : SecretFine(s))'
  <2>1. UNCHANGED <<dialogs, asks, displays, lost, secrets, revoking>>
    BY <1>7 DEF UseToken, ReadCandidateTokens, CheckToken, UseEnds, dialogVars
  <2> QED BY <2>1, RevokesShown
<1>8. CASE UNCHANGED accessVars
  <2>1. UNCHANGED <<dialogs, asks, displays, lost, secrets, revoking>>
    BY <1>8 DEF accessVars, tokenVars, dialogVars
  <2> QED BY <2>1, RevokesShown
<1> QED BY <1>1, <1>2, <1>3, <1>4, <1>5, <1>6, <1>7, <1>8, <1>a
        DEF AccessNext, HandleCreate, HandleRegenerate, HandleRegister

\* Every reachable state keeps the answer with a secret in one place: with the request, with
\* the dialog, or, once an error or leaving the page has got it, nowhere (ApiTokensTab,
\* RegenerateTokenModal and RegisterAgentModal with their routes).
THEOREM SecretsInvariant == AccessSpec => []ShownIInv
<1>1. AccessInit => ShownIInv
  <2> SUFFICES ASSUME AccessInit PROVE ShownIInv
    OBVIOUS
  <2>1. AccessTypeOK
    <3>1. /\ secrets \in [Secret -> {"none", "live", "revoked", "regenerated", "registered"}]
          /\ uses \in [Use -> [pc : {"none", "arrived", "read", "admitted"},
                               secret : Secret \cup {NoSecret}, valid : BOOLEAN, wasLive : BOOLEAN]]
      BY DEF AccessInit, NoUse
    <3>2. /\ dialogs \in [Dialog -> [open : BOOLEAN, secret : Secret \cup {NoSecret}]]
          /\ asks \in [Dialog -> [pc : {"none", "sent", "stored"},
                                  secret : Secret \cup {NoSecret}, heard : BOOLEAN]]
          /\ displays \in [Secret -> 0..2]
      BY DEF AccessInit, NotAsked, DialogClosed
    <3>3. /\ {expired, revoking, lost} \subseteq SUBSET Secret
          /\ cookie \in BOOLEAN /\ signedIn \in BOOLEAN /\ refused \in BOOLEAN /\ leaving \in BOOLEAN
      BY DEF AccessInit
    <3> QED BY <3>1, <3>2, <3>3 DEF AccessTypeOK
  <2>2. \A d \in Dialog : AskFine(d)
    BY DEF AccessInit, AskFine, NotAsked, DialogClosed
  <2>3. ASSUME NEW s \in Secret PROVE SecretFine(s)
    <3>1. s # NoSecret /\ secrets[s] = "none" /\ displays[s] = 0 /\ s \notin revoking
      BY AccessAssumption DEF AccessInit
    <3>2. \A d \in Dialog : asks[d].secret # s /\ dialogs[d].secret # s
      BY <3>1 DEF AccessInit, NotAsked, DialogClosed
    <3> QED BY <3>1, <3>2 DEF SecretFine, OnePlace, ShownOnce
  <2> QED BY <2>1, <2>2, <2>3 DEF ShownIInv
<1> QED BY <1>1, ShownStep, PTL DEF AccessSpec

\* A secret that was issued is shown, and by one opening of its dialog, however requests,
\* closings, refusals and revocations interleave, unless an error or leaving the page has
\* lost it (handleCloseCreate, resetAndClose, onSuccess).
THEOREM ShownOnceAndOnlyOnce == AccessSpec => []SecretsAreShownOnce
<1>1. ShownIInv => SecretsAreShownOnce
  BY DEF ShownIInv, SecretFine, SecretsAreShownOnce
<1> QED BY <1>1, SecretsInvariant, PTL

-----------------------------------------------------------------------------
(* The registration of an agent.                                             *)

Attempt ==
  [pc : {"idle", "comparing", "mode", "counted", "listed", "hashed", "inserted", "admitted"},
   token : Token \cup {Nothing}, row : RowId \cup {Nothing}, taken : BOOLEAN]
RowsTyped ==
  /\ agentRows \in [RowId -> AgentRow \cup {NoRow}]
  /\ attempts \in [Socket -> Attempt]
  /\ machineToken \in [Machine -> Token]

\* A row that a registration holds on to has had the token it presented.
Held(s) ==
  /\ attempts[s].pc = "comparing" /\ attempts[s].row # Nothing => attempts[s].row \in presented[s]
  /\ attempts[s].pc \in {"inserted", "admitted"} => attempts[s].row \in presented[s]
  /\ attempts[s].pc # "idle" => attempts[s].token \in Token
HeldRowsHadToken == \A s \in Socket : Held(s)

EnrolmentIInv == RowsTyped /\ HeldRowsHadToken

LEMMA OperatorKeepsAttempts ==
  ASSUME \/ \E i \in RowId, t \in Token :
              RegenerateToken(i, t) \/ \E m \in Machine : RegisterAgent(i, NameOf[m], t)
         \/ \E i \in RowId : DeleteAgent(i) \/ \E m \in Machine : InstallToken(m, i)
         \/ \E active \in BOOLEAN : SetRecoveryMode(active)
  PROVE  UNCHANGED attempts
BY DEF RegenerateToken, RegisterAgent, DeleteAgent, InstallToken, SetRecoveryMode, operatorUnchanged

\* What the ways a registration goes on make of it.
LEMMA AttemptsMove ==
  ASSUME attempts \in [Socket -> Attempt], NEW s \in Socket
  PROVE  /\ Refused(s) => /\ attempts' \in [Socket -> Attempt] /\ attempts'[s] = Idle
                          /\ \A r \in Socket : r # s => attempts'[r] = attempts[r]
         /\ \A pc \in {"mode", "counted", "hashed", "admitted"} : Goes(s, pc) =>
              /\ attempts' \in [Socket -> Attempt]
              /\ attempts'[s].pc = pc /\ attempts'[s].token = attempts[s].token
              /\ attempts'[s].row = attempts[s].row
              /\ \A r \in Socket : r # s => attempts'[r] = attempts[r]
         /\ \A i \in RowId : Admitted(s, i) =>
              /\ attempts' \in [Socket -> Attempt]
              /\ attempts'[s].pc = "admitted" /\ attempts'[s].token = attempts[s].token
              /\ attempts'[s].row = i
              /\ \A r \in Socket : r # s => attempts'[r] = attempts[r]
<1>1. Idle \in Attempt
  BY DEF Idle, Attempt
<1>2. ASSUME Refused(s)
      PROVE  /\ attempts' \in [Socket -> Attempt] /\ attempts'[s] = Idle
             /\ \A r \in Socket : r # s => attempts'[r] = attempts[r]
  BY <1>1, <1>2 DEF Refused
<1>3. ASSUME NEW pc \in {"mode", "counted", "hashed", "admitted"}, Goes(s, pc)
      PROVE  /\ attempts' \in [Socket -> Attempt]
             /\ attempts'[s].pc = pc /\ attempts'[s].token = attempts[s].token
             /\ attempts'[s].row = attempts[s].row
             /\ \A r \in Socket : r # s => attempts'[r] = attempts[r]
  BY <1>3 DEF Goes, Attempt
<1>4. ASSUME NEW i \in RowId, Admitted(s, i)
      PROVE  /\ attempts' \in [Socket -> Attempt]
             /\ attempts'[s].pc = "admitted" /\ attempts'[s].token = attempts[s].token
             /\ attempts'[s].row = i
             /\ \A r \in Socket : r # s => attempts'[r] = attempts[r]
  <2>1. attempts' = [attempts EXCEPT ![s] = [attempts[s] EXCEPT !.pc = "admitted", !.row = i]]
    BY <1>4 DEF Admitted
  <2>2. PICK new : new = [attempts[s] EXCEPT !.pc = "admitted", !.row = i]
    OBVIOUS
  <2>3. new \in Attempt /\ new.pc = "admitted" /\ new.token = attempts[s].token /\ new.row = i
    BY <2>2 DEF Attempt
  <2> QED BY <2>1, <2>2, <2>3
<1> QED BY <1>2, <1>3, <1>4

LEMMA RowsTypeStep == RowsTyped /\ HeldRowsHadToken /\ EnrolmentStep => RowsTyped'
<1> SUFFICES ASSUME RowsTyped, HeldRowsHadToken, EnrolmentStep PROVE RowsTyped'
  OBVIOUS
<1> USE DEF RowsTyped
<1>1. ASSUME NEW i \in RowId, NEW t \in Token, RegenerateToken(i, t) PROVE RowsTyped'
  BY <1>1 DEF RegenerateToken, operatorUnchanged, AgentRow
<1>2. ASSUME NEW i \in RowId, NEW t \in Token, NEW m \in Machine, RegisterAgent(i, NameOf[m], t)
      PROVE  RowsTyped'
  BY <1>2 DEF RegisterAgent, operatorUnchanged, AgentRow, Name
<1>3. ASSUME NEW i \in RowId, DeleteAgent(i) PROVE RowsTyped'
  BY <1>3 DEF DeleteAgent, operatorUnchanged
<1>4. ASSUME NEW i \in RowId, NEW m \in Machine, InstallToken(m, i) PROVE RowsTyped'
  BY <1>4 DEF InstallToken, operatorUnchanged, AgentRow
<1>5. ASSUME NEW active \in BOOLEAN, SetRecoveryMode(active) PROVE RowsTyped'
  BY <1>5 DEF SetRecoveryMode, operatorUnchanged
<1>6. CASE RestartController
  <2>1. PICK t \in Token : t = machineToken[LocalMachine]
    BY EnrolmentAssumption
  <2>2. [token |-> t, name |-> Nothing, hash |-> "sha256"] \in AgentRow
    BY DEF AgentRow, Name
  <2>3. agentRows[LocalRow] # NoRow =>
          [agentRows[LocalRow] EXCEPT !.token = t, !.hash = "sha256"] \in AgentRow
    BY EnrolmentAssumption DEF AgentRow
  <2>4. agentRows' = IF agentRows[LocalRow] = NoRow
                     THEN [agentRows EXCEPT ![LocalRow] =
                             [token |-> t, name |-> Nothing, hash |-> "sha256"]]
                     ELSE [agentRows EXCEPT ![LocalRow] =
                             [agentRows[LocalRow] EXCEPT !.token = t, !.hash = "sha256"]]
    BY <1>6, <2>1 DEF RestartController
  <2>5. agentRows' \in [RowId -> AgentRow \cup {NoRow}]
    BY <2>2, <2>3, <2>4
  <2>6. attempts' \in [Socket -> Attempt] /\ UNCHANGED machineToken
    BY <1>6 DEF RestartController, Idle, Attempt
  <2> QED BY <2>5, <2>6
<1>7. ASSUME NEW s \in Socket, ReadCandidates(s) PROVE RowsTyped'
  <2>1. PICK i \in RowId \cup {Nothing} :
          attempts' = [attempts EXCEPT ![s] =
            [Idle EXCEPT !.pc = "comparing", !.token = machineToken[MachineOf[s]], !.row = i]]
    BY <1>7 DEF ReadCandidates, RowsWith
  <2>2. machineToken[MachineOf[s]] \in Token
    BY EnrolmentAssumption
  <2>3. attempts' \in [Socket -> Attempt]
    BY <2>1, <2>2 DEF Idle, Attempt
  <2> QED BY <1>7, <2>3 DEF ReadCandidates, recordsUnchanged
<1>8. ASSUME NEW s \in Socket, Compared(s) \/ ReadRecoveryMode(s) \/ GivesUp(s) PROVE RowsTyped'
  <2>1. attempts[s].row \in RowId \cup {Nothing}
    BY DEF Attempt
  <2> QED BY <1>8, <2>1, AttemptsMove DEF Compared, ReadRecoveryMode, GivesUp, recordsUnchanged
<1>9. ASSUME NEW s \in Socket, LookForName(s) PROVE RowsTyped'
  <2>1. CASE attempts' = [attempts EXCEPT ![s].pc = "hashed", ![s].taken = TRUE]
    <3>1. [attempts[s] EXCEPT !.pc = "hashed", !.taken = TRUE] \in Attempt
      BY DEF Attempt
    <3>2. attempts' = [attempts EXCEPT ![s] = [attempts[s] EXCEPT !.pc = "hashed", !.taken = TRUE]]
      BY <2>1
    <3> QED BY <1>9, <3>1, <3>2 DEF LookForName, recordsUnchanged
  <2>2. CASE Refused(s) \/ Goes(s, "hashed") \/ \E i \in RowId : Admitted(s, i)
    BY <1>9, <2>2, AttemptsMove DEF LookForName, recordsUnchanged
  <2> QED BY <1>9, <2>1, <2>2 DEF LookForName
<1>10. ASSUME NEW s \in Socket, CountRecovered(s) PROVE RowsTyped'
  BY <1>10, AttemptsMove DEF CountRecovered
<1>11. ASSUME NEW s \in Socket, NEW i \in RowId, InsertRecovered(s, i) PROVE RowsTyped'
  <2>1. attempts[s].token \in Token
    BY <1>11 DEF InsertRecovered, HeldRowsHadToken, Held
  <2>2. PICK row, attempt :
          /\ row = [token |-> attempts[s].token, hash |-> "bcrypt",
                    name |-> IF attempts[s].taken THEN Nothing ELSE NameOf[MachineOf[s]]]
          /\ attempt = [attempts[s] EXCEPT !.pc = "inserted", !.row = i]
    OBVIOUS
  <2>3. row \in AgentRow
    BY <2>1, <2>2, EnrolmentAssumption DEF AgentRow, Name
  <2>4. attempt \in Attempt
    BY <2>2 DEF Attempt
  <2>5. /\ agentRows' = [agentRows EXCEPT ![i] = row] /\ attempts' = [attempts EXCEPT ![s] = attempt]
        /\ UNCHANGED machineToken
    BY <1>11, <2>2 DEF InsertRecovered
  <2> QED BY <2>3, <2>4, <2>5
<1> QED BY <1>1, <1>2, <1>3, <1>4, <1>5, <1>6, <1>7, <1>8, <1>9, <1>10, <1>11 DEF EnrolmentStep

LEMMA HeldStep == EnrolmentIInv /\ [EnrolmentNext]_enrolmentVars => EnrolmentIInv'
<1> SUFFICES ASSUME EnrolmentIInv, [EnrolmentNext]_enrolmentVars PROVE EnrolmentIInv'
  OBVIOUS
<1>1. CASE UNCHANGED enrolmentVars
  BY <1>1 DEF enrolmentVars, EnrolmentIInv, RowsTyped, HeldRowsHadToken, Held
<1>2. ASSUME EnrolmentNext PROVE EnrolmentIInv'
  <2>1. RowsTyped /\ RowsTyped' /\ HeldRowsHadToken
    BY <1>2, RowsTypeStep DEF EnrolmentIInv, EnrolmentNext
  <2>2. ASSUME NEW s \in Socket, attempts'[s].pc # "idle"
        PROVE  /\ attempts[s].pc # "idle" => presented[s] \subseteq presented'[s]
               /\ \A i \in RowId : agentRows'[i] # NoRow /\ agentRows'[i].token = attempts'[s].token
                                  => i \in presented'[s]
    BY <1>2, <2>2 DEF EnrolmentNext
  <2> SUFFICES HeldRowsHadToken'
    BY <2>1 DEF EnrolmentIInv
  <2>3. ASSUME NEW s \in Socket, attempts'[s] = attempts[s] PROVE Held(s)'
    BY <2>1, <2>2, <2>3 DEF HeldRowsHadToken, Held
  <2>4. ASSUME NEW s \in Socket, attempts'[s].pc \in {"idle", "mode", "counted", "hashed"},
               attempts'[s].pc = "idle" \/ attempts'[s].token \in Token
        PROVE  Held(s)'
    BY <2>4 DEF Held
  <2>5. ASSUME NEW s \in Socket, attempts'[s].pc # "idle", attempts'[s].token \in Token,
               attempts'[s].row \in presented'[s]
        PROVE  Held(s)'
    BY <2>5 DEF Held
  <2>6. CASE UNCHANGED attempts
    <3> SUFFICES ASSUME NEW s \in Socket PROVE Held(s)'
      BY DEF HeldRowsHadToken
    <3> QED BY <2>3, <2>6
  <2>7. CASE RestartController
    <3> SUFFICES ASSUME NEW s \in Socket PROVE Held(s)'
      BY DEF HeldRowsHadToken
    <3>1. attempts'[s].pc = "idle"
      BY <2>7 DEF RestartController, Idle
    <3> QED BY <2>4, <3>1
  <2>8. ASSUME NEW s \in Socket,
               \/ ReadCandidates(s) \/ Compared(s) \/ ReadRecoveryMode(s) \/ LookForName(s)
               \/ CountRecovered(s) \/ GivesUp(s) \/ \E i \in RowId : InsertRecovered(s, i)
        PROVE  HeldRowsHadToken'
    <3>a. /\ attempts \in [Socket -> Attempt] /\ agentRows \in [RowId -> AgentRow \cup {NoRow}]
          /\ attempts[s].pc # "idle" => attempts[s].token \in Token
      BY <2>1 DEF RowsTyped, HeldRowsHadToken, Held
    <3>b. /\ Idle.pc = "idle"
          /\ \A pc \in {"mode", "counted", "hashed"} :
               Goes(s, pc) /\ attempts[s].pc # "idle" => Held(s)'
          /\ Refused(s) => Held(s)'
      <4>1. Idle.pc = "idle"
        BY DEF Idle
      <4> QED BY <2>4, <3>a, <4>1, AttemptsMove
    <3>1. \A r \in Socket : r # s => attempts'[r] = attempts[r]
      <4>1. CASE ReadCandidates(s)
        BY <3>a, <4>1 DEF ReadCandidates
      <4>2. CASE \E i \in RowId : InsertRecovered(s, i)
        BY <3>a, <4>2 DEF InsertRecovered
      <4>3. CASE LookForName(s)
        BY <3>a, <4>3, AttemptsMove DEF LookForName
      <4>4. CASE Compared(s) \/ ReadRecoveryMode(s) \/ CountRecovered(s) \/ GivesUp(s)
        <5>1. attempts[s].row \in RowId \cup {Nothing}
          BY <3>a DEF Attempt
        <5> QED BY <3>a, <4>4, <5>1, AttemptsMove
                DEF Compared, ReadRecoveryMode, CountRecovered, GivesUp
      <4> QED BY <2>8, <4>1, <4>2, <4>3, <4>4
    <3>2. Held(s)'
      <4>1. CASE ReadCandidates(s)
        <5>1. PICK t \in Token : t = machineToken[MachineOf[s]]
          BY <2>1, EnrolmentAssumption DEF RowsTyped
        <5>2. PICK i \in RowId \cup {Nothing} :
                /\ i = Nothing \/ i \in RowsWith(t)
                /\ attempts' = [attempts EXCEPT ![s] =
                     [Idle EXCEPT !.pc = "comparing", !.token = t, !.row = i]]
          BY <4>1, <5>1 DEF ReadCandidates, RowsWith
        <5>3. /\ attempts'[s].pc = "comparing" /\ attempts'[s].token = t /\ attempts'[s].row = i
              /\ UNCHANGED agentRows
          BY <3>a, <4>1, <5>2 DEF Idle, ReadCandidates, recordsUnchanged
        <5>4. i # Nothing => i \in presented'[s]
          BY <2>2, <5>2, <5>3 DEF RowsWith
        <5> QED BY <5>3, <5>4 DEF Held
      <4>2. ASSUME NEW i \in RowId, InsertRecovered(s, i) PROVE Held(s)'
        <5>1. /\ attempts'[s].pc = "inserted" /\ attempts'[s].token = attempts[s].token
              /\ attempts'[s].row = i /\ attempts[s].token \in Token
          BY <3>a, <4>2 DEF InsertRecovered, Attempt
        <5>2. agentRows'[i].token = attempts[s].token /\ agentRows'[i] \in AgentRow
          <6>1. agentRows'[i] = [token |-> attempts[s].token, hash |-> "bcrypt",
                  name |-> IF attempts[s].taken THEN Nothing ELSE NameOf[MachineOf[s]]]
            BY <3>a, <4>2 DEF InsertRecovered
          <6> QED BY <5>1, <6>1, EnrolmentAssumption DEF AgentRow, Name
        <5>3. i \in presented'[s]
          BY <2>2, <5>1, <5>2, NoRowAssumption
        <5> QED BY <2>5, <5>1, <5>3
      <4>3. CASE LookForName(s)
        <5>1. ASSUME NEW i \in RowId, agentRows[i] # NoRow, SameAgent(s, i), Admitted(s, i)
              PROVE  Held(s)'
          <6>1. /\ attempts'[s].pc = "admitted" /\ attempts'[s].token = attempts[s].token
                /\ attempts'[s].row = i /\ attempts[s].token \in Token
            BY <3>a, <4>3, <5>1, AttemptsMove DEF LookForName
          <6>2. i \in presented'[s]
            BY <2>2, <4>3, <5>1, <6>1 DEF LookForName, recordsUnchanged, SameAgent
          <6> QED BY <2>5, <6>1, <6>2
        <5>2. CASE attempts' = [attempts EXCEPT ![s].pc = "hashed", ![s].taken = TRUE]
          BY <2>4, <3>a, <4>3, <5>2 DEF LookForName, Attempt
        <5> QED BY <3>b, <4>3, <5>1, <5>2 DEF LookForName
      <4>4. CASE Compared(s)
        <5>1. CASE attempts[s].row # Nothing /\ Admitted(s, attempts[s].row)
          <6>1. attempts[s].row \in RowId /\ attempts[s].row \in presented[s]
            BY <2>1, <3>a, <4>4, <5>1 DEF Compared, Attempt, HeldRowsHadToken, Held
          <6>2. PICK i \in RowId : i = attempts[s].row
            BY <6>1
          <6>3. /\ attempts'[s].pc = "admitted" /\ attempts'[s].token = attempts[s].token
                /\ attempts'[s].row = i /\ attempts[s].pc # "idle"
            BY <3>a, <4>4, <5>1, <6>2, AttemptsMove DEF Compared
          <6> QED BY <2>2, <2>5, <3>a, <6>1, <6>2, <6>3
        <5> QED BY <3>b, <4>4, <5>1 DEF Compared
      <4>5. CASE CountRecovered(s)
        <5>1. attempts[s].pc # "idle" /\ attempts[s].row \in presented[s]
          BY <2>1, <4>5 DEF CountRecovered, HeldRowsHadToken, Held
        <5>2. CASE Goes(s, "admitted")
          <6>1. /\ attempts'[s].pc = "admitted" /\ attempts'[s].token = attempts[s].token
                /\ attempts'[s].row = attempts[s].row
            BY <3>a, <5>2, AttemptsMove
          <6> QED BY <2>2, <2>5, <3>a, <5>1, <6>1
        <5> QED BY <3>b, <4>5, <5>2 DEF CountRecovered
      <4>6. CASE ReadRecoveryMode(s) \/ GivesUp(s)
        BY <3>b, <4>6 DEF ReadRecoveryMode, GivesUp
      <4> QED BY <2>8, <4>1, <4>2, <4>3, <4>4, <4>5, <4>6
    <3> QED BY <2>3, <3>1, <3>2 DEF HeldRowsHadToken
  <2>9. \/ UNCHANGED attempts \/ RestartController
        \/ \E s \in Socket :
             \/ ReadCandidates(s) \/ Compared(s) \/ ReadRecoveryMode(s) \/ LookForName(s)
             \/ CountRecovered(s) \/ GivesUp(s) \/ \E i \in RowId : InsertRecovered(s, i)
    <3>1. EnrolmentStep
      BY <1>2 DEF EnrolmentNext
    <3> QED BY <3>1, OperatorKeepsAttempts DEF EnrolmentStep
  <2> QED BY <2>6, <2>7, <2>8, <2>9
<1> QED BY <1>1, <1>2

\* For any number of machines, sockets, rows and tokens: whoever is admitted as an agent has
\* presented a token its row had meanwhile (authenticateAgent, tryRecoveryRegister).
THEOREM AdmissionIsByOwnToken == EnrolmentSpec => []AdmittedByOwnToken
<1>1. EnrolmentInit => EnrolmentIInv
  BY EnrolmentAssumption
     DEF EnrolmentInit, EnrolmentIInv, RowsTyped, HeldRowsHadToken, Held, Idle, Attempt
<1>2. EnrolmentIInv => AdmittedByOwnToken
  BY DEF EnrolmentIInv, HeldRowsHadToken, Held, AdmittedByOwnToken
<1> QED BY <1>1, <1>2, HeldStep, PTL DEF EnrolmentSpec

\* What the rows do not say: the recovery mode, what was recovered, and what was presented.
RecoveryTyped ==
  /\ recoveryMode \in BOOLEAN /\ recoveryCount \in Nat /\ recoveredRows \in SUBSET RowId
  /\ presented \in [Socket -> SUBSET RowId]

LEMMA RecoveryStep ==
  EnrolmentIInv /\ RecoveryTyped /\ [EnrolmentNext]_enrolmentVars => RecoveryTyped'
<1> SUFFICES ASSUME EnrolmentIInv, RecoveryTyped, [EnrolmentNext]_enrolmentVars PROVE RecoveryTyped'
  OBVIOUS
<1>1. CASE UNCHANGED enrolmentVars
  BY <1>1 DEF enrolmentVars, RecoveryTyped
<1>2. CASE EnrolmentNext
  <2>1. presented' \in [Socket -> SUBSET RowId]
    BY <1>2 DEF EnrolmentNext, RecoveryTyped
  <2>2. EnrolmentStep
    BY <1>2 DEF EnrolmentNext
  <2> DEFINE Typed == /\ recoveryMode' \in BOOLEAN /\ recoveryCount' \in Nat
                      /\ recoveredRows' \in SUBSET RowId
  <2>3. recoveryMode \in BOOLEAN /\ recoveryCount \in Nat /\ recoveredRows \in SUBSET RowId
    BY DEF RecoveryTyped
  <2>4. ASSUME \/ \E i \in RowId, t \in Token :
                    RegenerateToken(i, t) \/ \E m \in Machine : RegisterAgent(i, NameOf[m], t)
               \/ \E i \in RowId : DeleteAgent(i) \/ \E m \in Machine : InstallToken(m, i)
               \/ \E active \in BOOLEAN : SetRecoveryMode(active)
        PROVE  Typed
    BY <2>3, <2>4 DEF RegenerateToken, RegisterAgent, DeleteAgent, InstallToken, SetRecoveryMode,
                      operatorUnchanged
  <2>5. ASSUME RestartController PROVE Typed
    BY <2>3, <2>5 DEF RestartController
  <2>6. ASSUME NEW s \in Socket,
               \/ ReadCandidates(s) \/ Compared(s) \/ ReadRecoveryMode(s) \/ LookForName(s)
               \/ GivesUp(s) \/ \E i \in RowId : InsertRecovered(s, i)
        PROVE  Typed
    BY <2>3, <2>6 DEF ReadCandidates, Compared, ReadRecoveryMode, LookForName, GivesUp,
                      InsertRecovered, recordsUnchanged
  <2>7. ASSUME NEW s \in Socket, CountRecovered(s)
        PROVE  Typed
    <3>1. attempts[s].row \in presented[s] /\ presented[s] \in SUBSET RowId
      BY <2>7 DEF CountRecovered, EnrolmentIInv, HeldRowsHadToken, Held, RecoveryTyped
    <3> QED BY <2>3, <2>7, <3>1 DEF CountRecovered
  <2> QED BY <2>1, <2>2, <2>4, <2>5, <2>6, <2>7 DEF EnrolmentStep, RecoveryTyped
<1> QED BY <1>1, <1>2

\* For any number of machines, sockets, rows and tokens: rows, registrations and the recovery
\* mode are what the tables and handlers take them for; a row that counts as recovered is one.
THEOREM EnrolmentIsTyped == EnrolmentSpec => []EnrolmentTypeOK
<1>1. EnrolmentInit => EnrolmentIInv
  BY EnrolmentAssumption
     DEF EnrolmentInit, EnrolmentIInv, RowsTyped, HeldRowsHadToken, Held, Idle, Attempt
<1>a. ASSUME EnrolmentInit PROVE RecoveryTyped
  <2>1. recoveryMode = FALSE /\ recoveryCount = 0 /\ recoveredRows = {}
        /\ presented = [s \in Socket |-> {}]
    BY <1>a DEF EnrolmentInit
  <2>2. presented \in [Socket -> SUBSET RowId]
    BY <2>1
  <2> QED BY <2>1, <2>2 DEF RecoveryTyped
<1>2. EnrolmentIInv /\ RecoveryTyped => EnrolmentTypeOK
  BY DEF EnrolmentIInv, RowsTyped, Attempt, RecoveryTyped, EnrolmentTypeOK
<1> QED BY <1>1, <1>2, <1>a, HeldStep, RecoveryStep, PTL DEF EnrolmentSpec

-----------------------------------------------------------------------------
(* An edit of a policy.                                                      *)

\* The policy a request is about to store is the one in effect but for its field, unless
\* requests are intermingled, and it is the only one under way.
EditIsAlone ==
  ~intermingled =>
    /\ \A w, u \in Edit : edits[w] # NoEdit /\ edits[u] # NoEdit => w = u
    /\ \A w \in Edit : edits[w] # NoEdit =>
         \E f \in PolicyField : \A g \in PolicyField \ {f} :
           edits[w].policy[g] = EffectivePolicy(edits[w].scope)[g]

EditIInv == PoliciesTypeOK /\ EditIsAlone

LEMMA EffectiveTyped ==
  ASSUME PoliciesTypeOK, NEW s \in Scope
  PROVE  EffectivePolicy(s) \in Policy
BY PoliciesAssumption DEF PoliciesTypeOK, EffectivePolicy, Policy, Scope

LEMMA EditStep == EditIInv /\ [PoliciesNext]_policiesVars => EditIInv'
<1> SUFFICES ASSUME EditIInv, [PoliciesNext]_policiesVars PROVE EditIInv'
  OBVIOUS
<1> USE DEF EditIInv, PoliciesTypeOK
<1>1. ASSUME NEW w \in Edit, NEW s \in Scope, NEW f \in PolicyField, NEW v \in PolicyValue,
             EditPolicy(w, s, f, v)
      PROVE  EditIInv'
  <2>1. PICK p : p = Merged(s, f, v)
    OBVIOUS
  <2>2. p \in Policy /\ \A g \in PolicyField \ {f} : p[g] = EffectivePolicy(s)[g]
    BY <2>1, EffectiveTyped DEF Merged, Policy
  <2>3. /\ edits' = [edits EXCEPT ![w] = [scope |-> s, policy |-> p]]
        /\ intermingled' = (\E u \in Edit : edits[u] # NoEdit)
        /\ UNCHANGED policies
    BY <1>1, <2>1 DEF EditPolicy
  <2>4. PoliciesTypeOK'
    BY <2>2, <2>3
  <2>5. EditIsAlone'
    <3> SUFFICES ASSUME ~intermingled', NEW u \in Edit, edits'[u] # NoEdit
                 PROVE  u = w /\ \E h \in PolicyField : \A g \in PolicyField \ {h} :
                          edits'[u].policy[g] = EffectivePolicy(edits[u].scope)'[g]
      BY DEF EditIsAlone
    <3>1. u = w
      BY <2>3
    <3>2. edits'[u].scope = s /\ edits'[u].policy = p
      BY <2>3, <3>1
    <3>3. EffectivePolicy(edits[u].scope)' = EffectivePolicy(s)
      BY <2>3, <3>2 DEF EffectivePolicy
    <3> QED BY <2>2, <3>1, <3>2, <3>3
  <2> QED BY <2>4, <2>5
<1>2. ASSUME NEW w \in Edit, StorePolicy(w) PROVE EditIInv'
  <2>1. PoliciesTypeOK'
    BY <1>2 DEF StorePolicy
  <2>2. ASSUME ~intermingled', NEW u \in Edit PROVE edits'[u] = NoEdit
    BY <1>2, <2>2 DEF StorePolicy, EditIsAlone
  <2> QED BY <2>1, <2>2 DEF EditIsAlone
<1>3. ASSUME NEW w \in Edit, EditLost(w) PROVE EditIInv'
  <2>1. PoliciesTypeOK'
    BY <1>3 DEF EditLost
  <2>2. ASSUME ~intermingled', NEW u \in Edit PROVE edits'[u] = NoEdit
    BY <1>3, <2>2 DEF EditLost, EditIsAlone
  <2> QED BY <2>1, <2>2 DEF EditIsAlone
<1>4. CASE UNCHANGED policiesVars
  BY <1>4 DEF policiesVars, EditIsAlone, EffectivePolicy
<1> QED BY <1>1, <1>2, <1>3, <1>4 DEF PoliciesNext

\* The inductive invariant of the policies' edits: what an edit is about to store is the
\* policy in effect but for one field (PUT /api/update-policies).
THEOREM PoliciesInvariant == PoliciesSpec => []EditIInv
<1>1. PoliciesInit => EditIInv
  BY DEF PoliciesInit, EditIInv, PoliciesTypeOK, EditIsAlone
<1> QED BY <1>1, EditStep, PTL DEF PoliciesSpec

\* For any fields, values, agents and number of requests: an edit that is not intermingled
\* with another changes its field of the policy in effect (PUT /api/update-policies).
THEOREM EditsChangeOneField == PoliciesSpec => EditsKeepOtherFields
<1>1. ASSUME EditIInv, [PoliciesNext]_policiesVars
      PROVE  [\A s \in Scope :
                policies'[s] # policies[s] /\ ~intermingled =>
                  Cardinality({f \in PolicyField : policies'[s][f] # EffectivePolicy(s)[f]}) <= 1
             ]_policiesVars
  <2> SUFFICES ASSUME NEW s \in Scope, policies'[s] # policies[s], ~intermingled
               PROVE Cardinality({f \in PolicyField : policies'[s][f] # EffectivePolicy(s)[f]}) <= 1
    OBVIOUS
  <2>1. PICK w \in Edit : StorePolicy(w)
    BY <1>1 DEF PoliciesNext, EditPolicy, EditLost, policiesVars
  <2>2. /\ edits[w] # NoEdit /\ edits[w].scope = s /\ policies'[s] = edits[w].policy
    BY <1>1, <2>1 DEF StorePolicy, EditIInv, PoliciesTypeOK
  <2>3. PICK f \in PolicyField : \A g \in PolicyField \ {f} : policies'[s][g] = EffectivePolicy(s)[g]
    BY <1>1, <2>2 DEF EditIInv, EditIsAlone
  <2>4. {g \in PolicyField : policies'[s][g] # EffectivePolicy(s)[g]} \in {{}, {f}}
    BY <2>3
  <2>5. Cardinality({}) = 0 /\ Cardinality({f}) = 1
    BY FS_EmptySet, FS_Singleton
  <2> QED BY <2>4, <2>5
<1> QED BY <1>1, PoliciesInvariant, PTL DEF PoliciesSpec, EditsKeepOtherFields

-----------------------------------------------------------------------------
(* A schedule that is stored and then applied.                               *)

PutsTyped ==
  /\ schedules \in [ScheduleTarget -> Cron \cup {NoCron}]
  /\ tasks \in [ScheduleTarget -> Cron \cup {NoCron}]
  /\ liveTasks \in [ScheduleTarget -> Int]
  /\ puts \in [Put -> PutRequest \cup {NoPut}]
  /\ registered \in SUBSET ScheduledAgent

\* The global schedule is never cleared.
GlobalIsSet == \A w \in Put : puts[w] # NoPut /\ puts[w].target = "global" => puts[w].cron # NoCron

\* A request that has stored its schedule and not applied it is the only one, and what it
\* has stored is there, unless the target is marked.
StoredIsThere ==
  \A w \in Put : At(w, "stored") /\ puts[w].target \notin raced =>
    /\ \A v \in Put : At(v, "stored") /\ puts[v].target = puts[w].target => v = w
    /\ puts[w].target \in registered \cup {"global"} => schedules[puts[w].target] = puts[w].cron

SchedulesIInv == PutsTyped /\ GlobalIsSet /\ StoredIsThere /\ TasksFollowRows

LEMMA ScheduleStep == SchedulesIInv /\ [SchedulesNext]_schedulesVars => SchedulesIInv'
<1> SUFFICES ASSUME SchedulesIInv, [SchedulesNext]_schedulesVars PROVE SchedulesIInv'
  OBVIOUS
<1> USE DEF SchedulesIInv, PutsTyped, GlobalIsSet, StoredIsThere, TasksFollowRows, At, Effective
<1>1. CASE UNCHANGED <<schedules, registered, tasks, liveTasks, puts, raced>>
  BY <1>1
<1>2. ASSUME NEW w \in Put, NEW t \in {"global"} \cup registered, NEW cron \in Cron \cup {NoCron},
             t = "global" => cron # NoCron, SendsPut(w, t, cron)
      PROVE  SchedulesIInv'
  <2>1. /\ puts' = [puts EXCEPT ![w] = [target |-> t, cron |-> cron, pc |-> "sent"]]
        /\ UNCHANGED <<schedules, registered, tasks, liveTasks, raced>>
    BY <1>2 DEF SendsPut, schedulerVars, recordVars
  <2>2. PICK p : p = [target |-> t, cron |-> cron, pc |-> "sent"]
    OBVIOUS
  <2>3. p \in PutRequest /\ p.target = t /\ p.cron = cron /\ p.pc = "sent"
    BY <2>2 DEF PutRequest, ScheduleTarget
  <2>4. puts' = [puts EXCEPT ![w] = p]
    BY <2>1, <2>2
  <2>5. PutsTyped' /\ GlobalIsSet'
    BY <1>2, <2>1, <2>3, <2>4
  <2>6. \A v \in Put : At(v, "stored")' => v # w /\ puts'[v] = puts[v] /\ At(v, "stored")
    BY <2>3, <2>4
  <2>7. puts[w] = NoPut
    BY <1>2 DEF SendsPut
  <2>8. \A v \in Put : At(v, "stored") => At(v, "stored")' /\ puts'[v] = puts[v]
    BY <2>4, <2>7
  <2> QED BY <2>1, <2>5, <2>6, <2>8
<1>3. ASSUME NEW w \in Put, FindAgent(w) PROVE SchedulesIInv'
  <2>1. /\ At(w, "sent") /\ UNCHANGED <<schedules, registered, tasks, liveTasks, raced>>
        /\ \/ puts' = [puts EXCEPT ![w] = NoPut]
           \/ puts' = [puts EXCEPT ![w].pc = "found"]
    BY <1>3 DEF FindAgent, schedulerVars, recordVars
  <2>2. PutsTyped' /\ GlobalIsSet'
    BY <2>1 DEF PutRequest
  <2>3. \A v \in Put : At(v, "stored") <=> At(v, "stored")'
    BY <2>1 DEF PutRequest
  <2>4. \A v \in Put : At(v, "stored") => puts'[v] = puts[v]
    BY <2>1
  <2> QED BY <2>1, <2>2, <2>3, <2>4
<1>4. ASSUME NEW w \in Put, StoreSchedule(w) PROVE SchedulesIInv'
  <2>1. PICK p \in PutRequest : puts[w] = p /\ p.pc # "stored"
    BY <1>4 DEF StoreSchedule
  <2>2. PICK t \in ScheduleTarget : t = p.target
    BY DEF PutRequest
  <2>3. PICK q \in PutRequest : q.target = t /\ q.cron = p.cron /\ q.pc = "stored"
                              /\ puts' = [puts EXCEPT ![w] = q]
    <3>1. [p EXCEPT !.pc = "stored"] \in PutRequest
      BY DEF PutRequest
    <3> QED BY <1>4, <2>1, <2>2, <3>1 DEF StoreSchedule, PutRequest
  <2>4. /\ UNCHANGED <<registered, tasks, liveTasks>>
        /\ schedules' = IF t \in registered \cup {"global"}
                        THEN [schedules EXCEPT ![t] = p.cron] ELSE schedules
        /\ raced' = IF \E v \in Put \ {w} : At(v, "stored") /\ puts[v].target = t
                    THEN raced \cup {t} ELSE raced \ {t}
    BY <1>4, <2>1, <2>2 DEF StoreSchedule, schedulerVars
  <2>5. PutsTyped' /\ GlobalIsSet'
    <3>1. p.cron \in Cron \cup {NoCron} /\ (p.target = "global" => p.cron # NoCron)
      BY <2>1, NoPutAssumption DEF PutRequest
    <3>2. PutsTyped'
      BY <2>3, <2>4, <3>1
    <3>3. GlobalIsSet'
      BY <2>2, <2>3, <3>1
    <3> QED BY <3>2, <3>3
  <2>6. /\ At(w, "stored")' /\ puts'[w] = q
        /\ \A v \in Put \ {w} : puts'[v] = puts[v] /\ (At(v, "stored")' <=> At(v, "stored"))
    BY <2>3, NoPutAssumption
  <2>7. StoredIsThere'
    <3> SUFFICES ASSUME NEW u \in Put, At(u, "stored")', puts'[u].target \notin raced'
                 PROVE /\ \A v \in Put : At(v, "stored")' /\ puts'[v].target = puts'[u].target => v = u
                       /\ puts'[u].target \in registered' \cup {"global"}
                            => schedules'[puts'[u].target] = puts'[u].cron
      OBVIOUS
    <3>1. CASE u = w
      BY <2>2, <2>3, <2>4, <2>6, <3>1
    <3>2. CASE u # w
      <4>1. puts'[u] = puts[u] /\ At(u, "stored") /\ puts[u].target # t
        BY <2>4, <2>6, <3>2
      <4>2. puts[u].target \notin raced
        BY <2>4, <4>1
      <4> QED BY <2>3, <2>4, <2>6, <3>2, <4>1, <4>2
    <3> QED BY <3>1, <3>2
  <2>8. TasksFollowRows'
    <3> SUFFICES ASSUME NEW r \in ScheduleTarget, r \in registered' \cup {"global"}, r \notin raced',
                        \A v \in Put : ~(At(v, "stored")' /\ puts'[v].target = r)
                 PROVE  tasks'[r] = Effective(r, schedules[r])'
      BY <2>4
    <3>1. r # t
      BY <2>3, <2>6
    <3>2. r \notin raced /\ schedules'[r] = schedules[r]
      BY <2>4, <3>1
    <3>3. \A v \in Put : ~(At(v, "stored") /\ puts[v].target = r)
      BY <2>1, <2>6
    <3> QED BY <2>4, <3>2, <3>3
  <2> QED BY <2>5, <2>7, <2>8
<1>5. ASSUME NEW w \in Put, ApplySchedule(w) PROVE SchedulesIInv'
  <2>1. PICK p \in PutRequest : puts[w] = p /\ p.pc = "stored" /\ p # NoPut
    BY <1>5 DEF ApplySchedule
  <2>2. PICK t \in ScheduleTarget : t = p.target
    BY DEF PutRequest
  <2>3. PICK cron \in Cron \cup {NoCron} : cron = p.cron /\ (t = "global" => cron # NoCron)
    BY <2>1, <2>2 DEF PutRequest
  <2>4. /\ tasks' = [tasks EXCEPT ![t] = cron]
        /\ liveTasks' = [liveTasks EXCEPT ![t] = @ - (IF tasks[t] = NoCron THEN 0 ELSE 1)
                                                  + (IF cron = NoCron THEN 0 ELSE 1)]
        /\ puts' = [puts EXCEPT ![w] = NoPut]
        /\ UNCHANGED <<schedules, registered, raced>>
    BY <1>5, <2>1, <2>2, <2>3 DEF ApplySchedule, SetTask, recordVars
  <2>5. PutsTyped' /\ GlobalIsSet'
    BY <2>4
  <2>6. \A v \in Put : /\ At(v, "stored")' => v # w
                       /\ v # w => puts'[v] = puts[v] /\ (At(v, "stored")' <=> At(v, "stored"))
    BY <2>4
  <2>7. StoredIsThere'
    BY <2>4, <2>6
  <2>8. \A r \in ScheduleTarget : liveTasks'[r] = IF tasks'[r] = NoCron THEN 0 ELSE 1
    BY <2>4
  <2>9. ASSUME NEW r \in ScheduleTarget, r \in registered \cup {"global"}, r \notin raced,
               \A v \in Put : ~(At(v, "stored")' /\ puts'[v].target = r)
        PROVE  tasks'[r] = Effective(r, schedules[r])'
    <3>1. CASE r = t
      <4>1. At(w, "stored") /\ puts[w].target = t /\ puts[w].cron = cron
        BY <2>1, <2>2, <2>3
      <4>2. schedules[t] = cron
        BY <2>9, <3>1, <4>1
      <4> QED BY <2>3, <2>4, <3>1, <4>2
    <3>2. CASE r # t
      <4>1. \A v \in Put : ~(At(v, "stored") /\ puts[v].target = r)
        BY <2>1, <2>2, <2>6, <2>9, <3>2
      <4> QED BY <2>4, <2>9, <3>2, <4>1
    <3> QED BY <3>1, <3>2
  <2> QED BY <2>4, <2>5, <2>7, <2>8, <2>9
<1>6. ASSUME NEW a \in ScheduledAgent, DeleteScheduledAgent(a) PROVE SchedulesIInv'
  <2>1. /\ registered' = registered \ {a} /\ schedules' = [schedules EXCEPT ![a] = NoCron]
        /\ UNCHANGED <<tasks, liveTasks, puts, raced>> /\ a # "global"
    BY <1>6, SchedulesAssumption DEF DeleteScheduledAgent, schedulerVars
  <2>2. /\ \A r \in registered' \cup {"global"} : r \in registered \cup {"global"} /\ r # a
        /\ \A r \in ScheduleTarget : r # a => schedules'[r] = schedules[r]
    BY <2>1
  <2>3. PutsTyped' /\ GlobalIsSet'
    BY <2>1
  <2>4. StoredIsThere'
    <3>1. \A w \in Put : At(w, "stored") => puts[w].target \in ScheduleTarget
      BY DEF PutRequest
    <3> QED BY <2>1, <2>2, <3>1
  <2>5. TasksFollowRows'
    BY <2>1, <2>2
  <2> QED BY <2>3, <2>4, <2>5
<1>7. CASE Restart
  <2>1. /\ tasks' = [t \in ScheduleTarget |-> Effective(t, schedules[t])]
        /\ liveTasks' = [t \in ScheduleTarget |-> IF tasks'[t] = NoCron THEN 0 ELSE 1]
        /\ puts' = [w \in Put |-> NoPut] /\ UNCHANGED <<schedules, registered>>
    BY <1>7 DEF Restart, recordVars
  <2> QED BY <2>1, SchedulesAssumption
<1>8. CASE \/ GlobalTaskFires \/ DayPasses \/ ToggleCheckOnStartup
           \/ \E a \in ScheduledAgent : AgentTaskFires(a) \/ DelayedCheckGoes(a) \/ ConnectionOf(a)
  BY <1>1, <1>8 DEF GlobalTaskFires, DayPasses, ToggleCheckOnStartup, AgentTaskFires,
                    DelayedCheckGoes, ConnectionOf, recordVars, schedulerVars
<1>9. CASE UNCHANGED schedulesVars
  BY <1>1, <1>9 DEF schedulesVars, recordVars, schedulerVars
<1>10. ASSUME NEW w \in Put,
              \/ \E t \in {"global"} \cup registered, cron \in Cron : PickSchedule(w, t, cron)
              \/ \E a \in registered : ClearOverride(w, a)
       PROVE  SchedulesIInv'
  BY <1>2, <1>10, SchedulesAssumption DEF PickSchedule, ClearOverride
<1> QED BY <1>3, <1>4, <1>5, <1>6, <1>7, <1>8, <1>9, <1>10 DEF SchedulesNext

\* For any agents, expressions and number of requests: the scheduler runs what the settings
\* say once the requests have been applied, one task per target, unless requests for one
\* target overlapped (PUT /api/config, setAgentScheduleOverride, DELETE /api/agents/:id).
THEOREM SchedulesAreApplied == SchedulesSpec => []TasksFollowRows
<1>1. SchedulesInit => SchedulesIInv
  BY SchedulesAssumption
     DEF SchedulesInit, SchedulesIInv, PutsTyped, GlobalIsSet, StoredIsThere, TasksFollowRows,
         At, Effective, ScheduleTarget
<1>2. SchedulesIInv => TasksFollowRows
  BY DEF SchedulesIInv
<1> QED BY <1>1, <1>2, ScheduleStep, PTL DEF SchedulesSpec

\* What waits in a timer, and who is connected.
ChecksTyped ==
  /\ raced \in SUBSET ScheduleTarget /\ connected \in SUBSET ScheduledAgent
  /\ delayed \in [ScheduledAgent -> 0..MaxDelayed]
  /\ lastRunMissed \in BOOLEAN /\ checkOnStartup \in BOOLEAN

LEMMA ChecksStep ==
  SchedulesIInv /\ ChecksTyped /\ [SchedulesNext]_schedulesVars => ChecksTyped'
<1> SUFFICES ASSUME SchedulesIInv, ChecksTyped, [SchedulesNext]_schedulesVars PROVE ChecksTyped'
  OBVIOUS
<1> USE DEF ChecksTyped
<1>1. CASE UNCHANGED schedulesVars
  BY <1>1 DEF schedulesVars, schedulerVars, recordVars
<1>2. ASSUME NEW w \in Put, NEW t, NEW cron, SendsPut(w, t, cron) PROVE ChecksTyped'
  BY <1>2 DEF SendsPut, schedulerVars, recordVars
<1>3. ASSUME NEW w \in Put, FindAgent(w) \/ ApplySchedule(w) PROVE ChecksTyped'
  BY <1>3 DEF FindAgent, ApplySchedule, schedulerVars, recordVars
<1>4. ASSUME NEW w \in Put, StoreSchedule(w) PROVE ChecksTyped'
  <2>1. puts[w] \in PutRequest
    BY <1>4 DEF StoreSchedule, At, SchedulesIInv, PutsTyped
  <2>2. puts[w].target \in ScheduleTarget
    BY <2>1 DEF PutRequest
  <2>3. raced' \in SUBSET ScheduleTarget
    BY <1>4, <2>2 DEF StoreSchedule
  <2> QED BY <1>4, <2>3 DEF StoreSchedule, schedulerVars
<1>5. ASSUME NEW a \in ScheduledAgent, DeleteScheduledAgent(a) \/ ConnectionOf(a) PROVE ChecksTyped'
  BY <1>5 DEF DeleteScheduledAgent, ConnectionOf, schedulerVars, recordVars
<1>6. ASSUME NEW a \in ScheduledAgent, AgentTaskFires(a) \/ DelayedCheckGoes(a) PROVE ChecksTyped'
  <2>1. PICK n : n = delayed[a]
    OBVIOUS
  <2>2. n \in 0..MaxDelayed /\ MaxDelayed \in Nat
    BY <2>1, SchedulesAssumption
  <2>3. \/ n < MaxDelayed /\ delayed' = [delayed EXCEPT ![a] = n + 1]
        \/ n > 0 /\ delayed' = [delayed EXCEPT ![a] = n - 1]
    BY <1>6, <2>1 DEF AgentTaskFires, DelayedCheckGoes
  <2>4. delayed' \in [ScheduledAgent -> 0..MaxDelayed]
    BY <2>2, <2>3
  <2> QED BY <1>6, <2>4 DEF AgentTaskFires, DelayedCheckGoes, recordVars
<1>7. CASE GlobalTaskFires
  <2>1. delayed' = [a \in ScheduledAgent |-> delayed[a] + (IF a \in Due THEN 1 ELSE 0)]
        /\ \A a \in Due : delayed[a] < MaxDelayed
    BY <1>7 DEF GlobalTaskFires, CheckStaggered
  <2>2. \A a \in ScheduledAgent : delayed[a] + (IF a \in Due THEN 1 ELSE 0) \in 0..MaxDelayed
    BY <2>1, SchedulesAssumption
  <2>3. delayed' \in [ScheduledAgent -> 0..MaxDelayed]
    BY <2>1, <2>2
  <2> QED BY <1>7, <2>3 DEF GlobalTaskFires
<1>8. CASE DayPasses \/ ToggleCheckOnStartup
  BY <1>8 DEF DayPasses, ToggleCheckOnStartup, schedulerVars
<1>9. CASE Restart
  <2>1. PICK online \in SUBSET ScheduledAgent :
          /\ connected' = online
          /\ delayed' = [a \in ScheduledAgent |-> IF a \in online /\ tasks'[a] = NoCron THEN 1 ELSE 0]
    BY <1>9 DEF Restart, SchedulesIInv, PutsTyped
  <2>2. delayed' \in [ScheduledAgent -> 0..MaxDelayed]
    BY <2>1, SchedulesAssumption
  <2> QED BY <1>9, <2>1, <2>2 DEF Restart, recordVars
<1> QED BY <1>1, <1>2, <1>3, <1>4, <1>5, <1>6, <1>7, <1>8, <1>9
        DEF SchedulesNext, PickSchedule, ClearOverride

\* For any agents, expressions and number of requests: what the scheduler keeps is what it
\* takes it for, and never more tasks of a target or delayed CHECKs than the bounds.
THEOREM SchedulesAreTyped == SchedulesSpec => []SchedulesTypeOK
<1>1. SchedulesInit => SchedulesIInv /\ ChecksTyped
  <2> SUFFICES ASSUME SchedulesInit PROVE SchedulesIInv /\ ChecksTyped
    OBVIOUS
  <2>1. SchedulesIInv
    BY SchedulesAssumption
       DEF SchedulesInit, SchedulesIInv, PutsTyped, GlobalIsSet, StoredIsThere, TasksFollowRows,
           At, Effective, ScheduleTarget
  <2>2. ChecksTyped
    <3>1. 0 \in 0..MaxDelayed
      BY SchedulesAssumption
    <3> QED BY <3>1 DEF SchedulesInit, ChecksTyped
  <2> QED BY <2>1, <2>2
<1>2. ASSUME SchedulesIInv, ChecksTyped PROVE SchedulesTypeOK
  <2>1. liveTasks \in [ScheduleTarget -> 0..MaxTasks]
    <3>1. liveTasks \in [ScheduleTarget -> Int] /\ \A t \in ScheduleTarget : liveTasks[t] \in {0, 1}
      BY <1>2 DEF SchedulesIInv, PutsTyped, TasksFollowRows
    <3>2. {0, 1} \subseteq 0..MaxTasks
      BY SchedulesAssumption
    <3> QED BY <3>1, <3>2
  <2> QED BY <1>2, <2>1 DEF SchedulesIInv, PutsTyped, ChecksTyped, SchedulesTypeOK
<1> QED BY <1>1, <1>2, ScheduleStep, ChecksStep, PTL DEF SchedulesSpec

-----------------------------------------------------------------------------
(* Registry credentials on their way to the agents.                          *)

Modal == [open : BOOLEAN, edit : Credential \cup {NoCredential},
          login : RegistryLogin \cup {BlankField}, password : Password \cup {BlankField}]

\* What handleSave has checked.
FilledIn(job) ==
  job.kind \in {"post", "put"} =>
    job.login \in RegistryLogin /\ (job.kind = "post" => job.password \in Password)

SyncsTyped ==
  /\ credentials \in Table
  /\ modal \in Modal
  /\ requests \in [Task -> Job \cup {NoRequest}]
  /\ pullerLogins \in [Puller -> Table]
  /\ connectedPullers \in SUBSET Puller /\ behind \in SUBSET Puller

FormsAreFilled == \A w \in Task : requests[w] # NoRequest => FilledIn(requests[w])

Under(w, pc) == requests[w] # NoRequest /\ requests[w].pc = pc
ForAll(w) == requests[w].kind # "register"
Covers(w, a) == ForAll(w) \/ a \in requests[w].agent

\* Whoever does not have the table will be sent it, or is marked.
WillHear ==
  \A a \in connectedPullers \ behind :
    \/ pullerLogins[a] = credentials
    \/ \E w \in Task : (Under(w, "stored") \/ Under(w, "read")) /\ Covers(w, a)

\* A list that is sent unmarked is the only one that was read, and is followed by another
\* for everybody when it is old.
ReadAlone ==
  \A w \in Task : Under(w, "read") /\ ~requests[w].overlapped =>
    /\ \A v \in Task : Under(v, "read") => v = w
    /\ \/ requests[w].list = credentials
       \/ \E v \in Task : Under(v, "stored") /\ ForAll(v)

SyncIInv == SyncsTyped /\ FormsAreFilled /\ WillHear /\ ReadAlone

\* A request that has changed nothing yet comes or goes.
LEMMA SyncUntouched ==
  ASSUME SyncIInv, NEW w \in Task, NEW r \in Job \cup {NoRequest},
         requests' = [requests EXCEPT ![w] = r],
         ~Under(w, "stored") /\ ~Under(w, "read"), r = NoRequest \/ (r.pc = "sent" /\ FilledIn(r)),
         modal' \in Modal,
         UNCHANGED <<credentials, connectedPullers, pullerLogins, behind>>
  PROVE  SyncIInv'
<1>1. /\ \A v \in Task : v # w => requests'[v] = requests[v]
      /\ requests'[w] = r
      /\ requests' \in [Task -> Job \cup {NoRequest}]
  BY DEF SyncIInv, SyncsTyped
<1>2. \A v \in Task, pc \in {"stored", "read"} :
        /\ Under(v, pc)' <=> Under(v, pc)
        /\ Under(v, pc) => requests'[v] = requests[v]
  BY <1>1 DEF Under
<1>3. SyncsTyped'
  BY <1>1 DEF SyncIInv, SyncsTyped
<1>4. WillHear'
  BY <1>2 DEF SyncIInv, WillHear, Covers, ForAll
<1>5. ReadAlone'
  BY <1>2 DEF SyncIInv, ReadAlone, ForAll
<1>6. FormsAreFilled'
  BY <1>1 DEF SyncIInv, FormsAreFilled, FilledIn
<1> QED BY <1>3, <1>4, <1>5, <1>6 DEF SyncIInv

\* The table has changed, and with it the request that will tell everybody.
LEMMA SyncStored ==
  ASSUME SyncIInv, NEW w \in Task, NEW table \in Table, Stored(w, table),
         Under(w, "sent"), ForAll(w)
  PROVE  SyncIInv'
<1>1. PICK r \in Job : /\ r.pc = "stored" /\ r.kind # "register" /\ FilledIn(r)
                       /\ requests' = [requests EXCEPT ![w] = r]
  <2>1. requests[w] \in Job
    BY DEF SyncIInv, SyncsTyped, Under
  <2>2. [requests[w] EXCEPT !.pc = "stored"] \in Job
    BY <2>1 DEF Job
  <2>3. requests' = [requests EXCEPT ![w] = [requests[w] EXCEPT !.pc = "stored"]]
    BY DEF Stored
  <2>4. PICK r : r = [requests[w] EXCEPT !.pc = "stored"]
    OBVIOUS
  <2>5. /\ r.pc = "stored" /\ r.kind = requests[w].kind
        /\ r.login = requests[w].login /\ r.password = requests[w].password
    BY <2>1, <2>4 DEF Job
  <2>6. FilledIn(r)
    BY <2>5 DEF SyncIInv, FormsAreFilled, FilledIn, Under
  <2> QED BY <2>2, <2>3, <2>4, <2>5, <2>6 DEF ForAll
<1>2. /\ credentials' = table
      /\ UNCHANGED <<modal, connectedPullers, pullerLogins, behind>>
  BY DEF Stored
<1>3. /\ requests'[w] = r /\ \A v \in Task : v # w => requests'[v] = requests[v]
      /\ requests' \in [Task -> Job \cup {NoRequest}]
  BY <1>1 DEF SyncIInv, SyncsTyped
<1>4. Under(w, "stored")' /\ ForAll(w)'
  BY <1>1, <1>3, NoRequestAssumption DEF Under, ForAll
<1>5. \A v \in Task : Under(v, "read")' => Under(v, "read") /\ requests'[v] = requests[v]
  BY <1>1, <1>3 DEF Under
<1>6. SyncsTyped'
  BY <1>2, <1>3 DEF SyncIInv, SyncsTyped
<1>7. WillHear'
  BY <1>4 DEF WillHear, Covers
<1>8. ReadAlone'
  BY <1>4, <1>5 DEF SyncIInv, ReadAlone
<1>9. FormsAreFilled'
  BY <1>1, <1>3 DEF SyncIInv, FormsAreFilled, FilledIn
<1> QED BY <1>6, <1>7, <1>8, <1>9 DEF SyncIInv

ReadBy(job, list, o) == [job EXCEPT !.pc = "read", !.list = list, !.overlapped = o]
Overlapping(job) == [job EXCEPT !.overlapped = TRUE]
SameFor(r, job) == /\ r.kind = job.kind /\ r.agent = job.agent
                   /\ r.login = job.login /\ r.password = job.password

\* A job that goes on keeps what it is for.
LEMMA JobReads ==
  ASSUME NEW job \in Job, NEW list \in Table, NEW o \in BOOLEAN
  PROVE  /\ ReadBy(job, list, o) \in Job /\ SameFor(ReadBy(job, list, o), job)
         /\ ReadBy(job, list, o).pc = "read" /\ ReadBy(job, list, o).list = list
         /\ ReadBy(job, list, o).overlapped = o
BY DEF Job, ReadBy, SameFor

LEMMA JobOverlaps ==
  ASSUME NEW job \in Job
  PROVE  /\ Overlapping(job) \in Job /\ SameFor(Overlapping(job), job)
         /\ Overlapping(job).pc = job.pc /\ Overlapping(job).list = job.list
         /\ Overlapping(job).overlapped
BY DEF Job, Overlapping, SameFor

\* The list is read: by nobody else, or by one who overlaps with all that have read.
LEMMA SyncRead ==
  ASSUME SyncIInv, NEW w \in Task, ReadList(w)
  PROVE  SyncIInv'
<1>1. /\ Under(w, "stored") /\ requests[w] \in Job
      /\ UNCHANGED <<credentials, modal, connectedPullers, pullerLogins, behind>>
  BY DEF ReadList, tableUnchanged, Under, SyncIInv, SyncsTyped
<1>2. PICK o \in BOOLEAN : o = (Reading # {})
  OBVIOUS
<1>3. PICK r \in Job : /\ r = ReadBy(requests[w], credentials, o)
                       /\ r.pc = "read" /\ r.list = credentials /\ r.overlapped = o
                       /\ SameFor(r, requests[w])
  <2>1. requests[w] \in Job /\ credentials \in Table
    BY <1>1 DEF SyncIInv, SyncsTyped
  <2> QED BY <2>1, JobReads
<1>4. /\ requests'[w] = r
      /\ \A v \in Task : v # w /\ v \in Reading => requests'[v] = Overlapping(requests[v])
      /\ \A v \in Task : v # w /\ v \notin Reading => requests'[v] = requests[v]
      /\ requests' = [v \in Task |-> requests'[v]]
  <2>1. requests' = [v \in Task |->
          CASE v = w -> ReadBy(requests[w], credentials, Reading # {})
            [] v \in Reading -> Overlapping(requests[v])
            [] OTHER -> requests[v]]
    BY Zenon DEF ReadList, ReadBy, Overlapping
  <2>2. w \notin Reading
    BY <1>1 DEF Reading, Under
  <2>3. requests'[w] = r
    <3>1. requests'[w] = ReadBy(requests[w], credentials, Reading # {})
      BY <2>1, <2>2
    <3>2. ReadBy(requests[w], credentials, Reading # {}) = r
      BY <1>2, <1>3
    <3> QED BY <3>1, <3>2
  <2>4. \A v \in Task : v # w /\ v \in Reading => requests'[v] = Overlapping(requests[v])
    BY <2>1
  <2>5. \A v \in Task : v # w /\ v \notin Reading => requests'[v] = requests[v]
    BY <2>1
  <2>6. requests' = [v \in Task |-> requests'[v]]
    BY <2>1
  <2> QED BY <2>3, <2>4, <2>5, <2>6
<1>5. \A v \in Task : v \in Reading => requests[v] \in Job /\ Under(v, "read")
  BY DEF Reading, SyncIInv, SyncsTyped, Under
<1>6. \A v \in Task : v # w /\ v \in Reading =>
        /\ requests'[v] \in Job /\ requests'[v].overlapped
        /\ Under(v, "read")' /\ SameFor(requests'[v], requests[v])
  BY <1>4, <1>5, JobOverlaps, NoRequestAssumption DEF Under
<1>7. requests' \in [Task -> Job \cup {NoRequest}]
  <2>1. \A v \in Task : requests'[v] \in Job \cup {NoRequest}
    BY <1>4, <1>6 DEF SyncIInv, SyncsTyped
  <2> QED BY <1>4, <2>1
<1>8. \A v \in Task : requests'[v] # NoRequest =>
        requests[v] # NoRequest /\ SameFor(requests'[v], requests[v])
  <2> SUFFICES ASSUME NEW v \in Task, requests'[v] # NoRequest
               PROVE  requests[v] # NoRequest /\ SameFor(requests'[v], requests[v])
    OBVIOUS
  <2>1. CASE v = w
    BY <2>1, <1>1, <1>3, <1>4 DEF Under
  <2>2. CASE v # w /\ v \in Reading
    BY <2>2, <1>5, <1>6 DEF Under
  <2>3. CASE v # w /\ v \notin Reading
    BY <2>3, <1>4 DEF SameFor
  <2> QED BY <2>1, <2>2, <2>3
<1>9. SyncsTyped'
  BY <1>1, <1>7 DEF SyncIInv, SyncsTyped
<1>10. FormsAreFilled'
  BY <1>8 DEF SyncIInv, FormsAreFilled, FilledIn, SameFor
<1>11. \A v \in Task : Under(v, "stored") \/ Under(v, "read") =>
         /\ Under(v, "stored")' \/ Under(v, "read")'
         /\ SameFor(requests'[v], requests[v])
  <2> SUFFICES ASSUME NEW v \in Task, Under(v, "stored") \/ Under(v, "read")
               PROVE  Under(v, "stored")' \/ Under(v, "read")'
    BY <1>8 DEF Under
  <2>1. CASE v = w
    BY <2>1, <1>3, <1>4, NoRequestAssumption DEF Under
  <2>2. CASE v # w /\ v \in Reading
    BY <2>2, <1>6
  <2>3. CASE v # w /\ v \notin Reading
    BY <2>3, <1>4 DEF Under
  <2> QED BY <2>1, <2>2, <2>3
<1>12. WillHear'
  BY <1>1, <1>11 DEF SyncIInv, WillHear, Covers, ForAll, SameFor
<1>13. ReadAlone'
  <2> SUFFICES ASSUME NEW v \in Task, Under(v, "read")', ~requests'[v].overlapped
               PROVE  /\ requests'[v].list = credentials'
                      /\ \A u \in Task : Under(u, "read")' => u = v
    BY DEF ReadAlone
  <2>1. \A u \in Task : u # w /\ u \notin Reading => ~Under(u, "read")'
    BY <1>4 DEF Reading, Under
  <2>2. v = w
    BY <1>6, <2>1
  <2>3. Reading = {}
    BY <2>2, <1>2, <1>3, <1>4
  <2> QED BY <1>1, <1>3, <1>4, <2>1, <2>2, <2>3
<1> QED BY <1>9, <1>10, <1>12, <1>13 DEF SyncIInv

\* The list is sent: if it is old and unmarked, a request that will tell everybody is left.
LEMMA SyncSent ==
  ASSUME SyncIInv, NEW w \in Task, SendList(w), modal' \in Modal
  PROVE  SyncIInv'
<1>1. /\ Under(w, "read") /\ requests[w] \in Job
      /\ UNCHANGED <<credentials, connectedPullers>>
      /\ requests' = [requests EXCEPT ![w] = NoRequest]
      /\ pullerLogins' = [a \in Puller |->
           IF a \in Audience(w) THEN requests[w].list ELSE pullerLogins[a]]
      /\ behind' = IF requests[w].overlapped THEN behind \cup Audience(w)
                   ELSE behind \ Audience(w)
  BY DEF SendList, Under, SyncIInv, SyncsTyped
<1>2. /\ requests'[w] = NoRequest
      /\ \A v \in Task : v # w => requests'[v] = requests[v]
      /\ requests' \in [Task -> Job \cup {NoRequest}]
  BY <1>1 DEF SyncIInv, SyncsTyped
<1>3. requests[w].list \in Table /\ Audience(w) \subseteq Puller
  BY <1>1 DEF Job, Audience, SyncIInv, SyncsTyped
<1>4. SyncsTyped'
  <2>1. pullerLogins' \in [Puller -> Table]
    BY <1>1, <1>3 DEF SyncIInv, SyncsTyped
  <2>2. behind' \in SUBSET Puller
    BY <1>1, <1>3 DEF SyncIInv, SyncsTyped
  <2> QED BY <1>1, <1>2, <2>1, <2>2 DEF SyncIInv, SyncsTyped
<1>5. FormsAreFilled'
  BY <1>2 DEF SyncIInv, FormsAreFilled
<1>6. \A a \in connectedPullers : a \in Audience(w) <=> Covers(w, a)
  BY DEF Audience, Covers, ForAll
<1>7. \A v \in Task, pc \in {"stored", "read"} : v # w /\ Under(v, pc) =>
        Under(v, pc)' /\ requests'[v] = requests[v]
  BY <1>2 DEF Under
<1>8. WillHear'
  <2> SUFFICES ASSUME NEW a \in connectedPullers, a \notin behind'
               PROVE  \/ pullerLogins'[a] = credentials
                      \/ \E v \in Task : (Under(v, "stored")' \/ Under(v, "read")') /\ Covers(v, a)'
    BY <1>1 DEF WillHear
  <2>1. a \in Puller
    BY DEF SyncIInv, SyncsTyped
  <2>2. CASE a \in Audience(w)
    <3>1. ~requests[w].overlapped /\ pullerLogins'[a] = requests[w].list
      BY <1>1, <2>1, <2>2
    <3>2. \/ requests[w].list = credentials
          \/ \E v \in Task : Under(v, "stored") /\ ForAll(v)
      BY <1>1, <3>1 DEF SyncIInv, ReadAlone
    <3>3. ASSUME NEW v \in Task, Under(v, "stored"), ForAll(v)
          PROVE  Under(v, "stored")' /\ Covers(v, a)'
      <4>1. v # w
        BY <1>1, <3>3 DEF Under
      <4> QED BY <1>7, <3>3, <4>1 DEF Covers, ForAll
    <3> QED BY <3>1, <3>2, <3>3
  <2>3. CASE a \notin Audience(w)
    <3>1. a \notin behind /\ pullerLogins'[a] = pullerLogins[a] /\ ~Covers(w, a)
      BY <1>1, <1>6, <2>1, <2>3
    <3>2. \/ pullerLogins[a] = credentials
          \/ \E v \in Task : (Under(v, "stored") \/ Under(v, "read")) /\ Covers(v, a)
      BY <3>1 DEF SyncIInv, WillHear
    <3> QED BY <1>7, <3>1, <3>2 DEF Covers, ForAll
  <2> QED BY <2>2, <2>3
<1>9. ReadAlone'
  <2> SUFFICES ASSUME NEW v \in Task, Under(v, "read")', ~requests'[v].overlapped
               PROVE  FALSE
    BY DEF ReadAlone
  <2>1. v # w /\ Under(v, "read") /\ ~requests[v].overlapped
    BY <1>2 DEF Under
  <2> QED BY <1>1, <2>1 DEF SyncIInv, ReadAlone
<1> QED BY <1>4, <1>5, <1>8, <1>9 DEF SyncIInv

\* A sync fails: those it was for are marked, and whoever has read is no longer alone.
LEMMA SyncFailed ==
  ASSUME SyncIInv, NEW w \in Task, SyncFails(w)
  PROVE  SyncIInv'
<1>1. /\ requests[w] \in Job
      /\ UNCHANGED <<credentials, modal, connectedPullers, pullerLogins>>
      /\ behind' = behind \cup Audience(w)
  BY DEF SyncFails, SyncIInv, SyncsTyped
<1>2. /\ requests'[w] = NoRequest
      /\ \A v \in Task : v # w /\ v \in Reading => requests'[v] = Overlapping(requests[v])
      /\ \A v \in Task : v # w /\ v \notin Reading => requests'[v] = requests[v]
      /\ requests' = [v \in Task |-> requests'[v]]
  <2>1. requests' = [v \in Task |->
          CASE v = w -> NoRequest
            [] v \in Reading \ {w} -> Overlapping(requests[v])
            [] OTHER -> requests[v]]
    BY Zenon DEF SyncFails, Overlapping
  <2>2. requests'[w] = NoRequest
    BY <2>1
  <2>3. \A v \in Task : v # w /\ v \in Reading => requests'[v] = Overlapping(requests[v])
    BY <2>1
  <2>4. \A v \in Task : v # w /\ v \notin Reading => requests'[v] = requests[v]
    BY <2>1
  <2>5. requests' = [v \in Task |-> requests'[v]]
    BY <2>1
  <2> QED BY <2>2, <2>3, <2>4, <2>5
<1>3. \A v \in Task : v \in Reading => requests[v] \in Job /\ Under(v, "read")
  BY DEF Reading, SyncIInv, SyncsTyped, Under
<1>4. \A v \in Task : v # w /\ v \in Reading =>
        /\ requests'[v] \in Job /\ requests'[v].overlapped
        /\ Under(v, "read")' /\ SameFor(requests'[v], requests[v])
  BY <1>2, <1>3, JobOverlaps, NoRequestAssumption DEF Under
<1>5. requests' \in [Task -> Job \cup {NoRequest}]
  <2>1. \A v \in Task : requests'[v] \in Job \cup {NoRequest}
    BY <1>2, <1>4 DEF SyncIInv, SyncsTyped
  <2> QED BY <1>2, <2>1
<1>6. \A v \in Task : requests'[v] # NoRequest =>
        requests[v] # NoRequest /\ SameFor(requests'[v], requests[v])
  <2> SUFFICES ASSUME NEW v \in Task, requests'[v] # NoRequest
               PROVE  requests[v] # NoRequest /\ SameFor(requests'[v], requests[v])
    OBVIOUS
  <2>1. CASE v \in Reading
    BY <2>1, <1>2, <1>3, <1>4 DEF Under
  <2>2. CASE v \notin Reading
    BY <2>2, <1>2 DEF SameFor
  <2> QED BY <2>1, <2>2
<1>7. SyncsTyped'
  <2>1. behind' \in SUBSET Puller
    BY <1>1 DEF Audience, SyncIInv, SyncsTyped
  <2> QED BY <1>1, <1>5, <2>1 DEF SyncIInv, SyncsTyped
<1>8. FormsAreFilled'
  BY <1>6 DEF SyncIInv, FormsAreFilled, FilledIn, SameFor
<1>9. \A v \in Task : v # w /\ (Under(v, "stored") \/ Under(v, "read")) =>
        /\ Under(v, "stored")' \/ Under(v, "read")'
        /\ SameFor(requests'[v], requests[v])
  <2> SUFFICES ASSUME NEW v \in Task, v # w, Under(v, "stored") \/ Under(v, "read")
               PROVE  Under(v, "stored")' \/ Under(v, "read")'
    BY <1>6 DEF Under
  <2>1. CASE v \in Reading
    BY <2>1, <1>4
  <2>2. CASE v \notin Reading
    BY <2>2, <1>2 DEF Under
  <2> QED BY <2>1, <2>2
<1>10. WillHear'
  <2>1. \A a \in connectedPullers : Covers(w, a) => a \in behind'
    BY <1>1 DEF Audience, Covers, ForAll
  <2> QED BY <1>1, <1>9, <2>1 DEF SyncIInv, WillHear, Covers, ForAll, SameFor
<1>11. ReadAlone'
  <2> SUFFICES ASSUME NEW v \in Task, Under(v, "read")', ~requests'[v].overlapped
               PROVE  FALSE
    BY DEF ReadAlone
  <2>1. v # w /\ v \notin Reading
    BY <1>2, <1>4 DEF Under
  <2> QED BY <1>2, <2>1 DEF Reading, Under
<1> QED BY <1>7, <1>8, <1>10, <1>11 DEF SyncIInv

\* An agent registers, and will be sent the list.
LEMMA SyncRegistered ==
  ASSUME SyncIInv, NEW w \in Task, NEW a \in Puller, PullerRegisters(w, a)
  PROVE  SyncIInv'
<1>1. PICK r \in Job : /\ r.pc = "stored" /\ r.kind = "register" /\ r.agent = {a}
                       /\ requests' = [requests EXCEPT ![w] = r]
  <2>1. NoCredentials \in Table
    BY DEF NoCredentials, Table
  <2>2. PICK job : job = NewJob("register", NoCredential, BlankField, BlankField)
    OBVIOUS
  <2>3. job \in Job /\ job.kind = "register"
    BY <2>1, <2>2 DEF NewJob, Job
  <2>4. PICK r : r = [job EXCEPT !.pc = "stored", !.agent = {a}]
    OBVIOUS
  <2>5. r \in Job /\ r.pc = "stored" /\ r.kind = "register" /\ r.agent = {a}
    BY <2>3, <2>4 DEF Job
  <2>6. requests' = [requests EXCEPT ![w] = r]
    BY <2>2, <2>4 DEF PullerRegisters
  <2> QED BY <2>5, <2>6
<1>2. /\ requests[w] = NoRequest
      /\ connectedPullers' = connectedPullers \cup {a} /\ behind' = behind \ {a}
      /\ UNCHANGED <<credentials, modal, pullerLogins>>
  BY DEF PullerRegisters
<1>3. /\ requests'[w] = r /\ \A v \in Task : v # w => requests'[v] = requests[v]
      /\ requests' \in [Task -> Job \cup {NoRequest}]
  BY <1>1 DEF SyncIInv, SyncsTyped
<1>4. SyncsTyped'
  BY <1>2, <1>3 DEF SyncIInv, SyncsTyped
<1>5. FormsAreFilled'
  BY <1>1, <1>3 DEF SyncIInv, FormsAreFilled, FilledIn
<1>6. \A v \in Task, pc \in {"stored", "read"} : Under(v, pc) =>
        Under(v, pc)' /\ requests'[v] = requests[v]
  BY <1>2, <1>3 DEF Under
<1>7. Under(w, "stored")' /\ Covers(w, a)'
  BY <1>1, <1>3, NoRequestAssumption DEF Under, Covers
<1>8. WillHear'
  BY <1>2, <1>6, <1>7 DEF SyncIInv, WillHear, Covers, ForAll
<1>9. \A v \in Task : Under(v, "read")' => Under(v, "read") /\ requests'[v] = requests[v]
  BY <1>1, <1>3 DEF Under
<1>10. ReadAlone'
  BY <1>2, <1>6, <1>9 DEF SyncIInv, ReadAlone, ForAll
<1> QED BY <1>4, <1>5, <1>8, <1>10 DEF SyncIInv

\* No step leaves an agent behind that is not marked.
LEMMA SyncStep == SyncIInv /\ [RegistriesNext]_registriesVars => SyncIInv'
<1> SUFFICES ASSUME SyncIInv, [RegistriesNext]_registriesVars PROVE SyncIInv'
  OBVIOUS
<1>1. ASSUME modal' \in Modal, UNCHANGED requests, tableUnchanged
      PROVE  SyncIInv'
  BY <1>1 DEF tableUnchanged, SyncIInv, SyncsTyped, FormsAreFilled, FilledIn, WillHear, ReadAlone,
              Under, Covers, ForAll
<1>2. modal \in Modal
  BY DEF SyncIInv, SyncsTyped
<1>3. ASSUME NEW kind \in {"post", "put", "delete"}, NEW c \in Credential \cup {NoCredential},
             NEW login \in RegistryLogin \cup {BlankField},
             NEW password \in Password \cup {BlankField}
      PROVE  LET job == NewJob(kind, c, login, password) IN
               /\ job \in Job /\ job.pc = "sent" /\ job.kind = kind
               /\ job.login = login /\ job.password = password
  BY DEF NewJob, Job, NoCredentials, Table
<1>4. CASE UNCHANGED registriesVars
  BY <1>1, <1>2, <1>4 DEF registriesVars, tableUnchanged
<1>5. ASSUME NEW c \in Credential \cup {NoCredential}, OpenModal(c)
      PROVE  SyncIInv'
  BY <1>1, <1>2, <1>5 DEF OpenModal, Modal
<1>6. ASSUME NEW login \in RegistryLogin, NEW password \in Password \cup {BlankField},
             FillModal(login, password)
      PROVE  SyncIInv'
  BY <1>1, <1>2, <1>6 DEF FillModal, Modal
<1>7. CASE CloseModal
  BY <1>1, <1>2, <1>7 DEF CloseModal, Modal
<1>8. ASSUME NEW w \in Task, SaveCredential(w)
      PROVE  SyncIInv'
  <2>1. PICK kind \in {"post", "put", "delete"} :
          kind = IF modal.edit = NoCredential THEN "post" ELSE "put"
    OBVIOUS
  <2>2. /\ modal.edit \in Credential \cup {NoCredential}
        /\ modal.login \in RegistryLogin \cup {BlankField}
        /\ modal.password \in Password \cup {BlankField}
    BY <1>2 DEF Modal
  <2>3. PICK job : job = NewJob(kind, modal.edit, modal.login, modal.password)
    OBVIOUS
  <2>4. /\ job \in Job /\ job.pc = "sent" /\ job.kind = kind
        /\ job.login = modal.login /\ job.password = modal.password
    BY <1>3, <2>2, <2>3
  <2>5. FilledIn(job)
    BY <1>8, <2>1, <2>2, <2>4 DEF SaveCredential, FilledIn
  <2>6. /\ requests' = [requests EXCEPT ![w] = job]
        /\ UNCHANGED modal /\ tableUnchanged /\ requests[w] = NoRequest
    BY <1>8, <2>1, <2>3 DEF SaveCredential
  <2> QED BY <1>2, <2>4, <2>5, <2>6, SyncUntouched DEF tableUnchanged, Under
<1>9. ASSUME NEW w \in Task, NEW c \in Credential, RemoveCredential(w, c)
      PROVE  SyncIInv'
  <2>1. PICK job : job = NewJob("delete", c, BlankField, BlankField)
    OBVIOUS
  <2>2. job \in Job /\ job.pc = "sent" /\ FilledIn(job)
    BY <1>3, <2>1 DEF FilledIn
  <2>3. /\ requests' = [requests EXCEPT ![w] = job]
        /\ UNCHANGED modal /\ tableUnchanged /\ requests[w] = NoRequest
    BY <1>9, <2>1 DEF RemoveCredential
  <2> QED BY <1>2, <2>2, <2>3, SyncUntouched DEF tableUnchanged, Under
<1>10. ASSUME NEW w \in Task, CredentialNotFound(w)
       PROVE  SyncIInv'
  BY <1>2, <1>10, SyncUntouched DEF CredentialNotFound, tableUnchanged, Under
<1>11. ASSUME NEW w \in Task, NEW c \in Credential, PostCredential(w, c)
       PROVE  SyncIInv'
  <2>1. PICK entry \in Entry : entry = [login |-> requests[w].login, password |-> requests[w].password]
    BY <1>11 DEF PostCredential, RequestRuns, SyncIInv, FormsAreFilled, FilledIn, Entry
  <2>2. PICK table \in Table : table = [credentials EXCEPT ![c] = entry]
    BY DEF SyncIInv, SyncsTyped, Table
  <2>3. Stored(w, table) /\ Under(w, "sent") /\ ForAll(w)
    BY <1>11, <2>1, <2>2 DEF PostCredential, RequestRuns, Under, ForAll
  <2> QED BY <2>3, SyncStored
<1>12. ASSUME NEW w \in Task, PutCredential(w)
       PROVE  SyncIInv'
  <2>1. /\ requests[w] \in Job /\ requests[w].login \in RegistryLogin
        /\ requests[w].password \in Password \cup {BlankField} /\ credentials \in Table
    BY <1>12 DEF PutCredential, RequestRuns, SyncIInv, SyncsTyped, FormsAreFilled, FilledIn, Job
  <2>2. PICK c : c = requests[w].id
    OBVIOUS
  <2>3. PICK table \in Table : Stored(w, table)
    <3>1. CASE credentials[c] = NoCredential
      BY <1>12, <2>1, <2>2, <3>1 DEF PutCredential
    <3>2. CASE credentials[c] # NoCredential
      <4>1. PICK entry : entry = [login |-> requests[w].login,
                                  password |-> Kept(requests[w].password, credentials[c].password)]
        OBVIOUS
      <4>2. PICK table : table = [credentials EXCEPT ![c] = entry]
        OBVIOUS
      <4>3. c \in Credential => entry \in Entry
        BY <2>1, <3>2, <4>1 DEF Kept, Entry, Table
      <4>4. table \in Table
        BY <2>1, <4>2, <4>3 DEF Table
      <4>5. Stored(w, table)
        <5>1. CASE c \in Credential
          <6>1. table = [credentials EXCEPT ![c] =
                          [login |-> requests[w].login,
                           password |-> Kept(requests[w].password, @.password)]]
            BY <4>1, <4>2
          <6> QED BY <1>12, <2>2, <3>2, <6>1 DEF PutCredential
        <5>2. CASE c \notin Credential
          <6>1. table = [credentials EXCEPT ![c] =
                          [login |-> requests[w].login,
                           password |-> Kept(requests[w].password, @.password)]]
            BY <4>1, <4>2
          <6> QED BY <1>12, <2>2, <3>2, <6>1 DEF PutCredential
        <5> QED BY <5>1, <5>2
      <4> QED BY <4>4, <4>5
    <3> QED BY <3>1, <3>2
  <2>4. Under(w, "sent") /\ ForAll(w)
    BY <1>12 DEF PutCredential, RequestRuns, Under, ForAll
  <2> QED BY <2>3, <2>4, SyncStored
<1>13. ASSUME NEW w \in Task, DeleteCredential(w)
       PROVE  SyncIInv'
  <2>1. PICK table : table = [credentials EXCEPT ![requests[w].id] = NoCredential]
    OBVIOUS
  <2>2. table \in Table
    BY <2>1 DEF SyncIInv, SyncsTyped, Table
  <2>3. Stored(w, table) /\ Under(w, "sent") /\ ForAll(w)
    BY <1>13, <2>1 DEF DeleteCredential, RequestRuns, Under, ForAll
  <2> QED BY <2>2, <2>3, SyncStored
<1>14. ASSUME NEW w \in Task, SendList(w)
       PROVE  SyncIInv'
  <2>1. modal' \in Modal
    <3>1. Confirmed(w)
      BY <1>14 DEF SendList
    <3>2. CASE requests[w].kind = "post"
      <4>1. \/ modal' = modal
            \/ modal' = [open |-> FALSE, edit |-> NoCredential,
                         login |-> BlankField, password |-> BlankField]
        BY <3>1, <3>2, Zenon DEF Confirmed
      <4>2. [open |-> FALSE, edit |-> NoCredential,
             login |-> BlankField, password |-> BlankField] \in Modal
        BY DEF Modal
      <4> QED BY <1>2, <4>1, <4>2, Zenon
    <3>3. CASE requests[w].kind = "put"
      BY <1>2, <3>1, <3>3 DEF Confirmed, Modal
    <3>4. CASE requests[w].kind \notin {"post", "put"}
      BY <1>2, <3>1, <3>4 DEF Confirmed
    <3> QED BY <3>2, <3>3, <3>4
  <2> QED BY <1>14, <2>1, SyncSent
<1>15. ASSUME NEW a \in Puller, PullerLeaves(a)
       PROVE  SyncIInv'
  BY <1>15 DEF PullerLeaves, SyncIInv, SyncsTyped, FormsAreFilled, FilledIn, WillHear, ReadAlone,
               Under, Covers, ForAll
<1> QED BY <1>4, <1>5, <1>6, <1>7, <1>8, <1>9, <1>10, <1>11, <1>12, <1>13, <1>14, <1>15,
           SyncRead, SyncFailed, SyncRegistered DEF RegistriesNext

\* For any credentials, agents and number of requests: once no request is under way, every
\* agent that is connected pulls with the credentials of the table, unless its last sync
\* overlapped with another one or failed (syncCredentialsToAgents, syncCredentialsToAgent).
THEOREM SyncsReachAgents == RegistriesSpec => []CredentialsReachAgents
<1>1. RegistriesInit => SyncIInv
  BY DEF RegistriesInit, SyncIInv, SyncsTyped, FormsAreFilled, WillHear, ReadAlone, Under,
         Modal, Table, NoCredentials
<1>2. SyncIInv => CredentialsReachAgents
  BY DEF SyncIInv, WillHear, CredentialsReachAgents, Under
<1> QED BY <1>1, <1>2, SyncStep, PTL DEF RegistriesSpec

\* For any credentials, agents and number of requests: the table holds whole credentials, and
\* so does the list that an agent has, whatever was sent or is missing (RegistryModal, the
\* routes and syncCredentialsToAgents).
THEOREM CredentialsAreTyped == RegistriesSpec => []RegistriesTypeOK
<1>1. RegistriesInit => SyncIInv
  BY DEF RegistriesInit, SyncIInv, SyncsTyped, FormsAreFilled, WillHear, ReadAlone, Under,
         Modal, Table, NoCredentials
<1>2. SyncIInv => RegistriesTypeOK
  BY DEF SyncIInv, SyncsTyped, Modal, RegistriesTypeOK
<1> QED BY <1>1, <1>2, SyncStep, PTL DEF RegistriesSpec
=============================================================================
