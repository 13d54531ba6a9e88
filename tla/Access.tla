------------------------------- MODULE Access -------------------------------
(***************************************************************************)
(* Sessions, API tokens and the dialogs that show a secret once: the web   *)
(* UI's login, ApiTokensTab, RegenerateTokenModal and RegisterAgentModal,  *)
(* the routes auth.ts and api-tokens.ts with their queries, and            *)
(* requireApiToken, which the integration API stands behind.               *)
(*                                                                         *)
(* A secret is its row: names, hashes, prefixes and scopes are left out. A *)
(* dialog's request is sent, stored and answered; it is bounded to one at  *)
(* a time, also when the page that sent it is gone.                        *)
(***************************************************************************)
EXTENDS Naturals, FiniteSets

CONSTANTS
  Secret,
  Use,       \* requests to the integration API under way
  NoSecret

ASSUME AccessAssumption == NoSecret \notin Secret

VARIABLES
  secrets,   \* rows: of API tokens, and of agents that have a new token
  expired,   \* API tokens that are past expires_at
  uses,      \* requests to the integration API
  revoking,  \* tokens DELETE has found and not revoked yet
  dialogs,   \* createOpen and createdToken; open and token; open and result
  asks,      \* the mutation of each dialog
  displays,  \* how many openings of a dialog have shown a secret
  lost,      \* secrets whose answer an error, or leaving the page, has kept from anyone
  cookie,    \* the browser has a session cookie that is valid
  signedIn,  \* authToken
  refused,   \* a 401 is on its way to the browser
  leaving    \* so is a logout to the controller

tokenVars == <<secrets, expired, uses, revoking>>
sessionVars == <<cookie, signedIn, refused, leaving>>
dialogVars == <<dialogs, asks, displays, lost>>
accessVars == <<tokenVars, dialogVars, sessionVars>>

-----------------------------------------------------------------------------
Dialog == {"create", "regenerate", "register"}
DialogClosed == [open |-> FALSE, secret |-> NoSecret]
NotAsked == [pc |-> "none", secret |-> NoSecret, heard |-> TRUE]
NoUse == [pc |-> "none", secret |-> NoSecret, valid |-> FALSE, wasLive |-> FALSE]

AccessTypeOK ==
  /\ secrets \in [Secret -> {"none", "live", "revoked", "regenerated", "registered"}]
  /\ {expired, revoking, lost} \subseteq SUBSET Secret
  /\ uses \in [Use -> [pc : {"none", "arrived", "read", "admitted"},
                       secret : Secret \cup {NoSecret}, valid : BOOLEAN, wasLive : BOOLEAN]]
  /\ dialogs \in [Dialog -> [open : BOOLEAN, secret : Secret \cup {NoSecret}]]
  /\ asks \in [Dialog -> [pc : {"none", "sent", "stored"},
                          secret : Secret \cup {NoSecret}, heard : BOOLEAN]]
  /\ displays \in [Secret -> 0..2]
  /\ {cookie, signedIn, refused, leaving} \subseteq BOOLEAN

AccessInit ==
  /\ secrets = [s \in Secret |-> "none"]
  /\ expired = {} /\ revoking = {} /\ lost = {}
  /\ uses = [u \in Use |-> NoUse]
  /\ dialogs = [d \in Dialog |-> DialogClosed]
  /\ asks = [d \in Dialog |-> NotAsked]
  /\ displays = [s \in Secret |-> 0]
  /\ cookie = FALSE /\ signedIn = FALSE /\ refused = FALSE /\ leaving = FALSE

-----------------------------------------------------------------------------
(* The session.                                                              *)

\* POST /api/auth/login with the right password, which sets the cookie.
Login ==
  /\ ~signedIn
  /\ signedIn' = TRUE
  /\ cookie' = TRUE
  /\ UNCHANGED <<tokenVars, dialogVars, refused, leaving>>

\* What pages show goes with them; an answer still to come finds nobody.
Unmount(ds) ==
  /\ dialogs' = [d \in Dialog |-> IF d \in ds THEN DialogClosed ELSE dialogs[d]]
  /\ asks' = [d \in Dialog |->
       IF d \in ds /\ asks[d].pc # "none" THEN [asks[d] EXCEPT !.heard = FALSE] ELSE asks[d]]
  /\ lost' = lost \cup ({dialogs[d].secret : d \in {e \in ds : ~dialogs[e].open}} \ {NoSecret})
                  \cup ({asks[d].secret : d \in ds} \ {NoSecret})
  /\ UNCHANGED <<tokenVars, displays>>

\* The button Logout does not wait for the controller.
Logout ==
  /\ signedIn
  /\ signedIn' = FALSE
  /\ leaving' = TRUE
  /\ Unmount(Dialog)
  /\ UNCHANGED <<cookie, refused>>

\* POST /api/auth/logout clears the cookie the browser has by then, if it arrives.
LogoutArrives ==
  /\ leaving
  /\ leaving' = FALSE
  /\ cookie' \in {cookie, FALSE}
  /\ UNCHANGED <<tokenVars, dialogVars, signedIn, refused>>

\* The token in the cookie is two hours old.
SessionExpires ==
  /\ cookie
  /\ cookie' = FALSE
  /\ UNCHANGED <<tokenVars, dialogVars, signedIn, refused, leaving>>

\* requireAuth turns down some query of the page.
QueryRefused ==
  /\ signedIn /\ ~cookie
  /\ refused' = TRUE
  /\ UNCHANGED <<tokenVars, dialogVars, cookie, signedIn, leaving>>

\* apiRequest: a 401 ends the session in the browser, also one that began since.
RefusalArrives ==
  /\ refused
  /\ refused' = FALSE
  /\ signedIn' = FALSE
  /\ IF signedIn THEN Unmount(Dialog) ELSE UNCHANGED <<tokenVars, dialogVars>>
  /\ UNCHANGED <<cookie, leaving>>

\* The page is loaded anew and asks /api/auth/me.
Reload ==
  /\ signedIn
  /\ signedIn' = cookie
  /\ refused' = FALSE
  /\ Unmount(Dialog)
  /\ UNCHANGED <<cookie, leaving>>

-----------------------------------------------------------------------------
(* The dialogs.                                                              *)

Display(s) ==
  displays' = IF s = NoSecret \/ displays[s] = 2 THEN displays ELSE [displays EXCEPT ![s] = @ + 1]

\* A dialog that has got its answer while it was closed shows it now.
OpenDialog(d) ==
  /\ signedIn
  /\ \A e \in Dialog : ~dialogs[e].open
  /\ dialogs' = [dialogs EXCEPT ![d].open = TRUE]
  /\ Display(dialogs[d].secret)
  /\ UNCHANGED <<tokenVars, asks, lost, sessionVars>>

\* Mutant: closing by the corner or the Escape key leaves the state as it is.
HandleClose_KeepsSecret(d) ==
  /\ dialogs[d].open
  /\ dialogs' = [dialogs EXCEPT ![d].open = FALSE]
  /\ UNCHANGED <<tokenVars, asks, displays, lost, sessionVars>>

\* handleCloseCreate(false) and resetAndClose.
HandleClose(d) ==
  /\ dialogs[d].open
  /\ dialogs' = [dialogs EXCEPT ![d] = DialogClosed]
  /\ UNCHANGED <<tokenVars, asks, displays, lost, sessionVars>>

\* RegisterAgentModal does not reset when it is closed other than by its buttons.
EscapeRegister ==
  /\ dialogs["register"].open
  /\ dialogs' = [dialogs EXCEPT !["register"].open = FALSE]
  /\ UNCHANGED <<tokenVars, asks, displays, lost, sessionVars>>

LeavePage(d) ==
  /\ signedIn
  /\ Unmount({d})
  /\ UNCHANGED sessionVars

Asks(d) ==
  /\ dialogs[d] = [open |-> TRUE, secret |-> NoSecret]
  /\ asks[d] = NotAsked
  /\ IF cookie
     THEN asks' = [asks EXCEPT ![d].pc = "sent"] /\ UNCHANGED refused
     ELSE refused' = TRUE /\ UNCHANGED asks
  /\ UNCHANGED <<tokenVars, dialogs, displays, lost, cookie, signedIn, leaving>>

HandleCreate == Asks("create")
HandleRegenerate == Asks("regenerate")
HandleRegister == Asks("register")

Stores(d, s, state) ==
  /\ asks[d].pc = "sent"
  /\ secrets[s] = "none"
  /\ secrets' = [secrets EXCEPT ![s] = state]
  /\ asks' = [asks EXCEPT ![d].pc = "stored", ![d].secret = s]
  /\ lost' = IF asks[d].heard THEN lost ELSE lost \cup {s}
  /\ UNCHANGED <<expired, uses, revoking, dialogs, displays, sessionVars>>

\* POST /api/api-tokens, .../regenerate-token and .../register up to the write.
CreateApiToken(s) == Stores("create", s, "live")
RegenerateAgentToken(s) == Stores("regenerate", s, "regenerated")
RegisterNewAgent(s) == Stores("register", s, "registered")

\* onSuccess, if the component is still there.
SecretArrives(d) ==
  /\ asks[d].pc = "stored"
  /\ asks' = [asks EXCEPT ![d] = NotAsked]
  /\ IF asks[d].heard
     THEN /\ dialogs' = [dialogs EXCEPT ![d].secret = asks[d].secret]
          /\ IF dialogs[d].open THEN Display(asks[d].secret) ELSE UNCHANGED displays
     ELSE UNCHANGED <<dialogs, displays>>
  /\ UNCHANGED <<tokenVars, lost, sessionVars>>

\* The request fails, before the write, or after it: the audit entry of an API token
\* cannot be made, or the answer gets lost.
AskFails(d) ==
  /\ asks[d].pc # "none"
  /\ asks' = [asks EXCEPT ![d] = NotAsked]
  /\ lost' = lost \cup ({asks[d].secret} \ {NoSecret})
  /\ UNCHANGED <<tokenVars, dialogs, displays, sessionVars>>

-----------------------------------------------------------------------------
(* API tokens.                                                               *)

\* DELETE /api/api-tokens/:id from the button Revoke: one that is revoked is a 409.
HandleRevoke(s) ==
  /\ signedIn /\ cookie
  /\ secrets[s] = "live"
  /\ revoking' = revoking \cup {s}
  /\ UNCHANGED <<secrets, expired, uses, dialogVars, sessionVars>>

RevokeApiToken(s) ==
  /\ s \in revoking
  /\ revoking' = revoking \ {s}
  /\ secrets' = [secrets EXCEPT ![s] = "revoked"]
  /\ UNCHANGED <<expired, uses, dialogVars, sessionVars>>

TokenExpires(s) ==
  /\ secrets[s] = "live"
  /\ expired' = expired \cup {s}
  /\ UNCHANGED <<secrets, uses, revoking, dialogVars, sessionVars>>

\* A request to the integration API arrives; wasLive remembers what its token was then.
UseToken(u, s) ==
  /\ uses[u] = NoUse
  /\ secrets[s] \in {"live", "revoked"}
  /\ uses' = [uses EXCEPT ![u] = [pc |-> "arrived", secret |-> s, valid |-> FALSE,
                                  wasLive |-> secrets[s] = "live" /\ s \notin expired]]
  /\ UNCHANGED <<secrets, expired, revoking, dialogVars, sessionVars>>

\* Mutant: the query returns revoked tokens as well, and the row is not looked at.
IsCandidate_Any(s) == secrets[s] # "none"

\* listApiTokensByPrefix: revoked_at IS NULL.
IsCandidate(s) == secrets[s] = "live"

ReadCandidateTokens(u) ==
  /\ uses[u].pc = "arrived"
  /\ uses' = [uses EXCEPT ![u].pc = "read", ![u].valid = IsCandidate(uses[u].secret)]
  /\ UNCHANGED <<secrets, expired, revoking, dialogVars, sessionVars>>

\* The rest of requireApiToken, with the row it has read and the time it is now, and
\* requireScope, which may refuse as well.
CheckToken(u) ==
  /\ uses[u].pc = "read"
  /\ uses' \in {[uses EXCEPT ![u] = NoUse]} \cup
       (IF uses[u].valid /\ uses[u].secret \notin expired
        THEN {[uses EXCEPT ![u].pc = "admitted"]} ELSE {})
  /\ UNCHANGED <<secrets, expired, revoking, dialogVars, sessionVars>>

UseEnds(u) ==
  /\ uses[u].pc = "admitted"
  /\ uses' = [uses EXCEPT ![u] = NoUse]
  /\ UNCHANGED <<secrets, expired, revoking, dialogVars, sessionVars>>

AccessNext ==
  \/ Login \/ Logout \/ LogoutArrives \/ SessionExpires
  \/ QueryRefused \/ RefusalArrives \/ Reload
  \/ \E d \in Dialog :
       \/ OpenDialog(d) \/ HandleClose(d) \/ LeavePage(d)
       \/ SecretArrives(d) \/ AskFails(d)
  \/ EscapeRegister \/ HandleCreate \/ HandleRegenerate \/ HandleRegister
  \/ \E s \in Secret :
       \/ CreateApiToken(s) \/ RegenerateAgentToken(s) \/ RegisterNewAgent(s)
       \/ HandleRevoke(s) \/ RevokeApiToken(s) \/ TokenExpires(s)
       \/ \E u \in Use : UseToken(u, s)
  \/ \E u \in Use : ReadCandidateTokens(u) \/ CheckToken(u) \/ UseEnds(u)

AccessSpec == AccessInit /\ [][AccessNext]_accessVars

-----------------------------------------------------------------------------
\* A request that arrives after its token was revoked, or had expired, is not admitted,
\* whatever is revoked, and by whom, while it goes on (requireApiToken, DELETE).
RevokedStaysOut == \A u \in Use : uses[u].pc = "admitted" => uses[u].wasLive

\* A secret that was issued is shown, and by one opening of its dialog: an answer that
\* comes when the dialog is closed is kept for the next one, and only an error, or leaving
\* the page, loses it. RegisterAgentModal may show the one it has again.
SecretsAreShownOnce ==
  \A s \in Secret :
    /\ displays[s] > 1 => secrets[s] = "registered"
    /\ secrets[s] # "none" /\ displays[s] = 0 /\ s \notin lost =>
         \E d \in Dialog : asks[d].secret = s \/ dialogs[d].secret = s
=============================================================================
