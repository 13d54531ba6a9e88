--------------------------- MODULE UpdatePolicies ---------------------------
(***************************************************************************)
(* Update policies: the stability card of an agent's page, PUT             *)
(* /api/update-policies of controller/src/api/routes/config.ts and the     *)
(* queries under it. A request carries one field and stores a whole row,   *)
(* made from the policy in effect when it read it.                         *)
(***************************************************************************)
EXTENDS Naturals, FiniteSets

CONSTANTS
  PolicyAgent,
  PolicyField,
  PolicyValue,
  DefaultPolicy, \* what getEffectivePolicy makes up without a row
  NoPolicy,
  Edit,          \* edits under way at a time
  NoEdit

ASSUME PoliciesAssumption ==
  /\ "global" \notin PolicyAgent
  /\ DefaultPolicy \in [PolicyField -> PolicyValue]
  /\ NoPolicy \notin [PolicyField -> PolicyValue]

VARIABLES
  policies,    \* the table update_policies
  edits,       \* requests: what the policy is to be once they have read it
  intermingled \* some edit has read since another one did that had not stored yet

policiesVars == <<policies, edits, intermingled>>

-----------------------------------------------------------------------------
Scope == PolicyAgent \cup {"global"}
Policy == [PolicyField -> PolicyValue]

PoliciesTypeOK ==
  /\ policies \in [Scope -> Policy \cup {NoPolicy}]
  /\ edits \in [Edit -> [scope : Scope, policy : Policy] \cup {NoEdit}]
  /\ intermingled \in BOOLEAN

PoliciesInit ==
  /\ policies = [s \in Scope |-> NoPolicy]
  /\ edits = [w \in Edit |-> NoEdit]
  /\ intermingled = FALSE

\* getEffectivePolicy: an agent's own, or the global one, or the default.
EffectivePolicy(s) ==
  CASE policies[s] # NoPolicy -> policies[s]
    [] policies[s] = NoPolicy /\ policies["global"] # NoPolicy -> policies["global"]
    [] OTHER -> DefaultPolicy

\* Mutant: what the request does not say is set to the defaults.
Merged_Defaults(s, f, v) == [DefaultPolicy EXCEPT ![f] = v]

\* What the request does not say is as it is in effect.
Merged(s, f, v) == [EffectivePolicy(s) EXCEPT ![f] = v]

\* An input loses the focus or a switch is turned: the route checks the scope and reads
\* the policy in effect.
EditPolicy(w, s, f, v) ==
  /\ edits[w] = NoEdit
  /\ edits' = [edits EXCEPT ![w] = [scope |-> s, policy |-> Merged(s, f, v)]]
  /\ intermingled' = (\E u \in Edit : edits[u] # NoEdit)
  /\ UNCHANGED policies

\* upsertUpdatePolicy.
StorePolicy(w) ==
  /\ edits[w] # NoEdit
  /\ policies' = [policies EXCEPT ![edits[w].scope] = edits[w].policy]
  /\ edits' = [edits EXCEPT ![w] = NoEdit]
  /\ UNCHANGED intermingled

\* The controller ends between the two queries.
EditLost(w) ==
  /\ edits[w] # NoEdit
  /\ edits' = [edits EXCEPT ![w] = NoEdit]
  /\ UNCHANGED <<policies, intermingled>>

PoliciesNext ==
  \E w \in Edit :
    \/ \E s \in Scope, f \in PolicyField, v \in PolicyValue : EditPolicy(w, s, f, v)
    \/ StorePolicy(w) \/ EditLost(w)

PoliciesSpec == PoliciesInit /\ [][PoliciesNext]_policiesVars

-----------------------------------------------------------------------------
\* An edit changes the field it is about and no other in what is in effect for its scope,
\* unless it was intermingled with another (PUT /api/update-policies).
EditsKeepOtherFields ==
  [][\A s \in Scope :
       policies'[s] # policies[s] /\ ~intermingled =>
         Cardinality({f \in PolicyField : policies'[s][f] # EffectivePolicy(s)[f]}) <= 1
    ]_policiesVars
=============================================================================
