---------------------------- MODULE Entitlements ----------------------------
(****************************************************************************)
(* What a browser believes its player has paid for.                         *)
(*                                                                          *)
(* src/core/entitlements.js keeps the entitlements and a school license     *)
(* request in localStorage, which the pages share; each call reads and      *)
(* writes them at once.  src/core/billing.js asks the server which billing  *)
(* is in use, keeps the answer for a minute, and applies a snapshot of the  *)
(* subscriptions whenever one arrives: snapshots overlap and arrive in any  *)
(* order.  With local billing a checkout is an intent with a token that the *)
(* pricing page completes or clears.                                        *)
(****************************************************************************)
EXTENDS Naturals

CONSTANTS
  Page,         \* pages of one browser
  MaxTokens,    \* bound on checkout intents and school license requests
  MaxAnswers    \* bound on snapshots asked for

EntitlementsAssumption == MaxTokens \in Nat /\ MaxAnswers \in Nat

VARIABLES
  ent,        \* localStorage: entitlements, with the checkout's status and token (0: none)
  request,    \* localStorage: the school license request
  config,     \* the billing configuration each page keeps, and whether it is fresh
  server,     \* what the subscriptions give, on the server
  answer,     \* snapshots on their way: by whom asked, and what they say
  token, asked,
  completed,  \* tokens whose checkout was completed
  applied     \* the last snapshot applied
vars == <<ent, request, config, server, answer, token, asked, completed, applied>>

Snapshot == [premium : BOOLEAN, school : BOOLEAN]
Nothing == [premium |-> FALSE, school |-> FALSE]

Init ==
  /\ ent = [premium |-> FALSE, school |-> FALSE, status |-> "idle", token |-> 0]
  /\ request = [status |-> "idle", id |-> 0]
  /\ config = [p \in Page |-> [mode |-> "local", fresh |-> FALSE]]
  /\ server \in Snapshot /\ answer = {} /\ token = 0 /\ asked = 0
  /\ completed = {} /\ applied = Nothing

---------------------------------------------------------------------------
(* Billing: src/core/billing.js.                                            *)

\* fetchBillingConfig: a failure counts as local billing, and is kept as long.
FetchConfig(p) ==
  /\ ~config[p].fresh
  /\ \E mode \in {"local", "stripe"} : config' = [config EXCEPT ![p] = [mode |-> mode, fresh |-> TRUE]]
  /\ UNCHANGED <<ent, request, server, answer, token, asked, completed, applied>>

\* A minute has passed.
ConfigExpires(p) ==
  /\ config[p].fresh /\ config' = [config EXCEPT ![p].fresh = FALSE]
  /\ UNCHANGED <<ent, request, server, answer, token, asked, completed, applied>>

\* fetchStripeSubscriptionStatus: the server answers as of now.
Ask(p) ==
  /\ config[p].mode = "stripe" /\ config[p].fresh /\ asked < MaxAnswers
  /\ asked' = asked + 1 /\ answer' = answer \cup {server}
  /\ UNCHANGED <<ent, request, config, server, token, completed, applied>>

\* applyStripeEntitlementSnapshot: the snapshot replaces both entitlements and
\* ends the checkout intent.
Apply(a) ==
  /\ answer' = answer \ {a} /\ applied' = a
  /\ ent' = [premium |-> a.premium, school |-> a.school, token |-> 0,
             status |-> IF a.premium \/ a.school THEN "active" ELSE "idle"]
  /\ UNCHANGED <<request, config, server, token, asked, completed>>

ServerChanges ==
  /\ server' \in Snapshot \ {server}
  /\ UNCHANGED <<ent, request, config, answer, token, asked, completed, applied>>

---------------------------------------------------------------------------
(* Local checkout and school license: src/core/entitlements.js.             *)

\* createCheckoutIntent: a new token replaces the one that was pending.
Start(p) ==
  /\ config[p].mode = "local" /\ token < MaxTokens /\ token' = token + 1
  /\ ent' = [ent EXCEPT !.status = "pending", !.token = token']
  /\ UNCHANGED <<request, config, server, answer, asked, completed, applied>>

\* Mutant: a token that is not the pending one completes.
CompletesAny(t) == ent.status = "pending" /\ t # 0

\* completeCheckoutIntent: the pending token, once.
Completes(t) == ent.status = "pending" /\ ent.token = t /\ t # 0

Complete(p, t) ==
  /\ config[p].mode = "local" /\ Completes(t)
  /\ ent' = [ent EXCEPT !.premium = TRUE, !.status = "active"]
  /\ completed' = completed \cup {t}
  /\ UNCHANGED <<request, config, server, answer, token, asked, applied>>

\* clearCheckoutIntent.
Clear(p) ==
  /\ config[p].mode = "local" /\ ent.status # "idle"
  /\ ent' = [ent EXCEPT !.status = "idle", !.token = 0]
  /\ UNCHANGED <<request, config, server, answer, token, asked, completed, applied>>

\* submitSchoolLicenseRequest: a request takes the license away until it is approved.
Submit ==
  /\ token < MaxTokens /\ token' = token + 1
  /\ request' = [status |-> "pending_review", id |-> token']
  /\ ent' = [ent EXCEPT !.school = FALSE]
  /\ UNCHANGED <<config, server, answer, asked, completed, applied>>

\* activateSchoolLicenseFromRequest: only the request that is pending.
Activate(id) ==
  /\ request = [status |-> "pending_review", id |-> id]
  /\ request' = [request EXCEPT !.status = "active"]
  /\ ent' = [ent EXCEPT !.school = TRUE]
  /\ UNCHANGED <<config, server, answer, token, asked, completed, applied>>

\* Mutant: an approved request is cleared as well.
ClearableAny == request.status # "idle"

\* clearSchoolLicenseRequest leaves an approved request alone.
Clearable == request.status = "pending_review"

ClearRequest ==
  /\ Clearable /\ request' = [status |-> "idle", id |-> 0]
  /\ UNCHANGED <<ent, config, server, answer, token, asked, completed, applied>>

\* deactivateSchoolLicense.
Deactivate ==
  /\ request.status # "idle" /\ request' = [status |-> "idle", id |-> 0]
  /\ ent' = [ent EXCEPT !.school = FALSE]
  /\ UNCHANGED <<config, server, answer, token, asked, completed, applied>>

Next ==
  \/ \E p \in Page : \/ FetchConfig(p) \/ ConfigExpires(p) \/ Ask(p) \/ Start(p) \/ Clear(p)
                     \/ \E t \in 1 .. token : Complete(p, t)
  \/ \E a \in answer : Apply(a)
  \/ ServerChanges \/ Submit \/ ClearRequest \/ Deactivate
  \/ \E id \in 1 .. token : Activate(id)

Spec == Init /\ [][Next]_vars

---------------------------------------------------------------------------
(* Every variable holds what its comment says.                              *)
EntitlementsTypeOK ==
  /\ ent.premium \in BOOLEAN /\ ent.school \in BOOLEAN /\ ent.token \in 0 .. token
  /\ ent.status \in {"idle", "pending", "active"}
  /\ request.status \in {"idle", "pending_review", "active"} /\ request.id \in 0 .. token
  /\ answer \subseteq Snapshot /\ server \in Snapshot /\ applied \in Snapshot
  /\ token \in 0 .. MaxTokens /\ asked \in 0 .. MaxAnswers /\ completed \subseteq 1 .. token

(* Whatever order snapshots arrive in and whatever is clicked meanwhile,    *)
(* premium is what the last snapshot said unless a local checkout was       *)
(* completed, the school license is the last snapshot's or that of an       *)
(* approved request, and a checkout that was completed is not pending again.*)
EntitlementsEarned ==
  /\ ent.premium => applied.premium \/ completed # {}
  /\ ent.school => applied.school \/ request.status = "active"
  /\ ent.status = "pending" => ent.token \notin completed
=============================================================================
