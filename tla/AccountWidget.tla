---------------------------- MODULE AccountWidget ----------------------------
(****************************************************************************)
(* The account panel with its billing and family sections                   *)
(* (src/auth/embed.js).  The session and the family's summary come from two *)
(* kinds of request; each answer is drawn over whatever the panel shows,    *)
(* and other parts of the page sign in and out too (feedback/embed.js).     *)
(* What the client does between a click and its answer is AuthClient's.     *)
(****************************************************************************)
EXTENDS Naturals, FiniteSets

CONSTANTS
  Account, Guest, None,
  MaxRequests, MaxSwitches  \* bounds: family requests under way, sign-ins and sign-outs
AccountWidgetAssumption ==
  /\ Guest # None /\ {Guest, None} \cap Account = {} /\ {MaxRequests, MaxSwitches} \subseteq Nat

VARIABLES
  account,   \* whom the browser's cookie signs in: the account its requests are made for
  owner,     \* the server's families: who owns the one each account is in, or None
  active,    \* whether their subscriptions are paid
  enabled,   \* whether the deployment has Google sign-in
  config,    \* firebaseConfig: "unknown", "on" or "off"
  first,     \* the session read when the panel was mounted: "asking", a session, or "done"
  session,   \* currentSession
  family,    \* familyState: whose summary it is and who owned the family, or None
  token,     \* inviteToken: the page was opened from an invitation
  panel,     \* what the panel says: "checking", "account", "guest" or "unavailable"
  cards,     \* the family whose members are listed, or None
  tools,     \* the family buttons shown
  manage,    \* the button to Stripe's portal is shown
  signing,   \* what the two buttons of the panel wait for
  locked,    \* the family buttons are disabled
  requests,  \* the family requests under way
  switches
vars == <<account, owner, active, enabled, config, first, session, family, token, panel, cards, tools,
          manage, signing, locked, requests, switches>>

Summary == [of : Account, owner : Account \cup {None}]
Reads == {"refresh", "again", "await"}
Kinds == Reads \cup {"invite", "accept", "manage"}
Signed(s) == s \in Account

Init ==
  /\ account \in Account \cup {Guest} /\ owner \in [Account -> Account \cup {None}]
  /\ \A a \in Account : owner[a] # None => owner[owner[a]] = owner[a]
  /\ active \in BOOLEAN /\ enabled \in BOOLEAN /\ config = "unknown"
  /\ first = "asking" /\ session = None /\ family = None /\ token \in BOOLEAN /\ panel = "checking" /\ cards = None
  /\ tools = {} /\ manage = FALSE /\ signing = "none" /\ locked = FALSE /\ requests = {} /\ switches = 0

AccountWidgetTypeOK ==
  /\ account \in Account \cup {Guest} /\ owner \in [Account -> Account \cup {None}]
  /\ config \in {"unknown", "on", "off"}
  /\ first \in {"asking", "done", Guest} \cup Account /\ session \in Account \cup {Guest, None}
  /\ family \in Summary \cup {None} /\ panel \in {"checking", "account", "guest", "unavailable"}
  /\ cards \in Summary \cup {None} /\ tools \subseteq {"invite", "members", "accept"}
  /\ {active, enabled, token, manage, locked} \subseteq BOOLEAN
  /\ signing \in {"none", "status", "refresh", "in", "out", "summary"}
  /\ requests \subseteq [kind : Kinds, as : Account, n : Nat]

\* classifyStatus, renderPanel
Panel(s, conf) ==
  CASE Signed(s)                     -> "account"
    [] ~Signed(s) /\ conf = "off"    -> "unavailable"
    [] ~Signed(s) /\ conf # "off"    -> "guest"

\* renderFamilySection, renderMemberCards, renderInviteCards: the family listed,
Cards(s, f) == IF Signed(s) THEN f ELSE None

\* Mutant: whoever the summary was made for may manage the family it shows.
OwnsSummary(s, f) == f.owner = f.of

Owns(s, f) == f.owner = s

\* and the buttons offered with it.
Tools(s, f, invited) ==
  IF ~Signed(s) \/ f = None THEN {}
  ELSE {t \in {"invite"}  : Owns(s, f) /\ active}
       \cup {t \in {"members"} : Owns(s, f)}
       \cup {t \in {"accept"}  : invited}

\* renderBillingSection, buildBillingOverviewModel: an account with a plan of its own can
\* manage it; until its summary is there, everyone signed in is offered the button.
Manage(s, f) == IF Signed(s) /\ f = None THEN TRUE ELSE f # None /\ f.owner = f.of

DrawsFamily(s, f, invited) == cards' = Cards(s, f) /\ tools' = Tools(s, f, invited)

\* render
Renders(s, f) ==
  /\ session' = s /\ family' = f /\ panel' = Panel(s, config')
  /\ manage' = Manage(s, f) /\ DrawsFamily(s, f, token)

Asks(kinds, a) ==
  LET n == Cardinality(requests) IN
  /\ n + Cardinality(kinds) <= MaxRequests
  /\ requests' = requests \cup {[kind |-> k, as |-> a, n |-> n] : k \in kinds}

\* onAuthSessionChanged: s is drawn, and the family of an account asked for.
Announced(s) ==
  /\ Renders(s, family)
  /\ IF Signed(s) THEN Asks({"refresh"}, s) /\ locked' = TRUE ELSE UNCHANGED <<requests, locked>>

\* mountAccountWidget reads the session, which is announced,
SessionRead ==
  /\ first = "asking" /\ first' = account /\ UNCHANGED config /\ Announced(account)
  /\ UNCHANGED <<account, owner, active, enabled, token, signing, switches>>

\* and draws it again when the configuration is there too, whatever has been announced since;
\* if the session could not be read, sign-in counts as switched off.
Mounted ==
  /\ first # "done" /\ first' = "done"
  /\ \/ first # "asking" /\ config' = (IF enabled THEN "on" ELSE "off") /\ Renders(first, family)
        /\ IF Signed(first) THEN Signed(account) /\ Asks({"again"}, account) /\ locked' = TRUE
                            ELSE UNCHANGED <<requests, locked>>
     \/ first = "asking" /\ config' = "off" /\ Renders(session, family) /\ UNCHANGED <<requests, locked>>
  /\ UNCHANGED <<account, owner, active, enabled, token, signing, switches>>

\* The panel's first button.
Primary ==
  /\ signing = "none"
  /\ signing' = CASE ~Signed(session) /\ config = "off" -> "status"
                  [] Signed(session)                    -> "refresh"
                  [] ~Signed(session) /\ config # "off" -> "in"
  /\ UNCHANGED <<account, owner, active, enabled, config, first, session, family, token, panel, cards,
                 tools, manage, locked, requests, switches>>

\* Its answer: the status of a deployment without sign-in,
Status ==
  /\ signing = "status" /\ signing' = "none"
  /\ config' = (IF enabled THEN "on" ELSE "off") /\ Announced(account)
  /\ UNCHANGED <<account, owner, active, enabled, first, token, switches>>

\* the session read again, or a sign-in: the listener asks for the family, the button asks
\* again and waits (refreshFamilySummary); a guest has no family.
Answered ==
  /\ \/ signing = "refresh" /\ UNCHANGED <<account, switches>>
     \/ /\ signing = "in" /\ switches < MaxSwitches /\ switches' = switches + 1
        /\ account' \in Account
  /\ UNCHANGED config
  /\ IF Signed(account')
     THEN Renders(account', family) /\ Asks({"refresh", "await"}, account') /\ locked' = TRUE /\ signing' = "summary"
     ELSE Renders(account', None) /\ UNCHANGED <<requests, locked>> /\ signing' = "none"
  /\ UNCHANGED <<owner, active, enabled, first, token>>

\* The panel's second button.
SignOut ==
  /\ signing = "none" /\ panel = "account" /\ signing' = "out"
  /\ UNCHANGED <<account, owner, active, enabled, config, first, session, family, token, panel, cards,
                 tools, manage, locked, requests, switches>>

\* Mutant: the panel goes back to a guest's and the family stays as it was.
SignedOutKeeping ==
  /\ signing = "out" /\ signing' = "none" /\ switches < MaxSwitches /\ switches' = switches + 1
  /\ account' = Guest /\ session' = Guest /\ family' = None /\ panel' = Panel(Guest, config)
  /\ UNCHANGED <<owner, active, enabled, config, first, token, cards, tools, manage, locked, requests>>

SignedOut ==
  /\ signing = "out" /\ signing' = "none" /\ switches < MaxSwitches /\ switches' = switches + 1
  /\ account' = Guest /\ UNCHANGED config /\ Renders(Guest, None)
  /\ UNCHANGED <<owner, active, enabled, first, token, locked, requests>>

\* Either button's request fails: the panel says so and shows what it showed.
Rejected ==
  /\ signing \in {"status", "refresh", "in", "out"} /\ signing' = "none"
  /\ UNCHANGED config /\ Renders(session, family)
  /\ UNCHANGED <<account, owner, active, enabled, first, token, locked, requests, switches>>

\* onAuthSessionChanged: another part of the page has signed in or out.
Elsewhere ==
  /\ switches < MaxSwitches /\ switches' = switches + 1
  /\ account' \in (Account \cup {Guest}) \ {account} /\ UNCHANGED config /\ Announced(account')
  /\ UNCHANGED <<owner, active, enabled, first, token, signing>>

\* An invitation is sent or accepted.  While one is, the buttons are disabled.
InviteOrAccept ==
  /\ ~locked /\ locked' = TRUE
  /\ \E t \in tools \cap {"invite", "accept"} : Signed(account) /\ Asks({t}, account)
  /\ UNCHANGED <<account, owner, active, enabled, config, first, session, family, token, panel, cards,
                 tools, manage, signing, switches>>

\* A member is removed, or an invitation sent again or withdrawn, from its card: cards
\* are not disabled.
ManageMember ==
  /\ "members" \in tools /\ locked' = TRUE /\ Signed(account) /\ Asks({"manage"}, account)
  /\ UNCHANGED <<account, owner, active, enabled, config, first, session, family, token, panel, cards,
                 tools, manage, signing, switches>>

\* What the server does for r: an accepted invitation makes its account a member, an owner
\* may remove one.
Serves(r) ==
  CASE r.kind = "accept" ->
         \E host \in {h \in Account : owner[h] = h} :
           owner' = IF owner[r.as] = None THEN [owner EXCEPT ![r.as] = host] ELSE owner
    [] r.kind = "manage" ->
         \E gone \in {m \in Account : owner[m] = r.as /\ m # r.as} \cup {None} :
           owner' = [m \in Account |-> IF m = gone THEN None ELSE owner[m]]
    [] r.kind \in Reads \cup {"invite"} -> UNCHANGED owner

\* An answer is drawn, whoever is signed in by now; a summary redraws the billing section
\* too, and the awaited one releases the panel's buttons.
FamilyAnswers ==
  \E r \in requests :
    /\ requests' = requests \ {r} /\ Serves(r) /\ locked' = FALSE
    /\ family' = [of |-> r.as, owner |-> owner'[r.as]]
    /\ token' = (token /\ r.kind # "accept") /\ DrawsFamily(session, family', token')
    /\ manage' = IF r.kind \in Reads THEN Manage(session, family') ELSE manage
    /\ signing' = IF r.kind = "await" /\ signing = "summary" THEN "none" ELSE signing
    /\ UNCHANGED <<account, active, enabled, config, first, session, panel, switches>>

\* A request fails.  A failed summary is forgotten, and the family drawn from the one
\* before stays.
FamilyFails ==
  \E r \in requests :
    /\ requests' = requests \ {r} /\ locked' = FALSE
    /\ IF r.kind \in Reads
       THEN family' = None /\ manage' = Manage(session, None)
       ELSE UNCHANGED <<family, manage>>
    /\ signing' = IF r.kind = "await" /\ signing = "summary" THEN "none" ELSE signing
    /\ UNCHANGED <<account, owner, active, enabled, config, first, session, token, panel, cards, tools, switches>>

Next ==
  \/ SessionRead
  \/ Mounted
  \/ Primary
  \/ Status
  \/ Answered
  \/ SignOut
  \/ SignedOut
  \/ Rejected
  \/ Elsewhere
  \/ InviteOrAccept
  \/ ManageMember
  \/ FamilyAnswers
  \/ FamilyFails

Spec == Init /\ [][Next]_vars

\* A guest is shown no family, and whoever is offered the members of a family or an
\* invitation to it owns it, though answers for one account are drawn for another.
OwnFamilyOnly ==
  /\ cards # None \/ tools # {} => Signed(session)
  /\ {"invite", "members"} \cap tools # {} => cards # None /\ cards.owner = session

\* Not so: the family listed is the one of the account signed in.
ListsOwnFamily == cards # None => cards.of = session
\* Not so: once the panel is mounted and waits for nothing it shows whom the cookie signs in.
ShowsAccount == first = "done" /\ signing = "none" /\ requests = {} => session \in {account, None}
\* Not so: a guest is not offered Stripe's portal.
PortalForAccounts == manage => Signed(session)
\* Not so: the buttons are disabled while an invitation is on its way.
LocksHold == (\E r \in requests : r.kind \in {"invite", "accept"}) => locked
=============================================================================
