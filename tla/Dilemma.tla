------------------------------- MODULE Dilemma -------------------------------
(****************************************************************************)
(* The prisoner's dilemma (src/api/games/prisoners-dilemma,                 *)
(* src/prisonersdilemma).  The server keeps nothing: a match lives in a     *)
(* signed cookie, which a request carries as it was when it was sent and    *)
(* its answer replaces when it arrives.  Pages of one browser share the     *)
(* cookie; a sign-in changes whose it has to be.                            *)
(****************************************************************************)
EXTENDS Naturals, Integers, Sequences, FiniteSets, SequencesExt

CONSTANTS
  Page, User, None,
  Limits, DefaultLimit,   \* round limits a request may ask for, and what it gets without asking
  Maxima,                 \* config.maxRoundLimit of the servers deployed
  Temptation, Reward, Punishment, Sucker,
  Empty, Round, Largest,  \* sizes of a cookie: with no rounds, of a round, the largest accepted
  MaxRequests, MaxChanges \* bounds: requests in all; sign-ins and deployments
DilemmaAssumption ==
  /\ Limits \cup Maxima \subseteq Nat \ {0, 1} /\ DefaultLimit \in Limits
  /\ \A m \in Maxima : DefaultLimit <= m /\ Empty + m * Round <= Largest
  /\ Temptation > Reward /\ Reward > Punishment /\ Punishment > Sucker

VARIABLES
  maximum,   \* config.maxRoundLimit of the deployed server
  user,      \* whom the session cookie names
  jar,       \* the match cookie, or None
  request,   \* what each page waits for, or None: it is pending
  shown,     \* the snapshot each page shows, or None
  chosen,    \* the strategy and the limit selected in its toolbar
  refused,   \* it shows an error
  requests, changes
vars == <<maximum, user, jar, request, shown, chosen, refused, requests, changes>>

Actions == {"cooperate", "defect"}
Strategies == {"tit-for-tat", "always-defect", "random"}
Matches == [strategy : Strategies, limit : Nat, rounds : Seq([player : Actions, opponent : Actions, by : User])]
Leaders == {"player", "opponent", "tie"}

\* resolveRound: what a round gives its player and the opponent.
Delta(mine, other) ==
  CASE mine = "cooperate" /\ other = "cooperate" -> Reward
    [] mine = "defect"    /\ other = "cooperate" -> Temptation
    [] mine = "cooperate" /\ other = "defect"    -> Sucker
    [] mine = "defect"    /\ other = "defect"    -> Punishment

\* summarizeRounds, buildPublicSnapshot, determineLeader
Total(rounds, mine, other) == FoldLeft(LAMBDA sum, r : sum + Delta(r[mine], r[other]), 0, rounds)
Leader(rounds) ==
  LET lead == Total(rounds, "player", "opponent") - Total(rounds, "opponent", "player")
  IN  CASE lead = 0 -> "tie" [] lead > 0 -> "player" [] lead < 0 -> "opponent"
Completed(m) == Len(m.rounds) >= m.limit
Snapshot(m) == [match |-> m, leader |-> Leader(m.rounds)]

\* STRATEGIES: what the opponent may answer, knowing the rounds before.
Decides(strategy, rounds) ==
  CASE strategy = "always-defect" -> {"defect"}
    [] strategy = "random"        -> Actions
    [] strategy = "tit-for-tat"   -> {IF rounds = <<>> THEN "cooperate" ELSE Last(rounds).player}

\* Slip: the limit asked for is taken as it is.
ClampNone(limit) == limit

\* clampRoundLimit
Clamp(limit) == IF limit <= maximum THEN limit ELSE maximum

\* createInitialGameState, createFreshState, sanitizeResetInput
Fresh(strategy, limit) == [strategy |-> strategy, limit |-> Clamp(limit), rounds |-> <<>>]

\* normalizeGameState: the rounds are resolved again, up to the limit the server allows now.
Normalized(m) ==
  LET limit == Clamp(m.limit)
  IN  [m EXCEPT !.limit = limit, !.rounds = SubSeq(@, 1, IF Len(@) < limit THEN Len(@) ELSE limit)]

\* Slip: whoever the cookie was written for.
StoredAnyone(r) == IF r.cookie = None THEN None ELSE r.cookie.match

\* readGameState, decodeGameState: a cookie of another user counts for nothing.
Stored(r) == IF r.cookie # None /\ r.cookie.uid = r.user THEN r.cookie.match ELSE None

\* The match a request is about.
Current(r) == IF Stored(r) = None THEN Fresh("tit-for-tat", DefaultLimit) ELSE Normalized(Stored(r))

\* Slip: a reset that keeps the rounds.
StartedKeeping(r) == [Fresh(r.strategy, r.limit) EXCEPT !.rounds = Current(r).rounds]

\* reset.js
Started(r) == Fresh(r.strategy, r.limit)

\* appendRound
Appended(m, action, opponent, uid) ==
  [m EXCEPT !.rounds = Append(@, [player |-> action, opponent |-> opponent, by |-> uid])]

\* decideOpponentAction, advanceWithPlayerAction
Advanced(m, r) == {Appended(m, r.action, o, r.user) : o \in Decides(m.strategy, m.rounds)}

\* decision.js
Decided(r) == IF Completed(Current(r)) THEN {} ELSE Advanced(Current(r), r)

\* encodeGameState
Size(rounds) == Empty + rounds * Round
Fits(m) == Size(Len(m.rounds)) <= Largest

\* The matches a request may be answered with; none, and it is refused.
Answers(r) ==
  {m \in CASE r.kind = "state"    -> {Current(r)}
           [] r.kind = "reset"    -> {Started(r)}
           [] r.kind = "decision" -> Decided(r)
     : Fits(m)}

Init ==
  /\ maximum \in Maxima /\ user \in User /\ jar = None
  /\ request = [p \in Page |-> None] /\ shown = [p \in Page |-> None]
  /\ chosen = [p \in Page |-> None] /\ refused = [p \in Page |-> FALSE]
  /\ requests = 0 /\ changes = 0

DilemmaTypeOK ==
  /\ maximum \in Maxima /\ user \in User /\ {jar} \ {None} \subseteq [uid : User, match : Matches]
  /\ \A p \in Page : /\ shown[p] # None => shown[p].match \in Matches /\ shown[p].leader \in Leaders
                     /\ chosen[p] \in {None} \cup (Strategies \X Nat) /\ refused[p] \in BOOLEAN
                     /\ request[p] # None => request[p].kind \in {"state", "reset", "decision"}

\* runMutation, requestJson: one at a time in a page, with the cookies of the moment.  The
\* toolbar is drawn again, on the match shown (SessionToolbar.render, syncOptions).
Drawn(s) == IF s = None THEN None ELSE <<s.match.strategy, s.match.limit>>
Ask(p, body, s) ==
  /\ request[p] = None /\ requests < MaxRequests /\ requests' = requests + 1
  /\ request' = [request EXCEPT ![p] = body @@ [user |-> user, cookie |-> jar]]
  /\ refused' = [refused EXCEPT ![p] = FALSE] /\ chosen' = [chosen EXCEPT ![p] = Drawn(s)]

\* app.js: a page is opened, or loaded again.
Open(p) ==
  /\ shown' = [shown EXCEPT ![p] = None] /\ Ask(p, [kind |-> "state"], None)
  /\ UNCHANGED <<maximum, user, jar, changes>>

\* SessionToolbar: the selects, and the button for a new match.
Select(p, strategy, limit) ==
  /\ request[p] = None /\ shown[p] # None /\ chosen' = [chosen EXCEPT ![p] = <<strategy, limit>>]
  /\ UNCHANGED <<maximum, user, jar, request, shown, refused, requests, changes>>
Reset(p) ==
  /\ shown[p] # None /\ Ask(p, [kind |-> "reset", strategy |-> chosen[p][1], limit |-> chosen[p][2]], shown[p])
  /\ UNCHANGED <<maximum, user, jar, shown, changes>>

\* DecisionPanel: the buttons work until the match shown is complete.
Decide(p, action) ==
  /\ shown[p] # None /\ ~Completed(shown[p].match) /\ Ask(p, [kind |-> "decision", action |-> action], shown[p])
  /\ UNCHANGED <<maximum, user, jar, shown, changes>>

\* writeGameState, replaceSnapshot: the answer's cookie and the page's snapshot.
Answered(p) ==
  /\ request[p] # None /\ request' = [request EXCEPT ![p] = None]
  /\ \E m \in Answers(request[p]) :
       /\ jar' = [uid |-> request[p].user, match |-> m]
       /\ shown' = [shown EXCEPT ![p] = Snapshot(m)] /\ chosen' = [chosen EXCEPT ![p] = Drawn(Snapshot(m))]
  /\ UNCHANGED <<maximum, user, refused, requests, changes>>

\* setError: a refusal, or an answer that never came, with its cookie; the page says so.
Refused(p) ==
  /\ request[p] # None /\ request' = [request EXCEPT ![p] = None]
  /\ refused' = [refused EXCEPT ![p] = TRUE] /\ chosen' = [chosen EXCEPT ![p] = Drawn(shown[p])]
  /\ UNCHANGED <<maximum, user, jar, shown, requests, changes>>

\* Someone signs in, and the session cookie is another's (api/auth/_session.js),
SignIn(u) ==
  /\ changes < MaxChanges /\ changes' = changes + 1 /\ user' = u /\ u # user
  /\ UNCHANGED <<maximum, jar, request, shown, chosen, refused, requests>>

\* or the server is deployed with another maximum (loadGameConfig).
Deploy(max) ==
  /\ changes < MaxChanges /\ changes' = changes + 1 /\ maximum' = max /\ max # maximum
  /\ UNCHANGED <<user, jar, request, shown, chosen, refused, requests>>

Next ==
  \/ \E p \in Page : Open(p) \/ Reset(p) \/ Answered(p) \/ Refused(p)
  \/ \E p \in Page, s \in Strategies, l \in Limits : Select(p, s, l)
  \/ \E p \in Page, a \in Actions : Decide(p, a)
  \/ \E u \in User : SignIn(u)
  \/ \E m \in Maxima : Deploy(m)

Spec == Init /\ [][Next]_vars

Held == {j.match : j \in {jar} \ {None}} \cup {s.match : s \in {shown[p] : p \in Page} \ {None}}

\* However its pages' requests overlap, a match is one play of one strategy by one user: each
\* answer of the opponent is the one its strategy gives to the rounds before, a decision made
\* by another user of the browser never counts in it, it has no more rounds than its limit,
\* and the leader shown is the one its rounds make.  And a match that was begun can be ended:
\* with every round played its cookie is accepted still (normalizeGameState, readGameState,
\* encodeGameState).
MatchFair ==
  /\ \A m \in Held :
       /\ Len(m.rounds) <= m.limit
       /\ \A i \in 1..Len(m.rounds) :
            /\ m.rounds[i].opponent \in Decides(m.strategy, SubSeq(m.rounds, 1, i - 1))
            /\ m.rounds[i].by = m.rounds[1].by
       /\ Size(m.limit) <= Largest
  /\ \A p \in Page : shown[p] # None =>
       LET won == Cardinality({i \in 1..Len(shown[p].match.rounds) :
                     shown[p].match.rounds[i].player = "defect" /\ shown[p].match.rounds[i].opponent = "cooperate"})
           lost == Cardinality({i \in 1..Len(shown[p].match.rounds) :
                     shown[p].match.rounds[i].player = "cooperate" /\ shown[p].match.rounds[i].opponent = "defect"})
       IN  (shown[p].leader = "player") = (won > lost) /\ (shown[p].leader = "tie") = (won = lost)
=============================================================================
