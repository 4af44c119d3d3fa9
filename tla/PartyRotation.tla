--------------------------- MODULE PartyRotation ---------------------------
(***************************************************************************)
(* One rotating party room of v2-server (gameKey "party"): the lifecycle   *)
(* party_lobby -> voting -> spinning -> next_up -> activity -> results,    *)
(* its host, its roster, its pauses, its votes and its standings.          *)
(*                                                                         *)
(* Every handler runs under the room's mutex, so one handler is one        *)
(* action.  The room's goroutine (loop) contributes the actions of Step    *)
(* and Expire; websocket readers contribute the client actions.            *)
(*                                                                         *)
(* Time.  The code compares absolute timestamps with now.  Here a clock    *)
(* variable holds the ticks that are left (or have passed), Tick moves     *)
(* them all, and each stops at its limit.                                  *)
(*                                                                         *)
(* A server restart restores the newest checkpoint.  A checkpoint holds    *)
(* every variable of this module, so restoring an old one leads where a    *)
(* restart right after it was taken would have led: Restart needs no copy. *)
(***************************************************************************)
EXTENDS Integers, FiniteSets

CONSTANTS
    Players,          \* player ids the server may hand out
    Activities,       \* ids of partyActivityCatalog
    Catalog,          \* [Activities -> [game, min, max, reseats]]
    Configs,          \* party settings a host may choose
    DefaultConfig,    \* settings of a fresh room
    MaxPlayers,       \* room.maxPlayers
    NoActivity,       \* the empty activity id
    VoteTicks, VoteMinTicks, SpinTicks, NextUpTicks, ResultsTicks,
    SkippedTicks, GameTicks, HostReconnectTicks, RetentionTicks, LobbyTicks,
    GameRounds,       \* heats / rounds of one activity
    MaxRestarts       \* bound: restarts of the server explored

Methods == {"chaos", "majority", "unanimous", "host"}
Repeats == {"off", "immediate", "session"}
Reseats == {"all", "connected", "none"}

\* Settings after validatePartySessionSettings; "enabled" already holds only
\* the activities of the chosen play style.
ConfigType == [target  : Nat \ {0},
               method  : Methods,
               repeat  : Repeats,
               catchUp : BOOLEAN,
               enabled : SUBSET Activities]

MinPlayers == 2                                  \* partyMinPlayers
CatchUpGap == 8
CatchUpBonus == 2
PlacementPoints == <<10, 8, 6, 5, 4, 3, 2, 1>>   \* partyPlacementPoints

ASSUME CatalogAssumption ==
    /\ NoActivity \notin Activities
    /\ Catalog \in [Activities -> [game : STRING, min : Nat, max : Nat, reseats : Reseats]]
    /\ Configs \subseteq ConfigType
    /\ DefaultConfig \in ConfigType

ASSUME RosterAssumption ==
    /\ IsFiniteSet(Players)
    /\ MaxPlayers \in 2 .. 8

ASSUME ClockAssumption ==
    /\ {VoteTicks, SpinTicks, NextUpTicks, ResultsTicks, SkippedTicks, GameTicks,
        HostReconnectTicks, RetentionTicks, LobbyTicks, GameRounds} \subseteq Nat \ {0}
    /\ VoteMinTicks \in 0 .. VoteTicks
    /\ MaxRestarts \in Nat

VARIABLES
    host,             \* "here" or "away"
    hostAway,         \* ticks since the host went away
    seat,             \* [Players -> none | in | out | kicked]
    active, queued,   \* players flagged Active, Queued
    points,           \* PartyPoints: the standings
    phase, partyPhase, resumePhase, resumePartyPhase, pauseReason,
    phaseLeft,        \* phaseEndsAt - now
    pauseLeft,        \* pauseRemainingMs
    config,
    options, votes, voteLeft, voteAge,
    activity, activityIndex, lastActivity, history, awarded,
    round,            \* heat or round of the running activity
    endedAge, idle,   \* now - endedAt, now - lastActive
    life,             \* "live", "crashed" with the process, or "removed"
    restarts

hostVars    == <<host, hostAway>>
rosterVars  == <<seat, active, queued>>
pauseVars   == <<resumePhase, resumePartyPhase, pauseReason, pauseLeft>>
phaseVars   == <<phase, partyPhase, phaseLeft>>
voteVars    == <<options, votes, voteLeft, voteAge>>
sessionVars == <<activity, activityIndex, lastActivity, history, awarded>>
lifeVars    == <<life, restarts>>
vars == <<hostVars, rosterVars, points, phaseVars, pauseVars, config, voteVars,
          sessionVars, round, endedAge, idle, lifeVars>>

Seats == {"none", "in", "out", "kicked"}
RunningPhases == {"voting", "spinning", "next_up", "activity", "results"}
PartyPhases == RunningPhases \cup {"party_lobby", "paused", "ended"}
\* "playing" stands for every phase of a running game (countdown, racing,
\* fighting, choosing, reveal, drawing, intermission ...).
RoomPhases == {"lobby", "voting", "spinning", "next_up", "playing", "podium",
               "party_podium", "paused", "ended"}

RoomType ==
    /\ host \in {"here", "away"}
    /\ phase \in RoomPhases /\ partyPhase \in PartyPhases
    /\ resumePhase \in RoomPhases \cup {""}
    /\ resumePartyPhase \in PartyPhases \cup {""}
    /\ pauseReason \in {"", "manual", "host_disconnected"}
    /\ life \in {"live", "crashed", "removed"}

RosterType ==
    /\ seat \in [Players -> Seats]
    /\ active \subseteq Players /\ queued \subseteq Players
    /\ points \in [Players -> Nat]

SelectionType ==
    /\ config \in ConfigType
    /\ options \subseteq Activities
    /\ votes \in [Players -> Activities \cup {NoActivity}]
    /\ activity \in Activities \cup {NoActivity}
    /\ lastActivity \in Activities \cup {NoActivity}
    /\ history \subseteq Activities

ClockType ==
    /\ phaseLeft \in Nat /\ pauseLeft \in Nat
    /\ hostAway \in 0 .. HostReconnectTicks
    /\ voteLeft \in 0 .. VoteTicks /\ voteAge \in 0 .. VoteMinTicks
    /\ endedAge \in 0 .. RetentionTicks /\ idle \in 0 .. LobbyTicks
    /\ round \in 0 .. GameRounds
    /\ activityIndex \in Nat
    /\ restarts \in 0 .. MaxRestarts

TypeOK == RoomType /\ RosterType /\ SelectionType /\ ClockType /\ awarded \in BOOLEAN

----------------------------------------------------------------------------
(* Helpers *)

Roster == {p \in Players : seat[p] \in {"in", "out"}}
Connected == {p \in Players : seat[p] = "in"}
ConnectedCount == Cardinality(Connected)
Contenders == active \ queued
Alive == life = "live"
NoVotes == [p \in Players |-> NoActivity]

\* The phase a paused party will return to.
EffectivePhase == IF partyPhase = "paused" THEN resumePartyPhase ELSE partyPhase

----------------------------------------------------------------------------
(* Activity selection: partyOptionsLocked and closePartyVoteLocked *)

\* Slip: the last activity is forgotten.
ExcludedPlayedOnly(repeat, last, played) == IF repeat = "session" THEN played ELSE {}

\* Activities the settings keep out of the next vote, given the history.
Excluded(repeat, last, played) ==
    CASE repeat = "off"       -> {}
      [] repeat = "immediate" -> {last}
      [] repeat = "session"   -> {last} \cup played

Eligible(count, excluded) ==
    {a \in config.enabled : /\ Catalog[a].min <= count
                            /\ count <= Catalog[a].max
                            /\ a \notin excluded}

\* An exhausted pool forgets its history, once, and looks again.
HistoryAfterOptions(count) ==
    IF Eligible(count, Excluded(config.repeat, lastActivity, history)) = {}
    THEN {} ELSE history

Games(S) == {Catalog[a].game : a \in S}
AtMostThree(n) == IF n < 3 THEN n ELSE 3

\* Up to three cards, from as many different games as possible.  Which ones
\* depends on a hash of room code and index, so any choice is possible.
Shortlists(S) ==
    {T \in SUBSET S : /\ Cardinality(T) = AtMostThree(Cardinality(S))
                      /\ Cardinality(Games(T)) = AtMostThree(Cardinality(Games(S)))}

OptionSets(count) ==
    Shortlists(Eligible(count, Excluded(config.repeat, lastActivity,
                                        HistoryAfterOptions(count))))

\* Connected players whose vote is for a card on screen.
Voters == {p \in Connected : votes[p] \in options}

AllConnectedVoted == Voters = Connected /\ ConnectedCount >= MinPlayers

\* Ballots for option a: one per voter, one for the audience as a whole, and
\* one neutral ballot per card when nobody voted.
Ballots(a, audience) ==
    IF Voters = {} /\ audience = NoActivity
    THEN IF a \in options THEN 1 ELSE 0
    ELSE Cardinality({p \in Voters : votes[p] = a}) + (IF audience = a THEN 1 ELSE 0)

Balloted(audience) == {a \in options : Ballots(a, audience) > 0}

MostBallots(audience) ==
    {a \in Balloted(audience) :
        \A b \in Balloted(audience) : Ballots(b, audience) <= Ballots(a, audience)}

\* Slip: the wheel ignores the majority setting.
WinnersByWheel(audience) == Balloted(audience)

\* With "unanimous" a room that agrees has one balloted card, and a room that
\* does not agree falls back to the weighted wheel.
Winners(audience) ==
    IF config.method = "majority" THEN MostBallots(audience) ELSE Balloted(audience)

----------------------------------------------------------------------------
(* Phase changes shared by several handlers *)

\* Slip: pausing a paused room again.
PauseAgain(reason) ==
    /\ resumePhase' = phase /\ resumePartyPhase' = partyPhase
    /\ partyPhase' = "paused" /\ phase' = "paused"
    /\ pauseLeft' = phaseLeft /\ pauseReason' = reason
    /\ phaseLeft' = 0

\* pauseLocked: a pause of a paused room changes nothing.
PauseFor(reason) ==
    IF phase = "paused"
    THEN UNCHANGED <<phaseVars, pauseVars>>
    ELSE /\ resumePhase' = phase
         /\ resumePartyPhase' = partyPhase
         /\ partyPhase' = "paused"
         /\ pauseLeft' = phaseLeft
         /\ pauseReason' = reason
         /\ phase' = "paused"
         /\ phaseLeft' = 0

\* Slip: the remaining time is lost.
UnpauseWithoutTime ==
    IF phase # "paused"
    THEN UNCHANGED <<phaseVars, pauseVars>>
    ELSE /\ phase' = resumePhase /\ partyPhase' = resumePartyPhase
         /\ phaseLeft' = 0
         /\ resumePhase' = "" /\ resumePartyPhase' = "" /\ pauseReason' = "" /\ pauseLeft' = 0

\* resumeLocked
Unpause ==
    IF phase # "paused"
    THEN UNCHANGED <<phaseVars, pauseVars>>
    ELSE /\ phase' = resumePhase
         /\ partyPhase' = resumePartyPhase
         /\ phaseLeft' = pauseLeft
         /\ resumePhase' = ""
         /\ resumePartyPhase' = ""
         /\ pauseReason' = ""
         /\ pauseLeft' = 0

\* beginPartyVoteLocked
BeginVote ==
    /\ phase' = "voting" /\ partyPhase' = "voting"
    /\ phaseLeft' = VoteTicks
    /\ options' \in OptionSets(ConnectedCount)
    /\ history' = HistoryAfterOptions(ConnectedCount)
    /\ votes' = NoVotes
    /\ voteLeft' = VoteTicks /\ voteAge' = 0
    /\ activity' = NoActivity
    /\ queued' = {}
    /\ active' = Connected

\* Both ways out of a vote: closePartyVoteLocked and selectPartyActivityLocked.
Spin(winner) ==
    /\ activity' = winner
    /\ phase' = "spinning" /\ partyPhase' = "spinning"
    /\ phaseLeft' = SpinTicks

\* finishPartyLocked
FinishParty ==
    /\ partyPhase' = "ended" /\ phase' = "party_podium"
    /\ phaseLeft' = 0
    /\ endedAge' = 0

\* Who is seated when a round of an activity begins: startCountdownLocked and
\* prepareCrowdShiftRoundLocked seat the whole roster, prepareStickTiltRound-
\* Locked the connected players, beginSketchRoundLocked leaves the seats alone.
SeatRound(reseats, seatedActive, seatedQueued) ==
    CASE reseats = "all"       -> active' = Roster /\ queued' = {}
      [] reseats = "connected" -> active' = Connected /\ queued' = Roster \ Connected
      [] reseats = "none"      -> active' = seatedActive /\ queued' = seatedQueued

\* startRotationActivityLocked: back to a vote when the room has emptied.
StartActivity ==
    IF activity = NoActivity \/ ConnectedCount < MinPlayers
    THEN /\ BeginVote
         /\ UNCHANGED <<activityIndex, lastActivity, awarded, round, endedAge>>
    ELSE /\ activityIndex' = activityIndex + 1
         /\ phase' = "playing" /\ partyPhase' = "activity"
         /\ phaseLeft' = GameTicks
         /\ awarded' = FALSE
         /\ round' = 1
         /\ SeatRound(Catalog[activity].reseats, Connected, Roster \ Connected)
         /\ UNCHANGED <<activity, lastActivity, history, voteVars, endedAge>>

\* Final orders of an activity: place[p] is one more than the number of players
\* ahead of p.  Only Stick & Tilt ("connected") shares places on equal points;
\* elsewhere distance, barrier hits and id break every tie.
Placements(players, tiesAllowed) ==
    {place \in [players -> 1 .. Cardinality(players)] :
        /\ \A p \in players :
              place[p] = 1 + Cardinality({q \in players : place[q] < place[p]})
        /\ tiesAllowed \/ \A p, q \in players : place[p] = place[q] => p = q}

BehindLeader(p) == \E q \in Contenders : points[q] - points[p] >= CatchUpGap

Award(p, place) ==
    PlacementPoints[place] + IF config.catchUp /\ BehindLeader(p) THEN CatchUpBonus ELSE 0

\* The activity is over, scored or not: it enters the history.
ShowResults(ticks) ==
    /\ lastActivity' = activity
    /\ history' = history \cup {activity}
    /\ awarded' = TRUE
    /\ partyPhase' = "results" /\ phase' = "podium"
    /\ phaseLeft' = ticks
    /\ endedAge' = 0

\* completeRotationActivityLocked: an activity is scored at most once.
CompleteActivity ==
    IF awarded
    THEN UNCHANGED <<points, phaseVars, lastActivity, history, awarded, endedAge>>
    ELSE /\ \E place \in Placements(Contenders, Catalog[activity].reseats = "connected") :
               points' = [p \in Players |->
                            IF p \in Contenders THEN points[p] + Award(p, place[p])
                                                ELSE points[p]]
         /\ ShowResults(ResultsTicks)

----------------------------------------------------------------------------
(* Initial state: createPartyRoom followed by the creator's attachHost *)

Init ==
    /\ host = "here" /\ hostAway = 0
    /\ seat = [p \in Players |-> "none"]
    /\ active = {} /\ queued = {}
    /\ points = [p \in Players |-> 0]
    /\ phase = "lobby" /\ partyPhase = "party_lobby"
    /\ resumePhase = "" /\ resumePartyPhase = ""
    /\ pauseReason = "" /\ phaseLeft = 0 /\ pauseLeft = 0
    /\ config = DefaultConfig
    /\ options = {} /\ votes = NoVotes /\ voteLeft = 0 /\ voteAge = 0
    /\ activity = NoActivity /\ activityIndex = 0
    /\ lastActivity = NoActivity /\ history = {} /\ awarded = FALSE
    /\ round = 0
    /\ endedAge = 0 /\ idle = 0
    /\ life = "live" /\ restarts = 0

----------------------------------------------------------------------------
(* Players *)

\* attachPlayer without a token.  The lock and late-join switches only turn
\* this action off, which the environment may do anyway by not joining.
Join(p) ==
    /\ Alive
    /\ seat[p] = "none"
    /\ partyPhase # "ended"
    /\ Cardinality(Roster) < MaxPlayers
    /\ seat' = [seat EXCEPT ![p] = "in"]
    /\ queued' = IF partyPhase \in {"activity", "spinning", "next_up"}
                 THEN queued \cup {p} ELSE queued
    /\ active' = IF partyPhase \in {"party_lobby", "voting"}
                 THEN active \cup {p} ELSE active
    /\ idle' = 0
    /\ UNCHANGED <<hostVars, points, phaseVars, pauseVars, config, voteVars,
                   sessionVars, round, endedAge, lifeVars>>

\* attachPlayer with the player's own token.
Reconnect(p) ==
    /\ Alive
    /\ seat[p] = "out"
    /\ seat' = [seat EXCEPT ![p] = "in"]
    /\ idle' = 0
    /\ UNCHANGED <<hostVars, active, queued, points, phaseVars, pauseVars, config,
                   voteVars, sessionVars, round, endedAge, lifeVars>>

\* removeClient for a player: the seat and the score stay, the vote goes.
Disconnect(p) ==
    /\ Alive
    /\ seat[p] = "in"
    /\ seat' = [seat EXCEPT ![p] = "out"]
    /\ votes' = [votes EXCEPT ![p] = NoActivity]
    /\ idle' = 0
    /\ UNCHANGED <<hostVars, active, queued, points, phaseVars, pauseVars, config,
                   options, voteLeft, voteAge, sessionVars, round, endedAge, lifeVars>>

\* applyPartyVoteLocked
Vote(p, a) ==
    /\ Alive
    /\ partyPhase = "voting"
    /\ a \in options
    /\ seat[p] = "in"
    /\ votes' = [votes EXCEPT ![p] = a]
    /\ idle' = 0
    /\ UNCHANGED <<hostVars, rosterVars, points, phaseVars, pauseVars, config, options,
                   voteLeft, voteAge, sessionVars, round, endedAge, lifeVars>>

\* Any other accepted input, such as party_ready: it keeps the lobby alive.
OtherInput ==
    /\ Alive
    /\ host = "here" \/ Connected # {}
    /\ idle' = 0
    /\ UNCHANGED <<hostVars, rosterVars, points, phaseVars, pauseVars, config, voteVars,
                   sessionVars, round, endedAge, lifeVars>>

----------------------------------------------------------------------------
(* Host *)

\* Slip: only the phases of a running game pause, as in a standalone room.
HostLeavesStandalone ==
    /\ Alive
    /\ host = "here"
    /\ host' = "away" /\ hostAway' = 0
    /\ IF phase = "playing" THEN PauseFor("host_disconnected")
                            ELSE UNCHANGED <<phaseVars, pauseVars>>
    /\ idle' = 0
    /\ UNCHANGED <<rosterVars, points, config, voteVars, sessionVars, round, endedAge,
                   lifeVars>>

\* removeClient for the host.
HostLeaves ==
    /\ Alive
    /\ host = "here"
    /\ host' = "away" /\ hostAway' = 0
    /\ IF partyPhase \in {"party_lobby", "ended"}
       THEN UNCHANGED <<phaseVars, pauseVars>>
       ELSE PauseFor("host_disconnected")
    /\ idle' = 0
    /\ UNCHANGED <<rosterVars, points, config, voteVars, sessionVars, round, endedAge,
                   lifeVars>>

\* Slip: the host's return lifts any pause.
HostReturnsToAnyPause ==
    /\ Alive
    /\ host = "away"
    /\ host' = "here" /\ hostAway' = 0
    /\ Unpause
    /\ idle' = 0
    /\ UNCHANGED <<rosterVars, points, config, voteVars, sessionVars, round, endedAge,
                   lifeVars>>

\* attachHost with the host's token: lifts only the pause its absence caused.
HostReturns ==
    /\ Alive
    /\ host = "away"
    /\ host' = "here" /\ hostAway' = 0
    /\ IF phase = "paused" /\ pauseReason = "host_disconnected"
       THEN Unpause
       ELSE UNCHANGED <<phaseVars, pauseVars>>
    /\ idle' = 0
    /\ UNCHANGED <<rosterVars, points, config, voteVars, sessionVars, round, endedAge,
                   lifeVars>>

HostActs == Alive /\ host = "here" /\ idle' = 0 /\ UNCHANGED <<hostVars, lifeVars>>

Configure(c) ==
    /\ HostActs
    /\ partyPhase = "party_lobby"
    /\ config' = c
    /\ UNCHANGED <<rosterVars, points, phaseVars, pauseVars, voteVars, sessionVars,
                   round, endedAge>>

StartParty ==
    /\ HostActs
    /\ partyPhase = "party_lobby"
    /\ ConnectedCount >= MinPlayers
    /\ Eligible(ConnectedCount, Excluded(config.repeat, lastActivity,
                                         HistoryAfterOptions(ConnectedCount))) # {}
    /\ BeginVote
    /\ UNCHANGED <<seat, points, pauseVars, config, activityIndex, lastActivity, awarded,
                   round, endedAge>>

Pause ==
    /\ HostActs
    /\ partyPhase \notin {"party_lobby", "ended", "paused"}
    /\ PauseFor("manual")
    /\ UNCHANGED <<rosterVars, points, config, voteVars, sessionVars, round, endedAge>>

Resume ==
    /\ HostActs
    /\ partyPhase = "paused"
    /\ Unpause
    /\ UNCHANGED <<rosterVars, points, config, voteVars, sessionVars, round, endedAge>>

\* Slip: skipping in any phase, so that results follow a vote.
SkipAnyPhase ==
    /\ HostActs
    /\ partyPhase \notin {"party_lobby", "paused", "ended"}
    /\ ShowResults(SkippedTicks)
    /\ UNCHANGED <<rosterVars, points, pauseVars, config, voteVars, activity,
                   activityIndex, round>>

\* skipRotationActivityLocked: results without points.
Skip ==
    /\ HostActs
    /\ partyPhase = "activity"
    /\ ShowResults(SkippedTicks)
    /\ UNCHANGED <<rosterVars, points, pauseVars, config, voteVars, activity,
                   activityIndex, round>>

End ==
    /\ HostActs
    /\ FinishParty
    /\ UNCHANGED <<rosterVars, points, pauseVars, config, voteVars, sessionVars, round>>

\* Slip: a rematch that keeps the standings.
PlayAgainWithPoints ==
    /\ HostActs
    /\ partyPhase = "ended"
    /\ partyPhase' = "party_lobby" /\ phase' = "lobby" /\ phaseLeft' = 0
    /\ resumePhase' = "" /\ resumePartyPhase' = "" /\ pauseReason' = "" /\ pauseLeft' = 0
    /\ activity' = NoActivity /\ activityIndex' = 0 /\ lastActivity' = NoActivity
    /\ history' = {} /\ awarded' = FALSE /\ queued' = {} /\ active' = Connected
    /\ UNCHANGED <<seat, config, points, voteVars, round, endedAge>>

\* restartPartyLocked
PlayAgain ==
    /\ HostActs
    /\ partyPhase = "ended"
    /\ partyPhase' = "party_lobby" /\ phase' = "lobby" /\ phaseLeft' = 0
    /\ resumePhase' = "" /\ resumePartyPhase' = "" /\ pauseReason' = "" /\ pauseLeft' = 0
    /\ endedAge' = 0
    /\ activity' = NoActivity /\ activityIndex' = 0 /\ lastActivity' = NoActivity
    /\ history' = {} /\ awarded' = FALSE
    /\ options' = {} /\ votes' = NoVotes /\ voteLeft' = 0 /\ voteAge' = 0
    /\ round' = 0
    /\ queued' = {} /\ active' = Connected
    /\ points' = [p \in Players |-> 0]
    /\ UNCHANGED <<seat, config>>

\* choose_activity, open to the host when the settings let the host pick.
ChooseActivity(a) ==
    /\ HostActs
    /\ partyPhase = "voting" /\ config.method = "host"
    /\ a \in options
    /\ Spin(a)
    /\ UNCHANGED <<rosterVars, points, pauseVars, config, voteVars, activityIndex,
                   lastActivity, history, awarded, round, endedAge>>

\* The player's record is deleted and its token blocked.
Kick(p) ==
    /\ HostActs
    /\ p \in Roster
    /\ seat' = [seat EXCEPT ![p] = "kicked"]
    /\ active' = active \ {p} /\ queued' = queued \ {p}
    /\ votes' = [votes EXCEPT ![p] = NoActivity]
    /\ points' = [points EXCEPT ![p] = 0]
    /\ UNCHANGED <<phaseVars, pauseVars, config, options, voteLeft, voteAge, sessionVars,
                   round, endedAge>>

----------------------------------------------------------------------------
(* The room's goroutine *)

\* Slip: a paused room waits for its host for ever.
HostTimedOutUnpaused == host = "away" /\ hostAway = HostReconnectTicks /\ phase # "paused"

HostTimedOut == host = "away" /\ hostAway = HostReconnectTicks

\* step: a host that stays away ends the room, with endedAt set back so that
\* shouldExpire removes it in the same iteration.
HostTimeout ==
    /\ Alive
    /\ HostTimedOut
    /\ phase # "ended" \/ endedAge # RetentionTicks
    /\ phase' = "ended" /\ partyPhase' = "ended"
    /\ endedAge' = RetentionTicks
    /\ UNCHANGED <<hostVars, rosterVars, points, phaseLeft, pauseVars, config, voteVars,
                   sessionVars, round, idle, lifeVars>>

\* stepRotationLocked in the given party phase.
Stepping(inPhase) ==
    /\ Alive
    /\ ~HostTimedOut
    /\ partyPhase = inPhase
    /\ UNCHANGED <<hostVars, idle, lifeVars>>

\* Slip: the vote waits for everybody.
VoteDueWhenAllVoted == voteAge = VoteMinTicks /\ AllConnectedVoted

VoteDue == voteLeft = 0 \/ (voteAge = VoteMinTicks /\ AllConnectedVoted)

CloseVote ==
    /\ Stepping("voting")
    /\ VoteDue
    /\ \E audience \in options \cup {NoActivity} :
          \E winner \in Winners(audience) : Spin(winner)
    /\ UNCHANGED <<rosterVars, points, pauseVars, config, voteVars, activityIndex,
                   lastActivity, history, awarded, round, endedAge>>

\* Without a card there is no ballot, and slicing ballots[1:] panics: the
\* process dies with every room in it.
CloseEmptyVote ==
    /\ Alive
    /\ ~HostTimedOut
    /\ partyPhase = "voting"
    /\ VoteDue
    /\ options = {}
    /\ life' = "crashed"
    /\ UNCHANGED <<hostVars, rosterVars, points, phaseVars, pauseVars, config, voteVars,
                   sessionVars, round, endedAge, idle, restarts>>

SpinEnds ==
    /\ Stepping("spinning")
    /\ phaseLeft = 0
    /\ phase' = "next_up" /\ partyPhase' = "next_up" /\ phaseLeft' = NextUpTicks
    /\ UNCHANGED <<rosterVars, points, pauseVars, config, voteVars, sessionVars, round,
                   endedAge>>

NextUpEnds ==
    /\ Stepping("next_up")
    /\ phaseLeft = 0
    /\ StartActivity
    /\ UNCHANGED <<seat, points, pauseVars, config>>

\* A heat or round of the running game ends, on its clock or early; the last
\* one completes the activity.
RoundEnds ==
    /\ Stepping("activity")
    /\ IF round < GameRounds
       THEN /\ round' = round + 1
            /\ phaseLeft' = GameTicks
            /\ SeatRound(Catalog[activity].reseats, active, queued)
            /\ UNCHANGED <<seat, points, phase, partyPhase, sessionVars, endedAge>>
       ELSE /\ CompleteActivity
            /\ UNCHANGED <<rosterVars, activity, activityIndex, round>>
    /\ UNCHANGED <<pauseVars, config, voteVars>>

\* Slip: one activity too many.
ResultsEndLate ==
    /\ Stepping("results")
    /\ phaseLeft = 0
    /\ IF activityIndex > config.target
       THEN FinishParty /\ UNCHANGED <<rosterVars, voteVars, sessionVars>>
       ELSE BeginVote /\ UNCHANGED <<seat, activityIndex, lastActivity, awarded, endedAge>>
    /\ UNCHANGED <<points, pauseVars, config, round>>

ResultsEnd ==
    /\ Stepping("results")
    /\ phaseLeft = 0
    /\ IF activityIndex >= config.target
       THEN /\ FinishParty
            /\ UNCHANGED <<rosterVars, voteVars, sessionVars>>
       ELSE /\ BeginVote
            /\ UNCHANGED <<seat, activityIndex, lastActivity, awarded, endedAge>>
    /\ UNCHANGED <<points, pauseVars, config, round>>

\* Slip: an ended room with a host never expires.
ShouldExpireHostless ==
    \/ partyPhase = "ended" /\ endedAge = RetentionTicks /\ host = "away"
    \/ partyPhase = "party_lobby" /\ idle = LobbyTicks /\ ~HostTimedOut

\* shouldExpire and removePartyRoom, after the step of the same iteration.
ShouldExpire ==
    \/ partyPhase = "ended" /\ endedAge = RetentionTicks
    \/ partyPhase = "party_lobby" /\ idle = LobbyTicks /\ ~HostTimedOut

Expire ==
    /\ Alive
    /\ ShouldExpire
    /\ life' = "removed"
    /\ UNCHANGED <<hostVars, rosterVars, points, phaseVars, pauseVars, config, voteVars,
                   sessionVars, round, endedAge, idle, restarts>>

----------------------------------------------------------------------------
(* Time and the server process *)

Less(n) == IF n = 0 THEN 0 ELSE n - 1
\* Slip: a clock without a limit.
MoreWithoutLimit(n, limit) == n + 1

More(n, limit) == IF n < limit THEN n + 1 ELSE limit

\* The vote keeps its own closing time, which a pause does not move.  Clocks
\* that nothing reads in the present phase stand still.
Tick ==
    /\ Alive
    /\ phaseLeft' = IF partyPhase \in RunningPhases THEN Less(phaseLeft) ELSE phaseLeft
    /\ voteLeft' = IF EffectivePhase = "voting" THEN Less(voteLeft) ELSE voteLeft
    /\ voteAge' = IF EffectivePhase = "voting" THEN More(voteAge, VoteMinTicks) ELSE voteAge
    /\ hostAway' = IF host = "away" THEN More(hostAway, HostReconnectTicks) ELSE hostAway
    /\ endedAge' = IF partyPhase = "ended" THEN More(endedAge, RetentionTicks) ELSE endedAge
    /\ idle' = IF partyPhase = "party_lobby" THEN More(idle, LobbyTicks) ELSE idle
    /\ <<phaseLeft, voteLeft, voteAge, hostAway, endedAge, idle>>' #
       <<phaseLeft, voteLeft, voteAge, hostAway, endedAge, idle>>
    /\ UNCHANGED <<host, rosterVars, points, phase, partyPhase, pauseVars, config,
                   options, votes, sessionVars, round, lifeVars>>

\* restorePartyRoom: nobody is connected, and a running party is paused.  The
\* downtime has used up part of the vote's absolute clocks.
Restart ==
    /\ life # "removed"
    /\ restarts < MaxRestarts
    /\ restarts' = restarts + 1
    /\ life' = "live"
    /\ host' = "away" /\ hostAway' = 0
    /\ seat' = [p \in Players |-> IF seat[p] = "in" THEN "out" ELSE seat[p]]
    /\ IF partyPhase \in {"party_lobby", "paused", "ended"}
       THEN UNCHANGED <<phaseVars, pauseVars>>
       ELSE PauseFor("host_disconnected")
    /\ idle' = 0
    /\ voteLeft' \in IF EffectivePhase = "voting" THEN 0 .. voteLeft ELSE {voteLeft}
    /\ voteAge' \in IF EffectivePhase = "voting" THEN voteAge .. VoteMinTicks ELSE {voteAge}
    /\ endedAge' \in IF partyPhase = "ended" THEN endedAge .. RetentionTicks ELSE {endedAge}
    /\ UNCHANGED <<active, queued, points, config, options, votes, sessionVars, round>>

----------------------------------------------------------------------------

Step == \/ HostTimeout
        \/ CloseVote \/ CloseEmptyVote
        \/ SpinEnds \/ NextUpEnds \/ RoundEnds \/ ResultsEnd

PlayerActs == \E p \in Players : \/ Join(p) \/ Reconnect(p) \/ Disconnect(p)
                                 \/ \E a \in Activities : Vote(p, a)

HostCommands ==
    \/ \E c \in Configs : Configure(c)
    \/ StartParty \/ Pause \/ Resume \/ Skip \/ End \/ PlayAgain
    \/ \E a \in Activities : ChooseActivity(a)
    \/ \E p \in Players : Kick(p)

Next == \/ PlayerActs \/ OtherInput
        \/ HostLeaves \/ HostReturns \/ HostCommands
        \/ Step \/ Expire \/ Tick \/ Restart

Spec == Init /\ [][Next]_vars

\* The room's goroutine keeps iterating and time passes; nobody has to join,
\* vote, come back or press a button.
Fairness == WF_vars(Step) /\ WF_vars(Expire) /\ WF_vars(Tick)

FairSpec == Spec /\ Fairness

----------------------------------------------------------------------------
(* Properties *)

\* The phases a party can be in, room phase beside party phase.
RunningPairs == {<<"voting", "voting">>, <<"spinning", "spinning">>,
                 <<"next_up", "next_up">>, <<"playing", "activity">>,
                 <<"podium", "results">>}
RestingPairs == {<<"lobby", "party_lobby">>, <<"party_podium", "ended">>,
                 <<"ended", "ended">>}

\* The two phase fields move together, and a paused party remembers a running
\* phase to return to: pauseLocked by the host's button and by a lost host,
\* resumeLocked, a restore and the host timeout never leave them apart.
PauseConsistent ==
    IF partyPhase = "paused" \/ phase = "paused"
    THEN /\ partyPhase = phase
         /\ <<resumePhase, resumePartyPhase>> \in RunningPairs
         /\ pauseReason \in {"manual", "host_disconnected"}
    ELSE <<phase, partyPhase>> \in RunningPairs \cup RestingPairs

\* A party never runs on without its host: while the host is away the room is
\* in the lobby, paused or over, whatever the players, a restart and the
\* room's goroutine do.
HostlessNeverRuns ==
    host = "away" => partyPhase \in {"party_lobby", "paused", "ended"}

\* A pause the host asked for outlives the host's connection: losing the host
\* and getting it back lifts only a pause that the loss itself caused.
ManualPauseHolds ==
    [][(partyPhase = "paused" /\ pauseReason = "manual" /\ host' # host)
         => partyPhase' = "paused" /\ UNCHANGED pauseVars]_vars

Scored == IF EffectivePhase = "activity" THEN activityIndex - 1 ELSE activityIndex
MaxAward == PlacementPoints[1] + CatchUpBonus

\* Nobody holds more points than the activities scored so far can have given:
\* no skip, pause, restart, late join or rematch awards an activity twice or
\* carries points over.
StandingsEarned == \A p \in Players : points[p] <= MaxAward * Scored

\* A session never plays more activities than its preset says.
TargetRespected ==
    /\ activityIndex <= config.target
    /\ EffectivePhase \in {"voting", "spinning", "next_up"} => activityIndex < config.target

\* Repeat avoidance holds from the vote to the end of the activity: the
\* activity chosen is not the last one, nor, with "session", one that has been
\* played since the pool was last exhausted.
NoRepeats ==
    (EffectivePhase \in {"spinning", "next_up", "activity"} /\ activity # NoActivity)
        => /\ config.repeat # "off" => activity # lastActivity
           /\ config.repeat = "session" => activity \notin history

\* Only connected players' votes for a card on screen, the audience's one
\* ballot or, without any, the neutral ballots decide; with "majority" no other
\* card had more ballots, counting the players' ballots alone it trails the
\* best card by at most the audience's one ballot.
VoteDecides ==
    [][(partyPhase = "voting" /\ partyPhase' = "spinning" /\ config.method = "majority")
         => \A a \in Activities :
               Cardinality({p \in Players : seat[p] = "in" /\ votes[p] = a /\ a \in options})
                 <= 1 + Cardinality({p \in Players : seat[p] = "in" /\ votes[p] = activity'})]_vars

\* The vote never stays open longer than the countdown the room shows, also
\* across pauses and restarts (the other way round it does not hold: a pause
\* stops the countdown and not the vote's own clock).
VoteNeverLate ==
    EffectivePhase = "voting" =>
        voteLeft <= (IF partyPhase = "paused" THEN pauseLeft ELSE phaseLeft)

\* What the room promises its players (PartySession): hosts, pauses, votes,
\* clocks, crashes and restarts are invisible to the session and its standings.
Stage ==
    IF life = "removed" THEN "gone"
    ELSE CASE EffectivePhase = "party_lobby" -> "lobby"
           [] EffectivePhase \in {"voting", "spinning", "next_up"} -> "choosing"
           [] EffectivePhase = "activity" -> "playing"
           [] EffectivePhase = "results" -> "scored"
           [] EffectivePhase = "ended" -> "ended"

Session == INSTANCE PartySession
           WITH stage <- Stage, played <- activityIndex, target <- config.target,
                standing <- points

ImplementsSession == Session!SessionSpec

\* A room whose host does not come back goes away, paused or not.
HostlessRoomGoes == (host = "away") ~> (host = "here" \/ ~Alive)

\* A running phase comes to its end: no vote, wheel, card, activity or score
\* board stays for ever once the party is not paused.
PartyMoves ==
    \A ph \in RunningPhases : (partyPhase = ph) ~> (partyPhase # ph \/ ~Alive)

\* An ended room is removed or played again; to keep it the host must end it
\* over and over, which starts its retention anew (finishPartyLocked).
EndedRoomGoes == []<>(partyPhase # "ended" \/ endedAge = 0 \/ ~Alive)

\* No room stays for ever that its host has left or that has ended, in whatever
\* phase or pause it was (shouldExpire, step).
RoomsGo == HostlessRoomGoes /\ EndedRoomGoes

\* README.md:96 "When the session pool is exhausted, history resets and selection
\* continues": a vote that begins with enough players offers a card.
SelectionContinues ==
    [][(partyPhase \in {"next_up", "results"} /\ partyPhase' = "voting"
          /\ ConnectedCount >= MinPlayers) => options' # {}]_vars

\* party_rotation_test.go:136 "no-vote fallback was not neutral": a vote that
\* closes without ballots falls back to a neutral pick; it never brings the
\* server down.
NoVoteFallback == life # "crashed"

============================================================================
