------------------------ MODULE PartyRotationProofs ------------------------
(***************************************************************************)
(* Theorems about PartyRotation, for every roster, catalog, settings and   *)
(* every length of its clocks: phases, roster, selection and clocks, the   *)
(* session that the room promises its players, votes and manual pauses.    *)
(***************************************************************************)
EXTENDS PartyRotation, FiniteSetTheorems, TLAPS

-----------------------------------------------------------------------------
(* Phases, pauses and the host *)

PhaseType ==
    /\ phase \in RoomPhases /\ partyPhase \in PartyPhases
    /\ resumePhase \in RoomPhases \cup {""}
    /\ resumePartyPhase \in PartyPhases \cup {""}
    /\ pauseReason \in {"", "manual", "host_disconnected"}

PhaseInv == PhaseType /\ PauseConsistent

RoomInv == RoomType /\ PauseConsistent /\ HostlessNeverRuns

LEMMA PhaseInvKept ==
    ASSUME PhaseInv, UNCHANGED <<phase, partyPhase>>, UNCHANGED <<resumePhase, resumePartyPhase, pauseReason>>
    PROVE  PhaseInv'
  BY DEF PhaseInv, PhaseType, PauseConsistent

\* A handler that sets both phases to a pair of the lists keeps them together.
LEMMA PhaseInvMove ==
    ASSUME PhaseInv,
           <<phase', partyPhase'>> \in RunningPairs \cup RestingPairs,
           \/ UNCHANGED <<resumePhase, resumePartyPhase, pauseReason>>
           \/ resumePhase' = "" /\ resumePartyPhase' = "" /\ pauseReason' = ""
    PROVE  PhaseInv'
<1>1. PhaseType'
    BY DEF PhaseInv, PhaseType, RunningPairs, RestingPairs, RoomPhases, PartyPhases, RunningPhases
<1>2. ~(partyPhase' = "paused" \/ phase' = "paused")
    BY DEF RunningPairs, RestingPairs
<1>. QED
    BY <1>1, <1>2 DEF PhaseInv, PauseConsistent

LEMMA PhaseInvPause ==
    ASSUME PhaseInv, NEW reason \in {"manual", "host_disconnected"},
           partyPhase \notin {"party_lobby", "ended"}, PauseFor(reason)
    PROVE  PhaseInv' /\ partyPhase' = "paused"
<1>1. CASE phase = "paused"
    BY <1>1 DEF PhaseInv, PhaseType, PauseConsistent, PauseFor, phaseVars, pauseVars
<1>2. CASE phase # "paused"
  <2>1. partyPhase # "paused"
      BY <1>2 DEF PhaseInv, PauseConsistent
  <2>2. <<phase, partyPhase>> \in RunningPairs
      BY <1>2, <2>1 DEF PhaseInv, PauseConsistent, RestingPairs
  <2>3. /\ resumePhase' = phase /\ resumePartyPhase' = partyPhase
        /\ partyPhase' = "paused" /\ phase' = "paused" /\ pauseReason' = reason
      BY <1>2 DEF PauseFor
  <2>. QED
      BY <2>2, <2>3 DEF PhaseInv, PhaseType, PauseConsistent, RoomPhases, PartyPhases
<1>. QED
    BY <1>1, <1>2

LEMMA PhaseInvResume == ASSUME PhaseInv, Unpause PROVE PhaseInv'
<1>1. CASE phase = "paused"
  <2>1. <<resumePhase, resumePartyPhase>> \in RunningPairs
      BY <1>1 DEF PhaseInv, PauseConsistent
  <2>2. /\ phase' = resumePhase /\ partyPhase' = resumePartyPhase
        /\ resumePhase' = "" /\ resumePartyPhase' = "" /\ pauseReason' = ""
      BY <1>1 DEF Unpause
  <2>. QED
      BY <2>1, <2>2, PhaseInvMove
<1>2. CASE phase # "paused"
    BY <1>2, PhaseInvKept DEF Unpause, phaseVars, pauseVars
<1>. QED
    BY <1>1, <1>2

LEMMA RoomInvParts ==
    ASSUME RoomInv
    PROVE  PhaseInv
  BY DEF RoomInv, RoomType, PhaseInv, PhaseType

LEMMA RoomInvFromParts ==
    ASSUME PhaseInv', host' \in {"here", "away"}, life' \in {"live", "crashed", "removed"},
           host' = "away" => partyPhase' \in {"party_lobby", "paused", "ended"}
    PROVE  RoomInv'
  BY DEF RoomInv, RoomType, PhaseInv, PhaseType, HostlessNeverRuns

\* Most handlers leave the phases alone.
LEMMA RoomInvKept ==
    ASSUME RoomInv, UNCHANGED <<phaseVars, pauseVars, host>>,
           life' \in {"live", "crashed", "removed"}
    PROVE  RoomInv'
<1>1. PhaseInv'
    BY RoomInvParts, PhaseInvKept DEF phaseVars, pauseVars
<1>. QED
    BY <1>1, RoomInvFromParts DEF RoomInv, RoomType, HostlessNeverRuns, phaseVars

LEMMA InitRoomInv == Init => RoomInv
  BY DEF Init, RoomInv, RoomType, RoomPhases, PartyPhases, RunningPhases,
         PauseConsistent, RestingPairs, HostlessNeverRuns

\* A handler that keeps a host that is here and moves to a running or resting
\* pair of phases.
LEMMA RoomInvMove ==
    ASSUME RoomInv, UNCHANGED <<host, life>>,
           host = "here" \/ partyPhase' = "ended",
           <<phase', partyPhase'>> \in RunningPairs \cup RestingPairs,
           \/ UNCHANGED pauseVars
           \/ resumePhase' = "" /\ resumePartyPhase' = "" /\ pauseReason' = ""
    PROVE  RoomInv'
<1>1. PhaseInv'
    BY RoomInvParts, PhaseInvMove DEF pauseVars
<1>. QED
    BY <1>1, RoomInvFromParts DEF RoomInv, RoomType

\* The room's goroutine moves only a party whose host is here: a running phase.
LEMMA SteppingHere ==
    ASSUME RoomInv, NEW ph \in RunningPhases, Stepping(ph)
    PROVE  host = "here" /\ UNCHANGED <<host, life>>
  BY DEF RoomInv, RoomType, HostlessNeverRuns, Stepping, RunningPhases, hostVars, lifeVars

LEMMA NextRoomInv ==
    ASSUME RoomInv, Next
    PROVE  RoomInv'
<1>. USE DEF hostVars, lifeVars
<1>. life \in {"live", "crashed", "removed"} /\ host \in {"here", "away"}
    BY DEF RoomInv, RoomType
<1>. PhaseInv
    BY RoomInvParts
<1>1. CASE PlayerActs
    BY <1>1, RoomInvKept DEF PlayerActs, Join, Reconnect, Disconnect, Vote
<1>2. CASE OtherInput
    BY <1>2, RoomInvKept DEF OtherInput
<1>3. CASE HostLeaves
  <2>1. CASE partyPhase \in {"party_lobby", "ended"}
      BY <1>3, <2>1, PhaseInvKept, RoomInvFromParts DEF HostLeaves, phaseVars, pauseVars
  <2>2. CASE partyPhase \notin {"party_lobby", "ended"}
      BY <1>3, <2>2, PhaseInvPause, RoomInvFromParts DEF HostLeaves
  <2>. QED
      BY <2>1, <2>2
<1>4. CASE HostReturns
  <2>1. PhaseInv'
      BY <1>4, PhaseInvKept, PhaseInvResume DEF HostReturns, phaseVars, pauseVars
  <2>. QED
      BY <1>4, <2>1, RoomInvFromParts DEF HostReturns
<1>5. CASE HostCommands
  <2>. host = "here" /\ UNCHANGED <<host, life>>
      BY <1>5 DEF HostCommands, HostActs, Configure, StartParty, Pause, Resume, Skip, End,
                  PlayAgain, ChooseActivity, Kick
  <2>1. ASSUME NEW c \in Configs, Configure(c) PROVE RoomInv'
      BY <2>1, RoomInvKept DEF Configure
  <2>2. CASE StartParty
      BY <2>2, RoomInvMove DEF StartParty, BeginVote, RunningPairs
  <2>3. CASE Pause
      BY <2>3, PhaseInvPause, RoomInvFromParts DEF Pause
  <2>4. CASE Resume
      BY <2>4, PhaseInvResume, RoomInvFromParts DEF Resume
  <2>5. CASE Skip
      BY <2>5, RoomInvMove DEF Skip, ShowResults, RunningPairs
  <2>6. CASE End
      BY <2>6, RoomInvMove DEF End, FinishParty, RestingPairs
  <2>7. CASE PlayAgain
      BY <2>7, RoomInvMove DEF PlayAgain, RestingPairs
  <2>8. ASSUME NEW a \in Activities, ChooseActivity(a) PROVE RoomInv'
      BY <2>8, RoomInvMove DEF ChooseActivity, Spin, RunningPairs
  <2>9. ASSUME NEW p \in Players, Kick(p) PROVE RoomInv'
      BY <2>9, RoomInvKept DEF Kick
  <2>. QED
      BY <1>5, <2>1, <2>2, <2>3, <2>4, <2>5, <2>6, <2>7, <2>8, <2>9 DEF HostCommands
<1>6. CASE Step
  <2>1. CASE HostTimeout
      BY <2>1, RoomInvMove DEF HostTimeout, RestingPairs
  <2>2. CASE CloseVote
    <3>. host = "here" /\ UNCHANGED <<host, life>>
        BY <2>2, SteppingHere DEF CloseVote, RunningPhases
    <3>. QED
        BY <2>2, RoomInvMove DEF CloseVote, Spin, RunningPairs
  <2>3. CASE CloseEmptyVote
      BY <2>3, RoomInvKept DEF CloseEmptyVote
  <2>4. CASE SpinEnds
    <3>. host = "here" /\ UNCHANGED <<host, life>>
        BY <2>4, SteppingHere DEF SpinEnds, RunningPhases
    <3>. QED
        BY <2>4, RoomInvMove DEF SpinEnds, RunningPairs
  <2>5. CASE NextUpEnds
    <3>. host = "here" /\ UNCHANGED <<host, life>>
        BY <2>5, SteppingHere DEF NextUpEnds, RunningPhases
    <3>1. <<phase', partyPhase'>> \in RunningPairs
        BY <2>5 DEF NextUpEnds, StartActivity, BeginVote, RunningPairs
    <3>. QED
        BY <2>5, <3>1, RoomInvMove DEF NextUpEnds
  <2>6. CASE RoundEnds
    <3>. host = "here" /\ UNCHANGED <<host, life>>
        BY <2>6, SteppingHere DEF RoundEnds, RunningPhases
    <3>1. UNCHANGED <<phase, partyPhase>> \/ <<phase', partyPhase'>> \in RunningPairs
        BY <2>6 DEF RoundEnds, CompleteActivity, ShowResults, RunningPairs, phaseVars
    <3>2. UNCHANGED pauseVars
        BY <2>6 DEF RoundEnds
    <3>3. PhaseInv'
        BY <3>1, <3>2, PhaseInvKept, PhaseInvMove DEF pauseVars
    <3>. QED
        BY <3>3, RoomInvFromParts
  <2>7. CASE ResultsEnd
    <3>. host = "here" /\ UNCHANGED <<host, life>>
        BY <2>7, SteppingHere DEF ResultsEnd, RunningPhases
    <3>1. <<phase', partyPhase'>> \in RunningPairs \cup RestingPairs
        BY <2>7 DEF ResultsEnd, FinishParty, BeginVote, RunningPairs, RestingPairs
    <3>. QED
        BY <2>7, <3>1, RoomInvMove DEF ResultsEnd
  <2>. QED
      BY <1>6, <2>1, <2>2, <2>3, <2>4, <2>5, <2>6, <2>7 DEF Step
<1>7. CASE Expire
    BY <1>7, RoomInvKept DEF Expire
<1>8. CASE Tick
  <2>1. PhaseInv'
      BY <1>8, PhaseInvKept DEF Tick, pauseVars
  <2>. QED
      BY <1>8, <2>1, RoomInvFromParts DEF Tick, RoomInv, HostlessNeverRuns
<1>9. CASE Restart
  <2>1. CASE partyPhase \in {"party_lobby", "paused", "ended"}
    <3>1. PhaseInv'
        BY <1>9, <2>1, PhaseInvKept DEF Restart, phaseVars, pauseVars
    <3>. QED
        BY <1>9, <2>1, <3>1, RoomInvFromParts DEF Restart, phaseVars
  <2>2. CASE partyPhase \notin {"party_lobby", "paused", "ended"}
      BY <1>9, <2>2, PhaseInvPause, RoomInvFromParts DEF Restart
  <2>. QED
      BY <2>1, <2>2
<1>. QED
    BY <1>1, <1>2, <1>3, <1>4, <1>5, <1>6, <1>7, <1>8, <1>9 DEF Next

\* The phase fields of a room and its pause stay consistent, and a party never
\* runs without its host, for every roster, catalog and length of the clocks.
THEOREM RoomCorrect == Spec => []RoomInv
<1>1. RoomInv /\ UNCHANGED vars => RoomInv'
    BY RoomInvKept DEF vars, hostVars, lifeVars, RoomInv, RoomType
<1>. QED
    BY InitRoomInv, NextRoomInv, <1>1, PTL DEF Spec

\* pauseLocked, resumeLocked, a lost host, a restore and the host timeout never
\* leave the two phase fields apart, and a paused party can always resume.
THEOREM PausesConsistent == Spec => []PauseConsistent
<1>1. RoomInv => PauseConsistent
    BY DEF RoomInv
<1>. QED
    BY RoomCorrect, <1>1, PTL

\* While the host is away, the party is in the lobby, paused or over.
THEOREM HostlessRoomsWait == Spec => []HostlessNeverRuns
<1>1. RoomInv => HostlessNeverRuns
    BY DEF RoomInv
<1>. QED
    BY RoomCorrect, <1>1, PTL

-----------------------------------------------------------------------------
(* Types of the roster, the selection and the clocks *)

LEMMA ClockTypes ==
    /\ VoteTicks \in Nat \ {0} /\ SpinTicks \in Nat \ {0} /\ NextUpTicks \in Nat \ {0}
    /\ ResultsTicks \in Nat \ {0} /\ SkippedTicks \in Nat \ {0} /\ GameTicks \in Nat \ {0}
    /\ HostReconnectTicks \in Nat \ {0} /\ RetentionTicks \in Nat \ {0}
    /\ LobbyTicks \in Nat \ {0} /\ GameRounds \in Nat \ {0}
    /\ VoteMinTicks \in 0 .. VoteTicks /\ VoteMinTicks \in Nat /\ MaxRestarts \in Nat
  BY ClockAssumption

\* Seated players only play and wait, and they are never more than the room
\* takes.
RosterInv ==
    /\ seat \in [Players -> Seats]
    /\ active \subseteq Roster /\ queued \subseteq Roster
    /\ Cardinality(Roster) <= MaxPlayers

\* The running activity is one of the catalog.
ActivityPicked == EffectivePhase = "activity" => activity \in Activities

SelectionInv == SelectionType /\ ActivityPicked

LEMMA RosterFinite == IsFiniteSet(Roster) /\ Cardinality(Roster) \in Nat
  BY RosterAssumption, FS_Subset, FS_CardinalityType DEF Roster

LEMMA ConnectedInRoster == Connected \subseteq Roster
  BY DEF Connected, Roster

LEMMA SameRoster == ASSUME Roster' = Roster, RosterInv, seat' \in [Players -> Seats],
                           active' \subseteq Roster, queued' \subseteq Roster
                    PROVE  RosterInv'
  BY DEF RosterInv

LEMMA RosterInvKept == ASSUME RosterInv, UNCHANGED rosterVars PROVE RosterInv'
  BY DEF RosterInv, rosterVars, Roster

\* A vote or a round reseats players of the roster, whose seats stay.
LEMMA BeginVoteRoster ==
    ASSUME RosterInv, BeginVote, UNCHANGED seat
    PROVE  RosterInv'
  BY ConnectedInRoster, SameRoster DEF BeginVote, RosterInv, Roster

LEMMA SeatRoundRoster ==
    ASSUME RosterInv, UNCHANGED seat, NEW reseats \in Reseats,
           NEW A \in SUBSET Roster, NEW Q \in SUBSET Roster, SeatRound(reseats, A, Q)
    PROVE  RosterInv'
<1>1. active' \subseteq Roster /\ queued' \subseteq Roster
    BY ConnectedInRoster DEF SeatRound, Reseats
<1>. QED
    BY <1>1, SameRoster DEF RosterInv, Roster

LEMMA ReseatsType == \A a \in Activities : Catalog[a].reseats \in Reseats
  BY CatalogAssumption

LEMMA InitRosterInv == Init => RosterInv
<1> SUFFICES ASSUME Init PROVE RosterInv
    OBVIOUS
<1>1. Roster = {}
    BY DEF Init, Roster
<1>2. Cardinality(Roster) <= MaxPlayers
    BY <1>1, FS_EmptySet, RosterAssumption
<1>3. seat \in [Players -> Seats] /\ active = {} /\ queued = {}
    BY DEF Init, Seats
<1>. QED
    BY <1>2, <1>3 DEF RosterInv

LEMMA NextRosterInv ==
    ASSUME RoomInv, RosterInv, SelectionInv, Next
    PROVE  RosterInv'
<1>. USE DEF rosterVars
<1>1. ASSUME NEW p \in Players, Join(p) PROVE RosterInv'
  <2>1. Roster' = Roster \cup {p} /\ p \notin Roster /\ Cardinality(Roster) < MaxPlayers
      BY <1>1 DEF Join, Roster, RosterInv
  <2>2. Cardinality(Roster') = Cardinality(Roster) + 1
      BY <2>1, RosterFinite, FS_AddElement
  <2>3. Cardinality(Roster') <= MaxPlayers
      BY <2>1, <2>2, RosterFinite, RosterAssumption
  <2>4. seat' \in [Players -> Seats]
      BY <1>1 DEF Join, RosterInv, Seats
  <2>5. active' \subseteq Roster' /\ queued' \subseteq Roster'
      BY <1>1, <2>1 DEF Join, RosterInv
  <2>. QED
      BY <2>3, <2>4, <2>5 DEF RosterInv
<1>2. ASSUME NEW p \in Players, Reconnect(p) \/ Disconnect(p) PROVE RosterInv'
  <2>1. Roster' = Roster
      BY <1>2 DEF Reconnect, Disconnect, Roster, RosterInv
  <2>2. seat' \in [Players -> Seats] /\ UNCHANGED <<active, queued>>
      BY <1>2 DEF Reconnect, Disconnect, RosterInv, Seats
  <2>. QED
      BY <2>1, <2>2, SameRoster DEF RosterInv
<1>3. ASSUME NEW p \in Players, NEW a \in Activities, Vote(p, a) PROVE RosterInv'
    BY <1>3, RosterInvKept DEF Vote
<1>4. CASE OtherInput \/ HostLeaves \/ HostReturns \/ Expire \/ Tick
    BY <1>4, RosterInvKept DEF OtherInput, HostLeaves, HostReturns, Expire, Tick
<1>5. CASE HostCommands
  <2>1. CASE StartParty
      BY <2>1, BeginVoteRoster DEF StartParty
  <2>2. CASE PlayAgain
      BY <2>2, ConnectedInRoster, SameRoster DEF PlayAgain, RosterInv, Roster
  <2>3. ASSUME NEW p \in Players, Kick(p) PROVE RosterInv'
    <3>1. Roster' = Roster \ {p} /\ seat' \in [Players -> Seats]
        BY <2>3 DEF Kick, Roster, RosterInv, Seats
    <3>2. Cardinality(Roster') <= MaxPlayers
      <4>1. Roster' \subseteq Roster
          BY <3>1
      <4>2. Cardinality(Roster') <= Cardinality(Roster) /\ Cardinality(Roster') \in Nat
          BY <4>1, RosterFinite, FS_Subset, FS_CardinalityType
      <4>. QED
          BY <4>2, RosterFinite, RosterAssumption DEF RosterInv
    <3>3. active' \subseteq Roster' /\ queued' \subseteq Roster'
        BY <2>3, <3>1 DEF Kick, RosterInv
    <3>. QED
        BY <3>1, <3>2, <3>3 DEF RosterInv
  <2>4. CASE \/ \E c \in Configs : Configure(c)
             \/ Pause \/ Resume \/ Skip \/ End
             \/ \E a \in Activities : ChooseActivity(a)
      BY <2>4, RosterInvKept DEF Configure, Pause, Resume, Skip, End, ChooseActivity
  <2>. QED
      BY <1>5, <2>1, <2>2, <2>3, <2>4 DEF HostCommands
<1>6. CASE HostTimeout \/ CloseVote \/ CloseEmptyVote \/ SpinEnds
    BY <1>6, RosterInvKept DEF HostTimeout, CloseVote, CloseEmptyVote, SpinEnds
<1>7. CASE NextUpEnds
  <2>1. CASE BeginVote
      BY <1>7, <2>1, BeginVoteRoster DEF NextUpEnds
  <2>2. CASE activity # NoActivity
             /\ SeatRound(Catalog[activity].reseats, Connected, Roster \ Connected)
    <3>1. Catalog[activity].reseats \in Reseats
        BY <2>2, ReseatsType DEF SelectionInv, SelectionType
    <3>. QED
        BY <1>7, <2>2, <3>1, ConnectedInRoster, SeatRoundRoster DEF NextUpEnds
  <2>. QED
      BY <1>7, <2>1, <2>2 DEF NextUpEnds, StartActivity
<1>8. CASE RoundEnds
  <2>1. CASE round < GameRounds
    <3>1. activity \in Activities
        BY <1>8 DEF RoundEnds, Stepping, SelectionInv, ActivityPicked, EffectivePhase
    <3>2. Catalog[activity].reseats \in Reseats
        BY <3>1, ReseatsType
    <3>3. SeatRound(Catalog[activity].reseats, active, queued) /\ UNCHANGED seat
        BY <1>8, <2>1 DEF RoundEnds
    <3>. QED
        BY <3>2, <3>3, SeatRoundRoster DEF RosterInv
  <2>2. CASE ~(round < GameRounds)
      BY <1>8, <2>2, RosterInvKept DEF RoundEnds
  <2>. QED
      BY <2>1, <2>2
<1>9. CASE ResultsEnd
    BY <1>9, RosterInvKept, BeginVoteRoster DEF ResultsEnd
<1>10. CASE Restart
  <2>1. Roster' = Roster
      BY <1>10 DEF Restart, Roster, RosterInv
  <2>2. seat' \in [Players -> Seats] /\ UNCHANGED <<active, queued>>
      BY <1>10 DEF Restart, RosterInv, Seats
  <2>. QED
      BY <2>1, <2>2, SameRoster DEF RosterInv
<1>. QED
    BY <1>1, <1>2, <1>3, <1>4, <1>5, <1>6, <1>7, <1>8, <1>9, <1>10 DEF Next, PlayerActs, Step

LEMMA OptionSetsType ==
    ASSUME SelectionType, NEW n
    PROVE  /\ \A T \in OptionSets(n) : T \subseteq Activities
           /\ HistoryAfterOptions(n) \subseteq Activities
  BY DEF SelectionType, OptionSets, Shortlists, Eligible, ConfigType, HistoryAfterOptions

LEMMA BeginVoteSelection ==
    ASSUME SelectionType, BeginVote, UNCHANGED <<config, lastActivity>>
    PROVE  SelectionType' /\ EffectivePhase' = "voting"
  BY OptionSetsType DEF BeginVote, NoVotes, SelectionType, EffectivePhase

\* The selection and the effective phase stay.
LEMMA SelectionKept ==
    ASSUME SelectionInv, EffectivePhase' = EffectivePhase,
           UNCHANGED <<config, options, votes, activity, lastActivity, history>>
    PROVE  SelectionInv'
  BY DEF SelectionInv, SelectionType, ActivityPicked

\* Pausing, resuming and leaving the phases alone all keep the phase that a
\* party is effectively in.
LEMMA EffectiveKept ==
    ASSUME PhaseInv, UNCHANGED <<phaseVars, pauseVars>>
    PROVE  EffectivePhase' = EffectivePhase
  BY DEF EffectivePhase, phaseVars, pauseVars

LEMMA EffectivePause ==
    ASSUME PhaseInv, NEW reason, partyPhase \notin {"party_lobby", "ended"}, PauseFor(reason)
    PROVE  EffectivePhase' = EffectivePhase
<1>1. CASE phase = "paused"
    BY <1>1 DEF PauseFor, EffectivePhase, phaseVars, pauseVars
<1>2. CASE phase # "paused"
    BY <1>2 DEF PauseFor, EffectivePhase, PhaseInv, PauseConsistent
<1>. QED
    BY <1>1, <1>2

LEMMA EffectiveResume ==
    ASSUME PhaseInv, Unpause
    PROVE  EffectivePhase' = EffectivePhase
<1>1. CASE phase = "paused"
  <2>1. partyPhase = "paused" /\ resumePartyPhase # "paused"
      BY <1>1 DEF PhaseInv, PauseConsistent, RunningPairs
  <2>. QED
      BY <1>1, <2>1 DEF Unpause, EffectivePhase
<1>2. CASE phase # "paused"
    BY <1>2 DEF Unpause, EffectivePhase, phaseVars, pauseVars
<1>. QED
    BY <1>1, <1>2

\* What the handlers that pause, resume or leave the phases alone do to the
\* effective phase: nothing.
QuietActions ==
    \/ \E p \in Players : Join(p) \/ Reconnect(p) \/ Disconnect(p)
    \/ \E p \in Players, a \in Activities : Vote(p, a)
    \/ OtherInput \/ HostLeaves \/ HostReturns
    \/ \E c \in Configs : Configure(c)
    \/ Pause \/ Resume
    \/ \E p \in Players : Kick(p)
    \/ CloseEmptyVote \/ Expire \/ Tick \/ Restart

LEMMA QuietEffective ==
    ASSUME RoomInv, QuietActions
    PROVE  EffectivePhase' = EffectivePhase
<1>. PhaseInv
    BY RoomInvParts
<1>1. ASSUME NEW p \in Players, Join(p) \/ Reconnect(p) \/ Disconnect(p) \/ Kick(p)
      PROVE  EffectivePhase' = EffectivePhase
    BY <1>1, EffectiveKept DEF Join, Reconnect, Disconnect, Kick
<1>2. ASSUME NEW p \in Players, NEW a \in Activities, Vote(p, a)
      PROVE  EffectivePhase' = EffectivePhase
    BY <1>2, EffectiveKept DEF Vote
<1>3. CASE OtherInput \/ CloseEmptyVote \/ Expire
    BY <1>3, EffectiveKept DEF OtherInput, CloseEmptyVote, Expire
<1>4. CASE HostLeaves
    BY <1>4, EffectiveKept, EffectivePause DEF HostLeaves
<1>5. CASE HostReturns
    BY <1>5, EffectiveKept, EffectiveResume DEF HostReturns
<1>6. ASSUME NEW c \in Configs, Configure(c) PROVE EffectivePhase' = EffectivePhase
    BY <1>6, EffectiveKept DEF Configure
<1>7. CASE Pause
    BY <1>7, EffectivePause DEF Pause
<1>8. CASE Resume
    BY <1>8, EffectiveResume DEF Resume
<1>9. CASE Tick
    BY <1>9 DEF Tick, EffectivePhase, pauseVars
<1>10. CASE Restart
    BY <1>10, EffectiveKept, EffectivePause DEF Restart
<1>. QED
    BY <1>1, <1>2, <1>3, <1>4, <1>5, <1>6, <1>7, <1>8, <1>9, <1>10 DEF QuietActions

LEMMA InitSelectionInv == Init => SelectionInv
  BY CatalogAssumption DEF Init, SelectionInv, SelectionType, NoVotes, ActivityPicked,
                           EffectivePhase

LEMMA NextSelectionInv ==
    ASSUME RoomInv, SelectionInv, Next
    PROVE  SelectionInv'
<1>. USE DEF voteVars, sessionVars
<1>1. CASE QuietActions
  <2>. EffectivePhase' = EffectivePhase
      BY <1>1, QuietEffective
  <2>1. ASSUME NEW p \in Players, Join(p) \/ Reconnect(p) PROVE SelectionInv'
      BY <2>1, SelectionKept DEF Join, Reconnect
  <2>2. ASSUME NEW p \in Players, Disconnect(p) \/ Kick(p) PROVE SelectionInv'
      BY <2>2 DEF Disconnect, Kick, SelectionInv, SelectionType, ActivityPicked
  <2>3. ASSUME NEW p \in Players, NEW a \in Activities, Vote(p, a) PROVE SelectionInv'
      BY <2>3 DEF Vote, SelectionInv, SelectionType, ActivityPicked
  <2>4. ASSUME NEW c \in Configs, Configure(c) PROVE SelectionInv'
      BY <2>4, CatalogAssumption DEF Configure, SelectionInv, SelectionType, ActivityPicked
  <2>5. CASE OtherInput \/ HostLeaves \/ HostReturns \/ Pause \/ Resume
      BY <2>5, SelectionKept DEF OtherInput, HostLeaves, HostReturns, Pause, Resume
  <2>6. CASE CloseEmptyVote \/ Expire \/ Tick \/ Restart
      BY <2>6, SelectionKept DEF CloseEmptyVote, Expire, Tick, Restart
  <2>. QED
      BY <1>1, <2>1, <2>2, <2>3, <2>4, <2>5, <2>6 DEF QuietActions
<1>2. CASE StartParty
    BY <1>2, BeginVoteSelection DEF StartParty, SelectionInv, ActivityPicked
<1>3. CASE Skip
  <2>1. activity \in Activities
      BY <1>3 DEF Skip, SelectionInv, ActivityPicked, EffectivePhase
  <2>. QED
      BY <1>3, <2>1 DEF Skip, ShowResults, SelectionInv, SelectionType, ActivityPicked,
                        EffectivePhase
<1>4. CASE End
    BY <1>4 DEF End, FinishParty, SelectionInv, SelectionType, ActivityPicked, EffectivePhase
<1>5. CASE PlayAgain
    BY <1>5 DEF PlayAgain, NoVotes, SelectionInv, SelectionType, ActivityPicked, EffectivePhase
<1>6. ASSUME NEW a \in Activities, ChooseActivity(a) PROVE SelectionInv'
    BY <1>6 DEF ChooseActivity, Spin, SelectionInv, SelectionType, ActivityPicked,
                EffectivePhase
<1>7. CASE HostTimeout
    BY <1>7 DEF HostTimeout, SelectionInv, SelectionType, ActivityPicked, EffectivePhase
<1>8. CASE CloseVote
  <2>1. PICK audience \in options \cup {NoActivity} :
               \E winner \in Winners(audience) : Spin(winner)
      BY <1>8 DEF CloseVote
  <2>2. PICK winner \in Winners(audience) : Spin(winner)
      BY <2>1
  <2>3. winner \in options
      BY DEF Winners, MostBallots, Balloted
  <2>. QED
      BY <1>8, <2>2, <2>3 DEF CloseVote, Spin, SelectionInv, SelectionType, ActivityPicked,
                              EffectivePhase
<1>9. CASE SpinEnds
    BY <1>9 DEF SpinEnds, SelectionInv, SelectionType, ActivityPicked, EffectivePhase
<1>10. CASE NextUpEnds
  <2>1. CASE activity = NoActivity \/ ConnectedCount < MinPlayers
      BY <1>10, <2>1, BeginVoteSelection
         DEF NextUpEnds, StartActivity, SelectionInv, ActivityPicked
  <2>2. CASE ~(activity = NoActivity \/ ConnectedCount < MinPlayers)
      BY <1>10, <2>2 DEF NextUpEnds, StartActivity, SelectionInv, SelectionType, ActivityPicked
  <2>. QED
      BY <2>1, <2>2
<1>11. CASE RoundEnds
  <2>1. partyPhase = "activity" /\ activity \in Activities
      BY <1>11 DEF RoundEnds, Stepping, SelectionInv, ActivityPicked, EffectivePhase
  <2>2. UNCHANGED <<config, options, votes, activity>>
      BY <1>11 DEF RoundEnds
  <2>3. lastActivity' \in {lastActivity, activity} /\ history' \subseteq history \cup {activity}
      BY <1>11 DEF RoundEnds, CompleteActivity, ShowResults
  <2>. QED
      BY <2>1, <2>2, <2>3 DEF SelectionInv, SelectionType, ActivityPicked
<1>12. CASE ResultsEnd
  <2>1. CASE BeginVote /\ UNCHANGED <<config, lastActivity>>
      BY <2>1, BeginVoteSelection DEF SelectionInv, ActivityPicked
  <2>2. CASE FinishParty /\ UNCHANGED <<config, voteVars, sessionVars>>
      BY <2>2 DEF FinishParty, SelectionInv, SelectionType, ActivityPicked, EffectivePhase
  <2>. QED
      BY <1>12, <2>1, <2>2 DEF ResultsEnd
<1>. QED
    BY <1>1, <1>2, <1>3, <1>4, <1>5, <1>6, <1>7, <1>8, <1>9, <1>10, <1>11, <1>12
       DEF Next, PlayerActs, HostCommands, Step, QuietActions

ClockInv == ClockType /\ awarded \in BOOLEAN

LEMMA ClockRanges ==
    /\ 0 \in 0 .. HostReconnectTicks /\ 0 \in 0 .. VoteTicks /\ VoteTicks \in 0 .. VoteTicks
    /\ 0 \in 0 .. VoteMinTicks /\ 0 \in 0 .. RetentionTicks
    /\ RetentionTicks \in 0 .. RetentionTicks /\ 0 \in 0 .. LobbyTicks
    /\ 0 \in 0 .. GameRounds /\ 1 \in 0 .. GameRounds /\ 0 \in 0 .. MaxRestarts
    /\ 0 \in Nat
  BY ClockTypes

LEMMA LessType == \A n \in Nat : Less(n) \in Nat /\ Less(n) <= n
  BY DEF Less

LEMMA MoreType == \A limit \in Nat : \A n \in 0 .. limit : More(n, limit) \in 0 .. limit
  BY DEF More

\* The clocks of the phase, of a pause and of the vote.
PhaseClocks == phaseLeft \in Nat /\ pauseLeft \in Nat
VoteClocks == voteLeft \in 0 .. VoteTicks /\ voteAge \in 0 .. VoteMinTicks

LEMMA UnpauseClocks == ASSUME PhaseClocks, Unpause PROVE PhaseClocks'
<1>1. CASE phase = "paused"
  <2>1. phaseLeft' = pauseLeft /\ pauseLeft' = 0
      BY <1>1 DEF Unpause
  <2>. QED
      BY <2>1 DEF PhaseClocks
<1>2. CASE phase # "paused"
  <2>1. phaseLeft' = phaseLeft /\ pauseLeft' = pauseLeft
      BY <1>2 DEF Unpause, phaseVars, pauseVars
  <2>. QED
      BY <2>1 DEF PhaseClocks
<1>. QED
    BY <1>1, <1>2

\* Every handler sets the clock of the phase to zero, to a length, or to what
\* a pause has kept.
LEMMA NextPhaseClocks ==
    ASSUME ClockInv, Next
    PROVE  PhaseClocks'
<1>. USE ClockTypes DEF phaseVars, pauseVars, ClockInv, ClockType, PhaseClocks
<1>1. CASE PlayerActs \/ OtherInput
    BY <1>1 DEF PlayerActs, Join, Reconnect, Disconnect, Vote, OtherInput
<1>2. ASSUME NEW reason, PauseFor(reason) PROVE PhaseClocks'
    BY <1>2 DEF PauseFor
<1>3. ASSUME Unpause PROVE PhaseClocks'
    BY <1>3, UnpauseClocks
<1>4. CASE HostLeaves \/ HostReturns
    BY <1>2, <1>3, <1>4 DEF HostLeaves, HostReturns
<1>9. CASE HostCommands
  <2>1. CASE Pause \/ Resume
      BY <1>2, <1>3, <2>1 DEF Pause, Resume
  <2>2. CASE StartParty \/ Skip \/ End
      BY <2>2 DEF StartParty, BeginVote, Skip, ShowResults, End, FinishParty
  <2>3. CASE PlayAgain
      BY <2>3 DEF PlayAgain
  <2>4. CASE \/ \E c \in Configs : Configure(c)
             \/ \E a \in Activities : ChooseActivity(a)
             \/ \E p \in Players : Kick(p)
      BY <2>4 DEF Configure, ChooseActivity, Spin, Kick
  <2>. QED
      BY <1>9, <2>1, <2>2, <2>3, <2>4 DEF HostCommands
<1>5. CASE Step
  <2>1. CASE HostTimeout \/ CloseVote \/ CloseEmptyVote \/ SpinEnds
      BY <2>1 DEF HostTimeout, CloseVote, Spin, CloseEmptyVote, SpinEnds
  <2>2. CASE NextUpEnds
      BY <2>2 DEF NextUpEnds, StartActivity, BeginVote
  <2>3. CASE RoundEnds
      BY <2>3 DEF RoundEnds, CompleteActivity, ShowResults
  <2>4. CASE ResultsEnd
      BY <2>4 DEF ResultsEnd, FinishParty, BeginVote
  <2>. QED
      BY <1>5, <2>1, <2>2, <2>3, <2>4 DEF Step
<1>6. CASE Expire
    BY <1>6 DEF Expire
<1>7. CASE Tick
    BY <1>7, LessType DEF Tick
<1>8. CASE Restart
    BY <1>2, <1>8 DEF Restart
<1>. QED
    BY <1>1, <1>2, <1>3, <1>4, <1>5, <1>6, <1>7, <1>8, <1>9 DEF Next

LEMMA NextVoteClocks ==
    ASSUME ClockInv, Next
    PROVE  VoteClocks'
<1>. USE ClockTypes, ClockRanges DEF voteVars, ClockInv, ClockType, VoteClocks
<1>1. CASE PlayerActs \/ OtherInput \/ HostLeaves \/ HostReturns
    BY <1>1 DEF PlayerActs, Join, Reconnect, Disconnect, Vote, OtherInput, HostLeaves,
                HostReturns
<1>2. CASE HostCommands
    BY <1>2 DEF HostCommands, Configure, StartParty, BeginVote, Pause, Resume, Skip, End,
                PlayAgain, ChooseActivity, Kick
<1>3. CASE Step
    BY <1>3 DEF Step, HostTimeout, CloseVote, CloseEmptyVote, SpinEnds, NextUpEnds,
                StartActivity, RoundEnds, ResultsEnd, BeginVote
<1>4. CASE Expire
    BY <1>4 DEF Expire
<1>5. CASE Tick
  <2>1. Less(voteLeft) \in 0 .. VoteTicks
      BY LessType
  <2>2. More(voteAge, VoteMinTicks) \in 0 .. VoteMinTicks
      BY MoreType
  <2>. QED
      BY <1>5, <2>1, <2>2 DEF Tick
<1>6. CASE Restart
    BY <1>6 DEF Restart
<1>. QED
    BY <1>1, <1>2, <1>3, <1>4, <1>5, <1>6 DEF Next

\* The other clocks and counters.
RoomClocks ==
    /\ hostAway \in 0 .. HostReconnectTicks
    /\ endedAge \in 0 .. RetentionTicks /\ idle \in 0 .. LobbyTicks
    /\ round \in 0 .. GameRounds /\ activityIndex \in Nat
    /\ restarts \in 0 .. MaxRestarts
    /\ awarded \in BOOLEAN

LEMMA NextRoomClocks ==
    ASSUME ClockInv, Next
    PROVE  RoomClocks'
<1>. USE ClockTypes, ClockRanges
     DEF hostVars, sessionVars, lifeVars, ClockInv, ClockType, RoomClocks
<1>1. CASE PlayerActs \/ OtherInput \/ HostLeaves \/ HostReturns
    BY <1>1 DEF PlayerActs, Join, Reconnect, Disconnect, Vote, OtherInput, HostLeaves,
                HostReturns
<1>2. CASE HostCommands
    BY <1>2 DEF HostCommands, HostActs, Configure, StartParty, BeginVote, Pause, Resume,
                Skip, ShowResults, End, FinishParty, PlayAgain, ChooseActivity, Spin, Kick
<1>3. CASE Step
  <2>1. CASE HostTimeout \/ CloseVote \/ CloseEmptyVote \/ SpinEnds
      BY <2>1 DEF HostTimeout, CloseVote, Spin, CloseEmptyVote, SpinEnds, Stepping
  <2>2. CASE NextUpEnds
    <3>1. UNCHANGED <<hostAway, idle, restarts, endedAge>>
        BY <2>2 DEF NextUpEnds, Stepping, StartActivity
    <3>2. CASE activity = NoActivity \/ ConnectedCount < MinPlayers
      <4>. UNCHANGED <<activityIndex, awarded, round>>
          BY <2>2, <3>2 DEF NextUpEnds, StartActivity
      <4>. QED
          BY <3>1
    <3>3. CASE ~(activity = NoActivity \/ ConnectedCount < MinPlayers)
      <4>1. activityIndex' = activityIndex + 1 /\ round' = 1
          BY <2>2, <3>3 DEF NextUpEnds, StartActivity
      <4>2. awarded' = FALSE
          BY <2>2, <3>3 DEF NextUpEnds, StartActivity
      <4>3. awarded' \in BOOLEAN
          BY <4>2
      <4>4. activityIndex' \in Nat /\ round' \in 0 .. GameRounds
          BY <4>1
      <4>. QED
          BY <3>1, <4>3, <4>4
    <3>. QED
        BY <3>2, <3>3
  <2>3. CASE RoundEnds
    <3>1. UNCHANGED <<hostAway, idle, restarts>>
        BY <2>3 DEF RoundEnds, Stepping
    <3>2. UNCHANGED activityIndex /\ endedAge' \in {endedAge, 0}
        BY <2>3 DEF RoundEnds, CompleteActivity, ShowResults
    <3>4. awarded' = awarded \/ awarded' = TRUE
      <4>1. CASE round < GameRounds
          BY <2>3, <4>1 DEF RoundEnds
      <4>2. CASE ~(round < GameRounds)
          BY <2>3, <4>2 DEF RoundEnds, CompleteActivity, ShowResults
      <4>. QED
          BY <4>1, <4>2
    <3>3. round' \in 0 .. GameRounds
        BY <2>3 DEF RoundEnds
    <3>. QED
        BY <3>1, <3>2, <3>3, <3>4
  <2>4. CASE ResultsEnd
      BY <2>4 DEF ResultsEnd, Stepping, FinishParty, BeginVote
  <2>. QED
      BY <1>3, <2>1, <2>2, <2>3, <2>4 DEF Step
<1>4. CASE Expire
    BY <1>4 DEF Expire
<1>5. CASE Tick
    BY <1>5, MoreType DEF Tick
<1>6. CASE Restart
    BY <1>6 DEF Restart
<1>. QED
    BY <1>1, <1>2, <1>3, <1>4, <1>5, <1>6 DEF Next

LEMMA NextClockInv == ASSUME ClockInv, Next PROVE ClockInv'
  BY NextPhaseClocks, NextVoteClocks, NextRoomClocks
     DEF ClockInv, ClockType, PhaseClocks, VoteClocks, RoomClocks

LEMMA InitClockInv == Init => ClockInv
  BY ClockTypes, ClockRanges DEF Init, ClockInv, ClockType

-----------------------------------------------------------------------------
(* What PartySession promises, of the session that a room shows: these steps *)
(* know nothing of the room but that its Stage, its count of activities, its *)
(* target and its points are the variables of PartySession.                  *)

LEMMA SessionInitInv == ASSUME MaxAward \in Nat PROVE Session!SessionInit => Session!SessionInv
  BY DEF Session!SessionInit, Session!SessionInv, Session!SessionType, Session!Stages, Session!Scorable

LEMMA TimesMonotone ==
    ASSUME NEW m \in Nat, NEW a \in Nat, NEW b \in Nat, a <= b
    PROVE  m * a \in Nat /\ m * b \in Nat /\ m * a <= m * b
<1>1. m * a \in Nat /\ m * b \in Nat /\ m * (b - a) \in Nat
    BY b - a \in Nat
<1>2. m * b = m * a + m * (b - a)
    OBVIOUS
<1>. QED
    BY <1>1, <1>2

\* Points that stay or go to zero stay in bounds when no fewer activities can
\* have been scored.
LEMMA StandingsStay ==
    ASSUME MaxAward \in Nat, Session!SessionInv,
           Session!Scorable' \in Nat, Session!Scorable <= Session!Scorable',
           points' \in [Players -> Nat],
           \A p \in Players : points'[p] <= points[p]
    PROVE  \A p \in Players : points'[p] <= MaxAward * Session!Scorable'
<1> SUFFICES ASSUME NEW p \in Players PROVE points'[p] <= MaxAward * Session!Scorable'
    OBVIOUS
<1>1. Session!Scorable \in Nat
    BY DEF Session!SessionInv, Session!SessionType, Session!Scorable
<1>2. points[p] <= MaxAward * Session!Scorable /\ points[p] \in Nat
    BY DEF Session!SessionInv, Session!SessionType
<1>3. MaxAward * Session!Scorable <= MaxAward * Session!Scorable'
    BY <1>1, TimesMonotone
<1>4. points'[p] <= points[p] /\ points'[p] \in Nat
    OBVIOUS
<1>5. MaxAward * Session!Scorable \in Nat /\ MaxAward * Session!Scorable' \in Nat
    BY <1>1, TimesMonotone
<1>. QED
    BY <1>2, <1>3, <1>4, <1>5

\* Every step of the abstract session keeps its invariant.
LEMMA SessionStepInv ==
    ASSUME MaxAward \in Nat, Session!SessionInv, [Session!SessionNext]_(Session!sessionVars)
    PROVE  Session!SessionInv'
<1>. USE DEF Session!SessionType, Session!Stages
<1>1. CASE \/ Session!Settle \/ Session!Open \/ Session!Play \/ Session!Continue
          \/ Session!Finish \/ Session!Close \/ UNCHANGED Session!sessionVars
  <2>1. /\ Session!SessionType'
        /\ (Stage' = "lobby" => activityIndex' = 0) /\ (Stage' = "playing" => activityIndex' > 0)
        /\ activityIndex' <= config'.target /\ (Stage' = "choosing" => activityIndex' < config'.target)
      BY <1>1 DEF Session!SessionInv, Session!Settle, Session!Open, Session!Play,
          Session!Continue, Session!Finish, Session!Close, Session!sessionVars
  <2>2. points' = points /\ Session!Scorable' \in Nat /\ Session!Scorable <= Session!Scorable'
      BY <1>1 DEF Session!SessionInv, Session!Settle, Session!Open, Session!Play,
          Session!Continue, Session!Finish, Session!Close, Session!sessionVars, Session!Scorable
  <2>3. \A p \in Players : points'[p] <= MaxAward * Session!Scorable'
    <3>1. \A p \in Players : points'[p] <= points[p]
        BY <2>2 DEF Session!SessionInv
    <3>. QED
        BY <2>1, <2>2, <3>1, StandingsStay
  <2>. QED
      BY <2>1, <2>3 DEF Session!SessionInv
<1>2. CASE Session!Score
  <2>1. /\ Session!SessionType'
        /\ (Stage' = "lobby" => activityIndex' = 0) /\ (Stage' = "playing" => activityIndex' > 0)
        /\ activityIndex' <= config'.target /\ (Stage' = "choosing" => activityIndex' < config'.target)
      BY <1>2 DEF Session!SessionInv, Session!Score
  <2>2. Session!Scorable' = Session!Scorable + 1 /\ Session!Scorable \in Nat
      BY <1>2 DEF Session!SessionInv, Session!Score, Session!Scorable
  <2>3. ASSUME NEW p \in Players PROVE points'[p] <= MaxAward * Session!Scorable'
    <3>1. points'[p] <= points[p] + MaxAward /\ points[p] <= MaxAward * Session!Scorable
        BY <1>2 DEF Session!Score, Session!SessionInv
    <3>2. MaxAward * Session!Scorable' = MaxAward * Session!Scorable + MaxAward
        BY <2>2
    <3>3. points[p] \in Nat /\ points'[p] \in Nat /\ MaxAward * Session!Scorable \in Nat
        BY <1>2, <2>2 DEF Session!Score, Session!SessionInv
    <3>. QED
        BY <3>1, <3>2, <3>3
  <2>. QED
      BY <2>1, <2>3 DEF Session!SessionInv
<1>3. CASE Session!Again
  <2>1. Session!Scorable' = 0 /\ points' = [p \in Players |-> 0]
      BY <1>3 DEF Session!Again, Session!Scorable
  <2>2. \A p \in Players : points'[p] <= MaxAward * Session!Scorable'
      BY <2>1
  <2>. QED
      BY <1>3, <2>1, <2>2 DEF Session!SessionInv, Session!Again
<1>4. CASE Session!Forget
  <2>1. PICK p \in Players : points' = [points EXCEPT ![p] = 0]
      BY <1>4 DEF Session!Forget
  <2>2. points' \in [Players -> Nat] /\ \A q \in Players : points'[q] <= points[q]
      BY <2>1 DEF Session!SessionInv
  <2>3. Session!Scorable' = Session!Scorable /\ Session!Scorable \in Nat
      BY <1>4 DEF Session!Forget, Session!Scorable, Session!SessionInv
  <2>4. \A q \in Players : points'[q] <= MaxAward * Session!Scorable'
      BY <2>2, <2>3, StandingsStay
  <2>. QED
      BY <1>4, <2>2, <2>4 DEF Session!Forget, Session!SessionInv
<1>. QED
    BY <1>1, <1>2, <1>3, <1>4 DEF Session!SessionNext

\* A session as PartySession specifies it, the one a room shows, never outlasts its
\* length, and its standings never exceed what the activities scored so far can have
\* given (startRotationActivityLocked, completeRotationActivityLocked).
THEOREM SessionSafe == ASSUME MaxAward \in Nat PROVE Session!SessionSpec => []Session!SessionInv
  BY SessionInitInv, SessionStepInv, PTL DEF Session!SessionSpec

-----------------------------------------------------------------------------
(* The session the room implements: its length, its standings, and the   *)
(* types of all the variables.                                             *)

\* Only a room that rests is ever removed.
RemovedRests == life = "removed" => partyPhase \in {"party_lobby", "ended"}

\* What the room's handlers need of each other to keep the promise.
RotationInv ==
    /\ RoomInv /\ RosterInv /\ SelectionInv /\ ClockInv
    /\ RemovedRests
    /\ Session!SessionInv

-----------------------------------------------------------------------------

LEMMA StageWhenPresent ==
    ASSUME life # "removed"
    PROVE  /\ EffectivePhase = "party_lobby" => Stage = "lobby"
           /\ EffectivePhase \in {"voting", "spinning", "next_up"} => Stage = "choosing"
           /\ EffectivePhase = "activity" => Stage = "playing"
           /\ EffectivePhase = "results" => Stage = "scored"
           /\ EffectivePhase = "ended" => Stage = "ended"
  BY DEF Stage

LEMMA EffectiveRunning ==
    ASSUME partyPhase # "paused"
    PROVE  EffectivePhase = partyPhase
  BY DEF EffectivePhase

LEMMA EffectiveRange == ASSUME RoomInv PROVE EffectivePhase \in PartyPhases \ {"paused"}
<1>1. CASE partyPhase = "paused"
    BY <1>1 DEF RoomInv, PauseConsistent, RunningPairs, EffectivePhase, PartyPhases, RunningPhases
<1>2. CASE partyPhase # "paused"
    BY <1>2 DEF RoomInv, RoomType, EffectivePhase
<1>. QED
    BY <1>1, <1>2

LEMMA StageKept ==
    ASSUME RoomInv, EffectivePhase' = EffectivePhase,
           (life = "removed") <=> (life' = "removed")
    PROVE  Stage' = Stage
  BY EffectiveRange DEF Stage, PartyPhases, RunningPhases

\* Places go up to the number of players in the game, which the room limits to
\* the length of the table of points.
LEMMA AwardBounded ==
    ASSUME RosterInv, NEW tiesAllowed, NEW place \in Placements(Contenders, tiesAllowed),
           NEW p \in Contenders
    PROVE  Award(p, place[p]) \in 0 .. MaxAward
<1>1. Contenders \subseteq Roster
    BY DEF Contenders, RosterInv
<1>2. Cardinality(Contenders) <= Cardinality(Roster) /\ Cardinality(Contenders) \in Nat
    BY <1>1, RosterFinite, FS_Subset, FS_CardinalityType
<1>3. Cardinality(Contenders) <= 8
    BY <1>2, RosterFinite, RosterAssumption DEF RosterInv
<1>4. place[p] \in 1 .. Cardinality(Contenders)
    BY DEF Placements
<1>5. place[p] \in 1 .. 8
    BY <1>2, <1>3, <1>4
<1>6. PlacementPoints[place[p]] \in 0 .. 10
    BY <1>5 DEF PlacementPoints
<1>. QED
    BY <1>6 DEF Award, MaxAward, PlacementPoints, CatchUpBonus

LEMMA PointsType == ASSUME Session!SessionInv PROVE points \in [Players -> Nat]
  BY DEF Session!SessionInv, Session!SessionType

LEMMA TargetType == ASSUME SelectionInv PROVE config.target \in Nat \ {0}
  BY DEF SelectionInv, SelectionType, ConfigType

\* Scoring an activity is a Score step of the promised session.
LEMMA ScoreStep ==
    ASSUME RotationInv, NEW tiesAllowed, NEW place \in Placements(Contenders, tiesAllowed),
           points' = [p \in Players |-> IF p \in Contenders THEN points[p] + Award(p, place[p])
                                                            ELSE points[p]]
    PROVE  /\ points' \in [Players -> Nat]
           /\ \A p \in Players : points[p] <= points'[p] /\ points'[p] <= points[p] + MaxAward
<1>1. points \in [Players -> Nat]
    BY PointsType DEF RotationInv
<1>2. \A p \in Contenders : Award(p, place[p]) \in 0 .. MaxAward
    BY AwardBounded DEF RotationInv
<1>3. MaxAward \in Nat
    BY DEF MaxAward, PlacementPoints, CatchUpBonus
<1>. QED
    BY <1>1, <1>2, <1>3

-----------------------------------------------------------------------------
(* Every step of the room is a step of the session, or none *)

SessionStep == [Session!SessionNext]_(Session!sessionVars)

LEMMA QuietStutters ==
    ASSUME RoomInv, QuietActions, UNCHANGED <<activityIndex, config, points>>,
           (life = "removed") <=> (life' = "removed")
    PROVE  SessionStep
<1>1. Stage' = Stage
    BY QuietEffective, StageKept
<1>. QED
    BY <1>1 DEF SessionStep, Session!sessionVars

LEMMA NextSessionStep ==
    ASSUME RotationInv, Next
    PROVE  SessionStep
<1>. USE DEF sessionVars, lifeVars, HostActs, Alive
<1>. RoomInv /\ SelectionInv /\ Session!SessionInv
    BY DEF RotationInv
<1>. points \in [Players -> Nat] /\ config.target \in Nat \ {0}
    BY PointsType, TargetType
<1>1. ASSUME NEW p \in Players, Join(p) \/ Reconnect(p) \/ Disconnect(p) PROVE SessionStep
    BY <1>1, QuietStutters DEF QuietActions, Join, Reconnect, Disconnect
<1>2. ASSUME NEW p \in Players, NEW a \in Activities, Vote(p, a) PROVE SessionStep
    BY <1>2, QuietStutters DEF QuietActions, Vote
<1>3. CASE OtherInput \/ HostLeaves \/ HostReturns
    BY <1>3, QuietStutters DEF QuietActions, OtherInput, HostLeaves, HostReturns
<1>4. CASE Pause \/ Resume
    BY <1>4, QuietStutters DEF QuietActions, Pause, Resume
<1>5. CASE CloseEmptyVote \/ Tick \/ Restart
    BY <1>5, QuietStutters DEF QuietActions, CloseEmptyVote, Tick, Restart
<1>6. ASSUME NEW c \in Configs, Configure(c) PROVE SessionStep
  <2>1. Stage = "lobby" /\ Stage' = Stage
      BY <1>6, QuietEffective, StageKept, StageWhenPresent, EffectiveRunning
         DEF QuietActions, Configure
  <2>2. config'.target \in Nat \ {0}
      BY <1>6, CatalogAssumption DEF Configure, ConfigType
  <2>. QED
      BY <1>6, <2>1, <2>2 DEF Configure, SessionStep, Session!SessionNext, Session!Settle
<1>7. ASSUME NEW p \in Players, Kick(p) PROVE SessionStep
  <2>1. Stage # "gone" /\ Stage' = Stage
    <3>1. Stage' = Stage
        BY <1>7, QuietEffective, StageKept DEF QuietActions, Kick
    <3>2. Stage # "gone"
        BY <1>7, StageWhenPresent, EffectiveRange DEF Kick, PartyPhases, RunningPhases
    <3>. QED
        BY <3>1, <3>2
  <2>. QED
      BY <1>7, <2>1 DEF Kick, SessionStep, Session!SessionNext, Session!Forget
<1>8. CASE Expire
  <2>1. Stage \in {"lobby", "ended"} /\ Stage' = "gone"
      BY <1>8, StageWhenPresent, EffectiveRunning DEF Expire, ShouldExpire, Stage
  <2>. QED
      BY <1>8, <2>1 DEF Expire, SessionStep, Session!SessionNext, Session!Close
<1>9. CASE StartParty
  <2>1. Stage = "lobby" /\ Stage' = "choosing"
      BY <1>9 DEF StartParty, BeginVote, Stage, EffectivePhase
  <2>. QED
      BY <1>9, <2>1 DEF StartParty, SessionStep, Session!SessionNext, Session!Open
<1>10. CASE Skip
  <2>1. Stage = "playing" /\ Stage' = "scored"
      BY <1>10 DEF Skip, ShowResults, Stage, EffectivePhase
  <2>2. \A p \in Players : points[p] <= points[p] /\ points[p] <= points[p] + MaxAward
      BY DEF MaxAward, PlacementPoints, CatchUpBonus
  <2>. QED
      BY <1>10, <2>1, <2>2 DEF Skip, SessionStep, Session!SessionNext, Session!Score
<1>11. CASE End \/ HostTimeout
  <2>1. Stage # "gone" /\ Stage' = "ended"
    <3>1. Stage # "gone"
        BY <1>11, StageWhenPresent, EffectiveRange DEF End, HostTimeout, PartyPhases, RunningPhases
    <3>2. Stage' = "ended"
        BY <1>11 DEF End, FinishParty, HostTimeout, Stage, EffectivePhase
    <3>. QED
        BY <3>1, <3>2
  <2>. QED
      BY <1>11, <2>1 DEF End, HostTimeout, SessionStep, Session!SessionNext, Session!Finish,
                         Session!sessionVars
<1>12. CASE PlayAgain
  <2>1. Stage = "ended" /\ Stage' = "lobby"
      BY <1>12 DEF PlayAgain, Stage, EffectivePhase
  <2>. QED
      BY <1>12, <2>1 DEF PlayAgain, SessionStep, Session!SessionNext, Session!Again
<1>13. ASSUME NEW a \in Activities, ChooseActivity(a) PROVE SessionStep
  <2>1. Stage = "choosing" /\ Stage' = "choosing"
      BY <1>13 DEF ChooseActivity, Spin, Stage, EffectivePhase
  <2>. QED
      BY <1>13, <2>1 DEF ChooseActivity, SessionStep, Session!sessionVars
<1>14. CASE CloseVote \/ SpinEnds
  <2>1. Stage = "choosing" /\ Stage' = "choosing"
      BY <1>14 DEF CloseVote, Spin, SpinEnds, Stepping, Stage, EffectivePhase
  <2>. QED
      BY <1>14, <2>1 DEF CloseVote, SpinEnds, SessionStep, Session!sessionVars
<1>15. CASE NextUpEnds
  <2>1. life = "live" /\ life' = life /\ Stage = "choosing" /\ UNCHANGED <<config, points>>
      BY <1>15 DEF NextUpEnds, Stepping, Stage, EffectivePhase
  <2>2. CASE activity = NoActivity \/ ConnectedCount < MinPlayers
    <3>1. Stage' = "choosing" /\ UNCHANGED activityIndex
        BY <1>15, <2>1, <2>2 DEF NextUpEnds, StartActivity, BeginVote, Stage, EffectivePhase
    <3>. QED
        BY <2>1, <3>1 DEF SessionStep, Session!sessionVars
  <2>3. CASE ~(activity = NoActivity \/ ConnectedCount < MinPlayers)
    <3>1. Stage' = "playing" /\ activityIndex' = activityIndex + 1
        BY <1>15, <2>1, <2>3 DEF NextUpEnds, StartActivity, Stage, EffectivePhase
    <3>2. activityIndex < config.target
        BY <2>1 DEF Session!SessionInv
    <3>. QED
        BY <2>1, <3>1, <3>2 DEF SessionStep, Session!SessionNext, Session!Play
  <2>. QED
      BY <2>2, <2>3
<1>16. CASE RoundEnds
  <2>1. /\ life = "live" /\ life' = life /\ partyPhase = "activity" /\ Stage = "playing"
        /\ UNCHANGED <<config, activityIndex>>
      BY <1>16 DEF RoundEnds, Stepping, Stage, EffectivePhase
  <2>2. CASE round < GameRounds \/ awarded
    <3>1. UNCHANGED <<partyPhase, points>>
        BY <1>16, <2>2 DEF RoundEnds, CompleteActivity, phaseVars
    <3>2. Stage' = Stage
        BY <2>1, <3>1 DEF Stage, EffectivePhase
    <3>. QED
        BY <2>1, <3>1, <3>2 DEF SessionStep, Session!sessionVars
  <2>3. CASE ~(round < GameRounds \/ awarded)
    <3>1. PICK place \in Placements(Contenders, Catalog[activity].reseats = "connected") :
             points' = [p \in Players |->
                          IF p \in Contenders THEN points[p] + Award(p, place[p])
                                              ELSE points[p]]
        BY <1>16, <2>3 DEF RoundEnds, CompleteActivity
    <3>2. partyPhase' = "results"
        BY <1>16, <2>3 DEF RoundEnds, CompleteActivity, ShowResults
    <3>3. Stage' = "scored"
        BY <2>1, <3>2 DEF Stage, EffectivePhase
    <3>4. /\ points' \in [Players -> Nat]
          /\ \A p \in Players : points[p] <= points'[p] /\ points'[p] <= points[p] + MaxAward
        BY <3>1, ScoreStep
    <3>. QED
        BY <2>1, <3>3, <3>4 DEF SessionStep, Session!SessionNext, Session!Score
  <2>. QED
      BY <2>2, <2>3
<1>17. CASE ResultsEnd
  <2>1. /\ life = "live" /\ life' = life /\ Stage = "scored"
        /\ UNCHANGED <<config, points, activityIndex>>
      BY <1>17 DEF ResultsEnd, Stepping, Stage, EffectivePhase
  <2>2. CASE activityIndex >= config.target
    <3>1. Stage' = "ended"
        BY <1>17, <2>1, <2>2 DEF ResultsEnd, FinishParty, Stage, EffectivePhase
    <3>. QED
        BY <2>1, <3>1 DEF SessionStep, Session!SessionNext, Session!Finish
  <2>3. CASE ~(activityIndex >= config.target)
    <3>1. Stage' = "choosing"
        BY <1>17, <2>1, <2>3 DEF ResultsEnd, BeginVote, Stage, EffectivePhase
    <3>2. activityIndex < config.target
        BY <2>3 DEF RotationInv, ClockInv, ClockType
    <3>. QED
        BY <2>1, <3>1, <3>2 DEF SessionStep, Session!SessionNext, Session!Continue
  <2>. QED
      BY <2>2, <2>3
<1>. QED
    BY <1>1, <1>2, <1>3, <1>4, <1>5, <1>6, <1>7, <1>8, <1>9, <1>10, <1>11, <1>12, <1>13,
       <1>14, <1>15, <1>16, <1>17 DEF Next, PlayerActs, HostCommands, Step

-----------------------------------------------------------------------------
(* The invariant and the theorems *)

LEMMA MaxAwardType == MaxAward \in Nat
  BY DEF MaxAward, PlacementPoints, CatchUpBonus

LEMMA InitSession == Init => Session!SessionInit
<1> SUFFICES ASSUME Init PROVE Session!SessionInit
    OBVIOUS
<1>1. Stage = "lobby"
    BY DEF Init, Stage, EffectivePhase
<1>2. config.target \in Nat \ {0}
    BY CatalogAssumption DEF Init, ConfigType
<1>. QED
    BY <1>1, <1>2 DEF Init, Session!SessionInit

LEMMA NextRemovedRests ==
    ASSUME RemovedRests, Next
    PROVE  RemovedRests'
<1>. USE DEF RemovedRests, Alive, lifeVars
<1>1. CASE PlayerActs \/ OtherInput \/ HostLeaves \/ HostReturns
    BY <1>1 DEF PlayerActs, Join, Reconnect, Disconnect, Vote, OtherInput, HostLeaves,
                HostReturns
<1>2. CASE HostCommands
    BY <1>2 DEF HostCommands, HostActs, Configure, StartParty, Pause, Resume, Skip, End,
                PlayAgain, ChooseActivity, Kick
<1>3. CASE Step
    BY <1>3 DEF Step, HostTimeout, CloseVote, CloseEmptyVote, SpinEnds, NextUpEnds,
                RoundEnds, ResultsEnd, Stepping
<1>4. CASE Expire
    BY <1>4 DEF Expire, ShouldExpire, phaseVars
<1>5. CASE Tick \/ Restart
    BY <1>5 DEF Tick, Restart
<1>. QED
    BY <1>1, <1>2, <1>3, <1>4, <1>5 DEF Next

LEMMA InitRotationInv == Init => RotationInv
<1> SUFFICES ASSUME Init PROVE RotationInv
    OBVIOUS
<1>1. Session!SessionInv
    BY InitSession, SessionInitInv, MaxAwardType
<1>2. RemovedRests
    BY DEF Init, RemovedRests
<1>. QED
    BY <1>1, <1>2, InitRoomInv, InitRosterInv, InitSelectionInv, InitClockInv DEF RotationInv

LEMMA NextRotationInv ==
    ASSUME RotationInv, Next
    PROVE  RotationInv'
<1>1. Session!SessionInv'
    BY NextSessionStep, SessionStepInv, MaxAwardType DEF RotationInv, SessionStep
<1>. QED
    BY <1>1, NextRoomInv, NextRosterInv, NextSelectionInv, NextClockInv, NextRemovedRests
       DEF RotationInv

LEMMA VarsDetermine == ASSUME RotationInv, UNCHANGED vars PROVE RotationInv' /\ SessionStep
<1>. USE DEF vars, hostVars, rosterVars, pauseVars, phaseVars, voteVars, sessionVars, lifeVars
<1>. RoomInv
    BY DEF RotationInv
<1>1. EffectivePhase' = EffectivePhase
    BY DEF EffectivePhase
<1>2. Stage' = Stage
    BY <1>1, StageKept
<1>3. SessionStep
    BY <1>2 DEF SessionStep, Session!sessionVars
<1>4. Session!SessionInv'
    BY <1>3, SessionStepInv, MaxAwardType DEF RotationInv, SessionStep
<1>5. RoomInv'
    BY RoomInvKept DEF RoomInv, RoomType
<1>6. RosterInv' /\ SelectionInv'
    BY <1>1, RosterInvKept, SelectionKept DEF RotationInv
<1>7. ClockInv' /\ RemovedRests'
    BY DEF RotationInv, ClockInv, ClockType, RemovedRests
<1>. QED
    BY <1>3, <1>4, <1>5, <1>6, <1>7 DEF RotationInv

\* All the invariants of a room at once.
THEOREM RotationCorrect == Spec => []RotationInv
  BY InitRotationInv, NextRotationInv, VarsDetermine, PTL DEF Spec

\* The variables of a room keep their types: the clocks their limits, the
\* roster its capacity, and the standings are natural numbers.
THEOREM TypesCorrect == Spec => []TypeOK
<1>1. RotationInv => TypeOK
    BY PointsType DEF RotationInv, RoomInv, RosterInv, SelectionInv, ClockInv, TypeOK, RosterType,
           Roster
<1>. QED
    BY <1>1, RotationCorrect, PTL

\* partyPlacementPoints, the catch-up bonus and partyAwarded: nobody holds more
\* points than the activities scored so far can have given, whatever is
\* skipped, paused, restarted, joined late or played again.
THEOREM StandingsAreEarned == Spec => []StandingsEarned
<1>1. RotationInv => StandingsEarned
  <2> SUFFICES ASSUME RotationInv, NEW p \in Players
               PROVE  points[p] <= MaxAward * Scored
      BY DEF StandingsEarned
  <2>1. Scored = Session!Scorable
    <3>1. CASE life = "removed"
      <4>1. EffectivePhase # "activity"
          BY <3>1 DEF RotationInv, RemovedRests, EffectivePhase
      <4>. QED
          BY <3>1, <4>1 DEF Scored, Session!Scorable, Stage
    <3>2. CASE life # "removed"
        BY <3>2, EffectiveRange
           DEF RotationInv, Scored, Session!Scorable, Stage, PartyPhases, RunningPhases
    <3>. QED
        BY <3>1, <3>2
  <2>. QED
      BY <2>1 DEF RotationInv, Session!SessionInv
<1>. QED
    BY <1>1, RotationCorrect, PTL

\* A session never plays more activities than its preset says.
THEOREM SessionsEnd == Spec => []TargetRespected
<1>1. RotationInv => TargetRespected
  <2> SUFFICES ASSUME RotationInv PROVE TargetRespected
      OBVIOUS
  <2>1. EffectivePhase \in {"voting", "spinning", "next_up"} => Stage = "choosing"
      BY StageWhenPresent DEF RotationInv, RemovedRests, EffectivePhase
  <2>. QED
      BY <2>1 DEF TargetRespected, RotationInv, Session!SessionInv
<1>. QED
    BY <1>1, RotationCorrect, PTL

\* Every behaviour of a room is a behaviour of the session it promises.
THEOREM RoomImplementsSession == Spec => ImplementsSession
<1>1. Init => Session!SessionInit
    BY InitSession
<1>2. ASSUME RotationInv, [Next]_vars
      PROVE  [Session!SessionNext]_(Session!sessionVars)
    BY <1>2, NextSessionStep, VarsDetermine DEF SessionStep
<1>. QED
    BY <1>1, <1>2, RotationCorrect, PTL DEF Spec, ImplementsSession, Session!SessionSpec


-----------------------------------------------------------------------------
(* Manual pauses *)

LEMMA ManualPauseStep ==
    ASSUME RoomInv, Next, partyPhase = "paused", pauseReason = "manual", host' # host
    PROVE  partyPhase' = "paused" /\ UNCHANGED pauseVars
<1>. USE DEF hostVars, lifeVars, phaseVars
<1>1. phase = "paused"
    BY DEF RoomInv, PauseConsistent
<1>2. HostLeaves \/ HostReturns \/ Restart
  <2>1. ~PlayerActs /\ ~OtherInput /\ ~Expire /\ ~Tick
      BY DEF PlayerActs, Join, Reconnect, Disconnect, Vote, OtherInput, Expire, Tick
  <2>2. ~HostCommands
      BY DEF HostCommands, HostActs, Configure, StartParty, Pause, Resume, Skip, End, PlayAgain,
             ChooseActivity, Kick
  <2>3. ~Step
      BY DEF Step, HostTimeout, CloseVote, CloseEmptyVote, SpinEnds, NextUpEnds, RoundEnds,
             ResultsEnd, Stepping
  <2>. QED
      BY <2>1, <2>2, <2>3 DEF Next
<1>3. CASE HostLeaves
    BY <1>1, <1>3 DEF HostLeaves, PauseFor
<1>4. CASE HostReturns
    BY <1>1, <1>4 DEF HostReturns
<1>5. CASE Restart
    BY <1>1, <1>5 DEF Restart
<1>. QED
    BY <1>2, <1>3, <1>4, <1>5

\* Losing the host and getting it back never lifts a pause the host asked for.
THEOREM ManualPausesHold == Spec => ManualPauseHolds
<1>1. ASSUME RotationInv, [Next]_vars
      PROVE  [(partyPhase = "paused" /\ pauseReason = "manual" /\ host' # host)
               => partyPhase' = "paused" /\ UNCHANGED pauseVars]_vars
    BY <1>1, ManualPauseStep DEF RotationInv
<1>. QED
    BY <1>1, RotationCorrect, PTL DEF Spec, ManualPauseHolds

-----------------------------------------------------------------------------
(* The countdown of a vote *)

LEMMA VoteNeverLateKept ==
    ASSUME VoteNeverLate, EffectivePhase' = EffectivePhase,
           UNCHANGED <<voteLeft, partyPhase, pauseLeft, phaseLeft>>
    PROVE  VoteNeverLate'
  BY DEF VoteNeverLate

LEMMA VoteNeverLatePause ==
    ASSUME RoomInv, ClockInv, VoteNeverLate, NEW reason, PauseFor(reason),
           partyPhase \notin {"party_lobby", "ended"},
           voteLeft' \in Nat, voteLeft' <= voteLeft
    PROVE  VoteNeverLate'
<1>. PhaseInv
    BY RoomInvParts
<1>. voteLeft \in Nat /\ phaseLeft \in Nat /\ pauseLeft \in Nat
    BY ClockTypes DEF ClockInv, ClockType
<1>1. EffectivePhase' = EffectivePhase
    BY EffectivePause
<1>2. CASE phase = "paused"
  <2>1. partyPhase' = partyPhase /\ pauseLeft' = pauseLeft /\ phaseLeft' = phaseLeft
      BY <1>2 DEF PauseFor, phaseVars, pauseVars
  <2>. QED
      BY <1>1, <2>1 DEF VoteNeverLate
<1>3. CASE phase # "paused"
  <2>1. partyPhase' = "paused" /\ pauseLeft' = phaseLeft
      BY <1>3 DEF PauseFor
  <2>2. partyPhase # "paused"
      BY <1>3 DEF PhaseInv, PauseConsistent
  <2>. QED
      BY <1>1, <2>1, <2>2 DEF VoteNeverLate
<1>. QED
    BY <1>2, <1>3

LEMMA VoteNeverLateResume ==
    ASSUME RoomInv, VoteNeverLate, Unpause, UNCHANGED voteLeft
    PROVE  VoteNeverLate'
<1>. PhaseInv
    BY RoomInvParts
<1>1. EffectivePhase' = EffectivePhase
    BY EffectiveResume
<1>2. CASE phase = "paused"
  <2>1. partyPhase = "paused" /\ resumePartyPhase # "paused"
      BY <1>2 DEF PhaseInv, PauseConsistent, RunningPairs
  <2>2. partyPhase' # "paused" /\ phaseLeft' = pauseLeft
      BY <1>2, <2>1 DEF Unpause
  <2>. QED
      BY <1>1, <2>1, <2>2 DEF VoteNeverLate
<1>3. CASE phase # "paused"
    BY <1>1, <1>3, VoteNeverLateKept DEF Unpause, phaseVars, pauseVars
<1>. QED
    BY <1>2, <1>3

LEMMA VoteNeverLateElsewhere ==
    ASSUME partyPhase' \in PartyPhases \ {"voting", "paused"}
    PROVE  VoteNeverLate'
  BY DEF VoteNeverLate, EffectivePhase

LEMMA VoteNeverLateBegin ==
    ASSUME BeginVote
    PROVE  VoteNeverLate'
  BY ClockTypes DEF VoteNeverLate, BeginVote

LEMMA NextVoteNeverLate ==
    ASSUME RoomInv, ClockInv, VoteNeverLate, Next
    PROVE  VoteNeverLate'
<1>. USE DEF phaseVars, voteVars
<1>. PhaseInv
    BY RoomInvParts
<1>. voteLeft \in Nat /\ phaseLeft \in Nat /\ pauseLeft \in Nat
    BY ClockTypes DEF ClockInv, ClockType
<1>1. ASSUME NEW p \in Players, Join(p) \/ Reconnect(p) \/ Disconnect(p) \/ Kick(p)
      PROVE  VoteNeverLate'
    BY <1>1, QuietEffective, VoteNeverLateKept
       DEF QuietActions, Join, Reconnect, Disconnect, Kick, pauseVars
<1>2. ASSUME NEW p \in Players, NEW a \in Activities, Vote(p, a) PROVE VoteNeverLate'
    BY <1>2, QuietEffective, VoteNeverLateKept DEF QuietActions, Vote, pauseVars
<1>3. CASE OtherInput \/ CloseEmptyVote \/ Expire
    BY <1>3, QuietEffective, VoteNeverLateKept
       DEF QuietActions, OtherInput, CloseEmptyVote, Expire, pauseVars
<1>4. ASSUME NEW c \in Configs, Configure(c) PROVE VoteNeverLate'
    BY <1>4, QuietEffective, VoteNeverLateKept DEF QuietActions, Configure, pauseVars
<1>5. CASE HostLeaves
  <2>1. CASE partyPhase \in {"party_lobby", "ended"}
      BY <1>5, <2>1, QuietEffective, VoteNeverLateKept DEF QuietActions, HostLeaves, pauseVars
  <2>2. CASE partyPhase \notin {"party_lobby", "ended"}
      BY <1>5, <2>2, VoteNeverLatePause DEF HostLeaves
  <2>. QED
      BY <2>1, <2>2
<1>6. CASE HostReturns
  <2>1. CASE phase = "paused" /\ pauseReason = "host_disconnected"
      BY <1>6, <2>1, VoteNeverLateResume DEF HostReturns
  <2>2. CASE ~(phase = "paused" /\ pauseReason = "host_disconnected")
      BY <1>6, <2>2, QuietEffective, VoteNeverLateKept DEF QuietActions, HostReturns, pauseVars
  <2>. QED
      BY <2>1, <2>2
<1>7. CASE Pause
    BY <1>7, VoteNeverLatePause DEF Pause
<1>8. CASE Resume
    BY <1>8, VoteNeverLateResume DEF Resume
<1>9. CASE Tick
  <2>1. EffectivePhase' = EffectivePhase
      BY <1>9, QuietEffective DEF QuietActions
  <2>2. CASE EffectivePhase = "voting" /\ partyPhase = "paused"
      BY <1>9, <2>1, <2>2 DEF Tick, Less, VoteNeverLate, pauseVars
  <2>3. CASE EffectivePhase = "voting" /\ partyPhase # "paused"
    <3>1. partyPhase = "voting"
        BY <2>3 DEF EffectivePhase
    <3>. QED
        BY <1>9, <2>1, <2>3, <3>1 DEF Tick, Less, VoteNeverLate, RunningPhases
  <2>4. CASE EffectivePhase # "voting"
      BY <2>1, <2>4 DEF VoteNeverLate
  <2>. QED
      BY <2>2, <2>3, <2>4
<1>10. CASE Restart
  <2>1. EffectivePhase' = EffectivePhase
      BY <1>10, QuietEffective DEF QuietActions
  <2>2. voteLeft' \in Nat /\ voteLeft' <= voteLeft
      BY <1>10 DEF Restart
  <2>3. CASE partyPhase \in {"party_lobby", "paused", "ended"}
      BY <1>10, <2>1, <2>2, <2>3 DEF Restart, VoteNeverLate, pauseVars
  <2>4. CASE partyPhase \notin {"party_lobby", "paused", "ended"}
      BY <1>10, <2>2, <2>4, VoteNeverLatePause DEF Restart
  <2>. QED
      BY <2>3, <2>4
<1>11. CASE StartParty \/ NextUpEnds \/ ResultsEnd
    BY <1>11, VoteNeverLateBegin, VoteNeverLateElsewhere
       DEF StartParty, NextUpEnds, StartActivity, ResultsEnd, FinishParty, PartyPhases,
           RunningPhases
<1>12. CASE Skip \/ End \/ PlayAgain \/ HostTimeout \/ SpinEnds
    BY <1>12, VoteNeverLateElsewhere
       DEF Skip, ShowResults, End, FinishParty, PlayAgain, HostTimeout, SpinEnds, PartyPhases,
           RunningPhases
<1>13. ASSUME NEW a \in Activities, ChooseActivity(a) PROVE VoteNeverLate'
    BY <1>13, VoteNeverLateElsewhere DEF ChooseActivity, Spin, PartyPhases, RunningPhases
<1>14. CASE CloseVote
    BY <1>14, VoteNeverLateElsewhere DEF CloseVote, Spin, PartyPhases, RunningPhases
<1>15. CASE RoundEnds
  <2>1. partyPhase' \in {"activity", "results"}
      BY <1>15 DEF RoundEnds, Stepping, CompleteActivity, ShowResults
  <2>. QED
      BY <2>1, VoteNeverLateElsewhere DEF PartyPhases, RunningPhases
<1>. QED
    BY <1>1, <1>2, <1>3, <1>4, <1>5, <1>6, <1>7, <1>8, <1>9, <1>10, <1>11, <1>12, <1>13,
       <1>14, <1>15 DEF Next, PlayerActs, HostCommands, Step

\* A vote never outlasts the countdown on screen, across pauses and restarts.
THEOREM VotesAreNotLate == Spec => []VoteNeverLate
<1>1. Init => VoteNeverLate
    BY DEF Init, VoteNeverLate, EffectivePhase
<1>2. ASSUME RotationInv, VoteNeverLate, [Next]_vars PROVE VoteNeverLate'
  <2>1. CASE Next
      BY <1>2, <2>1, NextVoteNeverLate DEF RotationInv
  <2>2. CASE UNCHANGED vars
      BY <1>2, <2>2, VoteNeverLateKept
         DEF vars, phaseVars, pauseVars, voteVars, EffectivePhase
  <2>. QED
      BY <1>2, <2>1, <2>2
<1>. QED
    BY <1>1, <1>2, RotationCorrect, PTL DEF Spec

-----------------------------------------------------------------------------
(* Repeats *)

\* The cards of an open vote already respect the repeat setting.
OptionsFresh ==
    EffectivePhase = "voting" =>
        \A a \in options : a \notin Excluded(config.repeat, lastActivity, history)

\* So does the activity chosen from them, until it has been played.
ActivityFresh ==
    (EffectivePhase \in {"spinning", "next_up", "activity"} /\ activity # NoActivity)
        => activity \notin Excluded(config.repeat, lastActivity, history)

FreshInv == OptionsFresh /\ ActivityFresh

LEMMA FreshKept ==
    ASSUME FreshInv, EffectivePhase' = EffectivePhase,
           UNCHANGED <<options, activity, config, lastActivity, history>>
    PROVE  FreshInv'
  BY DEF FreshInv, OptionsFresh, ActivityFresh, Excluded

LEMMA FreshVote ==
    ASSUME BeginVote, UNCHANGED <<config, lastActivity>>
    PROVE  FreshInv'
<1>1. EffectivePhase' = "voting"
    BY DEF BeginVote, EffectivePhase
<1>2. \A a \in options' :
         a \notin Excluded(config.repeat, lastActivity, HistoryAfterOptions(ConnectedCount))
    BY DEF BeginVote, OptionSets, Shortlists, Eligible
<1>3. \A a \in options' : a \notin Excluded(config'.repeat, lastActivity', history')
    BY <1>2 DEF BeginVote
<1>. QED
    BY <1>1, <1>3 DEF FreshInv, OptionsFresh, ActivityFresh

LEMMA FreshSpin ==
    ASSUME FreshInv, EffectivePhase = "voting", NEW a \in options, Spin(a),
           UNCHANGED <<config, lastActivity, history>>
    PROVE  FreshInv'
<1>1. EffectivePhase' = "spinning" /\ activity' = a
    BY DEF Spin, EffectivePhase
<1>2. a \notin Excluded(config.repeat, lastActivity, history)
    BY DEF FreshInv, OptionsFresh
<1>. QED
    BY <1>1, <1>2 DEF FreshInv, OptionsFresh, ActivityFresh

LEMMA FreshElsewhere ==
    ASSUME partyPhase' \in {"party_lobby", "results", "ended"}
    PROVE  FreshInv'
  BY DEF FreshInv, OptionsFresh, ActivityFresh, EffectivePhase

LEMMA NextFresh ==
    ASSUME RoomInv, FreshInv, Next
    PROVE  FreshInv'
<1>. USE DEF voteVars, sessionVars
<1>1. ASSUME QuietActions, ~(\E c \in Configs : Configure(c)) PROVE FreshInv'
  <2>1. UNCHANGED <<options, activity, config, lastActivity, history>>
      BY <1>1 DEF QuietActions, Join, Reconnect, Disconnect, Kick, Vote, OtherInput, HostLeaves,
                  HostReturns, Pause, Resume, CloseEmptyVote, Expire, Tick, Restart
  <2>. QED
      BY <1>1, <2>1, QuietEffective, FreshKept
<1>2. ASSUME NEW c \in Configs, Configure(c) PROVE FreshInv'
    BY <1>2, FreshElsewhere DEF Configure, phaseVars
<1>3. CASE StartParty
    BY <1>3, FreshVote DEF StartParty
<1>4. CASE Skip \/ End \/ PlayAgain \/ HostTimeout
    BY <1>4, FreshElsewhere DEF Skip, ShowResults, End, FinishParty, PlayAgain, HostTimeout
<1>5. ASSUME NEW a \in Activities, ChooseActivity(a) PROVE FreshInv'
    BY <1>5, FreshSpin DEF ChooseActivity, EffectivePhase
<1>6. CASE CloseVote
  <2>1. PICK audience \in options \cup {NoActivity} :
               \E winner \in Winners(audience) : Spin(winner)
      BY <1>6 DEF CloseVote
  <2>2. PICK winner \in Winners(audience) : Spin(winner)
      BY <2>1
  <2>3. winner \in options
      BY DEF Winners, MostBallots, Balloted
  <2>4. EffectivePhase = "voting"
      BY <1>6 DEF CloseVote, Stepping, EffectivePhase
  <2>. QED
      BY <1>6, <2>2, <2>3, <2>4, FreshSpin DEF CloseVote
<1>7. CASE SpinEnds
  <2>1. EffectivePhase = "spinning" /\ EffectivePhase' = "next_up"
      BY <1>7 DEF SpinEnds, Stepping, EffectivePhase
  <2>. QED
      BY <1>7, <2>1 DEF SpinEnds, FreshInv, OptionsFresh, ActivityFresh
<1>8. CASE NextUpEnds
  <2>1. CASE activity = NoActivity \/ ConnectedCount < MinPlayers
      BY <1>8, <2>1, FreshVote DEF NextUpEnds, StartActivity
  <2>2. CASE ~(activity = NoActivity \/ ConnectedCount < MinPlayers)
    <3>1. EffectivePhase = "next_up" /\ EffectivePhase' = "activity"
        BY <1>8, <2>2 DEF NextUpEnds, Stepping, StartActivity, EffectivePhase
    <3>2. UNCHANGED <<activity, config, lastActivity, history>>
        BY <1>8, <2>2 DEF NextUpEnds, StartActivity
    <3>. QED
        BY <3>1, <3>2 DEF FreshInv, OptionsFresh, ActivityFresh
  <2>. QED
      BY <2>1, <2>2
<1>9. CASE RoundEnds
  <2>1. CASE round < GameRounds \/ awarded
    <3>1. UNCHANGED <<partyPhase, resumePartyPhase, options, activity, config, lastActivity,
                      history>>
        BY <1>9, <2>1 DEF RoundEnds, CompleteActivity, phaseVars, pauseVars
    <3>. QED
        BY <3>1, FreshKept DEF EffectivePhase
  <2>2. CASE ~(round < GameRounds \/ awarded)
      BY <1>9, <2>2, FreshElsewhere DEF RoundEnds, CompleteActivity, ShowResults
  <2>. QED
      BY <2>1, <2>2
<1>10. CASE ResultsEnd
    BY <1>10, FreshVote, FreshElsewhere DEF ResultsEnd, FinishParty
<1>. QED
    BY <1>1, <1>2, <1>3, <1>4, <1>5, <1>6, <1>7, <1>8, <1>9, <1>10
       DEF Next, PlayerActs, HostCommands, Step, QuietActions

\* Repeat avoidance, from the vote to the end of the activity.
THEOREM ActivitiesDoNotRepeat == Spec => []NoRepeats
<1>1. Init => FreshInv
    BY DEF Init, FreshInv, OptionsFresh, ActivityFresh, EffectivePhase
<1>2. ASSUME RotationInv, FreshInv, [Next]_vars PROVE FreshInv'
  <2>1. CASE Next
      BY <1>2, <2>1, NextFresh DEF RotationInv
  <2>2. CASE UNCHANGED vars
      BY <1>2, <2>2, FreshKept
         DEF vars, phaseVars, pauseVars, voteVars, sessionVars, EffectivePhase
  <2>. QED
      BY <1>2, <2>1, <2>2
<1>3. ASSUME RotationInv, FreshInv PROVE NoRepeats
  <2>1. config.repeat \in Repeats
      BY <1>3 DEF RotationInv, SelectionInv, SelectionType, ConfigType
  <2>. QED
      BY <1>3, <2>1 DEF FreshInv, ActivityFresh, NoRepeats, Excluded, Repeats
<1>. QED
    BY <1>1, <1>2, <1>3, RotationCorrect, PTL DEF Spec

-----------------------------------------------------------------------------
(* The majority of a vote *)

\* The connected players who vote for a card on screen.
PlayersFor(a) == {p \in Players : seat[p] = "in" /\ votes[p] = a /\ a \in options}

LEMMA PlayersForCounted ==
    /\ \A a : Cardinality(PlayersFor(a)) \in Nat
    /\ \A a : PlayersFor(a) = {} => Cardinality(PlayersFor(a)) = 0
    /\ \A a \in options : PlayersFor(a) = {p \in Voters : votes[p] = a}
    /\ \A a : a \notin options \/ Voters = {} => PlayersFor(a) = {}
<1>1. \A a : IsFiniteSet(PlayersFor(a))
    BY RosterAssumption, FS_Subset DEF PlayersFor
<1>. QED
    BY <1>1, FS_CardinalityType, FS_EmptySet DEF PlayersFor, Voters, Connected

LEMMA MajorityWins ==
    ASSUME config.method = "majority", NEW audience, NEW winner \in Winners(audience), NEW a
    PROVE  Cardinality(PlayersFor(a)) <= 1 + Cardinality(PlayersFor(winner))
<1>1. winner \in options /\ \A b \in Balloted(audience) : Ballots(b, audience) <= Ballots(winner, audience)
    BY DEF Winners, MostBallots, Balloted
<1>2. CASE a \notin options \/ Voters = {}
    BY <1>2, PlayersForCounted
<1>3. CASE a \in options /\ Voters # {}
  <2>1. \A b \in options :
             /\ Ballots(b, audience) \in Nat
             /\ Cardinality(PlayersFor(b)) <= Ballots(b, audience)
             /\ Ballots(b, audience) <= 1 + Cardinality(PlayersFor(b))
    <3>1. \A b \in options : Ballots(b, audience) =
                Cardinality(PlayersFor(b)) + (IF audience = b THEN 1 ELSE 0)
        BY <1>3, PlayersForCounted, Zenon DEF Ballots
    <3>. QED
        BY <3>1, PlayersForCounted
  <2>2. CASE a \in Balloted(audience)
    <3>1. Ballots(a, audience) <= Ballots(winner, audience)
        BY <1>1, <2>2
    <3>. QED
        BY <1>1, <1>3, <2>1, <3>1, PlayersForCounted
  <2>3. CASE a \notin Balloted(audience)
    <3>1. Ballots(a, audience) = 0
        BY <1>3, <2>1, <2>3 DEF Balloted
    <3>. QED
        BY <1>1, <1>3, <2>1, <3>1, PlayersForCounted
  <2>. QED
      BY <2>2, <2>3
<1>. QED
    BY <1>2, <1>3

\* Only the room itself ends a vote that the majority decides.
LEMMA MajorityCloses ==
    ASSUME RoomInv, Next, partyPhase = "voting", partyPhase' = "spinning", config.method = "majority"
    PROVE  CloseVote
<1>1. ~QuietActions
  <2>1. EffectivePhase = "voting" /\ EffectivePhase' = "spinning"
      BY DEF EffectivePhase
  <2>. QED
      BY <2>1, QuietEffective
<1>2. ~StartParty /\ ~Skip /\ ~End /\ ~PlayAgain /\ ~HostTimeout
    BY DEF StartParty, BeginVote, Skip, ShowResults, End, FinishParty, PlayAgain, HostTimeout
<1>3. \A a \in Activities : ~ChooseActivity(a)
    BY DEF ChooseActivity
<1>4. ~SpinEnds /\ ~NextUpEnds /\ ~RoundEnds /\ ~ResultsEnd
    BY DEF SpinEnds, NextUpEnds, RoundEnds, ResultsEnd, Stepping
<1>. QED
    BY <1>1, <1>2, <1>3, <1>4, Zenon DEF Next, PlayerActs, HostCommands, Step, QuietActions

\* With "majority" no card that lost had more players' votes than the chosen one and the
\* audience's one ballot, whoever voted, left or was sent away before the vote closed.
THEOREM MajoritiesDecide == Spec => VoteDecides
<1>1. ASSUME RoomInv, [Next]_vars, partyPhase = "voting", partyPhase' = "spinning",
             config.method = "majority", NEW a \in Activities
      PROVE  Cardinality({p \in Players : seat[p] = "in" /\ votes[p] = a /\ a \in options})
                <= 1 + Cardinality({p \in Players : seat[p] = "in" /\ votes[p] = activity'})
  <2>1. Next
      BY <1>1 DEF vars, phaseVars
  <2>2. CloseVote
      BY <1>1, <2>1, MajorityCloses
  <2>3. PICK audience \in options \cup {NoActivity} : \E winner \in Winners(audience) : Spin(winner)
      BY <2>2 DEF CloseVote
  <2>4. PICK winner \in Winners(audience) : activity' = winner
      BY <2>3 DEF Spin
  <2>5. winner \in options
      BY DEF Winners, MostBallots, Balloted
  <2>6. Cardinality(PlayersFor(a)) <= 1 + Cardinality(PlayersFor(winner))
      BY <1>1, MajorityWins
  <2>7. PlayersFor(winner) = {p \in Players : seat[p] = "in" /\ votes[p] = activity'}
      BY <2>4, <2>5 DEF PlayersFor
  <2>. QED
      BY <2>6, <2>7 DEF PlayersFor
<1>2. RoomInv /\ [Next]_vars =>
        [(partyPhase = "voting" /\ partyPhase' = "spinning" /\ config.method = "majority")
         => \A a \in Activities :
               Cardinality({p \in Players : seat[p] = "in" /\ votes[p] = a /\ a \in options})
                 <= 1 + Cardinality({p \in Players : seat[p] = "in" /\ votes[p] = activity'})]_vars
    BY <1>1
<1>3. Spec => []RoomInv
    BY RoomCorrect
<1>. QED
    BY <1>2, <1>3, PTL DEF Spec, VoteDecides
=============================================================================
