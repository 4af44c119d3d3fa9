----------------------------- MODULE PartyScreen -----------------------------
(****************************************************************************)
(* The big screen of a party game (turbotilt/game.js, crowdshift/game.js;   *)
(* sticktilt/game.js is as Crowd Shift's): a host's page, a display's, or   *)
(* one embedded in a rotation's stage.  It hears snapshots of the server's  *)
(* match, of which an outage may drop any, and does things once that a      *)
(* snapshot shows many times: it counts the match's outcome for the         *)
(* player's missions, shows a race event, records an activity.              *)
(****************************************************************************)
EXTENDS Integers, Sequences, FiniteSets

CONSTANTS None, MaxMatches, MaxHeats, MaxEvents, MaxQueue, MaxLosses   \* but for None, bounds
PartyScreenAssumption == {MaxMatches, MaxHeats, MaxEvents, MaxQueue, MaxLosses} \subseteq Nat

VARIABLES
  kind, role,    \* "turbo" or "crowd"; "host", "display" or "embedded"
  server,        \* the match: its phase, number, heat and last event; and the party's phase
  before,        \* the phase a pause interrupts
  old,           \* the events more than 2.2 seconds old
  online, down, up,
  snapshot, lastPhase, reported, seen,
  outcomes,      \* the matches whose outcome this load of the page has counted
  effects,       \* the events it has shown
  recording,     \* embeddedRecording
  countdowns,    \* the matches whose countdown it has shown
  losses
vars == <<kind, role, server, before, old, online, down, up, snapshot, lastPhase, reported, seen,
          outcomes, effects, recording, countdowns, losses>>

Running == {"countdown", "racing", "intermission"}
Over == {"lobby", "podium", "ended"}
Phase == Running \cup Over \cup {"paused"}
Snapshots == [phase : Phase, match : 0..MaxMatches, heat : 0..MaxHeats, event : 0..MaxEvents, party : {"break", "activity"}]

Init ==
  /\ kind \in {"turbo", "crowd"} /\ role \in {"host", "display", "embedded"}
  /\ server = [phase |-> "lobby", match |-> 0, heat |-> 0, event |-> 0, party |-> "break"]
  /\ before = None /\ old = 0 /\ online = TRUE /\ down = <<server>> /\ up = <<>>
  /\ snapshot = None /\ lastPhase = None /\ reported = FALSE /\ seen = 0 /\ outcomes = <<>> /\ effects = <<>>
  /\ recording = FALSE /\ countdowns = {} /\ losses = 0

PartyScreenTypeOK ==
  /\ server \in Snapshots /\ before \in Running \cup {None} /\ old \in 0..MaxEvents
  /\ down \in Seq(Snapshots) /\ up \in Seq({"start", "pause", "resume", "end"})
  /\ snapshot \in Snapshots \cup {None} /\ lastPhase \in Phase \cup {None}
  /\ {online, reported, recording} \subseteq BOOLEAN /\ seen \in 0..MaxEvents
  /\ outcomes \in Seq(1..MaxMatches) /\ effects \in Seq(1..MaxEvents) /\ countdowns \subseteq 1..MaxMatches

\* The server's state is changed and broadcast.
Broadcasts(next) ==
  /\ server' = next
  /\ down' = IF online THEN Append(down, next) ELSE down
  /\ online => Len(down) < MaxQueue

Page == <<snapshot, lastPhase, reported, seen, outcomes, effects, recording, countdowns>>

\* A match goes on: its heats, and the podium after the last.
Advances ==
  /\ \/ server.phase = "countdown" /\ Broadcasts([server EXCEPT !.phase = "racing"])
     \/ server.phase = "racing" /\ Broadcasts([server EXCEPT !.phase = IF server.heat = MaxHeats THEN "podium" ELSE "intermission"])
     \/ server.phase = "intermission" /\ Broadcasts([server EXCEPT !.phase = "countdown", !.heat = @ + 1])
  /\ UNCHANGED <<kind, role, before, old, online, up, Page, losses>>

\* A racer meets something, and what happened before grows old.
Happens ==
  /\ \/ /\ server.phase = "racing" /\ server.event < MaxEvents
        /\ Broadcasts([server EXCEPT !.event = @ + 1]) /\ UNCHANGED old
     \/ old < server.event /\ old' = server.event /\ UNCHANGED <<server, down>>
  /\ UNCHANGED <<kind, role, before, online, up, Page, losses>>

\* The party's activity begins or ends around an embedded match.
PartyMoves ==
  /\ role = "embedded" /\ losses < MaxLosses /\ losses' = losses + 1
  /\ Broadcasts([server EXCEPT !.party = IF @ = "break" THEN "activity" ELSE "break"])
  /\ UNCHANGED <<kind, role, before, old, online, up, Page>>

\* The host's button arrives: a match begins, is paused, goes on or is ended.
Receives ==
  /\ up # <<>> /\ up' = Tail(up)
  /\ \/ /\ Head(up) = "start" /\ server.phase \in Over /\ server.match < MaxMatches
        /\ Broadcasts([server EXCEPT !.phase = "countdown", !.match = @ + 1, !.heat = 1]) /\ UNCHANGED before
     \/ /\ Head(up) = "pause" /\ server.phase \in Running
        /\ Broadcasts([server EXCEPT !.phase = "paused"]) /\ before' = server.phase
     \/ /\ Head(up) = "resume" /\ server.phase = "paused"
        /\ Broadcasts([server EXCEPT !.phase = before]) /\ before' = None
     \/ /\ Head(up) = "end" /\ server.phase \in Running \cup {"paused"}
        /\ Broadcasts([server EXCEPT !.phase = "ended"]) /\ before' = None
     \/ /\ \/ Head(up) = "start" /\ (server.phase \notin Over \/ server.match = MaxMatches)
           \/ Head(up) = "pause" /\ server.phase \notin Running
           \/ Head(up) = "resume" /\ server.phase # "paused"
           \/ Head(up) = "end" /\ server.phase \in Over
        /\ UNCHANGED <<server, down, before>>
  /\ UNCHANGED <<kind, role, old, online, Page, losses>>

\* syncUi's buttons, sendHostAction: what may be pressed depends on the snapshot shown.
Press ==
  /\ role = "host" /\ online /\ Len(up) < MaxQueue
  /\ LET shown == IF snapshot = None THEN "connecting" ELSE snapshot.phase IN
     \E action \in {"start", "pause", "resume", "end"} :
       /\ action = "start" => shown \in Over
       /\ action = "resume" => shown = "paused"
       /\ action = "pause" => shown \in Running
       /\ action = "end" => shown \in Running \cup {"paused"}
       /\ up' = Append(up, action)
  /\ UNCHANGED <<kind, role, server, before, old, online, down, Page, losses>>

\* Mutant: an event is remembered only when it is shown, and compared with nothing.
NewsRepeated(event) == event # 0 /\ event > old

\* consumeRaceEvents: an event is shown that was not seen and is not old.
News(event) == event # 0 /\ event # seen /\ event > old

\* Mutant: the outcome may be counted again whenever the phase changes.
RearmsAlways(phase) == phase # lastPhase

\* The outcome of Crowd Shift may be counted again once another countdown is shown.
Rearms(phase) == kind = "crowd" /\ phase = "countdown" /\ lastPhase # "countdown"

\* syncUi: a host's page counts the match at its podium.
Reports(phase) == phase = "podium" /\ ~reported /\ role = "host"

\* syncEmbeddedRecording: the recorder may not start.
Records(active, was) ==
  recording' \in IF role # "embedded" THEN {recording}
                 ELSE IF active /\ ~was THEN {TRUE, recording}
                 ELSE IF ~active /\ was THEN {FALSE} ELSE {recording}

\* onStateUpdate, or the stage's message.
Hear ==
  /\ online /\ down # <<>> /\ down' = Tail(down)
  /\ LET new == Head(down) IN
     /\ snapshot' = new /\ lastPhase' = new.phase
     /\ seen' = new.event /\ effects' = IF kind = "turbo" /\ News(new.event) THEN Append(effects, new.event) ELSE effects
     /\ outcomes' = IF Reports(new.phase) THEN Append(outcomes, new.match) ELSE outcomes
     /\ reported' = (~Rearms(new.phase) /\ (reported \/ Reports(new.phase)))
     /\ Records(new.party = "activity", snapshot # None /\ snapshot.party = "activity")
     /\ countdowns' = IF new.phase = "countdown" THEN countdowns \cup {new.match} ELSE countdowns
  /\ UNCHANGED <<kind, role, server, before, old, online, up, losses>>

\* The connection is lost with what it carried, and made again: the room's state is sent.
Lose ==
  /\ role # "embedded" /\ online /\ losses < MaxLosses /\ losses' = losses + 1
  /\ online' = FALSE /\ down' = <<>> /\ up' = <<>>
  /\ UNCHANGED <<kind, role, server, before, old, Page>>
Reconnects ==
  /\ ~online /\ online' = TRUE /\ down' = <<server>>
  /\ UNCHANGED <<kind, role, server, before, old, up, Page, losses>>

\* connectScreen: the page is loaded again, into the same room by its token.
Load ==
  /\ losses < MaxLosses /\ losses' = losses + 1
  /\ online' = TRUE /\ down' = <<server>> /\ up' = <<>>
  /\ snapshot' = None /\ lastPhase' = None /\ reported' = FALSE /\ seen' = 0
  /\ outcomes' = <<>> /\ effects' = <<>> /\ recording' = FALSE /\ countdowns' = {}
  /\ UNCHANGED <<kind, role, server, before, old>>

Next ==
  \/ Advances
  \/ Happens
  \/ PartyMoves
  \/ Receives
  \/ Press
  \/ Hear
  \/ Lose
  \/ Reconnects
  \/ Load

Spec == Init /\ [][Next]_vars

\* However often a snapshot shows a podium, a page counts a match once: Crowd Shift's every
\* match whose countdown it has shown too, Turbo Tilt's the first (state.reported is never
\* taken back there).  Each event is shown once, and nothing is recorded outside an activity.
ScreenHonest ==
  /\ \A i, j \in DOMAIN outcomes : outcomes[i] = outcomes[j] => i = j
  /\ snapshot # None /\ snapshot.phase = "podium" /\ role = "host" =>
       IF kind = "crowd" THEN snapshot.match \in countdowns => \E i \in DOMAIN outcomes : outcomes[i] = snapshot.match
                         ELSE Len(outcomes) = 1
  /\ \A i, j \in DOMAIN effects : effects[i] = effects[j] => i = j
  /\ recording => snapshot.party = "activity"

\* Not so: a Turbo Tilt page counts every match whose podium it shows.
RematchReported ==
  snapshot # None /\ snapshot.phase = "podium" /\ role = "host" =>
    \E i \in DOMAIN outcomes : outcomes[i] = snapshot.match
=============================================================================
