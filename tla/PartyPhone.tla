------------------------------ MODULE PartyPhone -----------------------------
(****************************************************************************)
(* What a phone shows as chosen and what the server holds: the ballots of   *)
(* the party vote, the modifier votes of Turbo Tilt and the choices of      *)
(* Crowd Shift (party/app.js, renderPartyController, renderVotes and        *)
(* renderCrowdController).  A tap is shown at once and sent; the server     *)
(* broadcasts its state, and each of the three reads it in its own way.     *)
(****************************************************************************)
EXTENDS Integers, Sequences, FiniteSets

CONSTANTS Option, None, MaxRounds, MaxTaps, MaxQueue  \* the last three are bounds
PartyPhoneAssumption == None \notin Option /\ {MaxRounds, MaxTaps, MaxQueue} \subseteq Nat

VARIABLES
  kind,      \* "ballot", "modifier" or "choice": what is being chosen
  server,    \* round, whether it is open, what is offered, what the player has chosen
  snapshot,  \* the state the phone heard last
  selected,  \* what it shows as chosen
  online, queue, down,  \* the connection: taps and snapshots on their way
  said,      \* the last tap made in the round shown, or None
  missed,    \* it was lost, or the seat was left after it
  taps
vars == <<kind, server, snapshot, selected, online, queue, down, said, missed, taps>>

NewRound(n, offered) == [round |-> n, open |-> TRUE, offered |-> offered, chosen |-> None]
Offers == {s \in SUBSET Option : Cardinality(s) >= 2 \/ s = Option}

Init ==
  /\ kind \in {"ballot", "modifier", "choice"} /\ server = NewRound(1, Option)
  /\ snapshot = server /\ selected = None /\ online = TRUE /\ queue = <<>> /\ down = <<>>
  /\ said = None /\ missed = FALSE /\ taps = 0

\* A ballot that is shown as chosen is the server's, if it has one.
ReadsBallot(new, shown) == IF new.chosen # None THEN new.chosen ELSE shown

\* Mutant: a choice is kept until another is made.
ReadsChoiceKept(new, shown) == IF new.chosen # None THEN new.chosen ELSE shown

\* A choice is given up when the server has none.
ReadsChoice(new, shown) == new.chosen

\* A modifier is what was tapped.
ReadsModifier(new, shown) == shown

\* What is shown as chosen once a state is rendered.
Reads(new, shown) ==
  CASE kind = "modifier" -> ReadsModifier(new, shown)
    [] kind = "ballot"   -> ReadsBallot(new, shown)
    [] kind = "choice"   -> ReadsChoice(new, shown)

\* onStateUpdate
Snapshot ==
  /\ online /\ down # <<>> /\ down' = Tail(down)
  /\ snapshot' = Head(down) /\ selected' = Reads(Head(down), selected)
  /\ IF Head(down).round # snapshot.round THEN said' = None /\ missed' = FALSE
                                          ELSE UNCHANGED <<said, missed>>
  /\ UNCHANGED <<kind, server, online, queue, taps>>

CanTap(o) == snapshot.open /\ o \in snapshot.offered /\ taps < MaxTaps /\ Len(queue) < MaxQueue

\* Mutant: what is shown as chosen is not sent again.
TapOnce(o) ==
  /\ CanTap(o) /\ said' = o /\ missed' = FALSE /\ taps' = taps + 1
  /\ selected' = Reads(snapshot, o)
  /\ queue' = IF selected = o THEN queue ELSE Append(queue, o)
  /\ UNCHANGED <<kind, server, snapshot, online, down>>

\* A tap on an option: it is sent, or kept until the connection is up again, and the
\* state that was heard last is rendered.
Tap(o) ==
  /\ CanTap(o) /\ said' = o /\ missed' = FALSE /\ taps' = taps + 1
  /\ selected' = Reads(snapshot, o) /\ queue' = Append(queue, o)
  /\ UNCHANGED <<kind, server, snapshot, online, down>>

Counts(o) == server.open /\ o \in server.offered

\* The server takes a tap into the round it is in, which the tap does not name.
Arrives ==
  /\ online /\ queue # <<>> /\ queue' = Tail(queue)
  /\ server' = IF Counts(Head(queue)) THEN [server EXCEPT !.chosen = Head(queue)] ELSE server
  /\ missed' = (missed \/ (Len(queue) = 1 /\ ~Counts(Head(queue))))
  /\ UNCHANGED <<kind, snapshot, selected, online, down, said, taps>>

Broadcast ==
  /\ online /\ Len(down) < MaxQueue
  /\ down' = Append(down, server)
  /\ UNCHANGED <<kind, server, snapshot, selected, online, queue, said, missed, taps>>

\* A round ends, and another begins with what it offers.
Ends ==
  /\ server.open /\ server' = [server EXCEPT !.open = FALSE]
  /\ UNCHANGED <<kind, snapshot, selected, online, queue, down, said, missed, taps>>
Begins(offered) ==
  /\ ~server.open /\ server.round < MaxRounds /\ server' = NewRound(server.round + 1, offered)
  /\ UNCHANGED <<kind, snapshot, selected, online, queue, down, said, missed, taps>>

\* The seat is left, and with it a party ballot.
Lost ==
  /\ online /\ online' = FALSE /\ queue' = <<>> /\ down' = <<>> /\ missed' = TRUE
  /\ server' = IF kind = "ballot" THEN [server EXCEPT !.chosen = None] ELSE server
  /\ UNCHANGED <<kind, snapshot, selected, said, taps>>
Joined ==
  /\ ~online /\ online' = TRUE
  /\ UNCHANGED <<kind, server, snapshot, selected, queue, down, said, missed, taps>>

Next ==
  \/ Snapshot \/ Arrives \/ Broadcast \/ Ends \/ Lost \/ Joined
  \/ \E o \in Option : Tap(o)
  \/ \E offered \in Offers : Begins(offered)

Spec == Init /\ [][Next]_vars

---------------------------------------------------------------------------
PartyPhoneTypeOK ==
  /\ {selected, said, server.chosen} \subseteq Option \cup {None} /\ taps \in 0 .. MaxTaps
  /\ server.chosen = None \/ server.chosen \in server.offered

\* Nothing is on its way, and the phone has heard of the server's last state.
AtRest == online /\ queue = <<>> /\ down = <<>> /\ snapshot = server

(* At rest, what a player last tapped in the round that is shown is what    *)
(* the server holds - unless the tap came too late, or the connection was   *)
(* lost after it.                                                           *)
TapCounts == AtRest /\ said # None /\ ~missed => server.chosen = said

(* At rest, in an open round, a phone shows as chosen what the server       *)
(* holds.  A phone of the party vote or of the modifier vote may also show  *)
(* what the player chose in an earlier round, or before the seat was lost,  *)
(* as long as the server holds nothing.                                     *)
ShownIsHeld ==
  AtRest /\ server.open =>
    \/ selected = server.chosen
    \/ kind = "ballot" /\ server.chosen = None
    \/ kind = "modifier" /\ (missed \/ said = None)
=============================================================================
