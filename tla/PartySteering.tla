---------------------------- MODULE PartySteering ----------------------------
(****************************************************************************)
(* How a phone steers: party/app.js sends a value when the steering of the  *)
(* buttons or of the tilt changes, and remembers the value it sent; the     *)
(* server (v2-server/party.go, "steer") takes one value in 60 ms and leaves *)
(* the others out.  Time is not counted: the phone's 68 ms and the server's *)
(* 60 ms end when they end, for the network may hold messages back.         *)
(****************************************************************************)
EXTENDS Integers, Sequences

CONSTANTS MaxQueue, MaxChanges   \* bounds: messages on their way, changes of steering
PartySteeringAssumption == MaxQueue \in Nat \ {0} /\ MaxChanges \in Nat

Side == {-1, 1}
Unsent == 99        \* sentSteer before anything is sent

VARIABLES
  button, tilt,  \* what the buttons and the tilt say; a pressed button wins
  sentSteer,     \* the value that was sent last
  pacing,        \* less than 68 ms ago
  up,            \* the connection: is it open, and what is on its way
  queue,
  server,        \* what the server holds: the player's steering
  limited,       \* it took a value less than 60 ms ago
  eaten,         \* the last value sent was left out, or the seat was taken anew
  changes
vars == <<button, tilt, sentSteer, pacing, up, queue, server, limited, eaten, changes>>

Init ==
  /\ button = 0 /\ tilt = 0 /\ sentSteer = Unsent /\ pacing = FALSE
  /\ up = TRUE /\ queue = <<>> /\ server = 0 /\ limited = FALSE /\ eaten = FALSE /\ changes = 0

effectiveSteer(b, t) == IF b # 0 THEN b ELSE t

\* sendInput keeps a value while the connection is down, and sends it when it is up.
Send(value) == /\ Len(queue) < MaxQueue /\ queue' = Append(queue, value)
               /\ sentSteer' = value /\ pacing' = TRUE

\* Mutant: the value counts as sent although it was too early to send it.
sendSteerEarly(force, value) ==
  IF force \/ (~pacing /\ value # sentSteer) THEN Send(value)
  ELSE sentSteer' = value /\ UNCHANGED <<pacing, queue>>

\* A value is sent at once when a button says so, and otherwise when it differs and
\* the last one is 68 ms old.
sendSteer(force, value) ==
  IF force \/ (~pacing /\ value # sentSteer) THEN Send(value)
  ELSE UNCHANGED <<sentSteer, pacing, queue>>

Changed == changes < MaxChanges /\ changes' = changes + 1
Elsewhere == UNCHANGED <<up, server, limited, eaten>>

Press(value) ==
  /\ Changed /\ button' = value /\ sendSteer(TRUE, effectiveSteer(value, tilt))
  /\ UNCHANGED tilt /\ Elsewhere

\* pointerup, pointercancel or lostpointercapture of a button, pressed or not.
Release(value) ==
  /\ Changed /\ button' = IF button = value THEN 0 ELSE button
  /\ sendSteer(TRUE, effectiveSteer(button', tilt))
  /\ UNCHANGED tilt /\ Elsewhere

onOrientation(value) ==
  /\ Changed /\ tilt' = value /\ sendSteer(FALSE, effectiveSteer(button, value))
  /\ UNCHANGED button /\ Elsewhere

\* The interval, every 100 ms.
Interval ==
  /\ sendSteer(FALSE, effectiveSteer(button, tilt)) /\ UNCHANGED <<button, tilt, changes>> /\ Elsewhere

Paced == /\ pacing /\ pacing' = FALSE
         /\ UNCHANGED <<button, tilt, sentSteer, up, queue, server, limited, eaten, changes>>

Arrives ==
  /\ up /\ queue # <<>> /\ queue' = Tail(queue)
  /\ IF limited THEN eaten' = TRUE /\ UNCHANGED <<server, limited>>
                ELSE server' = Head(queue) /\ limited' = TRUE /\ eaten' = FALSE
  /\ UNCHANGED <<button, tilt, sentSteer, pacing, up, changes>>

Rested == /\ limited /\ limited' = FALSE
          /\ UNCHANGED <<button, tilt, sentSteer, pacing, up, queue, server, eaten, changes>>

\* The seat is left: the car goes straight.
Lost == /\ up /\ Changed /\ up' = FALSE /\ server' = 0 /\ queue' = <<>> /\ eaten' = TRUE
        /\ UNCHANGED <<button, tilt, sentSteer, pacing, limited>>

\* The seat is taken again.
Joined == /\ ~up /\ up' = TRUE /\ limited' = FALSE
          /\ UNCHANGED <<button, tilt, sentSteer, pacing, queue, server, eaten, changes>>

Next ==
  \/ \E v \in Side : Press(v) \/ Release(v)
  \/ \E v \in Side \cup {0} : onOrientation(v)
  \/ Interval \/ Paced \/ Arrives \/ Rested \/ Lost \/ Joined

Spec == Init /\ [][Next]_vars

---------------------------------------------------------------------------
PartySteeringTypeOK ==
  /\ button \in Side \cup {0} /\ tilt \in Side \cup {0} /\ server \in Side \cup {0}
  /\ sentSteer \in Side \cup {0, Unsent} /\ Len(queue) <= MaxQueue

\* Nothing is on its way, and the phone has nothing to send.
AtRest == up /\ queue = <<>> /\ ~pacing /\ effectiveSteer(button, tilt) = sentSteer

(* At rest the car is steered as the phone says - unless the last value was *)
(* left out for coming too soon, or the seat was taken anew: every change   *)
(* that was too early to send is sent later by the interval.                *)
SteerSettles == AtRest => eaten \/ server = effectiveSteer(button, tilt)

(* At rest the car is steered as the phone says.  party/index.html:333 says *)
(* "Touch controls always work."                                            *)
SteerFollows == AtRest => server = effectiveSteer(button, tilt)
=============================================================================
