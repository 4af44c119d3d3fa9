---------------------------- MODULE ClipRecorder -----------------------------
(****************************************************************************)
(* The clip of a run (src/social/record.js) and its button                  *)
(* (src/social/clip-controls.js).  The browser's recorder hands its pieces  *)
(* over in events that come after it has stopped: stopping by hand, the two *)
(* minutes' limit, an encoder that gives up and the next run's first touch  *)
(* all meet events still on their way.                                      *)
(****************************************************************************)
EXTENDS Integers, Sequences, FiniteSets

CONSTANTS
  Caller,               \* those who may ask for the finished clip
  MaxRuns, MaxPieces    \* bounds: recordings, pieces of each
ClipRecorderAssumption == {MaxRuns, MaxPieces} \subseteq Nat \ {0}

Run == 1..MaxRuns
NoRun == 0
Piece == [run : Run, n : 1..(MaxPieces + 1)]

VARIABLES
  recorder,   \* the run recorded, or NoRun
  active, chunks,
  finished,   \* finishedClip: its pieces, empty when there is none
  pending,    \* finishPromise is there, and who awaits it
  timer,      \* the limit is running
  media,      \* each run's MediaRecorder: the browser's state and the pieces it has cut
  events,     \* its events on their way
  playing,    \* the page shows no button that starts the game, and its mode is "playing"
  button,     \* what the clip button says
  sharing,    \* a clip is being shared
  runs
vars == <<recorder, active, chunks, finished, pending, timer, media, events, playing, button, sharing, runs>>

Labels == {"starts", "finish", "finishing", "save", "saving", "saved", "none"}

Init ==
  /\ recorder = NoRun /\ active = FALSE /\ chunks = <<>> /\ finished = <<>>
  /\ pending = [open |-> FALSE, callers |-> {}] /\ timer = FALSE
  /\ media = [r \in Run |-> [state |-> "inactive", pieces |-> 0]] /\ events = <<>>
  /\ playing = FALSE /\ button = "starts" /\ sharing = FALSE /\ runs = 0

ClipRecorderTypeOK ==
  /\ recorder \in Run \cup {NoRun} /\ {active, timer, playing, sharing} \subseteq BOOLEAN
  /\ chunks \in Seq(Piece) /\ finished \in Seq(Piece)
  /\ pending \in [open : BOOLEAN, callers : SUBSET Caller]
  /\ media \in [Run -> [state : {"recording", "inactive"}, pieces : 0..(MaxPieces + 1)]]
  /\ events \in Seq([kind : {"data", "stop"}, run : Run, n : 0..(MaxPieces + 1)])
  /\ button \in Labels /\ runs \in 0..MaxRuns

\* mountClipControls, render: what the button says of a state that is announced.
Label(recording, clip) == IF recording THEN "finish" ELSE IF clip # <<>> THEN "save" ELSE "starts"

\* Mutant: a touch of the game starts a recording while the last one is finishing.
MayStartAnyway(explicit) == explicit \/ (finished = <<>> /\ playing)

\* isGameplayIntent, isExplicitStartIntent, handleIntent, handleStartedGame: a touch of the
\* game starts a recording, unless there is a clip that only an explicit start may replace.
MayStart(explicit) == ~active /\ (explicit \/ (finished = <<>> /\ playing))

\* startRecording, on a gesture or from an embedded game.  No encoder may accept.
Start ==
  \E explicit \in BOOLEAN :
    /\ MayStart(explicit) /\ runs < MaxRuns /\ runs' = runs + 1
    /\ \/ /\ recorder' = runs + 1 /\ active' = TRUE /\ chunks' = <<>> /\ timer' = TRUE
          /\ media' = [media EXCEPT ![runs + 1].state = "recording"] /\ button' = "finish"
       \/ /\ recorder' = NoRun /\ active' = FALSE /\ timer' = FALSE /\ button' = "starts"
          /\ UNCHANGED <<media, chunks>>
    /\ finished' = <<>> /\ UNCHANGED <<pending, events, playing, sharing>>

\* The game starts or ends, and shows or hides its buttons.
Game == playing' = ~playing /\ UNCHANGED <<recorder, active, chunks, finished, pending, timer, media, events, button, sharing, runs>>

\* The browser cuts a piece every second,
Cut ==
  \E r \in Run :
    /\ media[r].state = "recording" /\ media[r].pieces < MaxPieces
    /\ media' = [media EXCEPT ![r].pieces = @ + 1]
    /\ events' = Append(events, [kind |-> "data", run |-> r, n |-> media[r].pieces + 1])
    /\ UNCHANGED <<recorder, active, chunks, finished, pending, timer, playing, button, sharing, runs>>

\* and the rest when the recorder stops.
Stops(r) ==
  /\ media' = [media EXCEPT ![r] = [state |-> "inactive", pieces |-> @.pieces + 1]]
  /\ events' = events \o <<[kind |-> "data", run |-> r, n |-> media[r].pieces + 1],
                           [kind |-> "stop", run |-> r, n |-> 0]>>

\* The encoder gives up, or the canvas is gone.
Errs ==
  /\ \E r \in Run : media[r].state = "recording" /\ Stops(r)
  /\ UNCHANGED <<recorder, active, chunks, finished, pending, timer, playing, button, sharing, runs>>

\* MAX_MS
Limit ==
  /\ timer /\ timer' = FALSE
  /\ IF recorder # NoRun /\ media[recorder].state # "inactive" THEN Stops(recorder) ELSE UNCHANGED <<media, events>>
  /\ UNCHANGED <<recorder, active, chunks, finished, pending, playing, button, sharing, runs>>

\* completeRecording, with the pieces there are.
Completes ==
  /\ finished' = chunks /\ recorder' = NoRun /\ active' = FALSE /\ chunks' = <<>> /\ timer' = FALSE
  /\ pending' = [open |-> FALSE, callers |-> {}]
  /\ button' = IF button = "finishing" /\ chunks = <<>> THEN "none" ELSE Label(FALSE, chunks)

\* Mutant: an event is taken for the run recorded now, whichever recorder it came from.
OfAnyRecorder(e) == recorder # NoRun

OfRecorder(e) == recorder = e.run

\* recorder.ondataavailable, recorder.onstop
Event ==
  /\ events # <<>> /\ events' = Tail(events)
  /\ LET e == Head(events) IN
     \/ /\ e.kind = "data" /\ OfRecorder(e)
        /\ chunks' = Append(chunks, [run |-> e.run, n |-> e.n])
        /\ UNCHANGED <<recorder, active, finished, pending, timer, button>>
     \/ e.kind = "stop" /\ OfRecorder(e) /\ Completes
     \/ ~OfRecorder(e) /\ UNCHANGED <<recorder, active, chunks, finished, pending, timer, button>>
  /\ UNCHANGED <<media, playing, sharing, runs>>

\* finalizeRecording: what there is to return, the promise there is, or a new one, resolved
\* at once when the recorder has stopped already.
Finalizes(c, says) ==
  \/ /\ recorder = NoRun /\ button' = IF says = "finishing" THEN Label(FALSE, finished) ELSE button
     /\ UNCHANGED <<recorder, active, chunks, finished, pending, timer, media, events>>
  \/ /\ recorder # NoRun /\ pending.open /\ pending' = [pending EXCEPT !.callers = @ \cup {c}] /\ button' = says
     /\ UNCHANGED <<recorder, active, chunks, finished, timer, media, events>>
  \/ /\ recorder # NoRun /\ ~pending.open /\ media[recorder].state = "recording"
     /\ timer' = FALSE /\ pending' = [open |-> TRUE, callers |-> {c}] /\ Stops(recorder) /\ button' = says
     /\ UNCHANGED <<recorder, active, chunks, finished>>
  \/ /\ recorder # NoRun /\ ~pending.open /\ media[recorder].state = "inactive"
     /\ Completes /\ UNCHANGED <<media, events>>

\* reportScore, or an embedded game whose activity is over.
GameOver == \E c \in Caller : c \notin pending.callers /\ Finalizes(c, button) /\ UNCHANGED <<playing, sharing, runs>>

\* The button, while a run is recorded,
Finish ==
  /\ button \in {"finish", "saved"} /\ active
  /\ \E c \in Caller : c \notin pending.callers /\ Finalizes(c, "finishing") /\ UNCHANGED <<playing, sharing, runs>>

\* and once it is finished: the clip is shared or downloaded,
Save ==
  /\ button \in {"save", "saved"} /\ ~active /\ finished # <<>> /\ ~sharing /\ sharing' = TRUE /\ button' = "saving"
  /\ UNCHANGED <<recorder, active, chunks, finished, pending, timer, media, events, playing, runs>>

\* or kept when the sheet is dismissed (shareClip); a recording may have begun meanwhile.
Saved ==
  /\ sharing /\ sharing' = FALSE /\ button' \in {Label(active, finished), "saved"}
  /\ UNCHANGED <<recorder, active, chunks, finished, pending, timer, media, events, playing, runs>>

\* The button draws itself again after a while.
Redraw ==
  /\ button \in {"saved", "none"} /\ button' = Label(active, finished)
  /\ UNCHANGED <<recorder, active, chunks, finished, pending, timer, media, events, playing, sharing, runs>>

Next ==
  \/ Start
  \/ Game
  \/ Cut
  \/ Errs
  \/ Limit
  \/ Event
  \/ GameOver
  \/ Finish
  \/ Save
  \/ Saved
  \/ Redraw

Spec == Init /\ [][Next]_vars

\* A clip shows one run, from its beginning and without a gap, though events of a run before
\* may still be on their way; and whoever awaits a clip is told: the stop that completes it
\* is coming.
ClipOfOneRun ==
  /\ \A clip \in {finished, chunks} : \A i \in DOMAIN clip : clip[i].n = i /\ clip[i].run = clip[1].run
  /\ pending.callers # {} =>
       recorder # NoRun /\ \E i \in DOMAIN events : events[i].kind = "stop" /\ events[i].run = recorder

\* Not so: a clip is whole (record.js: "the recorder alive until onstop so the final video
\* chunk is included").  Asked for between the recorder's stop and its last events, the clip
\* is completed without them.
ClipWhole == finished # <<>> => Len(finished) = media[finished[1].run].pieces
=============================================================================
