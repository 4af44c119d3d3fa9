------------------------------ MODULE PartyHost ------------------------------
(****************************************************************************)
(* The settings of a party on the host's page (party/app.js): the controls, *)
(* the copy in the browser's storage, and what the server holds.  A change  *)
(* of one control sends all of them; a snapshot of the server sets all of   *)
(* them back to what the server held when it was made.                      *)
(****************************************************************************)
EXTENDS Integers, Sequences, FiniteSets

CONSTANTS Control, MaxChanges, MaxQueue   \* the last two are bounds
PartyHostAssumption == {MaxChanges, MaxQueue} \subseteq Nat

VARIABLES
  controls,     \* what each control shows: one of two values
  saved,        \* the settings in the browser's storage
  setup,        \* before the party starts: as the page shows it
  server, lobby,  \* the settings the server holds; it takes others in the lobby only
  online, queue, down, \* the connection
  meant,        \* what the host chose last for each control
  reverted,     \* controls that a snapshot or a refusal set back to something else
  changes
vars == <<controls, saved, setup, server, lobby, online, queue, down, meant, reverted, changes>>

Settings == [Control -> {0, 1}]
defaultPartySettings == [c \in Control |-> 0]

\* A new room: the saved settings are sent to it at once.
Init ==
  /\ saved \in Settings /\ controls = saved /\ meant = saved
  /\ server = defaultPartySettings /\ lobby = TRUE /\ setup = TRUE
  /\ online = TRUE /\ queue = <<saved>> /\ down = <<>> /\ reverted = {} /\ changes = 0

\* Mutant: what is sent is what was saved before the change.
sendPartyConfigurationLate(new) ==
  /\ Len(queue) < MaxQueue /\ controls' = new /\ saved' = new /\ queue' = Append(queue, saved)

\* All the controls are read, saved and sent.
sendPartyConfiguration(new) ==
  /\ Len(queue) < MaxQueue /\ controls' = new /\ saved' = new /\ queue' = Append(queue, new)

\* The host changes a control: a preset, the presentation, an activity of the pool.
Change(c) ==
  /\ setup /\ changes < MaxChanges /\ changes' = changes + 1
  /\ sendPartyConfiguration([controls EXCEPT ![c] = 1 - controls[c]])
  /\ meant' = [meant EXCEPT ![c] = 1 - controls[c]] /\ reverted' = reverted \ {c}
  /\ UNCHANGED <<setup, server, lobby, online, down>>

\* configure_party: all of it, in the lobby.
Arrives ==
  /\ online /\ queue # <<>> /\ queue' = Tail(queue)
  /\ server' = IF lobby THEN Head(queue) ELSE server
  /\ UNCHANGED <<controls, saved, setup, lobby, online, down, meant, reverted, changes>>

Broadcast ==
  /\ online /\ Len(down) < MaxQueue
  /\ down' = Append(down, [settings |-> server, lobby |-> lobby])
  /\ UNCHANGED <<controls, saved, setup, server, lobby, online, queue, meant, reverted, changes>>

syncPartySettingsControls(snapshot) == controls' = snapshot.settings

\* renderSessionScreen
Snapshot ==
  /\ online /\ down # <<>> /\ down' = Tail(down) /\ setup' = Head(down).lobby
  /\ syncPartySettingsControls(Head(down))
  /\ reverted' = reverted \cup {c \in Control : Head(down).settings[c] # meant[c]}
  /\ UNCHANGED <<saved, server, lobby, online, queue, meant, changes>>

Start ==
  /\ lobby /\ lobby' = FALSE
  /\ UNCHANGED <<controls, saved, setup, server, online, queue, down, meant, reverted, changes>>

Lost ==
  /\ online /\ online' = FALSE /\ queue' = <<>> /\ down' = <<>> /\ reverted' = Control
  /\ UNCHANGED <<controls, saved, setup, server, lobby, meant, changes>>
Joined ==
  /\ ~online /\ online' = TRUE
  /\ UNCHANGED <<controls, saved, setup, server, lobby, queue, down, meant, reverted, changes>>

Next == Arrives \/ Broadcast \/ Snapshot \/ Start \/ Lost \/ Joined \/ \E c \in Control : Change(c)
Spec == Init /\ [][Next]_vars

---------------------------------------------------------------------------
PartyHostTypeOK ==
  /\ {controls, saved, server, meant} \subseteq Settings /\ reverted \subseteq Control
  /\ Len(queue) <= MaxQueue /\ Len(down) <= MaxQueue

\* Nothing is on its way, and the page has heard that the party has started or has not.
AtRest == online /\ queue = <<>> /\ down = <<>> /\ setup = lobby

(* In the lobby, at rest, the server holds what the host chose last for     *)
(* each control - unless a snapshot made before the server had it set the   *)
(* control back in the meantime, or the connection was lost.                *)
SettingsKept ==
  AtRest /\ lobby => \A c \in Control \ reverted : server[c] = meant[c]
=============================================================================
