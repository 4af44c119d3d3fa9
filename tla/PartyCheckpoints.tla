-------------------------- MODULE PartyCheckpoints --------------------------
(***************************************************************************)
(* How the rooms of v2-server outlive their process.                       *)
(*                                                                         *)
(* The hub lists the live room of each code.  A room writes its state to a *)
(* document store every two seconds, one write at a time, and its document *)
(* is deleted when it is removed; both happen in goroutines of their own.  *)
(* Who asks for a code that is not listed loads the document, outside the  *)
(* hub's lock, and restores a room from it.  A crash ends every goroutine. *)
(* Of a room's state only the number of its changes is kept.               *)
(***************************************************************************)
EXTENDS Naturals, FiniteSets

CONSTANTS
    Codes,            \* room codes
    Finders,          \* goroutines that look a room up
    NoRoom, NoDoc,
    MaxRooms,         \* partyMaxRooms
    MaxMade,          \* bound: room objects made
    MaxChanges,       \* bound: changes of a room
    MaxFailures,      \* bound: calls to the store that fail
    MaxCrashes        \* bound: crashes of the process

Made == 1 .. MaxMade

ASSUME StoreAssumption ==
    /\ {MaxRooms, MaxMade, MaxChanges, MaxFailures, MaxCrashes} \subseteq Nat
    /\ IsFiniteSet(Codes)
    /\ NoRoom \notin Nat

VARIABLES
    partyRooms,       \* hub.partyRooms
    made,             \* room objects made so far
    life,             \* of a room object; removed is room.removed
    code, changes,    \* roomID; what happened in it
    inFlight,         \* persistenceInFlight
    doc,              \* the document of each code
    expired,          \* its ExpiresAt has passed
    saves,            \* calls of persistSnapshot
    deletes,          \* rooms whose asynchronous Delete has not run yet
    finder,           \* calls of findPartyRoom
    landed,           \* changes in the last snapshot of a room that was stored
    failures, crashes

roomVars  == <<partyRooms, made, life, code>>
storeVars == <<doc, expired, landed>>
callVars  == <<saves, deletes, inFlight>>
vars == <<roomVars, changes, storeVars, callVars, finder, failures, crashes>>

Snapshot == [by : Made, changes : Nat]
Save == [snap : Snapshot, step : {"saving", "answered", "deleting"}]
Idle == [step |-> "idle"]
Lookup == {Idle} \cup [step : {"loading", "forgetting"}, code : Codes]
                 \cup [step : {"restoring"}, code : Codes, snap : Snapshot]

TypeOK ==
    /\ partyRooms \in [Codes -> Made \cup {NoRoom}]
    /\ made \in 0 .. MaxMade
    /\ life \in [Made -> {"unmade", "live", "removing", "removed", "lost"}]
    /\ code \in [Made -> Codes \cup {NoRoom}]
    /\ changes \in [Made -> Nat]
    /\ inFlight \in [Made -> BOOLEAN]
    /\ doc \in [Codes -> Snapshot \cup {NoDoc}] /\ expired \in [Codes -> BOOLEAN]
    /\ saves \subseteq Save
    /\ deletes \subseteq Made
    /\ finder \in [Finders -> Lookup]
    /\ landed \in [Made -> Nat]
    /\ failures \in Nat /\ crashes \in Nat
    /\ \A i \in Made : (life[i] = "unmade") = (i > made)
    /\ \A i \in Made : i <= made => code[i] \in Codes

Init ==
    /\ partyRooms = [c \in Codes |-> NoRoom]
    /\ made = 0
    /\ life = [i \in Made |-> "unmade"] /\ code = [i \in Made |-> NoRoom]
    /\ changes = [i \in Made |-> 0]
    /\ inFlight = [i \in Made |-> FALSE]
    /\ doc = [c \in Codes |-> NoDoc] /\ expired = [c \in Codes |-> FALSE]
    /\ saves = {} /\ deletes = {}
    /\ finder = [f \in Finders |-> Idle]
    /\ landed = [i \in Made |-> 0]
    /\ failures = 0 /\ crashes = 0

-----------------------------------------------------------------------------
(* Rooms *)

Listed == {c \in Codes : partyRooms[c] # NoRoom}
SnapshotOf(i) == [by |-> i, changes |-> changes[i]]
Saving(snap) == [snap |-> snap, step |-> "saving"]

\* A new room object for code c goes into the hub's list.
Enlist(c) ==
    /\ made < MaxMade
    /\ made' = made + 1
    /\ life' = [life EXCEPT ![made + 1] = "live"]
    /\ code' = [code EXCEPT ![made + 1] = c]
    /\ partyRooms' = [partyRooms EXCEPT ![c] = made + 1]

\* Slip: the goroutine starts before the room is counted.
CreateUnlisted(c) ==
    /\ partyRooms[c] = NoRoom
    /\ Cardinality(Listed) < MaxRooms
    /\ made < MaxMade
    /\ life' = [life EXCEPT ![made + 1] = "live"]
    /\ partyRooms' = [partyRooms EXCEPT ![c] = made + 1]
    /\ inFlight' = [inFlight EXCEPT ![made + 1] = TRUE]
    /\ saves' = saves \cup {Saving(SnapshotOf(made + 1))}
    /\ UNCHANGED <<made, code, changes, storeVars, deletes, finder, failures, crashes>>

\* createPartyRoom, with its first checkpoint on the way.
CreatePartyRoom(c) ==
    /\ partyRooms[c] = NoRoom
    /\ Cardinality(Listed) < MaxRooms
    /\ Enlist(c)
    /\ inFlight' = [inFlight EXCEPT ![made + 1] = TRUE]
    /\ saves' = saves \cup {Saving(SnapshotOf(made + 1))}
    /\ UNCHANGED <<changes, storeVars, deletes, finder, failures, crashes>>

Change(i) ==
    /\ life[i] = "live"
    /\ changes[i] < MaxChanges
    /\ changes' = [changes EXCEPT ![i] = @ + 1]
    /\ UNCHANGED <<roomVars, storeVars, callVars, finder, failures, crashes>>

\* Slip: a checkpoint does not wait for the one on the way.
CheckpointAnyway(i) ==
    /\ life[i] = "live"
    /\ inFlight' = [inFlight EXCEPT ![i] = TRUE]
    /\ saves' = saves \cup {Saving(SnapshotOf(i))}
    /\ UNCHANGED <<roomVars, changes, storeVars, deletes, finder, failures, crashes>>

\* broadcastState, two seconds after the last checkpoint.
Checkpoint(i) ==
    /\ life[i] = "live"
    /\ ~inFlight[i]
    /\ inFlight' = [inFlight EXCEPT ![i] = TRUE]
    /\ saves' = saves \cup {Saving(SnapshotOf(i))}
    /\ UNCHANGED <<roomVars, changes, storeVars, deletes, finder, failures, crashes>>

\* A room lives for a minute at least, longer than any call that began before it
\* was listed.
OlderCallsDone(i) ==
    /\ \A f \in Finders : finder[f] # Idle => finder[f].code # code[i]
    /\ \A s \in saves : s.snap.by # i => code[s.snap.by] # code[i]
    /\ \A j \in deletes : code[j] # code[i]

\* removePartyRoom, first under the hub's lock ...
Delist(i) ==
    /\ life[i] = "live"
    /\ OlderCallsDone(i)
    /\ life' = [life EXCEPT ![i] = "removing"]
    /\ partyRooms' = [partyRooms EXCEPT ![code[i]] = IF @ = i THEN NoRoom ELSE @]
    /\ UNCHANGED <<made, code, changes, storeVars, callVars, finder, failures, crashes>>

\* ... then under the room's.
MarkRemoved(i) ==
    /\ life[i] = "removing"
    /\ life' = [life EXCEPT ![i] = "removed"]
    /\ deletes' = deletes \cup {i}
    /\ UNCHANGED <<partyRooms, made, code, changes, storeVars, saves, inFlight, finder, failures, crashes>>

-----------------------------------------------------------------------------
(* Calls to the document store.  One that fails has no effect. *)

Forget(c) == doc' = [doc EXCEPT ![c] = NoDoc] /\ expired' = [expired EXCEPT ![c] = FALSE]
Fails == failures < MaxFailures /\ failures' = failures + 1
Advance(s, step) == saves' = (saves \ {s}) \cup {[s EXCEPT !.step = step]}

SaveLands(s) ==
    LET i == s.snap.by IN
    /\ s.step = "saving"
    /\ doc' = [doc EXCEPT ![code[i]] = s.snap]
    /\ expired' = [expired EXCEPT ![code[i]] = FALSE]
    /\ landed' = [landed EXCEPT ![i] = s.snap.changes]
    /\ Advance(s, "answered")
    /\ UNCHANGED <<roomVars, changes, deletes, inFlight, finder, failures, crashes>>

SaveFails(s) ==
    /\ s.step = "saving"
    /\ Fails
    /\ Advance(s, "answered")
    /\ UNCHANGED <<roomVars, changes, storeVars, deletes, inFlight, finder, crashes>>

\* Slip: a room that was removed meanwhile is not noticed.
SaveEndsUnaware(s) ==
    /\ s.step = "answered"
    /\ inFlight' = [inFlight EXCEPT ![s.snap.by] = FALSE]
    /\ saves' = saves \ {s}
    /\ UNCHANGED <<roomVars, changes, storeVars, deletes, finder, failures, crashes>>

\* Slip: the flag is reset only when the snapshot was stored.
SaveEndsHappy(s) ==
    /\ s.step = "answered"
    /\ inFlight' = [inFlight EXCEPT ![s.snap.by] = (doc[code[s.snap.by]] # s.snap)]
    /\ IF life[s.snap.by] = "removed" THEN Advance(s, "deleting") ELSE saves' = saves \ {s}
    /\ UNCHANGED <<roomVars, changes, storeVars, deletes, finder, failures, crashes>>

\* persistSnapshot, back from Save.
SaveEnds(s) ==
    /\ s.step = "answered"
    /\ inFlight' = [inFlight EXCEPT ![s.snap.by] = FALSE]
    /\ IF life[s.snap.by] = "removed" THEN Advance(s, "deleting") ELSE saves' = saves \ {s}
    /\ UNCHANGED <<roomVars, changes, storeVars, deletes, finder, failures, crashes>>

SaveDeletes(s) ==
    /\ s.step = "deleting"
    /\ \/ Forget(code[s.snap.by]) /\ UNCHANGED failures
       \/ Fails /\ UNCHANGED <<doc, expired>>
    /\ saves' = saves \ {s}
    /\ UNCHANGED <<roomVars, changes, landed, deletes, inFlight, finder, crashes>>

Delete(i) ==
    /\ i \in deletes
    /\ \/ Forget(code[i]) /\ UNCHANGED failures
       \/ Fails /\ UNCHANGED <<doc, expired>>
    /\ deletes' = deletes \ {i}
    /\ UNCHANGED <<roomVars, changes, landed, saves, inFlight, finder, crashes>>

\* Fifteen minutes without a checkpoint: every call has ended by then.
DocumentExpires(c) ==
    /\ doc[c] # NoDoc /\ ~expired[c]
    /\ partyRooms[c] = NoRoom
    /\ \A s \in saves : code[s.snap.by] # c
    /\ \A i \in deletes : code[i] # c
    /\ \A f \in Finders : finder[f] # Idle => finder[f].code # c
    /\ expired' = [expired EXCEPT ![c] = TRUE]
    /\ UNCHANGED <<roomVars, changes, doc, landed, callVars, finder, failures, crashes>>

-----------------------------------------------------------------------------
(* findPartyRoom *)

Miss(f, c) ==
    /\ finder[f] = Idle
    /\ partyRooms[c] = NoRoom
    /\ finder' = [finder EXCEPT ![f] = [step |-> "loading", code |-> c]]
    /\ UNCHANGED <<roomVars, changes, storeVars, callVars, failures, crashes>>

Load(f) ==
    LET c == finder[f].code IN
    /\ finder[f].step = "loading"
    /\ \/ /\ doc[c] = NoDoc
          /\ finder' = [finder EXCEPT ![f] = Idle]
          /\ UNCHANGED failures
       \/ Fails /\ finder' = [finder EXCEPT ![f] = Idle]
       \/ /\ doc[c] # NoDoc
          /\ finder' = [finder EXCEPT ![f] =
                IF expired[c] THEN [step |-> "forgetting", code |-> c]
                ELSE [step |-> "restoring", code |-> c, snap |-> doc[c]]]
          /\ UNCHANGED failures
    /\ UNCHANGED <<roomVars, changes, storeVars, callVars, crashes>>

\* Load deletes an expired document.
DeleteExpired(f) ==
    /\ finder[f].step = "forgetting"
    /\ \/ Forget(finder[f].code) /\ UNCHANGED failures
       \/ Fails /\ UNCHANGED <<doc, expired>>
    /\ finder' = [finder EXCEPT ![f] = Idle]
    /\ UNCHANGED <<roomVars, changes, landed, callVars, crashes>>

\* Another lookup has restored the room, or there are too many rooms.
GiveUp(f) ==
    /\ finder[f].step = "restoring"
    /\ partyRooms[finder[f].code] # NoRoom \/ Cardinality(Listed) >= MaxRooms
    /\ finder' = [finder EXCEPT ![f] = Idle]
    /\ UNCHANGED <<roomVars, changes, storeVars, callVars, failures, crashes>>

Restored(f) ==
    LET snap == finder[f].snap IN
    /\ finder[f].step = "restoring"
    /\ Enlist(finder[f].code)
    /\ changes' = [changes EXCEPT ![made + 1] = snap.changes]
    /\ finder' = [finder EXCEPT ![f] = Idle]
    /\ UNCHANGED <<storeVars, callVars, failures, crashes>>

\* Slip: the list is not looked at again after the document was loaded.
RestoreBlindly(f) == Restored(f)

\* Slip: the number of rooms is not looked at again.
RestoreUncounted(f) == Restored(f) /\ partyRooms[finder[f].code] = NoRoom

Restore(f) ==
    /\ Restored(f)
    /\ partyRooms[finder[f].code] = NoRoom
    /\ Cardinality(Listed) < MaxRooms

-----------------------------------------------------------------------------

Crash ==
    /\ crashes < MaxCrashes
    /\ crashes' = crashes + 1
    /\ partyRooms' = [c \in Codes |-> NoRoom]
    /\ life' = [i \in Made |-> IF life[i] \in {"live", "removing"} THEN "lost" ELSE life[i]]
    /\ saves' = {} /\ deletes' = {}
    /\ inFlight' = [i \in Made |-> FALSE]
    /\ finder' = [f \in Finders |-> Idle]
    /\ UNCHANGED <<made, code, changes, storeVars, failures>>

Persist(s) == SaveLands(s) \/ SaveEnds(s) \/ SaveDeletes(s)
Find(f) == Load(f) \/ DeleteExpired(f) \/ GiveUp(f) \/ Restore(f)

Next ==
    \/ \E c \in Codes : CreatePartyRoom(c) \/ DocumentExpires(c)
    \/ \E i \in Made : Change(i) \/ Checkpoint(i) \/ Delist(i) \/ MarkRemoved(i) \/ Delete(i)
    \/ \E s \in saves : Persist(s) \/ SaveFails(s)
    \/ \E f \in Finders : Find(f) \/ \E c \in Codes : Miss(f, c)
    \/ Crash

Spec == Init /\ [][Next]_vars

\* Goroutines run and a call to the store returns within five seconds.
Fairness ==
    /\ \A i \in Made : WF_vars(Checkpoint(i)) /\ WF_vars(MarkRemoved(i)) /\ WF_vars(Delete(i))
    /\ \A i \in Made : WF_vars(\E s \in saves : s.snap.by = i /\ Persist(s))

FairSpec == Spec /\ Fairness

-----------------------------------------------------------------------------
(* Properties *)

\* Whoever asks for a code gets the same room: a room whose goroutine runs is the
\* one listed under its code, however many lookups restored it at once.
OneOwner ==
    /\ \A i \in Made : life[i] = "live" => partyRooms[code[i]] = i
    /\ \A c \in Listed : life[partyRooms[c]] = "live" /\ code[partyRooms[c]] = c

\* The server never holds more rooms than it creates at most, although rooms are
\* loaded outside the lock.
RoomsWithinLimit == Cardinality(Listed) <= MaxRooms

\* The checkpoints of a room are stored in the order they were taken.
SavesInOrder == [][\A i \in Made : landed'[i] >= landed[i]]_vars

\* What a live room has become is stored again and again, whatever goes wrong
\* with single calls.
UpToDate(i) == doc[code[i]] = SnapshotOf(i)
CheckpointsContinue == \A i \in Made : []<>(life[i] = "live" => UpToDate(i))

\* The document of a removed room goes, even if a checkpoint was on its way: it
\* could bring the room back for another fifteen minutes.
RemovedRoomForgotten ==
    \A c \in Codes : (\E i \in Made : life[i] = "removed" /\ code[i] = c) ~>
        (doc[c] = NoDoc \/ partyRooms[c] # NoRoom \/ failures > 0 \/ crashes > 0)

\* The stored documents follow the rooms: a live one is stored again and again, a
\* removed one is forgotten (persistSnapshot, Delete).
DocumentsFollow == CheckpointsContinue /\ RemovedRoomForgotten

=============================================================================
