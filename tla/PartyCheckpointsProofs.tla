----------------------- MODULE PartyCheckpointsProofs -----------------------
(***************************************************************************)
(* Theorems about PartyCheckpoints, for any number of codes, lookups,      *)
(* rooms, failures and crashes.                                            *)
(***************************************************************************)
EXTENDS PartyCheckpoints, FiniteSetTheorems, TLAPS

-----------------------------------------------------------------------------
(* Types *)

LEMMA IdleIsLookup == Idle \in Lookup
  BY DEF Lookup

LEMMA SnapshotType ==
    ASSUME TypeOK, NEW i \in Made PROVE SnapshotOf(i) \in Snapshot
  BY DEF TypeOK, SnapshotOf, Snapshot

LEMMA AdvanceType ==
    ASSUME TypeOK, NEW s \in saves, NEW step \in {"saving", "answered", "deleting"}
    PROVE  /\ s \in Save /\ s.snap \in Snapshot /\ s.snap.by \in Made
           /\ [s EXCEPT !.step = step] = [snap |-> s.snap, step |-> step]
           /\ [s EXCEPT !.step = step] \in Save
  BY DEF TypeOK, Save, Snapshot

LEMMA ForgetType ==
    ASSUME TypeOK, NEW c, Forget(c)
    PROVE  doc' \in [Codes -> Snapshot \cup {NoDoc}] /\ expired' \in [Codes -> BOOLEAN]
  BY DEF Forget, TypeOK

LEMMA FailsType ==
    ASSUME TypeOK, Fails \/ UNCHANGED failures PROVE failures' \in Nat
  BY DEF Fails, TypeOK

\* Only rooms that were made have calls under way, and only with a code.
LEMMA MadeType ==
    ASSUME TypeOK, made < MaxMade
    PROVE  made + 1 \in Made /\ made + 1 \in Nat /\ life[made + 1] = "unmade"
<1>1. made \in Nat /\ MaxMade \in Nat
    BY StoreAssumption DEF TypeOK
<1>2. made + 1 \in Made /\ made + 1 > made
    BY <1>1 DEF Made
<1>. QED
    BY <1>1, <1>2 DEF TypeOK

LEMMA EnlistType ==
    ASSUME TypeOK, NEW c \in Codes, Enlist(c)
    PROVE  /\ partyRooms' \in [Codes -> Made \cup {NoRoom}]
           /\ made' \in 0 .. MaxMade
           /\ life' \in [Made -> {"unmade", "live", "removing", "removed", "lost"}]
           /\ code' \in [Made -> Codes \cup {NoRoom}]
           /\ \A i \in Made : (life'[i] = "unmade") = (i > made')
           /\ \A i \in Made : i <= made' => code'[i] \in Codes
<1>1. made + 1 \in Made /\ made + 1 \in Nat /\ made \in Nat /\ MaxMade \in Nat
    BY MadeType, StoreAssumption DEF Enlist, TypeOK
<1>2. \A i \in Made : i \in Nat
    BY DEF Made
<1>3. \A i \in Made : /\ i # made + 1 => life'[i] = life[i] /\ code'[i] = code[i]
                      /\ i = made + 1 => life'[i] = "live" /\ code'[i] = c
    BY <1>1 DEF Enlist, TypeOK
<1>4. /\ partyRooms' \in [Codes -> Made \cup {NoRoom}]
      /\ life' \in [Made -> {"unmade", "live", "removing", "removed", "lost"}]
      /\ code' \in [Made -> Codes \cup {NoRoom}]
    BY <1>1 DEF Enlist, TypeOK
<1>5. made' = made + 1 /\ made' \in 0 .. MaxMade
    BY <1>1 DEF Enlist
<1>6. \A i \in Made : (life'[i] = "unmade") = (i > made')
    BY <1>1, <1>2, <1>3, <1>5 DEF TypeOK
<1>7. \A i \in Made : i <= made' => code'[i] \in Codes
    BY <1>1, <1>2, <1>3, <1>5 DEF TypeOK
<1>. QED
    BY <1>4, <1>5, <1>6, <1>7

LEMMA StepTypes == ASSUME TypeOK, [Next]_vars PROVE TypeOK'
<1>. USE IdleIsLookup
<1>1. ASSUME NEW c \in Codes, CreatePartyRoom(c) PROVE TypeOK'
  <2>1. Enlist(c) /\ made + 1 \in Made
      BY <1>1, MadeType DEF CreatePartyRoom, Enlist
  <2>2. Saving(SnapshotOf(made + 1)) \in Save
      BY <2>1, SnapshotType DEF Saving, Save
  <2>3. inFlight' \in [Made -> BOOLEAN] /\ saves' \subseteq Save
      BY <1>1, <2>2 DEF CreatePartyRoom, TypeOK
  <2>. QED
      BY <1>1, <2>1, <2>3, EnlistType DEF CreatePartyRoom, TypeOK, storeVars
<1>2. ASSUME NEW c \in Codes, DocumentExpires(c) PROVE TypeOK'
    BY <1>2 DEF DocumentExpires, TypeOK, roomVars, callVars
<1>3. ASSUME NEW i \in Made, Change(i) PROVE TypeOK'
    BY <1>3 DEF Change, TypeOK, roomVars, storeVars, callVars
<1>4. ASSUME NEW i \in Made, Checkpoint(i) PROVE TypeOK'
  <2>1. Saving(SnapshotOf(i)) \in Save
      BY SnapshotType DEF Saving, Save
  <2>. QED
      BY <1>4, <2>1 DEF Checkpoint, TypeOK, roomVars, storeVars
<1>5. ASSUME NEW i \in Made, Delist(i) PROVE TypeOK'
  <2>1. partyRooms' \in [Codes -> Made \cup {NoRoom}]
      BY <1>5 DEF Delist, TypeOK
  <2>. QED
      BY <1>5, <2>1 DEF Delist, TypeOK, storeVars, callVars
<1>6. ASSUME NEW i \in Made, MarkRemoved(i) PROVE TypeOK'
    BY <1>6 DEF MarkRemoved, TypeOK, storeVars
<1>7. ASSUME NEW i \in Made, Delete(i) PROVE TypeOK'
  <2>1. Forget(code[i]) \/ UNCHANGED <<doc, expired>>
      BY <1>7 DEF Delete
  <2>2. doc' \in [Codes -> Snapshot \cup {NoDoc}] /\ expired' \in [Codes -> BOOLEAN]
      BY <2>1, ForgetType DEF TypeOK
  <2>3. failures' \in Nat
      BY <1>7, FailsType DEF Delete
  <2>4. deletes' \subseteq Made
      BY <1>7 DEF Delete, TypeOK
  <2>. QED
      BY <1>7, <2>2, <2>3, <2>4 DEF Delete, TypeOK, roomVars
<1>8. ASSUME NEW s \in saves, SaveLands(s) PROVE TypeOK'
  <2>1. /\ s.snap \in Snapshot /\ s.snap.by \in Made /\ s.snap.changes \in Nat
        /\ [s EXCEPT !.step = "answered"] \in Save
      BY AdvanceType DEF Snapshot
  <2>2. doc' \in [Codes -> Snapshot \cup {NoDoc}] /\ expired' \in [Codes -> BOOLEAN]
      BY <1>8, <2>1 DEF SaveLands, TypeOK
  <2>3. landed' \in [Made -> Nat] /\ saves' \subseteq Save
      BY <1>8, <2>1 DEF SaveLands, Advance, TypeOK
  <2>. QED
      BY <1>8, <2>2, <2>3 DEF SaveLands, TypeOK, roomVars
<1>9. ASSUME NEW s \in saves, SaveEnds(s) PROVE TypeOK'
  <2>1. s.snap.by \in Made /\ [s EXCEPT !.step = "deleting"] \in Save
      BY AdvanceType
  <2>. QED
      BY <1>9, <2>1 DEF SaveEnds, Advance, TypeOK, roomVars, storeVars
<1>10. ASSUME NEW s \in saves, SaveDeletes(s) PROVE TypeOK'
  <2>1. Forget(code[s.snap.by]) \/ UNCHANGED <<doc, expired>>
      BY <1>10 DEF SaveDeletes
  <2>2. doc' \in [Codes -> Snapshot \cup {NoDoc}] /\ expired' \in [Codes -> BOOLEAN]
      BY <2>1, ForgetType DEF TypeOK
  <2>3. failures' \in Nat
      BY <1>10, FailsType DEF SaveDeletes
  <2>4. saves' \subseteq Save
      BY <1>10 DEF SaveDeletes, TypeOK
  <2>. QED
      BY <1>10, <2>2, <2>3, <2>4 DEF SaveDeletes, TypeOK, roomVars
<1>11. ASSUME NEW s \in saves, SaveFails(s) PROVE TypeOK'
  <2>1. [s EXCEPT !.step = "answered"] \in Save
      BY AdvanceType
  <2>. QED
      BY <1>11, <2>1 DEF SaveFails, Fails, Advance, TypeOK, roomVars, storeVars
<1>12. ASSUME NEW f \in Finders, NEW c \in Codes, Miss(f, c) PROVE TypeOK'
  <2>1. [step |-> "loading", code |-> c] \in Lookup
      BY DEF Lookup
  <2>. QED
      BY <1>12, <2>1 DEF Miss, TypeOK, roomVars, storeVars, callVars
<1>13. ASSUME NEW f \in Finders, Load(f) PROVE TypeOK'
  <2>1. finder[f].code \in Codes
      BY <1>13 DEF Load, TypeOK, Lookup, Idle
  <2>2. [step |-> "forgetting", code |-> finder[f].code] \in Lookup
      BY <2>1 DEF Lookup
  <2>3. doc[finder[f].code] # NoDoc =>
           [step |-> "restoring", code |-> finder[f].code, snap |-> doc[finder[f].code]] \in Lookup
      BY <2>1 DEF Lookup, TypeOK
  <2>4. finder' \in [Finders -> Lookup] /\ failures' \in Nat
      BY <1>13, <2>2, <2>3 DEF Load, Fails, TypeOK
  <2>. QED
      BY <1>13, <2>4 DEF Load, TypeOK, roomVars, storeVars, callVars
<1>14. ASSUME NEW f \in Finders, DeleteExpired(f) PROVE TypeOK'
  <2>1. Forget(finder[f].code) \/ UNCHANGED <<doc, expired>>
      BY <1>14 DEF DeleteExpired
  <2>2. doc' \in [Codes -> Snapshot \cup {NoDoc}] /\ expired' \in [Codes -> BOOLEAN]
      BY <2>1, ForgetType DEF TypeOK
  <2>3. failures' \in Nat
      BY <1>14, FailsType DEF DeleteExpired
  <2>4. finder' \in [Finders -> Lookup]
      BY <1>14 DEF DeleteExpired, TypeOK
  <2>. QED
      BY <1>14, <2>2, <2>3, <2>4 DEF DeleteExpired, TypeOK, roomVars, callVars
<1>15. ASSUME NEW f \in Finders, GiveUp(f) PROVE TypeOK'
    BY <1>15 DEF GiveUp, TypeOK, roomVars, storeVars, callVars
<1>16. ASSUME NEW f \in Finders, Restore(f) PROVE TypeOK'
  <2>1. finder[f].code \in Codes /\ finder[f].snap \in Snapshot
      BY <1>16 DEF Restore, Restored, TypeOK, Lookup, Idle
  <2>2. Enlist(finder[f].code) /\ made + 1 \in Made
      BY <1>16, MadeType DEF Restore, Restored, Enlist
  <2>3. changes' \in [Made -> Nat] /\ finder' \in [Finders -> Lookup]
      BY <1>16, <2>1 DEF Restore, Restored, TypeOK, Snapshot
  <2>. QED
      BY <1>16, <2>1, <2>2, <2>3, EnlistType DEF Restore, Restored, TypeOK, storeVars, callVars
<1>17. ASSUME Crash PROVE TypeOK'
    BY <1>17 DEF Crash, TypeOK, storeVars
<1>18. CASE UNCHANGED vars
    BY <1>18 DEF TypeOK, vars, roomVars, storeVars, callVars
<1>. QED
    BY <1>1, <1>2, <1>3, <1>4, <1>5, <1>6, <1>7, <1>8, <1>9, <1>10, <1>11, <1>12, <1>13, <1>14, <1>15,
       <1>16, <1>17, <1>18 DEF Next, Persist, Find

\* Whatever the store, the lookups and the crashes do, the hub's list, the rooms
\* and the calls under way keep their shape, and a room that was made has a code.
THEOREM CheckpointTypes == Spec => []TypeOK
<1>1. Init => TypeOK
    BY StoreAssumption, IdleIsLookup DEF Init, TypeOK, Made
<1>. QED
    BY <1>1, StepTypes, PTL DEF Spec

-----------------------------------------------------------------------------
(* One room per code, and not too many *)

\* A room that leaves the list is not live any more.
LEMMA EnlistOwner ==
    ASSUME TypeOK, OneOwner, NEW c \in Codes, partyRooms[c] = NoRoom, Enlist(c)
    PROVE  OneOwner' /\ Listed' = Listed \cup {c}
<1>1. /\ made + 1 \in Made /\ made + 1 \in Nat /\ life[made + 1] = "unmade"
    BY MadeType DEF Enlist
<1>2. made + 1 # NoRoom
    BY <1>1, StoreAssumption
<1>3. \A i \in Made : /\ i # made + 1 => life'[i] = life[i] /\ code'[i] = code[i]
                      /\ i = made + 1 => life'[i] = "live" /\ code'[i] = c
    BY <1>1 DEF Enlist, TypeOK
<1>4. \A d \in Codes : partyRooms'[d] = IF d = c THEN made + 1 ELSE partyRooms[d]
    BY DEF Enlist, TypeOK
<1>5. \A i \in Made : i # made + 1 /\ life[i] = "live" => code[i] \in Codes /\ code[i] # c
  <2>. SUFFICES ASSUME NEW i \in Made, life[i] = "live" PROVE code[i] \in Codes /\ code[i] # c
      OBVIOUS
  <2>1. partyRooms[code[i]] = i /\ i # NoRoom
      BY StoreAssumption DEF OneOwner, Made
  <2>2. i <= made /\ code[i] \in Codes
      BY DEF TypeOK, Made
  <2>. QED
      BY <2>1, <2>2
<1>6. Listed' = Listed \cup {c}
    BY <1>2, <1>4 DEF Listed
<1>7. \A i \in Made : life'[i] = "live" => partyRooms'[code'[i]] = i
    BY <1>1, <1>3, <1>4, <1>5 DEF OneOwner
<1>8. \A d \in Listed' : life'[partyRooms'[d]] = "live" /\ code'[partyRooms'[d]] = d
  <2>. SUFFICES ASSUME NEW d \in Listed', d # c
                PROVE  life'[partyRooms'[d]] = "live" /\ code'[partyRooms'[d]] = d
      BY <1>1, <1>3, <1>4 DEF Listed
  <2>1. d \in Listed /\ d \in Codes /\ partyRooms'[d] = partyRooms[d] /\ partyRooms[d] \in Made
      BY <1>4, <1>6 DEF Listed, TypeOK
  <2>2. life[partyRooms[d]] = "live" /\ code[partyRooms[d]] = d
      BY <2>1 DEF OneOwner
  <2>. QED
      BY <1>1, <1>3, <2>1, <2>2
<1>. QED
    BY <1>6, <1>7, <1>8 DEF OneOwner

LEMMA ListUnchanged ==
    ASSUME OneOwner, UNCHANGED partyRooms, UNCHANGED code,
           \A i \in Made : (life'[i] = "live") = (life[i] = "live"),
           TypeOK
    PROVE  OneOwner' /\ Listed' = Listed
  BY DEF OneOwner, Listed, TypeOK

LEMMA StepKeepsOwner ==
    ASSUME TypeOK, OneOwner, [Next]_vars
    PROVE  /\ OneOwner'
           /\ \/ Listed' \subseteq Listed
              \/ \E c \in Codes : Listed' = Listed \cup {c} /\ Cardinality(Listed) < MaxRooms
<1>1. CASE \E c \in Codes : CreatePartyRoom(c)
    BY <1>1, EnlistOwner DEF CreatePartyRoom
<1>2. CASE \E f \in Finders : Restore(f)
  <2>. PICK f \in Finders : Restore(f)
      BY <1>2
  <2>1. finder[f].code \in Codes
      BY DEF Restore, Restored, TypeOK, Lookup, Idle
  <2>. QED
      BY <2>1, EnlistOwner DEF Restore, Restored
<1>3. CASE \E i \in Made : Delist(i)
  <2>. PICK i \in Made : Delist(i)
      BY <1>3
  <2>0. life[i] = "live"
      BY DEF Delist
  <2>1. partyRooms[code[i]] = i /\ i # NoRoom /\ life[i] = "live" /\ code[i] \in Codes
    <3>1. partyRooms[code[i]] = i
        BY <2>0 DEF OneOwner
    <3>2. i \in Nat /\ made \in Nat /\ i # NoRoom
        BY StoreAssumption DEF TypeOK, Made
    <3>3. ~(i > made)
        BY <2>0 DEF TypeOK
    <3>4. i <= made
        BY <3>2, <3>3
    <3>. QED
        BY <2>0, <3>1, <3>2, <3>4 DEF TypeOK
  <2>2. \A d \in Codes : partyRooms'[d] = IF d = code[i] THEN NoRoom ELSE partyRooms[d]
      BY <2>1 DEF Delist, TypeOK
  <2>3. \A j \in Made : life'[j] = IF j = i THEN "removing" ELSE life[j]
      BY DEF Delist, TypeOK
  <2>4. \A j \in Made : j # i /\ life[j] = "live" => code[j] \in Codes /\ code[j] # code[i]
      BY <2>1 DEF OneOwner, TypeOK, Made
  <2>5. code' = code
      BY DEF Delist
  <2>6. Listed' \subseteq Listed \ {code[i]}
      BY <2>1, <2>2 DEF Listed
  <2>7. \A d \in Listed' : d # code[i] /\ d \in Listed /\ partyRooms[d] \in Made /\ partyRooms[d] # i
      BY <2>1, <2>6 DEF Listed, TypeOK, OneOwner
  <2>8. \A d \in Listed' : life'[partyRooms'[d]] = "live" /\ code'[partyRooms'[d]] = d
      BY <2>2, <2>3, <2>5, <2>7 DEF OneOwner, Listed
  <2>9. \A j \in Made : life'[j] = "live" => partyRooms'[code'[j]] = j
      BY <2>2, <2>3, <2>4, <2>5 DEF OneOwner
  <2>. QED
      BY <2>6, <2>8, <2>9 DEF OneOwner
<1>4. CASE Crash
  <2>1. Listed' = {}
      BY <1>4 DEF Crash, Listed
  <2>2. \A i \in Made : life'[i] # "live"
      BY <1>4 DEF Crash
  <2>. QED
      BY <2>1, <2>2 DEF OneOwner
<1>5. CASE \E i \in Made : MarkRemoved(i)
  <2>. PICK i \in Made : MarkRemoved(i)
      BY <1>5
  <2>1. \A j \in Made : (life'[j] = "live") = (life[j] = "live")
      BY DEF MarkRemoved, TypeOK
  <2>. QED
      BY <2>1, ListUnchanged DEF MarkRemoved
<1>6. CASE UNCHANGED roomVars
    BY <1>6, ListUnchanged DEF roomVars
<1>7. [Next]_vars => \/ \E c \in Codes : CreatePartyRoom(c)
                     \/ \E f \in Finders : Restore(f)
                     \/ \E i \in Made : Delist(i) \/ MarkRemoved(i)
                     \/ Crash
                     \/ UNCHANGED roomVars
    BY DEF Next, Persist, Find, DocumentExpires, Change, Checkpoint, Delete, SaveLands, SaveEnds,
           SaveDeletes, SaveFails, Miss, Load, DeleteExpired, GiveUp, vars
<1>. QED
    BY <1>1, <1>2, <1>3, <1>4, <1>5, <1>6, <1>7

\* However many lookups load a document outside the hub's lock, whatever is created,
\* removed or lost meanwhile, a running room is the one listed under its code.
THEOREM OneRoomPerCode == Spec => []OneOwner
<1>1. Init => OneOwner
    BY DEF Init, OneOwner, Listed
<1>. QED
    BY <1>1, StepKeepsOwner, CheckpointTypes, PTL DEF Spec

LEMMA ListedFinite == IsFiniteSet(Listed) /\ Cardinality(Listed) \in Nat
<1>1. Listed \in SUBSET Codes
    BY DEF Listed
<1>. QED
    BY <1>1, StoreAssumption, FS_Subset, FS_CardinalityType

\* Rooms that are loaded count like rooms that are created, when they are listed.
THEOREM NeverTooManyRooms == Spec => []RoomsWithinLimit
<1>1. Init => RoomsWithinLimit
  <2>1. Init => Listed = {}
      BY DEF Init, Listed
  <2>. QED
      BY <2>1, StoreAssumption, FS_EmptySet DEF RoomsWithinLimit
<1>2. TypeOK /\ OneOwner /\ RoomsWithinLimit /\ [Next]_vars => RoomsWithinLimit'
  <2>. SUFFICES ASSUME TypeOK, OneOwner, RoomsWithinLimit, [Next]_vars
                PROVE  Cardinality(Listed') <= MaxRooms
      BY DEF RoomsWithinLimit
  <2>. MaxRooms \in Nat
      BY StoreAssumption
  <2>1. CASE Listed' \subseteq Listed
    <3>1. Cardinality(Listed') <= Cardinality(Listed) /\ IsFiniteSet(Listed')
        BY <2>1, ListedFinite, FS_Subset
    <3>2. Cardinality(Listed') \in Nat
        BY <3>1, FS_CardinalityType
    <3>. QED
        BY <3>1, <3>2, ListedFinite DEF RoomsWithinLimit
  <2>2. ASSUME NEW c \in Codes, Listed' = Listed \cup {c}, Cardinality(Listed) < MaxRooms
        PROVE  Cardinality(Listed') <= MaxRooms
    <3>1. Cardinality(Listed \cup {c}) <= Cardinality(Listed) + 1 /\ Cardinality(Listed \cup {c}) \in Nat
        BY ListedFinite, FS_AddElement
    <3>. QED
        BY <2>2, <3>1, ListedFinite
  <2>. QED
      BY <2>1, <2>2, StepKeepsOwner
<1>. QED
    BY <1>1, <1>2, CheckpointTypes, OneRoomPerCode, PTL DEF Spec

-----------------------------------------------------------------------------
(* Checkpoints in order *)

\* A room's checkpoint that has not been answered by the store ...
UnderWay(s) == s.step \in {"saving", "answered"}

\* ... is its only one, raises the flag, and holds no less than what was stored
\* before and no more than what has happened.
SaveInv ==
    /\ \A s \in saves : s.snap.by <= made /\ (UnderWay(s) => inFlight[s.snap.by])
    /\ \A s, t \in saves : UnderWay(s) /\ UnderWay(t) /\ s.snap.by = t.snap.by => s = t
    /\ \A s \in saves : s.snap.changes <= changes[s.snap.by]
    /\ \A s \in saves : s.step = "saving" => landed[s.snap.by] <= s.snap.changes
    /\ \A i \in Made : landed[i] <= changes[i] /\ (i > made => landed[i] = 0)

LEMMA SaveFacts ==
    ASSUME TypeOK, NEW s \in saves
    PROVE  /\ s \in Save /\ s.snap.by \in Made /\ s.snap.by \in Nat /\ s.snap.changes \in Nat
           /\ s = [snap |-> s.snap, step |-> s.step]
  BY DEF TypeOK, Save, Snapshot, Made

\* A room takes a checkpoint while none of its own is under way.
LEMMA SaveInvTake ==
    ASSUME TypeOK, SaveInv, NEW i \in Made, i <= made', made' \in Nat, made <= made',
           \A s \in saves : s.snap.by = i => ~UnderWay(s),
           changes'[i] = changes[i], UNCHANGED <<changes, landed>>,
           inFlight' = [inFlight EXCEPT ![i] = TRUE],
           saves' = saves \cup {Saving(SnapshotOf(i))}
    PROVE  SaveInv'
<1>. DEFINE new == Saving(SnapshotOf(i))
<1>1. /\ new.snap.by = i /\ new.snap.changes = changes[i] /\ new.step = "saving" /\ UnderWay(new)
    BY DEF Saving, SnapshotOf, UnderWay
<1>2. made \in Nat /\ i \in Nat /\ \A j \in Made : j \in Nat /\ landed[j] \in Nat /\ changes[j] \in Nat
    BY StoreAssumption DEF TypeOK, Made
<1>3. \A s \in saves : /\ s.snap.by \in Made /\ s.snap.by \in Nat /\ s.snap.by <= made'
                       /\ (UnderWay(s) => inFlight'[s.snap.by])
  <2>. SUFFICES ASSUME NEW s \in saves
                PROVE  /\ s.snap.by \in Made /\ s.snap.by \in Nat /\ s.snap.by <= made'
                       /\ (UnderWay(s) => inFlight'[s.snap.by])
      OBVIOUS
  <2>1. s.snap.by \in Made /\ s.snap.by \in Nat
      BY SaveFacts
  <2>. QED
      BY <1>2, <2>1 DEF SaveInv, TypeOK
<1>4. inFlight'[i] = TRUE
    BY DEF TypeOK
<1>. HIDE DEF new
<1>5. \A s \in saves' : s.snap.by <= made' /\ (UnderWay(s) => inFlight'[s.snap.by])
    BY <1>1, <1>3, <1>4 DEF new
<1>6. \A s, t \in saves' : UnderWay(s) /\ UnderWay(t) /\ s.snap.by = t.snap.by => s = t
    BY <1>1 DEF SaveInv, new
<1>7. \A s \in saves' : /\ s.snap.changes <= changes'[s.snap.by]
                        /\ (s.step = "saving" => landed'[s.snap.by] <= s.snap.changes)
    BY <1>1, <1>2 DEF SaveInv, new
<1>8. \A j \in Made : landed'[j] <= changes'[j] /\ (j > made' => landed'[j] = 0)
    BY <1>2 DEF SaveInv
<1>. QED
    BY <1>5, <1>6, <1>7, <1>8 DEF SaveInv, UnderWay

\* A checkpoint goes on to its next step, or is over.
LEMMA SaveInvAdvance ==
    ASSUME TypeOK, SaveInv, NEW s \in saves, NEW step \in {"answered", "deleting"},
           saves' = saves \ {s} \/ Advance(s, step),
           s.step = "saving" \/ step = "deleting",
           UNCHANGED <<made, changes>>,
           \/ UNCHANGED landed
           \/ s.step = "saving" /\ landed' = [landed EXCEPT ![s.snap.by] = s.snap.changes],
           \/ UNCHANGED inFlight
           \/ s.step = "answered" /\ (step = "deleting") /\ inFlight' = [inFlight EXCEPT ![s.snap.by] = FALSE]
    PROVE  SaveInv'
<1>. DEFINE moved == [s EXCEPT !.step = step]
<1>1. /\ moved.snap = s.snap /\ moved.step = step
      /\ (UnderWay(moved) => UnderWay(s)) /\ moved.step # "saving"
    BY SaveFacts DEF UnderWay, Save
<1>2. saves' \subseteq (saves \ {s}) \cup {moved}
    BY DEF Advance
<1>3. \A t \in saves : t.snap.by \in Made /\ t.snap.changes \in Nat
    BY SaveFacts
<1>4. \A i \in Made : i \in Nat /\ landed[i] \in Nat /\ changes[i] \in Nat
    BY DEF TypeOK, Made
<1>. HIDE DEF moved
<1>5. \A t \in saves' : t.snap.by <= made' /\ (UnderWay(t) => inFlight'[t.snap.by])
  <2>. SUFFICES ASSUME NEW t \in saves' PROVE t.snap.by <= made' /\ (UnderWay(t) => inFlight'[t.snap.by])
      OBVIOUS
  <2>1. CASE t = moved
    <3>1. UnderWay(t) => UnderWay(s) /\ s.step = "saving"
        BY <2>1, <1>1 DEF UnderWay
    <3>. QED
        BY <2>1, <3>1, <1>1, <1>3 DEF SaveInv, TypeOK
  <2>2. CASE t \in saves /\ t # s
    <3>1. UnderWay(t) /\ UnderWay(s) => t.snap.by # s.snap.by
        BY <2>2 DEF SaveInv
    <3>2. t.snap.by <= made /\ (UnderWay(t) => inFlight[t.snap.by])
        BY <2>2 DEF SaveInv
    <3>3. CASE UNCHANGED inFlight
        BY <3>2, <3>3
    <3>4. CASE s.step = "answered" /\ inFlight' = [inFlight EXCEPT ![s.snap.by] = FALSE]
      <4>1. UnderWay(s)
          BY <3>4 DEF UnderWay
      <4>. QED
          BY <2>2, <3>1, <3>2, <3>4, <4>1, <1>3 DEF TypeOK
    <3>. QED
        BY <3>3, <3>4
  <2>. QED
      BY <2>1, <2>2, <1>2
<1>6. \A t, u \in saves' : UnderWay(t) /\ UnderWay(u) /\ t.snap.by = u.snap.by => t = u
  <2>. SUFFICES ASSUME NEW t \in saves', NEW u \in saves', UnderWay(t), UnderWay(u), t.snap.by = u.snap.by
                PROVE  t = u
      OBVIOUS
  <2>1. CASE t = moved /\ u \in saves \ {s}
      BY <2>1, <1>1 DEF SaveInv
  <2>2. CASE u = moved /\ t \in saves \ {s}
      BY <2>2, <1>1 DEF SaveInv
  <2>3. CASE t \in saves /\ u \in saves
      BY <2>3 DEF SaveInv
  <2>. QED
      BY <1>2, <2>1, <2>2, <2>3
<1>7. \A t \in saves' : t.snap.changes <= changes'[t.snap.by]
    BY <1>1, <1>2 DEF SaveInv
<1>8. \A t \in saves' : t.step = "saving" => landed'[t.snap.by] <= t.snap.changes
  <2>. SUFFICES ASSUME NEW t \in saves', t.step = "saving" PROVE landed'[t.snap.by] <= t.snap.changes
      OBVIOUS
  <2>1. t \in saves /\ t # s /\ UnderWay(t)
      BY <1>1, <1>2 DEF UnderWay
  <2>2. s.step = "saving" => t.snap.by # s.snap.by
      BY <2>1 DEF SaveInv, UnderWay
  <2>3. landed'[t.snap.by] = landed[t.snap.by]
      BY <2>1, <2>2, <1>3 DEF TypeOK
  <2>. QED
      BY <2>1, <2>3 DEF SaveInv
<1>9. \A i \in Made : landed'[i] <= changes'[i] /\ (i > made' => landed'[i] = 0)
  <2>1. s.snap.by <= made /\ s.snap.changes <= changes[s.snap.by]
      BY DEF SaveInv
  <2>2. \A i \in Made : landed'[i] = landed[i] \/ (i = s.snap.by /\ landed'[i] = s.snap.changes)
      BY <1>3 DEF TypeOK
  <2>3. made \in Nat
      BY DEF TypeOK
  <2>. QED
      BY <1>3, <1>4, <2>1, <2>2, <2>3 DEF SaveInv
<1>. QED
    BY <1>5, <1>6, <1>7, <1>8, <1>9 DEF SaveInv, UnderWay

LEMMA StepKeepsSaveInv ==
    ASSUME TypeOK, TypeOK', SaveInv, [Next]_vars
    PROVE  SaveInv'
<1>0. /\ made \in Nat /\ made' \in Nat
      /\ \A i \in Made : i \in Nat /\ landed[i] \in Nat /\ changes[i] \in Nat /\ changes'[i] \in Nat
      /\ \A s \in saves : s \in Save /\ s.snap.by \in Made /\ s.snap.by \in Nat /\ s.snap.changes \in Nat
  <2>1. made \in Nat /\ made' \in Nat
      BY DEF TypeOK
  <2>2. \A i \in Made : i \in Nat /\ landed[i] \in Nat /\ changes[i] \in Nat
      BY DEF TypeOK, Made
  <2>3. \A i \in Made : changes'[i] \in Nat
      BY DEF TypeOK
  <2>4. \A s \in saves : s \in Save /\ s.snap.by \in Made /\ s.snap.by \in Nat /\ s.snap.changes \in Nat
      BY SaveFacts
  <2>. QED
      BY <2>1, <2>2, <2>3, <2>4
<1>1. ASSUME NEW c \in Codes, CreatePartyRoom(c) PROVE SaveInv'
  <2>1. made' = made + 1 /\ made + 1 \in Made
      BY <1>1, MadeType DEF CreatePartyRoom, Enlist
  <2>2. \A s \in saves : s.snap.by # made + 1
      BY <1>0 DEF SaveInv
  <2>3. made + 1 <= made' /\ made <= made' /\ changes'[made + 1] = changes[made + 1]
      BY <1>0, <1>1, <2>1 DEF CreatePartyRoom
  <2>4. /\ UNCHANGED <<changes, landed>>
        /\ inFlight' = [inFlight EXCEPT ![made + 1] = TRUE]
        /\ saves' = saves \cup {Saving(SnapshotOf(made + 1))}
      BY <1>1 DEF CreatePartyRoom, storeVars
  <2>. QED
      BY <1>0, <2>1, <2>2, <2>3, <2>4, SaveInvTake
<1>2. ASSUME NEW i \in Made, Checkpoint(i) PROVE SaveInv'
  <2>1. ~(i > made) /\ UNCHANGED made
      BY <1>2 DEF Checkpoint, TypeOK, roomVars
  <2>2. \A s \in saves : s.snap.by = i => ~UnderWay(s)
      BY <1>2 DEF Checkpoint, SaveInv
  <2>3. i <= made' /\ made <= made' /\ changes'[i] = changes[i]
      BY <1>0, <1>2, <2>1 DEF Checkpoint
  <2>4. /\ UNCHANGED <<changes, landed>>
        /\ inFlight' = [inFlight EXCEPT ![i] = TRUE]
        /\ saves' = saves \cup {Saving(SnapshotOf(i))}
      BY <1>2 DEF Checkpoint, storeVars
  <2>. QED
      BY <1>0, <2>2, <2>3, <2>4, SaveInvTake
<1>3. ASSUME NEW s \in saves, SaveLands(s) PROVE SaveInv'
    BY <1>3, SaveInvAdvance DEF SaveLands, roomVars
<1>4. ASSUME NEW s \in saves, SaveFails(s) PROVE SaveInv'
    BY <1>4, SaveInvAdvance DEF SaveFails, roomVars, storeVars
<1>5. ASSUME NEW s \in saves, SaveEnds(s) PROVE SaveInv'
    BY <1>5, SaveInvAdvance DEF SaveEnds, roomVars, storeVars
<1>6. ASSUME NEW s \in saves, SaveDeletes(s) PROVE SaveInv'
    BY <1>6, SaveInvAdvance DEF SaveDeletes, roomVars
<1>7. ASSUME NEW i \in Made, Change(i) PROVE SaveInv'
  <2>1. \A j \in Made : changes[j] <= changes'[j]
      BY <1>0, <1>7 DEF Change, TypeOK
  <2>2. \A s \in saves : s.snap.changes <= changes'[s.snap.by]
      BY <1>0, <2>1 DEF SaveInv
  <2>3. \A j \in Made : landed[j] <= changes'[j]
      BY <1>0, <2>1 DEF SaveInv
  <2>. QED
      BY <1>7, <2>2, <2>3 DEF Change, SaveInv, UnderWay, roomVars, storeVars, callVars
<1>8. ASSUME NEW f \in Finders, Restore(f) PROVE SaveInv'
  <2>1. made' = made + 1 /\ made + 1 \in Made
      BY <1>8, MadeType DEF Restore, Restored, Enlist
  <2>2. \A s \in saves : s.snap.by # made + 1 /\ s.snap.by <= made'
      BY <1>0, <2>1 DEF SaveInv
  <2>3. \A j \in Made : j # made + 1 => changes'[j] = changes[j]
      BY <1>8 DEF Restore, Restored, TypeOK
  <2>4. landed[made + 1] = 0 /\ \A j \in Made : j > made' => j > made
      BY <1>0, <2>1 DEF SaveInv
  <2>5. \A j \in Made : landed[j] <= changes'[j] /\ (j > made' => landed[j] = 0)
      BY <1>0, <2>3, <2>4 DEF SaveInv
  <2>6. UNCHANGED <<saves, inFlight, landed>>
      BY <1>8 DEF Restore, Restored, storeVars, callVars
  <2>. QED
      BY <1>0, <2>2, <2>3, <2>5, <2>6 DEF SaveInv, UnderWay
<1>9. CASE Crash
    BY <1>9 DEF Crash, SaveInv, storeVars
<1>10. CASE UNCHANGED <<made, saves, inFlight, changes, landed>>
    BY <1>10 DEF SaveInv, UnderWay
<1>11. [Next]_vars => \/ \E c \in Codes : CreatePartyRoom(c)
                      \/ \E i \in Made : Checkpoint(i) \/ Change(i)
                      \/ \E s \in saves : SaveLands(s) \/ SaveFails(s) \/ SaveEnds(s) \/ SaveDeletes(s)
                      \/ \E f \in Finders : Restore(f)
                      \/ Crash
                      \/ UNCHANGED <<made, saves, inFlight, changes, landed>>
    BY DEF Next, Persist, Find, DocumentExpires, Delist, MarkRemoved, Delete, Miss, Load, DeleteExpired,
           GiveUp, vars, roomVars, storeVars, callVars
<1>. QED
    BY <1>1, <1>2, <1>3, <1>4, <1>5, <1>6, <1>7, <1>8, <1>9, <1>10, <1>11

\* The flag lets one checkpoint of a room be on its way, so what is stored of a room
\* never goes back, whichever goroutines write it.
THEOREM CheckpointsInOrder == Spec => SavesInOrder
<1>1. Init => SaveInv
    BY StoreAssumption DEF Init, SaveInv, Made
<1>2. Spec => []SaveInv
    BY <1>1, StepKeepsSaveInv, CheckpointTypes, PTL DEF Spec
<1>3. TypeOK /\ SaveInv /\ [Next]_vars => [\A i \in Made : landed'[i] >= landed[i]]_vars
  <2>. SUFFICES ASSUME TypeOK, SaveInv, [Next]_vars, NEW i \in Made PROVE landed'[i] >= landed[i]
      OBVIOUS
  <2>0. landed[i] \in Nat
      BY DEF TypeOK
  <2>1. ASSUME NEW s \in saves, SaveLands(s) PROVE landed'[i] >= landed[i]
    <3>1. s.snap.by \in Made /\ s.snap.changes \in Nat /\ landed[s.snap.by] <= s.snap.changes
        BY <2>1, SaveFacts DEF SaveInv, SaveLands
    <3>2. landed' = [landed EXCEPT ![s.snap.by] = s.snap.changes]
        BY <2>1 DEF SaveLands
    <3>. QED
        BY <2>0, <3>1, <3>2 DEF TypeOK
  <2>2. CASE UNCHANGED landed
      BY <2>0, <2>2
  <2>3. UNCHANGED landed \/ \E s \in saves : SaveLands(s)
      BY DEF Next, Persist, Find, CreatePartyRoom, Checkpoint, Change, SaveFails, SaveEnds, SaveDeletes,
             Restore, Restored, Crash, DocumentExpires, Delist, MarkRemoved, Delete, Miss, Load,
             DeleteExpired, GiveUp, vars, storeVars
  <2>. QED
      BY <2>1, <2>2, <2>3
<1>. QED
    BY <1>2, <1>3, CheckpointTypes, PTL DEF Spec, SavesInOrder

=============================================================================
