------------------------- MODULE MCPartyMembership -------------------------
(***************************************************************************)
(* Two or three connections, one or two rooms, one or two records of each  *)
(* kind for PartyMembership.                                               *)
(***************************************************************************)
EXTENDS PartyMembership, TLC

CONSTANT c1

OneJoin == [c \in Conns |-> 1]
TwoJoins == [c \in Conns |-> 2]
ThreeJoins == [c \in Conns |-> 3]
\* c1 only opens the first room.
OneLeavesTwoSwitch == [c \in Conns |-> IF c = c1 THEN 1 ELSE 2]

ConnSymmetry == Permutations(Conns)
RoomSymmetry == Permutations(Rooms)
PlaceSymmetry == ConnSymmetry \cup RoomSymmetry
=============================================================================
