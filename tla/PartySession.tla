---------------------------- MODULE PartySession ----------------------------
(***************************************************************************)
(* What a party promises its players, without hosts, pauses, votes, clocks *)
(* or restarts: a session goes from the lobby through a bounded number of  *)
(* activities to its end, and the standings change only when an activity   *)
(* that was really played is scored, once.  PartyRotation implements it.   *)
(***************************************************************************)
EXTENDS Naturals

CONSTANTS Players, MaxAward

VARIABLES stage,      \* lobby, choosing, playing, scored, ended, gone
          played,     \* activities begun in this session
          target,     \* activities the session lasts
          standing    \* [Players -> points]

sessionVars == <<stage, played, target, standing>>

Stages == {"lobby", "choosing", "playing", "scored", "ended", "gone"}

SessionType ==
    /\ stage \in Stages
    /\ played \in Nat /\ target \in Nat \ {0}
    /\ standing \in [Players -> Nat]

SessionInit ==
    /\ stage = "lobby"
    /\ played = 0
    /\ target \in Nat \ {0}
    /\ standing = [p \in Players |-> 0]

\* The length of the session is settled in the lobby.
Settle ==
    /\ stage = "lobby"
    /\ target' \in Nat \ {0}
    /\ UNCHANGED <<stage, played, standing>>

Open ==
    /\ stage = "lobby" /\ stage' = "choosing"
    /\ UNCHANGED <<played, target, standing>>

Play ==
    /\ stage = "choosing" /\ stage' = "playing"
    /\ played < target
    /\ played' = played + 1
    /\ UNCHANGED <<target, standing>>

\* Everybody's points grow, each player's by at most MaxAward.
Score ==
    /\ stage = "playing" /\ stage' = "scored"
    /\ standing' \in [Players -> Nat]
    /\ \A p \in Players : /\ standing[p] <= standing'[p]
                          /\ standing'[p] <= standing[p] + MaxAward
    /\ UNCHANGED <<played, target>>

\* More activities follow until the target is reached.
Continue ==
    /\ stage = "scored" /\ stage' = "choosing"
    /\ played < target
    /\ UNCHANGED <<played, target, standing>>

Finish ==
    /\ stage \notin {"ended", "gone"} /\ stage' = "ended"
    /\ UNCHANGED <<played, target, standing>>

Again ==
    /\ stage = "ended" /\ stage' = "lobby"
    /\ played' = 0
    /\ standing' = [p \in Players |-> 0]
    /\ UNCHANGED target

\* A player who is sent away loses the points, nobody else does.
Forget ==
    /\ stage # "gone"
    /\ \E p \in Players : standing' = [standing EXCEPT ![p] = 0]
    /\ UNCHANGED <<stage, played, target>>

\* Only a room that is not in the middle of a party disappears.
Close ==
    /\ stage \in {"lobby", "ended"} /\ stage' = "gone"
    /\ UNCHANGED <<played, target, standing>>

SessionNext == \/ Settle \/ Open \/ Play \/ Score \/ Continue
               \/ Finish \/ Again \/ Forget \/ Close

SessionSpec == SessionInit /\ [][SessionNext]_sessionVars

-----------------------------------------------------------------------------
(* What follows from the promise *)

\* Activities that can have been scored so far.
Scorable == IF stage = "playing" THEN played - 1 ELSE played

\* A session keeps to its length, starts from nothing, and nobody holds more
\* than MaxAward for each activity scored.
SessionInv ==
    /\ SessionType
    /\ stage = "lobby" => played = 0
    /\ stage = "playing" => played > 0
    /\ played <= target
    /\ stage = "choosing" => played < target
    /\ \A p \in Players : standing[p] <= MaxAward * Scorable

=============================================================================
