-------------------------- MODULE MCPartyRotation --------------------------
(***************************************************************************)
(* Small rooms for PartyRotation: up to three players, three activities    *)
(* (one per way of seating a round), clocks of one or two ticks.           *)
(***************************************************************************)
EXTENDS PartyRotation, TLC

CONSTANTS p1, p2, p3, race, fight, sketch

MCCatalog ==
    [a \in Activities |->
        CASE a = race   -> [game |-> "turbotilt", min |-> 2, max |-> 8, reseats |-> "all"]
          [] a = fight  -> [game |-> "sticktilt", min |-> 2, max |-> 8, reseats |-> "connected"]
          [] a = sketch -> [game |-> "sketchclash", min |-> 2, max |-> 8, reseats |-> "none"]]

QuickConfig == [target |-> 3, method |-> "chaos", repeat |-> "session",
                catchUp |-> TRUE, enabled |-> {race, fight}]
MajorityConfig == [target |-> 2, method |-> "majority", repeat |-> "immediate",
                   catchUp |-> TRUE, enabled |-> {fight, sketch}]
HostConfig == [target |-> 2, method |-> "host", repeat |-> "session",
               catchUp |-> FALSE, enabled |-> {race, fight}]
ShortConfig == [target |-> 1, method |-> "chaos", repeat |-> "off",
                catchUp |-> FALSE, enabled |-> {race}]
OnlyRace == [target |-> 2, method |-> "chaos", repeat |-> "session",
             catchUp |-> TRUE, enabled |-> {race}]

SessionConfigs == {QuickConfig, HostConfig}
VoteConfigs == {MajorityConfig}
LiveConfigs == {ShortConfig}
OneActivity == {OnlyRace}

PlayerSymmetry == Permutations(Players)
=============================================================================
