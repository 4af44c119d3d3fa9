------------------------- MODULE MCPartyCheckpoints -------------------------
(***************************************************************************)
(* One code, looked up twice at once, with changes and failures, or two    *)
(* codes that compete for the only room, with as many room objects as it   *)
(* takes to restore one while the other is created.                        *)
(***************************************************************************)
EXTENDS PartyCheckpoints

CONSTANTS Second, Helper    \* the other code, the other lookup

ASSUME SmallAssumption == Second \in Codes /\ Helper \in Finders

\* The bounds of the two cases.  They hold back creations, changes, failures and
\* lookups, and no step that is fair.
Small ==
    IF \E i \in Made : code[i] = Second
    THEN /\ \A i \in Made : changes[i] = 0
         /\ failures = 0
         /\ finder[Helper] = Idle
    ELSE made < MaxMade

SmallSpec == Init /\ [][Next /\ Small']_vars /\ Fairness
=============================================================================
