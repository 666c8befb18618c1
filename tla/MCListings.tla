----------------------------- MODULE MCListings -----------------------------
(* Small instances for TLC of Listings, and of what an administrator sees of *)
(* it and of the accounts: Desk and Roster.  They share no variables: each   *)
(* behaviour is one of one module.                                           *)
EXTENDS Listings, Desk, Roster, TLC

CONSTANTS s1, s2, r1, r2

CONSTANT Parts     \* the modules a run is about

TwoSlots == {s1, s2}
TwoReasons == {r1, r2}
AllParts == {"listings", "desk", "roster"}

(* Request slots are interchangeable; safety runs only.                      *)
Symmetry == Permutations(Slots)

(* The home has a report or a duplicate flag, not both.                      *)
OneCase == report = "none" \/ duplicate = "none"

VARIABLE part

(* Where a module has several initial states, one is enough while another    *)
(* module takes the steps.                                                   *)
DesksInit ==
  /\ part \in Parts
  /\ Init
  /\ DeskInit /\ (part # "desk" => place = "queue")
  /\ RosterInit /\ (part # "roster" => view = "dialog")

DesksNext ==
  /\ UNCHANGED part
  /\ \/ part = "listings" /\ Next /\ UNCHANGED <<deskVars, rosterVars>>
     \/ part = "desk" /\ DeskNext /\ UNCHANGED <<vars, rosterVars>>
     \/ part = "roster" /\ RosterNext /\ UNCHANGED <<vars, deskVars>>

DesksSpec == DesksInit /\ [][DesksNext]_<<part, vars, deskVars, rosterVars>>

=============================================================================
