---------------------------- MODULE MCServices ----------------------------
(* Small instances of the modules about the people of the market, for TLC.   *)
(* They share no variables: each behaviour is one of one module.             *)
EXTENDS Accounts, Trust, Verification, People, TLC

CONSTANTS e1, n1, c1, c2, w1, w2, r1, s1, s2, q1, q2, m1, m2, p1, p2

CONSTANT Parts     \* the modules a run is about

OneEmail  == {e1}
OneName   == {n1}
TwoCallers == {c1, c2}
TwoWork   == {w1, w2}
OneReport == {r1}
TwoSlots  == {s1, s2}
TwoQueries == {q1, q2}
TwoMembers == {m1, m2}
TwoPortraits == {p1, p2}

VARIABLE part

serviceVars == <<part, accountVars, trustVars, vars, peopleVars>>

ServicesInit ==
  /\ part \in Parts /\ AccountsInit /\ TrustInit /\ Init /\ PeopleInit
  /\ part # "people" => site = "connect" /\ portrait = [p \in Members |-> p1]

ServicesNext ==
  /\ UNCHANGED part
  /\ \/ part = "accounts" /\ AccountsNext /\ UNCHANGED <<trustVars, vars, peopleVars>>
     \/ part = "trust" /\ TrustNext /\ UNCHANGED <<accountVars, vars, peopleVars>>
     \/ part = "verification" /\ Next /\ UNCHANGED <<accountVars, trustVars, peopleVars>>
     \/ part = "people" /\ PeopleNext /\ UNCHANGED <<accountVars, trustVars, vars>>

ServicesSpec == ServicesInit /\ [][ServicesNext]_serviceVars

(* The state of every module has its type. *)
ServicesTypeOK == AccountsTypeOK /\ TrustTypeOK /\ VerificationTypeOK /\ PeopleTypeOK

(* A bound: a behaviour is not followed further once the score is excused    *)
(* and two computations of the badge have overlapped.                        *)
NotBoth == ~excused \/ ~overlap

(* Requests under way are interchangeable; safety only. *)
Symmetry == Permutations(Callers) \cup Permutations(Work) \cup Permutations(Slots)

=============================================================================
