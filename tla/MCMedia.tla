------------------------------ MODULE MCMedia ------------------------------
(* Small instances of Media for TLC. *)
EXTENDS Media, TLC

CONSTANTS m1, m2, s1, s2

OneFile  == {m1}
TwoFiles == {m1, m2}
OneSlot  == {s1}
TwoSlots == {s1, s2}

(* Rows and slots are interchangeable; safety runs only. *)
Symmetry == Permutations(MediaIds) \cup Permutations(Slots)

=============================================================================
