------------------------------ MODULE MCFiles ------------------------------
(* Small instances of the two ends of an upload, for TLC: the server's files *)
(* and the pages that send them, the form of a home and the settings of an   *)
(* account.  They share no variables: each behaviour is one of one module.   *)
EXTENDS Media, HomeForm, Settings, TLC

CONSTANTS m1, m2, s1

CONSTANT Parts     \* the modules a run is about

OneFile  == {m1}
TwoFiles == {m1, m2}
OneSlot  == {s1}

VARIABLE part

fileVars == <<part, vars, homeVars, settingsVars>>

FilesInit == part \in Parts /\ Init /\ HomeFormInit /\ SettingsInit

FilesNext ==
  /\ UNCHANGED part
  /\ \/ part = "media" /\ Next /\ UNCHANGED <<homeVars, settingsVars>>
     \/ part = "homeform" /\ HomeFormNext /\ UNCHANGED <<vars, settingsVars>>
     \/ part = "settings" /\ SettingsNext /\ UNCHANGED <<vars, homeVars>>

FilesSpec == FilesInit /\ [][FilesNext]_fileVars

AllParts == {"media", "homeform", "settings"}

(* The state of every module has its type. *)
FilesTypeOK == MediaTypeOK /\ HomeFormTypeOK /\ SettingsTypeOK

(* A bound: texts, openings, files and rows in one behaviour of the form; a  *)
(* row that was submitted counts for three.                                  *)
HomesIn(statuses) == Cardinality({id \in HomeIds : homes[id].status \in statuses})

ShortLife ==
  texts + opens + chosen + HomesIn({"draft"})
    + 3 * HomesIn({"submitted", "rejected", "verified"}) <= 7

=============================================================================
