----------------------------- MODULE HotReload ------------------------------
(***************************************************************************)
(* What package config promises to the code that reads the live struct,    *)
(* with nothing said of events, loaders or loops: a process starts with    *)
(* some fields of one version of the file and one secret; a reload is one  *)
(* step, that takes the reloadable fields from one reading of the file and *)
(* leaves the others as they are, with those of a section that the live    *)
(* struct or the reading does not have; the rest changes only from one     *)
(* process to the next.                                                    *)
(***************************************************************************)
CONSTANTS FieldSet,   \* the fields of the struct
          Tagged,     \* the reloadable ones
          Secret,     \* the one that holds the secret
          PathOf,     \* the sections on the way to a field that may be missing
          Versions,   \* the versions of the file
          Credentials,\* what the loaders may give to Secret
          Absent

VARIABLES running,    \* the process has a live struct
          config,     \* the struct
          sections    \* its sections

Blank == [f \in FieldSet |-> Absent]

Init == ~running /\ config = Blank /\ sections = {}

\* A reading of the file: a version, and the fields that are given there.
Readings == [version : Versions, given : SUBSET (FieldSet \ {Secret})]
Value(r, f) == IF f \in r.given THEN r.version ELSE Absent
SectionsOf(r) == UNION {PathOf[f] : f \in r.given}

Boot == /\ ~running /\ running'
        /\ \E r \in Readings, s \in Credentials :
             /\ config' = [f \in FieldSet |-> IF f = Secret THEN s ELSE Value(r, f)]
             /\ sections' = SectionsOf(r)

Reload == /\ running /\ UNCHANGED <<running, sections>>
          /\ \E r \in Readings :
               config' = [f \in FieldSet |->
                            IF f \in Tagged /\ PathOf[f] \subseteq sections \cap SectionsOf(r)
                            THEN Value(r, f) ELSE config[f]]

End == running /\ ~running' /\ config' = Blank /\ sections' = {}

Next == Boot \/ Reload \/ End

vars == <<running, config, sections>>

Spec == Init /\ [][Next]_vars
=============================================================================
