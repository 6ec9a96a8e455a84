--------------------------- MODULE MCConfigReload ---------------------------
(* A struct with a section of two fields and two others, a path of two     *)
(* keys.                                                                   *)
EXTENDS ConfigReload

CONSTANTS p1, p2

\* Without Vault, with a token, with a login, and with a mode that does not exist.
MCEnvironments ==
  {[address |-> FALSE, credentials |-> FALSE, mode |-> ""],
   [address |-> TRUE, credentials |-> TRUE, mode |-> ""],
   [address |-> TRUE, credentials |-> TRUE, mode |-> "approle"],
   [address |-> TRUE, credentials |-> TRUE, mode |-> "unsupported"]}

MCFields == <<"level", "password", "pool", "flag">>
MCPathOf == [f \in {"level", "password", "pool", "flag"} |->
               IF f \in {"pool", "flag"} THEN {"db"} ELSE {}]

\* What a file gives that is written from front to back.
MCLayouts == {{}, {"level"}, {"level", "pool", "flag"}}
=============================================================================
