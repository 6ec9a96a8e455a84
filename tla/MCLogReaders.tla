---------------------------- MODULE MCLogReaders ----------------------------
(* The service of MCEventBus with an operator who looks at its topic.      *)
EXTENDS MCEventBus, LogReaders

\* From offset 1 to 3, and new copies until a certain time.
MCReplays ==
  {[partition |-> "p1", start |-> 1, endOffset |-> 3, late |-> {}, types |-> {}],
   [partition |-> "p1", start |-> LastOffset, endOffset |-> 0, late |-> {2},
    types |-> {DLQType(registered)}]}
=============================================================================
