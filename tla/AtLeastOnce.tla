---------------------------- MODULE AtLeastOnce ----------------------------
(***************************************************************************)
(* What a consumer group of package kafka promises the services that use   *)
(* it, with nothing said of how: every record of a partition is settled    *)
(* (given to its handler with success, dead-lettered, or deliberately      *)
(* passed over) before the group's committed offset moves past it, and the *)
(* records of one partition are first settled in the order of their        *)
(* offsets.  The committed offset may move back: the price is a second     *)
(* delivery, never a lost one.                                             *)
(***************************************************************************)
EXTENDS Integers, Sequences

CONSTANTS Partitions,     \* the topic partitions the group consumes
          Messages,       \* what a record may hold
          SkipsBacklog    \* a group without a commit starts at the log's end

VARIABLES log,        \* log[p]: every record ever appended to p
          settled,    \* settled[p]: the offsets of p some member has settled
          committed   \* committed[p]: the group's offset at the broker

vars == <<log, settled, committed>>

NoOffset == -1

Below(n) == 0 .. n - 1

Init == /\ log = [p \in Partitions |-> <<>>]
        /\ settled = [p \in Partitions |-> {}]
        /\ committed = [p \in Partitions |-> NoOffset]

Appends(p) == \E msg \in Messages : log' = [log EXCEPT ![p] = Append(@, msg)]

\* A producer appends a record.
Append1(p) == Appends(p) /\ UNCHANGED <<settled, committed>>

\* A member settles a record all of whose predecessors are settled.
Settle(p) == /\ \E o \in Below(Len(log[p])) :
                  /\ Below(o) \subseteq settled[p]
                  /\ settled' = [settled EXCEPT ![p] = @ \cup {o}]
             /\ UNCHANGED <<log, committed>>

\* A group that has committed nothing yet passes over what the log holds.
SkipBacklog(p) == /\ SkipsBacklog
                  /\ committed[p] = NoOffset
                  /\ settled' = [settled EXCEPT ![p] = @ \cup Below(Len(log[p]))]
                  /\ UNCHANGED <<log, committed>>

\* A member commits the offset after a record it has settled.
Commit(p) == /\ \E o \in settled[p] :
                  /\ Below(o) \subseteq settled[p]
                  /\ committed' = [committed EXCEPT ![p] = o + 1]
             /\ UNCHANGED <<log, settled>>

Next == \E p \in Partitions :
          Append1(p) \/ Settle(p) \/ SkipBacklog(p) \/ Commit(p)

Spec == Init /\ [][Next]_vars
============================================================================
