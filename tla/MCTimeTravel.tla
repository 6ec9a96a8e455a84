---------------------------- MODULE MCTimeTravel ----------------------------
(* Two services that record an entity, and the central consumer.           *)
EXTENDS TimeTravel

D == INSTANCE SnapshotDiff

CONSTANTS w1, w2, s1, ann

-----------------------------------------------------------------------------
\* Payloads: nothing, scalars, and objects and arrays of them, two levels deep.
Scalars == {D!Null, D!Text(<<"a">>), D!Half(2), D!Half(4)}
Flat == Scalars \union {D!Object(<<>>), D!Array(<<>>), D!Object([f |-> D!Half(2)]),
                        D!Array(<<D!Half(2)>>), D!Array(<<D!Half(4), D!Null>>)}
Payloads == Flat \union UNION {{D!Object(o) : o \in [ks -> Flat]} : ks \in {{"f"}, {"f", "g"}}}
                 \union {D!Array(<<v, D!Half(2)>>) : v \in Flat}

\* What a comparison of two snapshots tells (diff.go:140-222) is true and complete:
\* nothing exactly if they are the same; the values that the paths name, a missing
\* one as null; and a path for whatever is not the same in both. No variable is
\* read: the initial state is as good as any to evaluate it in.
DiffIsExact ==
  Init => \A from, to \in Payloads :
    LET diffs == D!diffValues(<<>>, from, to)
        ValueOf(v, path) == IF D!At(v, path) = <<>> THEN D!Null ELSE D!At(v, path)[1]
    IN
    /\ diffs = {} <=> from = to
    /\ \A d \in diffs :
         /\ d.old = ValueOf(from, d.path) /\ d.new = ValueOf(to, d.path)
         /\ D!At(from, d.path) # D!At(to, d.path)
         /\ d.op = "changed" => D!Null \notin {d.old, d.new}
    /\ \A path \in D!Paths(from) \union D!Paths(to) :
         D!At(from, path) # D!At(to, path) =>
           \E d \in diffs : D!IsPrefix(d.path, path) \/ D!IsPrefix(path, d.path)
=============================================================================
