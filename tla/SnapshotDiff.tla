---------------------------- MODULE SnapshotDiff ----------------------------
(***************************************************************************)
(* timetravel/diff.go, DiffPayloads: the fields in which two JSON values   *)
(* differ.  A path is the sequence of its keys and indexes; a key that     *)
(* holds a dot, which makes paths ambiguous, is left out.  The order of    *)
(* the result, by path, is left out too.                                   *)
(***************************************************************************)
EXTENDS JsonValues, Integers, SequencesExt, FiniteSetsExt

\* Both sides are marshalled and the bytes compared.
jsonEqual(a, b) == a = b

opFor(from, to) == IF from = Null THEN "added" ELSE IF to = Null THEN "removed" ELSE "changed"

FieldDiff(path, from, to, op) == [path |-> path, old |-> from, new |-> to, op |-> op]

\* Mutant: only the positions that both slices have are compared.
ShorterOf(from, to) == Min({Len(from), Len(to)})

Positions(from, to) == Max({Len(from), Len(to)})

RECURSIVE diffValues(_, _, _)

\* One key of two maps, or one position of two slices: in either or in both.
diffChild(child, from, to, k) ==
  CASE k \notin DOMAIN from -> {FieldDiff(child, Null, to[k], "added")}
    [] k \notin DOMAIN to   -> {FieldDiff(child, from[k], Null, "removed")}
    [] OTHER                -> diffValues(child, from[k], to[k])

diffMaps(path, from, to) ==
  UNION {diffChild(Append(path, k), from, to, k) : k \in DOMAIN from \union DOMAIN to}

\* Indexes count from zero.
Index(i) == "[" \o ToString(i - 1) \o "]"

diffSlices(path, from, to) ==
  UNION {diffChild(Append(path, Index(i)), from, to, i) : i \in 1..Positions(from, to)}

diffValues(path, from, to) ==
  CASE jsonEqual(from, to) -> {}
    [] ~jsonEqual(from, to) /\ from.type = "map" /\ to.type = "map" ->
         diffMaps(path, from.value, to.value)
    [] ~jsonEqual(from, to) /\ from.type = "slice" /\ to.type = "slice" ->
         diffSlices(path, from.value, to.value)
    [] OTHER -> {FieldDiff(path, from, to, opFor(from, to))}

-----------------------------------------------------------------------------
(* Which value a path names, without a look at the other document.         *)

\* The fields of an object and the items of an array, by what a path calls them.
Children(v) ==
  CASE v.type = "map"   -> v.value
    [] v.type = "slice" -> [name \in {Index(i) : i \in DOMAIN v.value} |->
                              v.value[CHOOSE i \in DOMAIN v.value : Index(i) = name]]
    [] OTHER            -> <<>>

\* The value at a path, if there is one.
RECURSIVE At(_, _)
At(v, path) ==
  IF path = <<>> THEN <<v>>
  ELSE IF v.type \in {"map", "slice"} /\ Head(path) \in DOMAIN Children(v)
       THEN At(Children(v)[Head(path)], Tail(path)) ELSE <<>>

RECURSIVE Paths(_)
Paths(v) ==
  {<<>>} \union
  UNION {{<<k>> \o p : p \in Paths(Children(v)[k])} : k \in DOMAIN Children(v)}

=============================================================================
