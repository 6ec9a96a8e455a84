----------------------------- MODULE JsonValues -----------------------------
(***************************************************************************)
(* What encoding/json decodes into an `any': a record of the Go type and   *)
(* the value.  A string is the sequence of its bytes; a number is counted  *)
(* in halves, so that there are numbers that are no integers.              *)
(***************************************************************************)
EXTENDS Sequences

Null      == [type |-> "nil", value |-> <<>>]
Object(f) == [type |-> "map", value |-> f]
Array(s)  == [type |-> "slice", value |-> s]
Text(s)   == [type |-> "string", value |-> s]
Half(n)   == [type |-> "float64", value |-> n]
Bool(b)   == [type |-> "bool", value |-> b]
=============================================================================
