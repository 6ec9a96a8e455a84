--------------------------- MODULE ErrorRegistry ---------------------------
(***************************************************************************)
(* errors/errors.go: services register their sentinel errors with a pair   *)
(* of codes, and ToHTTP and ToGRPC look up the pair of an error.           *)
(***************************************************************************)
EXTENDS SequencesExt

CONSTANTS Errors,
          Unwrapped,      \* each error with what it wraps, in the order that errors.Is walks
          Own,            \* the codes of the platform's own errors (*Error)
          Codes,          \* pairs of codes
          InternalCodes   \* 500 and codes.Internal

ASSUME ErrorsAssumption ==
  /\ \A e \in Errors : Unwrapped[e] \in Seq(Errors) \ {<<>>} /\ Head(Unwrapped[e]) = e
  \* What an error wraps it wraps with all that is inside: a chain, or with errors.Join
  \* and several %w a tree, of which this is the walk from the root, depth first.
  /\ \A e \in Errors : \A i \in DOMAIN Unwrapped[e] :
       LET inner == Unwrapped[Unwrapped[e][i]] IN
       i + Len(inner) - 1 <= Len(Unwrapped[e]) /\ inner = SubSeq(Unwrapped[e], i, i + Len(inner) - 1)
  /\ DOMAIN Own \subseteq Errors

\* errors.Is.
Is(err, target) == \E i \in DOMAIN Unwrapped[err] : Unwrapped[err][i] = target

Registration == [sentinel : Errors, codes : Codes]

\* Mutant: a second registration does not replace the first.
AppendsOnly(registrations, r) == Append(registrations, r)

\* The first sentinel that is the error, or that wraps it, is replaced.
Register(registrations, r) ==
  LET i == SelectInSeq(registrations, LAMBDA old : Is(old.sentinel, r.sentinel)) IN
  IF i = 0 THEN Append(registrations, r) ELSE [registrations EXCEPT ![i] = r]

\* ToHTTP and ToGRPC take one code each of the pair: that of the outermost *Error,
\* or else of the first registration that matches.
CodesOf(registrations, err) ==
  LET own == SelectInSeq(Unwrapped[err], LAMBDA e : e \in DOMAIN Own)
      i   == SelectInSeq(registrations, LAMBDA r : Is(err, r.sentinel))
  IN CASE own # 0            -> Own[Unwrapped[err][own]]
       [] own = 0 /\ i # 0   -> registrations[i].codes
       [] OTHER              -> InternalCodes

-----------------------------------------------------------------------------
\* The calls of Register, in their order, whose sentinel the error is or wraps.
Known(calls, err) == {i \in DOMAIN calls : Is(err, calls[i].sentinel)}

\* Of these the ones for an innermost sentinel, one that wraps no other of them. Of
\* joined errors there may be several.
Innermost(calls, err) ==
  {i \in Known(calls, err) : \A j \in Known(calls, err) :
     Is(calls[i].sentinel, calls[j].sentinel) => calls[j].sentinel = calls[i].sentinel}

\* The last call for the same sentinel.
IsLatest(calls, i) == \A j \in DOMAIN calls : calls[j].sentinel = calls[i].sentinel => j <= i

\* An error gets the codes that an innermost one of the registered errors in it was
\* given last, in whatever order these were registered: Register overwrites the entry
\* of a wrapper by that of what it wraps (errors.go:69-78), and of two entries the one
\* that is not wrapped comes first (errors.go:105). So a registered wrapper does not
\* get its own codes, as errors.go:87-88 says, when what it wraps is registered too.
InnermostAnswersFor(registrations, calls, err) ==
  IF Known(calls, err) = {} THEN CodesOf(registrations, err) = InternalCodes
  ELSE \E i \in Innermost(calls, err) :
         IsLatest(calls, i) /\ CodesOf(registrations, err) = calls[i].codes

HasOwn(err) == \E i \in DOMAIN Unwrapped[err] : Unwrapped[err][i] \in DOMAIN Own

=============================================================================
