-------------------------- MODULE MCRequestPipeline --------------------------
EXTENDS RequestPipeline, ErrorRegistry

CONSTANTS c1, c2, a1, a2, u1

\* An ordinary request of a browser behind a proxy; the others differ in one respect.
Browser == [http |-> TRUE, forwarded |-> <<a1, a2>>, realIp |-> None, remote |-> a2,
            origin |-> <<"https", "eu", "app">>, preflight |-> FALSE, skip |-> FALSE,
            apiKey |-> None, bearer |-> "valid", user |-> u1, resource |-> TRUE,
            org |-> <<"malformed", "parses">>, metered |-> TRUE]
Grpc == [Browser EXCEPT !.http = FALSE]

MCKinds ==
  {Browser,
   [Browser EXCEPT !.forwarded = <<>>, !.realIp = a1, !.org = <<None, "malformed">>],
   [Browser EXCEPT !.metered = FALSE],
   [Browser EXCEPT !.preflight = TRUE],
   [Browser EXCEPT !.preflight = TRUE, !.origin = <<"https", "app">>, !.bearer = None],
   [Browser EXCEPT !.resource = FALSE],
   [Browser EXCEPT !.user = Nobody, !.forwarded = <<>>],
   Grpc,
   [Grpc EXCEPT !.apiKey = "valid", !.bearer = None],
   [Grpc EXCEPT !.apiKey = "invalid"],
   [Grpc EXCEPT !.skip = TRUE]}

-----------------------------------------------------------------------------
\* Errors: "db" is wrapped by "missing" and by "locked", which "both" joins; "bad" is
\* the platform's own and "badly" wraps it; nobody registers "other".
MCErrors    == {"db", "missing", "locked", "both", "bad", "badly", "other"}
MCUnwrapped == [db |-> <<"db">>, missing |-> <<"missing", "db">>, locked |-> <<"locked", "db">>,
                both |-> <<"both", "missing", "db", "locked", "db">>,
                bad |-> <<"bad">>, badly |-> <<"badly", "bad">>, other |-> <<"other">>]
MCCodes     == {"404", "409"}

MCOwn       == [bad |-> "400"]

Registrations ==
  {r \in Registration : r.sentinel \in {"db", "missing", "locked", "both", "bad"}}

\* Every sequence of registrations, up to a length: an error is answered with what an
\* innermost registered error in it was given last, whatever wraps that, is joined with
\* it, or was registered before or after (errors.go:64-85), and the platform's own
\* errors keep their codes.
InnermostAnswers ==
  Init => \A calls \in BoundedSeq(Registrations, 4) :
    LET registrations == FoldLeft(Register, <<>>, calls)
    IN \A err \in MCErrors :
         IF err \in {"bad", "badly"} THEN CodesOf(registrations, err) = "400"
         ELSE InnermostAnswersFor(registrations, calls, err)

-----------------------------------------------------------------------------
\* One exact pattern and one with a wildcard, which stands for something.
MCOrigins == {<<"http", "localhost">>, <<"https", "*", "app">>}

MCCallers == {c1, c2}
MCClients == {a1, a2}
MCUsers == {u1}
MCWithDB == {c1}
MCWithPublisher == {c1, c2}
=============================================================================
