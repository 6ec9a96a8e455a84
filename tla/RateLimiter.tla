----------------------------- MODULE RateLimiter -----------------------------
(***************************************************************************)
(* middleware/ratelimit.go: a token bucket per client, made when the       *)
(* client is first seen, refilled as time passes, and forgotten by a       *)
(* background goroutine once the client has been idle for longer than TTL. *)
(* The bucket itself is rate.Limiter of golang.org/x/time (external).      *)
(***************************************************************************)
EXTENDS Integers, Sequences

CONSTANTS Clients,   \* addresses that requests come from
          Rate,      \* RateLimitConfig.Rate, tokens per tick
          Burst,     \* RateLimitConfig.Burst
          TTL,       \* RateLimitConfig.TTL, in ticks
          MaxTime    \* bound: ticks of the clock

\* Nothing in NewRateLimiter relates TTL to the time a bucket takes to fill: with a
\* short one a client gets a full bucket by being forgotten.
ASSUME LimiterAssumption ==
  Rate \in Nat /\ Burst \in Nat \ {0} /\ TTL \in Nat /\ MaxTime \in Nat

VARIABLES clock,
          visitors,  \* RateLimiter.visitors: bucket and time of the last request
          early,     \* history: how often each client was forgotten with a bucket
                     \* that was not full again
          admitted   \* history: when each client's requests were let through, and
                     \* how often it had been forgotten early until then

limiterVars == <<clock, visitors, early, admitted>>

LimiterInit ==
  /\ clock = 0
  /\ visitors = <<>>
  /\ early = [ip \in Clients |-> 0]
  /\ admitted = [ip \in Clients |-> <<>>]

Admission == [at : 0..MaxTime, early : Nat]

LimiterTypeOK ==
  /\ clock \in 0..MaxTime
  /\ DOMAIN visitors \subseteq Clients
  /\ \A ip \in DOMAIN visitors :
       visitors[ip] \in [tokens : 0..Burst, lastSeen : 0..clock]
  /\ early \in [Clients -> Nat]
  /\ admitted \in [Clients -> Seq(Admission)]

Tick ==
  /\ clock < MaxTime
  /\ clock' = clock + 1
  /\ UNCHANGED <<visitors, early, admitted>>

\* What rate.Limiter has for a client now: its tokens and those since, at most Burst.
Tokens(ip) ==
  IF ip \notin DOMAIN visitors THEN Burst
  ELSE LET filled == visitors[ip].tokens + Rate * (clock - visitors[ip].lastSeen)
       IN IF filled > Burst THEN Burst ELSE filled

Seen(ip, tokens) ==
  visitors' = [v \in DOMAIN visitors \union {ip} |->
                 IF v = ip THEN [tokens |-> tokens, lastSeen |-> clock] ELSE visitors[v]]

\* Mutant: allow does not ask the limiter.
AdmitUnchecked(ip) ==
  /\ Seen(ip, Tokens(ip) - 1)
  /\ admitted' = [admitted EXCEPT ![ip] = Append(@, [at |-> clock, early |-> early[ip]])]
  /\ UNCHANGED <<clock, early>>

\* allow says yes and takes a token.
Admit(ip) ==
  /\ Tokens(ip) >= 1
  /\ Seen(ip, Tokens(ip) - 1)
  /\ admitted' = [admitted EXCEPT ![ip] = Append(@, [at |-> clock, early |-> early[ip]])]
  /\ UNCHANGED <<clock, early>>

\* allow says no; the client has been seen all the same.
TurnAway(ip) ==
  /\ Tokens(ip) < 1
  /\ Seen(ip, Tokens(ip))
  /\ UNCHANGED <<clock, early, admitted>>

Expired == {ip \in DOMAIN visitors : clock - visitors[ip].lastSeen > TTL}

CountEarly ==
  early' = [ip \in Clients |-> IF ip \in Expired /\ Tokens(ip) < Burst THEN early[ip] + 1
                               ELSE early[ip]]

\* Mutant: evict forgets everybody, however recently seen.
EvictAll ==
  /\ visitors # <<>>
  /\ visitors' = <<>>
  /\ CountEarly
  /\ UNCHANGED <<clock, admitted>>

\* cleanup's ticker calls evict; the interval is free.
evict ==
  /\ Expired # {}
  /\ visitors' = [ip \in DOMAIN visitors \ Expired |-> visitors[ip]]
  /\ CountEarly
  /\ UNCHANGED <<clock, admitted>>

\* What a bucket holds and is refilled with, and a bucket more for each time that it
\* was forgotten early.
Allowance(forgotten, ticks) == Burst * (1 + forgotten) + Rate * ticks

\* No client gets more through than that, in whatever stretch of time: a client that
\* is forgotten before its bucket is full again is given a full one too early
\* (ratelimit.go:119-129 looks at the time of the last request only).
AdmissionsBounded ==
  \A ip \in Clients : \A i, j \in DOMAIN admitted[ip] :
    LET first == admitted[ip][i]
        last  == admitted[ip][j]
    IN i <= j => j - i + 1 <= Allowance(last.early - first.early, last.at - first.at)

=============================================================================
