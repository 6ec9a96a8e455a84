--------------------------- MODULE BatchPublisher ---------------------------
(***************************************************************************)
(* What the publisher of package kafka promises its callers, with nothing  *)
(* said of registries, schemas, caches or consumers: a call hands its      *)
(* batch over whole, each event as the caller gave it and under the name   *)
(* of this call, or is refused and hands over nothing. Brokers store what  *)
(* was handed over event by event, of several calls at a time and of calls *)
(* that have failed. Nil means that the batch is stored, to every caller   *)
(* but those that asked not to wait.                                       *)
(***************************************************************************)
EXTENDS Naturals, Sequences

CONSTANTS Callers,
          Async     \* callers that do not wait for the brokers

VARIABLES phase,    \* of each caller's call: "open", "waiting", "failed" or "over"
          calls,    \* how many calls each has made
          batch,    \* what it asked for: events with a type and a payload
          given,    \* what was handed over, of all calls
          log,      \* what the brokers have of it
          acked     \* calls that returned nil

Init ==
  /\ phase = [g \in Callers |-> "over"]
  /\ calls = [g \in Callers |-> 0]
  /\ batch = [g \in Callers |-> <<>>]
  /\ given = {}
  /\ log = {}
  /\ acked = {}

Enter(g, p) == phase' = [phase EXCEPT ![g] = p]

Begin(g) ==
  /\ Enter(g, "open")
  /\ calls' = [calls EXCEPT ![g] = @ + 1]
  /\ UNCHANGED <<given, log, acked>>

Publish(g) ==
  /\ phase[g] = "over" /\ Begin(g)
  /\ batch' = [batch EXCEPT ![g] = batch'[g]] /\ batch'[g] # <<>>

\* The events of a call that failed are published again by a call of its own.
PublishAgain(g) == phase[g] = "failed" /\ Begin(g) /\ UNCHANGED batch

End(g) == Enter(g, "over") /\ batch' = [batch EXCEPT ![g] = <<>>] /\ UNCHANGED <<calls, log>>

Refuse(g) == phase[g] = "open" /\ End(g) /\ UNCHANGED <<given, acked>>

Call(g) == <<g, calls[g]>>

Entries(g) == {[id |-> <<Call(g), i>>, type |-> batch[g][i].type,
                payload |-> batch[g][i].payload] : i \in DOMAIN batch[g]}

HandOver(g) == phase[g] = "open" /\ given' = given \union Entries(g)

Acked(g) == acked' = acked \union {[call |-> Call(g), size |-> Len(batch[g])]}

Send(g) ==
  /\ HandOver(g) /\ g \notin Async
  /\ Enter(g, "waiting")
  /\ UNCHANGED <<calls, batch, log, acked>>

SendAndForget(g) == HandOver(g) /\ g \in Async /\ End(g) /\ Acked(g)

Acknowledge(g) ==
  /\ phase[g] = "waiting" /\ Entries(g) \subseteq log
  /\ End(g) /\ Acked(g) /\ UNCHANGED given

Fail(g) ==
  /\ phase[g] \in {"open", "waiting"} /\ Enter(g, "failed")
  /\ UNCHANGED <<calls, batch, given, log, acked>>

Store ==
  /\ \E e \in given \ log : log' = log \union {e}
  /\ UNCHANGED <<phase, calls, batch, given, acked>>

Next ==
  \/ \E g \in Callers : \/ Publish(g) \/ PublishAgain(g) \/ Refuse(g)
                        \/ Send(g) \/ SendAndForget(g) \/ Acknowledge(g) \/ Fail(g)
  \/ Store

vars == <<phase, calls, batch, given, log, acked>>

Spec == Init /\ [][Next]_vars
=============================================================================
