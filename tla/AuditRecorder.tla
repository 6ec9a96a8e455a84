---------------------------- MODULE AuditRecorder ----------------------------
(***************************************************************************)
(* audit/recorder.go: Record writes a row and publishes an event. The two  *)
(* are independent: neither failure keeps the other from being tried.      *)
(***************************************************************************)
EXTENDS Integers, FiniteSets

CONSTANTS Calls,            \* callers of Record; each calls it again and again
          Nobody,           \* an actor without an id
          WithDB, WithPublisher, \* callers whose Recorder was given the one or the other
          AuditRegistered   \* the service has registered EventType: the taxonomy has not

VARIABLES rows,      \* table admin_audit_log: action and actor
          events,    \* what the publisher wrote: action and actor
          rowErr,    \* dbErr of the call under way
          eventErr   \* pubErr of the call under way

auditVars == <<rows, events, rowErr, eventErr>>

AuditInit ==
  /\ rows = {}
  /\ events = {}
  /\ rowErr = [c \in Calls |-> FALSE]
  /\ eventErr = [c \in Calls |-> FALSE]

\* Record's checks of its arguments.
Complete(actor) == actor # Nobody

\* db.Create, which may fail; without a database there is no row and no error.
Persist(c, action, actor, fails) ==
  /\ rowErr' = [rowErr EXCEPT ![c] = fails /\ c \in WithDB]
  /\ rows' = IF fails \/ c \notin WithDB THEN rows
             ELSE rows \union {[action |-> action, actor |-> actor]}
  /\ UNCHANGED <<events, eventErr>>

\* pub.Publish, which may fail, and refuses an event type that is not registered;
\* without a publisher there is no event and no error.
PublishEvent(c, action, actor, fails) ==
  LET err == fails \/ ~AuditRegistered IN
  /\ eventErr' = [eventErr EXCEPT ![c] = err /\ c \in WithPublisher]
  /\ events' = IF err \/ c \notin WithPublisher THEN events
               ELSE events \union {[action |-> action, actor |-> actor]}
  /\ UNCHANGED <<rows, rowErr>>

\* Mutant: the publisher's answer overwrites the database's.
LastErrorOnly(c) == eventErr[c]

\* What Record returns.
RecordFails(c) == rowErr[c] \/ eventErr[c]

=============================================================================
