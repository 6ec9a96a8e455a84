---------------------------- MODULE HealthChecks ----------------------------
(***************************************************************************)
(* health/health.go and health/grpc.go: a probe runs every checker in a    *)
(* goroutine of its own and waits for all of them. The dependencies that   *)
(* the checkers ask, and the probers, are external.                        *)
(***************************************************************************)
EXTENDS Naturals

CONSTANTS Probes,       \* requests under way at a time
          Checks,       \* Config.Checks, one for each dependency
          Obedient,     \* checkers that return when their context is done
          Services,     \* names that SetServingStatus is called with
          None,
          MaxChanges,   \* bound: changes of the dependencies
          MaxPanics     \* bound: checkers that panic

ASSUME HealthAssumption ==
  /\ Obedient \subseteq Checks /\ None \notin {"ready", "overall"}
  /\ MaxChanges \in Nat /\ MaxPanics \in Nat

VARIABLES dependency,  \* external: what state each one is in
          kind,        \* what is asked for, or None
          deadline,    \* the context has one
          done,        \* the context is done
          results,     \* results of each probe, by checker; None: still running
          answer,      \* of the last probe
          serving,     \* GRPCServer.serving
          wasUp, wasBad,   \* history: dependencies that were, since the probe came
          changes, panics

probeVars == <<kind, deadline, done, results, answer, wasUp, wasBad>>
bounds == <<changes, panics>>
vars == <<dependency, probeVars, serving, bounds>>

Nothing == [c \in Checks |-> None]

Init ==
  /\ dependency = [c \in Checks |-> "up"]
  /\ kind = [p \in Probes |-> None]
  /\ deadline = [p \in Probes |-> FALSE]
  /\ done = [p \in Probes |-> FALSE]
  /\ results = [p \in Probes |-> Nothing]
  /\ answer = [p \in Probes |-> None]
  /\ serving = [s \in Services |-> None]
  /\ wasUp = [p \in Probes |-> {}]
  /\ wasBad = [p \in Probes |-> {}]
  /\ changes = 0
  /\ panics = 0

Up == {c \in Checks : dependency[c] = "up"}
isChecking(p) == kind[p] \in {"ready", "overall"}

\* A dependency fails, hangs or recovers.
Change ==
  /\ changes < MaxChanges
  /\ changes' = changes + 1
  /\ \E c \in Checks : \E state \in {"up", "down", "hangs"} \ {dependency[c]} :
       /\ dependency' = [dependency EXCEPT ![c] = state]
       /\ IF state = "up"
          THEN /\ wasUp' = [p \in Probes |-> IF isChecking(p) THEN wasUp[p] \union {c} ELSE {}]
               /\ UNCHANGED wasBad
          ELSE /\ wasBad' = [p \in Probes |-> IF isChecking(p) THEN wasBad[p] \union {c} ELSE {}]
               /\ UNCHANGED wasUp
  /\ UNCHANGED <<kind, deadline, done, results, answer, serving, panics>>

-----------------------------------------------------------------------------
\* handleReady gives its context a timeout, checkOverall has that of the caller,
\* which may have none. Both start a goroutine for each checker.
StartChecks(p, k, timeout) ==
  /\ kind[p] = None
  /\ kind' = [kind EXCEPT ![p] = k]
  /\ deadline' = [deadline EXCEPT ![p] = timeout]
  /\ done' = [done EXCEPT ![p] = FALSE]
  /\ results' = [results EXCEPT ![p] = Nothing]
  /\ answer' = [answer EXCEPT ![p] = None]
  /\ wasUp' = [wasUp EXCEPT ![p] = Up]
  /\ wasBad' = [wasBad EXCEPT ![p] = Checks \ Up]
  /\ UNCHANGED <<dependency, serving, bounds>>

handleReady(p) == StartChecks(p, "ready", TRUE)
checkOverall(p) == \E timeout \in BOOLEAN : StartChecks(p, "overall", timeout)

\* The two that run no checker: handleHealth, and Check of a named service.
AnswerAtOnce(p, a) ==
  /\ kind[p] = None
  /\ answer' = [answer EXCEPT ![p] = a]
  /\ UNCHANGED <<dependency, kind, deadline, done, results, serving, wasUp, wasBad, bounds>>

handleHealth(p) == AnswerAtOnce(p, "alive")
CheckNamed(p) ==
  \E s \in Services : AnswerAtOnce(p, IF serving[s] = None THEN "not found" ELSE serving[s])

SetServingStatus(s, status) ==
  /\ serving' = [serving EXCEPT ![s] = status]
  /\ UNCHANGED <<dependency, probeVars, bounds>>

\* The timeout is over.
Timeout(p) ==
  /\ isChecking(p) /\ deadline[p] /\ ~done[p]
  /\ done' = [done EXCEPT ![p] = TRUE]
  /\ UNCHANGED <<dependency, kind, deadline, results, answer, serving, wasUp, wasBad, bounds>>

\* The prober gives up: that ends the context too, and nothing else.
ClientGone(p) ==
  /\ isChecking(p) /\ ~done[p]
  /\ done' = [done EXCEPT ![p] = TRUE]
  /\ UNCHANGED <<dependency, kind, deadline, results, answer, serving, wasUp, wasBad, bounds>>

\* Mutant: the goroutines get a context of their own.
NeverCancelled(p, c) == FALSE

\* The checker sees that its context is done.
IsCancelled(p, c) == done[p] /\ c \in Obedient

\* Check returns; with a context that is done it may or may not have been quicker.
CheckerReturns(p, c) ==
  /\ isChecking(p) /\ results[p][c] = None
  /\ \/ dependency[c] # "hangs" /\ results' = [results EXCEPT ![p][c] = dependency[c]]
     \/ IsCancelled(p, c) /\ results' = [results EXCEPT ![p][c] = "down"]
  /\ UNCHANGED <<dependency, kind, deadline, done, answer, serving, wasUp, wasBad, bounds>>

\* Mutant: nobody waits for the goroutines.
DoesNotWait(p) == TRUE

\* wg.Wait.
AllReturned(p) == \A c \in Checks : results[p][c] # None

\* The rest of handleReady and checkOverall: a status that is not "down" is good.
Answer(p) ==
  /\ isChecking(p) /\ AllReturned(p)
  /\ answer' = [answer EXCEPT ![p] =
                  IF \E c \in Checks : results[p][c] = "down" THEN "down" ELSE "up"]
  /\ kind' = [kind EXCEPT ![p] = None]
  /\ deadline' = [deadline EXCEPT ![p] = FALSE]
  /\ done' = [done EXCEPT ![p] = FALSE]
  /\ results' = [results EXCEPT ![p] = Nothing]
  /\ wasUp' = [wasUp EXCEPT ![p] = {}]
  /\ wasBad' = [wasBad EXCEPT ![p] = {}]
  /\ UNCHANGED <<dependency, serving, bounds>>

\* A checker panics, in a goroutine that no Recovery is around: the process ends, and
\* every probe with it, and is started again without the statuses it had been given.
Crash ==
  /\ panics < MaxPanics
  /\ panics' = panics + 1
  /\ \E p \in Probes, c \in Checks : isChecking(p) /\ results[p][c] = None
  /\ kind' = [p \in Probes |-> None]
  /\ deadline' = [p \in Probes |-> FALSE]
  /\ done' = [p \in Probes |-> FALSE]
  /\ results' = [p \in Probes |-> Nothing]
  /\ wasUp' = [p \in Probes |-> {}]
  /\ wasBad' = [p \in Probes |-> {}]
  /\ answer' = [p \in Probes |-> IF isChecking(p) THEN "lost" ELSE answer[p]]
  /\ serving' = [s \in Services |-> None]
  /\ UNCHANGED <<dependency, changes>>

Next ==
  \/ \E p \in Probes :
       \/ handleReady(p) \/ checkOverall(p) \/ handleHealth(p) \/ CheckNamed(p)
       \/ Timeout(p) \/ ClientGone(p) \/ Answer(p)
       \/ \E c \in Checks : CheckerReturns(p, c)
  \/ \E s \in Services, status \in {"SERVING", "NOT_SERVING"} : SetServingStatus(s, status)
  \/ Change \/ Crash

Spec == Init /\ [][Next]_vars

\* Timers fire, goroutines that can go on do, and so does the one that waits.
FairSpec ==
  /\ Spec
  /\ \A p \in Probes : WF_vars(Timeout(p)) /\ WF_vars(Answer(p))
  /\ \A p \in Probes, c \in Checks : WF_vars(CheckerReturns(p, c))

-----------------------------------------------------------------------------
\* The verdict is about the time of the probe: "up" means that every dependency was
\* up at some moment since the probe came, and "down" that one was not or that the
\* context ended first. The code reads results that goroutines write and counts
\* the zero value of a status as good (health.go:157-168, 187-200).
VerdictIsHonest ==
  [][\A p \in Probes : isChecking(p) /\ ~isChecking(p)' =>
       /\ answer'[p] = "up" => wasUp[p] = Checks
       /\ answer'[p] = "down" => wasBad[p] # {} \/ done[p]]_vars

\* What keeps a probe from returning: a dependency that hangs, asked by a checker
\* that does not look at its context or through a context without an end.
IsStuck(p) ==
  \E c \in Checks :
    /\ results[p][c] = None /\ dependency[c] = "hangs"
    /\ c \notin Obedient \/ (~deadline[p] /\ ~done[p])

\* Every probe returns, however the others fare, unless it is stuck for ever in
\* wg.Wait for that reason: the timeout of handleReady is no limit by itself
\* (health.go:198).
ProbesReturn == \A p \in Probes : []<>(~isChecking(p)) \/ <>[](isChecking(p) /\ IsStuck(p))

=============================================================================
