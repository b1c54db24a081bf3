-------------------------- MODULE PublicationGovernor --------------------------
(***************************************************************************)
(* The durable budget of publication starts: table                         *)
(* weight_publication_attempts and its three functions in                  *)
(* vidaio/weightsetter/intents.py, driven by _publish_intent_bounded and   *)
(* _run_publication_task (vidaio/weightsetter/service.py).                 *)
(*                                                                         *)
(* Times are the wall clock's, which is taken not to run backwards.        *)
(***************************************************************************)
EXTENDS Integers, Sequences

CONSTANTS
    Interval,   \* config.attempt_interval_seconds
    BaseDelay,  \* config.reconciliation_interval_seconds
    Timeout,    \* config.publication_attempt_timeout_seconds
    MaxTime,    \* bound of the model: the last instant
    MaxStarts   \* bound of the model: attempts reserved

ASSUME GovernorAssumption ==
    /\ Interval \in Nat \ {0} /\ BaseDelay \in Nat \ {0} /\ Timeout \in Nat \ {0}
    /\ MaxTime \in Nat /\ MaxStarts \in Nat

VARIABLES
    now,       \* the clock
    attempts,  \* weight_publication_attempts, in id order
    task       \* the attempt of the retained publication task, 0 without one

vars == <<now, attempts, task>>

(* started_at, finished_at (-1: null), succeeded, retry_after, failure_count *)
Attempt == [started : Nat, finished : Int, ok : BOOLEAN, retry : Nat, failures : Nat \ {0}]

Latest == attempts[Len(attempts)]

Smaller(a, b) == IF a <= b THEN a ELSE b
Larger(a, b)  == IF a <= b THEN b ELSE a

Doubling(n) == 2 ^ n

(* publication_retry_delay *)
Delay(failures) == Smaller(Interval, BaseDelay * Doubling(Smaller(failures - 1, 16)))

(* Mutant: the budget allows a fourth start.                              *)
RetryAtFour ==
    IF attempts = <<>> THEN 0
    ELSE Larger(Latest.retry,
                IF Len(attempts) >= 4 THEN attempts[Len(attempts) - 3].started + Interval
                ELSE 0)

(* publication_retry_at: the backoff of the latest attempt, and the budget *)
(* of three starts per rolling interval.                                   *)
RetryAt ==
    IF attempts = <<>> THEN 0
    ELSE Larger(Latest.retry,
                IF Len(attempts) >= 3 THEN attempts[Len(attempts) - 2].started + Interval
                ELSE 0)

Init == now = 0 /\ attempts = <<>> /\ task = 0

Tick ==
    /\ now < MaxTime
    /\ now' = now + 1
    /\ UNCHANGED <<attempts, task>>

(* Mutant: a lost outcome is not counted as a failure.                     *)
ReserveForgetting ==
    /\ task = 0
    /\ now >= RetryAt
    /\ Len(attempts) < MaxStarts
    /\ LET n == IF attempts = <<>> \/ Latest.finished = -1 \/ Latest.ok
                THEN 1 ELSE Latest.failures + 1
       IN  attempts' = Append(attempts,
               [started |-> now, finished |-> -1, ok |-> FALSE,
                retry |-> now + Timeout + Delay(n), failures |-> n])
    /\ task' = Len(attempts) + 1
    /\ UNCHANGED now

(* _publish_intent_bounded: no task is in flight and                       *)
(* reserve_publication_attempt grants a start.                             *)
ReserveAttempt ==
    /\ task = 0
    /\ now >= RetryAt
    /\ Len(attempts) < MaxStarts
    /\ LET n == IF attempts = <<>> \/ Latest.ok THEN 1 ELSE Latest.failures + 1
       IN  attempts' = Append(attempts,
               [started |-> now, finished |-> -1, ok |-> FALSE,
                retry |-> now + Timeout + Delay(n), failures |-> n])
    /\ task' = Len(attempts) + 1
    /\ UNCHANGED now

(* Mutant: a failed attempt may be repeated at once.                       *)
FinishForgiving(ok) ==
    /\ task # 0
    /\ attempts' = [attempts EXCEPT ![task] =
          [@ EXCEPT !.finished = now, !.ok = ok, !.retry = 0]]
    /\ task' = 0
    /\ UNCHANGED now

(* finish_publication_attempt, in the finally of _run_publication_task     *)
FinishAttempt(ok) ==
    /\ task # 0
    /\ attempts' = [attempts EXCEPT ![task] =
          [@ EXCEPT !.finished = now, !.ok = ok,
                    !.retry = IF ok THEN 0 ELSE now + Delay(attempts[task].failures)]]
    /\ task' = 0
    /\ UNCHANGED now

(* The outcome is not recorded: the reservation stands (also a crash).     *)
LoseOutcome ==
    /\ task # 0
    /\ task' = 0
    /\ UNCHANGED <<now, attempts>>

Next == Tick \/ ReserveAttempt \/ (\E ok \in BOOLEAN : FinishAttempt(ok)) \/ LoseOutcome

Spec == Init /\ [][Next]_vars

-----------------------------------------------------------------------------
TypeOK ==
    /\ now \in Nat
    /\ attempts \in Seq(Attempt)
    /\ task \in 0 .. Len(attempts)
    /\ task # 0 => task = Len(attempts) /\ attempts[task].finished = -1

(* At most three starts in any interval, across all rows, outcomes and     *)
(* restarts: no four of them fit in one (publication_retry_at, LIMIT 3).   *)
RollingBudget ==
    \A a, d \in DOMAIN attempts :
        d >= a + 3 => attempts[d].started >= attempts[a].started + Interval

(* A start that did not succeed is followed by another only after its      *)
(* backoff, counted from its end, or from the end of its time budget when  *)
(* its outcome was lost; the backoff doubles while failures last           *)
(* (reserve_publication_attempt, finish_publication_attempt).              *)
BackoffKept ==
    \A k \in DOMAIN attempts : k > 1 /\ ~attempts[k - 1].ok =>
        /\ attempts[k].failures = attempts[k - 1].failures + 1
        /\ attempts[k].started >=
              IF attempts[k - 1].finished = -1
              THEN attempts[k - 1].started + Timeout + Delay(attempts[k - 1].failures)
              ELSE attempts[k - 1].finished + Delay(attempts[k - 1].failures)

Gate == INSTANCE PublicationGate
            WITH gate    <- now >= RetryAt,
                 running <- task # 0,
                 failed  <- attempts # <<>> /\ ~Latest.ok

(* The clock arithmetic implements the gate that Publication relies on: a  *)
(* start closes it, only a success may leave it open, a lost outcome and a *)
(* restart do not touch it.                                                *)
ImplementsGate == Gate!GateSpec
=============================================================================
