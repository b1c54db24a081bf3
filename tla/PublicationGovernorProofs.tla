----------------------- MODULE PublicationGovernorProofs -----------------------
(***************************************************************************)
(* The budget and the backoff of PublicationGovernor, for every interval,  *)
(* delay and timeout.  The inductive invariant adds to the two properties  *)
(* that starts are ordered in time and what retry_after of each row is.    *)
(***************************************************************************)
EXTENDS PublicationGovernor, TLAPS

(* Starts are in the past; retry_after of an attempt without an outcome is *)
(* the end of its time budget and its backoff.                             *)
AttemptOK(k) ==
    /\ attempts[k].started <= now
    /\ attempts[k].finished # -1 =>
          attempts[k].started <= attempts[k].finished /\ attempts[k].finished <= now
    /\ attempts[k].retry =
          IF attempts[k].ok THEN 0
          ELSE IF attempts[k].finished = -1
               THEN attempts[k].started + Timeout + Delay(attempts[k].failures)
               ELSE attempts[k].finished + Delay(attempts[k].failures)

AttemptsOK == \A k \in DOMAIN attempts : AttemptOK(k)

(* Starts are ordered in time.                                             *)
Ordered ==
    \A a, b \in DOMAIN attempts : a <= b => attempts[a].started <= attempts[b].started

IInv == TypeOK /\ AttemptsOK /\ Ordered /\ RollingBudget /\ BackoffKept

(* The sixteen powers of two of publication_retry_delay.                   *)
LEMMA DoublingPositive == \A n \in 0 .. 16 : Doubling(n) \in Nat \ {0}
  <1>1. /\ Doubling(0) = 1 /\ Doubling(1) = 2 /\ Doubling(2) = 4 /\ Doubling(3) = 8
        /\ Doubling(4) = 16 /\ Doubling(5) = 32 /\ Doubling(6) = 64 /\ Doubling(7) = 128
    BY DEF Doubling
  <1>2. /\ Doubling(8) = 256 /\ Doubling(9) = 512 /\ Doubling(10) = 1024
        /\ Doubling(11) = 2048 /\ Doubling(12) = 4096 /\ Doubling(13) = 8192
        /\ Doubling(14) = 16384 /\ Doubling(15) = 32768 /\ Doubling(16) = 65536
    BY DEF Doubling
  <1> QED
    BY <1>1, <1>2

(* A failure always costs some delay.                                      *)
LEMMA DelayPositive ==
    ASSUME NEW n \in Nat \ {0}
    PROVE  Delay(n) \in Nat \ {0}
  <1>1. Smaller(n - 1, 16) \in 0 .. 16
    BY DEF Smaller
  <1>2. PICK d \in Nat \ {0} : d = Doubling(Smaller(n - 1, 16))
    BY <1>1, DoublingPositive
  <1>3. BaseDelay * d \in Nat \ {0}
    BY <1>2, GovernorAssumption
  <1> QED
    BY <1>2, <1>3, GovernorAssumption DEF Delay, Smaller

(* The rows of the table are attempts.                                     *)
LEMMA AttemptTypes ==
    ASSUME TypeOK
    PROVE  /\ DOMAIN attempts = 1 .. Len(attempts) /\ Len(attempts) \in Nat /\ now \in Nat
           /\ \A k \in 1 .. Len(attempts) :
                 /\ attempts[k] \in Attempt
                 /\ attempts[k].started \in Nat /\ attempts[k].finished \in Int
                 /\ attempts[k].retry \in Nat /\ attempts[k].failures \in Nat \ {0}
                 /\ attempts[k].ok \in BOOLEAN
           /\ attempts # <<>> => Len(attempts) \in 1 .. Len(attempts)
  <1>1. attempts \in Seq(Attempt) /\ Len(attempts) \in Nat /\ now \in Nat
    BY DEF TypeOK
  <1>2. \A k \in 1 .. Len(attempts) : attempts[k] \in Attempt
    BY <1>1
  <1>3. attempts # <<>> => Len(attempts) \in 1 .. Len(attempts)
    BY <1>1
  <1> QED
    BY <1>1, <1>2, <1>3 DEF Attempt

(* The empty table satisfies the invariant.                                *)
LEMMA InitInv == Init => IInv
  BY DEF Init, IInv, TypeOK, AttemptsOK, Ordered, RollingBudget, BackoffKept

(* What reserve_publication_attempt adds, and what it had to wait for.     *)
LEMMA Reserved ==
    ASSUME TypeOK, ReserveAttempt
    PROVE  LET n == Len(attempts) + 1
               r == attempts'[n]
           IN  /\ attempts' \in Seq(Attempt) /\ Len(attempts') = n
               /\ \A k \in DOMAIN attempts : attempts'[k] = attempts[k]
               /\ r.started = now /\ r.finished = -1 /\ ~r.ok
               /\ r.retry = now + Timeout + Delay(r.failures)
               /\ n > 1 => r.failures = IF Latest.ok THEN 1 ELSE Latest.failures + 1
               /\ now >= RetryAt
  <1> DEFINE m == IF attempts = <<>> \/ Latest.ok THEN 1 ELSE Latest.failures + 1
             r == [started |-> now, finished |-> -1, ok |-> FALSE,
                   retry |-> now + Timeout + Delay(m), failures |-> m]
  <1>0. attempts \in Seq(Attempt) /\ Len(attempts) \in Nat /\ now \in Nat
    BY DEF TypeOK
  <1>1. m \in Nat \ {0}
    BY AttemptTypes DEF Latest
  <1>2. Delay(m) \in Nat
    BY <1>1, DelayPositive
  <1> HIDE DEF m
  <1>3. r \in Attempt
    BY <1>0, <1>1, <1>2, GovernorAssumption DEF Attempt
  <1>4. attempts' = Append(attempts, r) /\ now >= RetryAt
    BY DEF ReserveAttempt, m
  <1>5. /\ r.started = now /\ r.finished = -1 /\ ~r.ok
        /\ r.retry = now + Timeout + Delay(r.failures) /\ r.failures = m
    OBVIOUS
  <1> HIDE DEF r
  <1>6. /\ attempts' \in Seq(Attempt) /\ Len(attempts') = Len(attempts) + 1
        /\ attempts'[Len(attempts) + 1] = r
        /\ \A k \in DOMAIN attempts : attempts'[k] = attempts[k]
    BY <1>0, <1>3, <1>4
  <1>7. Len(attempts) + 1 > 1 => m = IF Latest.ok THEN 1 ELSE Latest.failures + 1
    BY <1>0 DEF m
  <1> QED
    BY <1>4, <1>5, <1>6, <1>7

(* The retry bound in its two parts.                                       *)
LEMMA RetryBounds ==
    ASSUME TypeOK, now >= RetryAt
    PROVE  /\ attempts # <<>> => now >= Latest.retry
           /\ Len(attempts) >= 3 => now >= attempts[Len(attempts) - 2].started + Interval
  <1>0. attempts \in Seq(Attempt) /\ Len(attempts) \in Nat /\ now \in Nat
    BY DEF TypeOK
  <1>1. ASSUME attempts # <<>> PROVE Latest.retry \in Nat
    BY <1>1, AttemptTypes DEF Latest
  <1>2. ASSUME Len(attempts) >= 3
        PROVE attempts[Len(attempts) - 2].started + Interval \in Nat
    <2>1. Len(attempts) - 2 \in 1 .. Len(attempts)
      BY <1>0, <1>2
    <2> QED
      BY <2>1, AttemptTypes, GovernorAssumption
  <1> QED
    BY <1>0, <1>1, <1>2 DEF RetryAt, Larger

(* A granted start keeps the inductive invariant: it is after the budget   *)
(* and the backoff.                                                        *)
LEMMA ReserveStep == IInv /\ ReserveAttempt => IInv'
  <1> SUFFICES ASSUME IInv, ReserveAttempt PROVE IInv'
    OBVIOUS
  <1> DEFINE n == Len(attempts) + 1
             r == attempts'[n]
  <1>0. /\ TypeOK /\ AttemptsOK /\ Ordered /\ RollingBudget /\ BackoffKept
        /\ attempts \in Seq(Attempt) /\ Len(attempts) \in Nat /\ now \in Nat
        /\ DOMAIN attempts = 1 .. Len(attempts)
    BY DEF IInv, TypeOK
  <1>1. /\ attempts' \in Seq(Attempt) /\ Len(attempts') = n
        /\ \A k \in DOMAIN attempts : attempts'[k] = attempts[k]
        /\ r.started = now /\ r.finished = -1 /\ ~r.ok
        /\ r.retry = now + Timeout + Delay(r.failures)
        /\ n > 1 => r.failures = IF Latest.ok THEN 1 ELSE Latest.failures + 1
        /\ now >= RetryAt
    BY <1>0, Reserved
  <1>2. /\ DOMAIN attempts' = 1 .. n /\ n \in Nat \ {0}
        /\ DOMAIN attempts' = DOMAIN attempts \cup {n} /\ n \notin DOMAIN attempts
        /\ now' = now /\ task' = n
    BY <1>0, <1>1 DEF ReserveAttempt
  <1>3. /\ n > 1 => now >= Latest.retry
        /\ n > 3 => now >= attempts[n - 3].started + Interval
    BY <1>0, <1>1, RetryBounds
  <1>a. \A k \in DOMAIN attempts : attempts[k] \in Attempt
    BY <1>0, AttemptTypes
  <1> HIDE DEF n, r
  <1>4. TypeOK'
    <2>1. task' \in 0 .. Len(attempts') /\ task' = Len(attempts') /\ attempts'[task'].finished = -1
      BY <1>1, <1>2 DEF r
    <2> QED
      BY <1>0, <1>1, <1>2, <2>1 DEF TypeOK
  <1>5. AttemptsOK'
    <2>2. \A k \in DOMAIN attempts : AttemptOK(k)'
      BY <1>0, <1>1, <1>2 DEF AttemptsOK, AttemptOK
    <2> QED
      <3> SUFFICES ASSUME NEW k \in DOMAIN attempts' PROVE AttemptOK(k)'
        BY DEF AttemptsOK
      <3>1. CASE k \in DOMAIN attempts
        BY <2>2, <3>1
      <3>2. CASE k = n
        BY <1>0, <1>1, <1>2, <3>2 DEF AttemptOK, r
      <3> QED
        BY <1>2, <3>1, <3>2
  <1>6. Ordered'
    <2> SUFFICES ASSUME NEW a \in DOMAIN attempts', NEW b \in DOMAIN attempts', a <= b
                 PROVE  attempts'[a].started <= attempts'[b].started
      BY DEF Ordered
    <2>1. CASE b \in DOMAIN attempts
      BY <1>0, <1>1, <1>2, <2>1 DEF Ordered
    <2>2. CASE b = n /\ a \in DOMAIN attempts
      BY <1>0, <1>1, <2>2 DEF AttemptsOK, AttemptOK, r
    <2>3. CASE b = n /\ a = n
      BY <1>0, <1>1, <2>3 DEF r
    <2> QED
      BY <1>2, <2>1, <2>2, <2>3
  <1>7. RollingBudget'
    <2> SUFFICES ASSUME NEW a \in DOMAIN attempts', NEW d \in DOMAIN attempts', d >= a + 3
                 PROVE  attempts'[d].started >= attempts'[a].started + Interval
      BY DEF RollingBudget
    <2>1. a \in DOMAIN attempts
      BY <1>0, <1>2 DEF n
    <2>2. CASE d \in DOMAIN attempts
      BY <1>1, <2>1, <2>2, <1>0 DEF RollingBudget
    <2>3. CASE d = n
      <3>1. n > 3 /\ n - 3 \in DOMAIN attempts /\ a <= n - 3
        BY <1>0, <1>2, <2>1, <2>3 DEF n
      <3>2. attempts[a].started <= attempts[n - 3].started
        BY <1>0, <2>1, <3>1 DEF Ordered
      <3>3. attempts[a].started \in Nat /\ attempts[n - 3].started \in Nat
        BY <1>a, <2>1, <3>1 DEF Attempt
      <3>4. now >= attempts[a].started + Interval
        BY <1>0, <1>3, <3>1, <3>2, <3>3, GovernorAssumption
      <3> QED
        BY <1>1, <2>1, <2>3, <3>4 DEF r
    <2> QED
      BY <1>2, <2>2, <2>3
  <1>8. BackoffKept'
    <2> SUFFICES ASSUME NEW k \in DOMAIN attempts', k > 1, ~attempts'[k - 1].ok
                 PROVE
        /\ attempts'[k].failures = attempts'[k - 1].failures + 1
        /\ attempts'[k].started >=
              IF attempts'[k - 1].finished = -1
              THEN attempts'[k - 1].started + Timeout + Delay(attempts'[k - 1].failures)
              ELSE attempts'[k - 1].finished + Delay(attempts'[k - 1].failures)
      BY DEF BackoffKept
    <2>1. k - 1 \in DOMAIN attempts /\ attempts'[k - 1] = attempts[k - 1]
      BY <1>0, <1>1, <1>2 DEF n
    <2>2. CASE k \in DOMAIN attempts
      BY <1>0, <1>1, <2>1, <2>2 DEF BackoffKept
    <2>3. CASE k = n
      <3>1. n > 1 /\ Latest = attempts[k - 1]
        BY <2>3 DEF Latest, n
      <3>2. now >= attempts[k - 1].retry
        BY <1>3, <3>1
      <3>3. AttemptOK(k - 1)
        BY <1>0, <2>1 DEF AttemptsOK
      <3>4. attempts[k - 1].retry =
              IF attempts[k - 1].finished = -1
              THEN attempts[k - 1].started + Timeout + Delay(attempts[k - 1].failures)
              ELSE attempts[k - 1].finished + Delay(attempts[k - 1].failures)
        BY <2>1, <3>3 DEF AttemptOK
      <3>5. attempts'[k].started = now
            /\ attempts'[k].failures = attempts[k - 1].failures + 1
        BY <1>1, <2>1, <2>3, <3>1 DEF r
      <3> QED
        BY <2>1, <3>2, <3>4, <3>5
    <2> QED
      BY <1>2, <2>2, <2>3
  <1> QED
    BY <1>4, <1>5, <1>6, <1>7, <1>8 DEF IInv

(* finish_publication_attempt rewrites the latest attempt only.            *)
LEMMA FinishStep == ASSUME IInv, NEW ok \in BOOLEAN, FinishAttempt(ok) PROVE IInv'
  <1>0. /\ TypeOK /\ AttemptsOK /\ Ordered /\ RollingBudget /\ BackoffKept
        /\ attempts \in Seq(Attempt) /\ Len(attempts) \in Nat /\ now \in Nat
        /\ DOMAIN attempts = 1 .. Len(attempts)
    BY DEF IInv, TypeOK
  <1>1. PICK n : n = Len(attempts)
    OBVIOUS
  <1>2. task = n /\ n \in DOMAIN attempts /\ attempts[n] \in Attempt /\ now' = now /\ task' = 0
    <2>1. task = n /\ task # 0 /\ now' = now /\ task' = 0
      BY <1>0, <1>1 DEF TypeOK, FinishAttempt
    <2> QED
      BY <1>0, <1>1, <2>1, AttemptTypes DEF TypeOK
  <1>3. Delay(attempts[n].failures) \in Nat
    BY <1>2, DelayPositive DEF Attempt
  <1>4. /\ DOMAIN attempts' = DOMAIN attempts
        /\ \A k \in DOMAIN attempts \ {n} : attempts'[k] = attempts[k]
        /\ attempts'[n] = [attempts[n] EXCEPT !.finished = now, !.ok = ok,
               !.retry = IF ok THEN 0 ELSE now + Delay(attempts[n].failures)]
    BY <1>0, <1>2 DEF FinishAttempt
  <1>5. /\ attempts'[n].started = attempts[n].started /\ attempts'[n].ok = ok
        /\ attempts'[n].failures = attempts[n].failures /\ attempts'[n].finished = now
        /\ attempts'[n].retry = (IF ok THEN 0 ELSE now + Delay(attempts[n].failures))
        /\ attempts'[n] \in Attempt
    <2>1. PICK q : q = (IF ok THEN 0 ELSE now + Delay(attempts[n].failures))
      OBVIOUS
    <2>2. q \in Nat
      BY <1>0, <1>3, <2>1
    <2>3. attempts'[n] = [attempts[n] EXCEPT !.finished = now, !.ok = ok, !.retry = q]
      BY <1>4, <2>1
    <2>4. PICK a, b : a = attempts[n] /\ b = attempts'[n]
      OBVIOUS
    <2>5. a \in Attempt /\ b = [a EXCEPT !.finished = now, !.ok = ok, !.retry = q]
      BY <1>2, <2>3, <2>4, Zenon
    <2>6. /\ b \in Attempt /\ b.started = a.started /\ b.failures = a.failures
          /\ b.finished = now /\ b.ok = ok /\ b.retry = q
      <3>1. /\ b.started = a.started /\ b.failures = a.failures
            /\ b.finished = now /\ b.retry = q
        BY <1>0, <2>2, <2>5, SMT DEF Attempt
      <3>2. b.ok = ok
        BY <2>5, Zenon DEF Attempt
      <3>3. now \in Int
        BY <1>0
      <3>4. b \in Attempt
        BY <2>2, <2>5, <3>3, Zenon DEF Attempt
      <3> QED
        BY <3>1, <3>2, <3>4
    <2> QED
      BY <2>1, <2>4, <2>6, Zenon
  <1>6. attempts' \in Seq(Attempt)
    BY <1>0, <1>2, <1>4, <1>5 DEF FinishAttempt
  <1>7. TypeOK'
    BY <1>0, <1>2, <1>6 DEF TypeOK
  <1>8. \A k \in DOMAIN attempts : /\ attempts'[k].started = attempts[k].started
                                   /\ attempts'[k].failures = attempts[k].failures
    BY <1>4, <1>5
  <1>9. AttemptsOK'
    <2>1. ASSUME NEW k \in DOMAIN attempts' PROVE AttemptOK(k)'
      <3>1. CASE k # n
        BY <1>0, <1>2, <1>4, <3>1 DEF AttemptsOK, AttemptOK
      <3>2. CASE k = n
        <4>1. attempts[n].started <= now /\ attempts[n].started \in Nat
          BY <1>0, <1>2 DEF AttemptsOK, AttemptOK, Attempt
        <4> QED
          BY <1>0, <1>2, <1>5, <3>2, <4>1 DEF AttemptOK
      <3> QED
        BY <3>1, <3>2
    <2> QED
      BY <2>1 DEF AttemptsOK
  <1>10. Ordered' /\ RollingBudget'
    BY <1>0, <1>4, <1>8 DEF Ordered, RollingBudget
  <1>11. BackoffKept'
    <2> SUFFICES ASSUME NEW k \in DOMAIN attempts', k > 1, ~attempts'[k - 1].ok
                 PROVE
        /\ attempts'[k].failures = attempts'[k - 1].failures + 1
        /\ attempts'[k].started >=
              IF attempts'[k - 1].finished = -1
              THEN attempts'[k - 1].started + Timeout + Delay(attempts'[k - 1].failures)
              ELSE attempts'[k - 1].finished + Delay(attempts'[k - 1].failures)
      BY DEF BackoffKept
    <2>1. k \in DOMAIN attempts /\ k - 1 \in DOMAIN attempts \ {n}
      BY <1>0, <1>1, <1>4
    <2>2. attempts'[k - 1] = attempts[k - 1]
      BY <1>4, <2>1
    <2> QED
      BY <1>0, <1>8, <2>1, <2>2 DEF BackoffKept
  <1> QED
    BY <1>7, <1>9, <1>10, <1>11 DEF IInv

(* Every step preserves the invariant.                                     *)
LEMMA StepInv == IInv /\ [Next]_vars => IInv'
  <1> SUFFICES ASSUME IInv, [Next]_vars PROVE IInv'
    OBVIOUS
  <1>0. /\ TypeOK /\ AttemptsOK /\ now \in Nat /\ attempts \in Seq(Attempt)
        /\ Len(attempts) \in Nat
    BY DEF IInv, TypeOK
  <1>1. CASE UNCHANGED attempts /\ now' \in {now, now + 1} /\ task' \in {task, 0}
    <2>1. TypeOK'
      BY <1>0, <1>1 DEF TypeOK
    <2>2. AttemptsOK'
      <3>1. ASSUME NEW k \in DOMAIN attempts PROVE AttemptOK(k)'
        <4>1. attempts[k].started \in Nat /\ attempts[k].finished \in Int /\ AttemptOK(k)
          BY <1>0, AttemptTypes DEF AttemptsOK
        <4> QED
          BY <1>0, <1>1, <4>1 DEF AttemptOK
      <3> QED
        BY <1>1, <3>1 DEF AttemptsOK
    <2>3. Ordered' /\ RollingBudget' /\ BackoffKept'
      BY <1>1 DEF IInv, Ordered, RollingBudget, BackoffKept
    <2> QED
      BY <2>1, <2>2, <2>3 DEF IInv
  <1>2. CASE ReserveAttempt
    BY <1>2, ReserveStep
  <1>3. ASSUME NEW ok \in BOOLEAN, FinishAttempt(ok) PROVE IInv'
    BY <1>3, FinishStep
  <1> QED
    BY <1>0, <1>1, <1>2, <1>3 DEF Next, vars, Tick, LoseOutcome

(* The inductive invariant: what retry_after of every row is, and the      *)
(* order of the starts.                                                    *)
THEOREM Invariance == Spec => []IInv
  BY InitInv, StepInv, PTL DEF Spec

(* publication_retry_at: no four starts in one interval, ever.             *)
THEOREM RollingBudgetCorrect == Spec => []RollingBudget
  <1>1. IInv => RollingBudget
    BY DEF IInv
  <1> QED
    BY Invariance, <1>1, PTL

(* The exponential backoff survives every failure, lost outcome and        *)
(* restart.                                                                *)
THEOREM BackoffCorrect == Spec => []BackoffKept
  <1>1. IInv => BackoffKept
    BY DEF IInv
  <1> QED
    BY Invariance, <1>1, PTL

(* The gate after a step, and the fields it depends on.                    *)
LEMMA RetryAtType ==
    TypeOK => RetryAt \in Nat /\ (attempts # <<>> => RetryAt >= Latest.retry)
  BY AttemptTypes, GovernorAssumption DEF RetryAt, Latest, Larger

(* A start closes the gate.                                                *)
LEMMA ReserveClosesGate ==
    ASSUME IInv, IInv', ReserveAttempt
    PROVE  Gate!Reserve
  <1>1. TypeOK /\ TypeOK' /\ now \in Nat /\ now' = now
    BY DEF IInv, TypeOK, ReserveAttempt
  <1>2. PICK n : n = IF attempts = <<>> \/ Latest.ok THEN 1 ELSE Latest.failures + 1
    OBVIOUS
  <1>3. n \in Nat \ {0}
    BY <1>1, <1>2, AttemptTypes DEF Latest
  <1>4. PICK r : r = [started |-> now, finished |-> -1, ok |-> FALSE,
                      retry |-> now + Timeout + Delay(n), failures |-> n]
    OBVIOUS
  <1>5. attempts' = Append(attempts, r) /\ task = 0 /\ task' = Len(attempts) + 1
        /\ now >= RetryAt
    BY <1>2, <1>4 DEF ReserveAttempt
  <1>6. r \in Attempt
    BY <1>1, <1>3, <1>4, DelayPositive, GovernorAssumption DEF Attempt
  <1>7. attempts' # <<>> /\ Latest' = r /\ task' # 0
    BY <1>1, <1>5, <1>6 DEF Latest, TypeOK
  <1>8. RetryAt' \in Nat /\ RetryAt' >= r.retry
    <2>1. (TypeOK => RetryAt \in Nat /\ (attempts # <<>> => RetryAt >= Latest.retry))'
      BY RetryAtType, PTL
    <2> QED
      BY <1>1, <1>7, <2>1
  <1>9. r.retry > now /\ r.ok = FALSE
    BY <1>1, <1>3, <1>4, DelayPositive, GovernorAssumption
  <1>10. ~(now' >= RetryAt')
    <2>1. r.retry \in Nat
      BY <1>6 DEF Attempt
    <2> QED
      BY <1>1, <1>8, <1>9, <2>1
  <1> QED
    BY <1>5, <1>7, <1>9, <1>10 DEF Gate!Reserve

(* A recorded outcome: a failure closes the gate.                          *)
LEMMA FinishMovesGate ==
    ASSUME IInv, IInv', NEW ok \in BOOLEAN, FinishAttempt(ok)
    PROVE  Gate!Finish(ok)
  <1>1. /\ TypeOK /\ TypeOK' /\ now \in Nat /\ now' = now /\ task # 0 /\ task' = 0
        /\ task = Len(attempts) /\ attempts \in Seq(Attempt) /\ attempts # <<>>
    BY AttemptTypes DEF IInv, TypeOK, FinishAttempt
  <1>2. PICK n : n = Len(attempts)
    OBVIOUS
  <1>3. n \in 1 .. Len(attempts) /\ attempts[n] \in Attempt /\ task = n
    BY <1>1, <1>2, AttemptTypes
  <1>4. PICK q : q = (IF ok THEN 0 ELSE now + Delay(attempts[n].failures))
    OBVIOUS
  <1>5. q \in Nat /\ (~ok => q > now)
    <2>1. PICK d : d = Delay(attempts[n].failures)
      OBVIOUS
    <2>2. d \in Nat \ {0}
      BY <1>3, <2>1, DelayPositive DEF Attempt
    <2> QED
      BY <1>1, <1>4, <2>1, <2>2
  <1>6. /\ Len(attempts') = n
        /\ attempts'[n] = [attempts[n] EXCEPT !.finished = now, !.ok = ok, !.retry = q]
    <2>1. PICK b : b = [attempts[n] EXCEPT !.finished = now, !.ok = ok, !.retry = q]
      OBVIOUS
    <2>2. attempts' = [attempts EXCEPT ![n] = b]
      BY <1>3, <1>4, <2>1, Zenon DEF FinishAttempt
    <2>3. Len(attempts') = n /\ attempts'[n] = b
      BY <1>1, <1>2, <1>3, <2>2
    <2> QED
      BY <2>1, <2>3, Zenon
  <1>7. attempts'[n].retry = q
    BY <1>3, <1>5, <1>6 DEF Attempt
  <1>8. attempts'[n].ok = ok
    BY <1>3, <1>6, Zenon DEF Attempt
  <1>9. attempts' # <<>> /\ Latest' = attempts'[n]
    BY <1>1, <1>3, <1>6 DEF Latest, TypeOK
  <1>10. RetryAt' \in Nat /\ RetryAt' >= q
    <2>1. (TypeOK => RetryAt \in Nat /\ (attempts # <<>> => RetryAt >= Latest.retry))'
      BY RetryAtType, PTL
    <2> QED
      BY <1>1, <1>7, <1>9, <2>1
  <1>11. ~ok => ~(now' >= RetryAt')
    BY <1>1, <1>5, <1>10
  <1>12. (attempts # <<>> /\ ~Latest.ok)' = ~ok
    BY <1>8, <1>9, Zenon
  <1>13. (now >= RetryAt)' \in (IF ok THEN BOOLEAN ELSE {FALSE})
    <2>1. CASE ok
      BY <2>1
    <2>2. CASE ~ok
      <3>1. (now >= RetryAt)' = FALSE
        BY <1>1, <1>10, <1>11, <2>2
      <3> QED
        BY <2>2, <3>1, Zenon
    <2> QED
      BY <2>1, <2>2
  <1>14. (task # 0)' = FALSE /\ (task # 0) = TRUE
    BY <1>1
  <1> QED
    BY <1>12, <1>13, <1>14, Zenon DEF Gate!Finish

(* Every step of the governor is a step of the gate, or none.              *)
LEMMA StepRefines == IInv /\ IInv' /\ [Next]_vars => [Gate!GateNext]_Gate!gateVars
  <1> SUFFICES ASSUME IInv, IInv', [Next]_vars PROVE [Gate!GateNext]_Gate!gateVars
    OBVIOUS
  <1>0. TypeOK /\ now \in Nat /\ RetryAt \in Nat
    BY RetryAtType DEF IInv, TypeOK
  <1>1. CASE Tick
    <2>1. RetryAt' = RetryAt /\ now' = now + 1 /\ task' = task
          /\ (attempts # <<>> /\ ~Latest.ok)' = (attempts # <<>> /\ ~Latest.ok)
      BY <1>1 DEF Tick, RetryAt, Latest
    <2>2. CASE now >= RetryAt
      <3>1. (now >= RetryAt)' = (now >= RetryAt)
        BY <1>0, <2>1, <2>2
      <3> QED
        BY <2>1, <3>1 DEF Gate!gateVars
    <2>3. CASE ~(now >= RetryAt) /\ (now >= RetryAt)'
      BY <2>1, <2>3 DEF Gate!GateNext, Gate!Reopen
    <2>4. CASE ~(now >= RetryAt) /\ ~(now >= RetryAt)'
      BY <2>1, <2>4 DEF Gate!gateVars
    <2> QED
      BY <2>2, <2>3, <2>4
  <1>2. CASE ReserveAttempt
    BY <1>2, ReserveClosesGate DEF Gate!GateNext
  <1>3. ASSUME NEW ok \in BOOLEAN, FinishAttempt(ok) PROVE Gate!GateNext
    BY <1>3, FinishMovesGate DEF Gate!GateNext
  <1>4. CASE LoseOutcome
    BY <1>4 DEF LoseOutcome, Gate!GateNext, Gate!Lose, RetryAt, Latest
  <1>5. CASE UNCHANGED vars
    BY <1>5 DEF vars, Gate!gateVars, RetryAt, Latest
  <1> QED
    BY <1>1, <1>2, <1>3, <1>4, <1>5 DEF Next

(* The three functions over weight_publication_attempts implement the      *)
(* abstract gate, for every interval, delay and timeout.                   *)
THEOREM GateImplemented == Spec => ImplementsGate
  <1>1. Init => Gate!GateInit
    BY DEF Init, Gate!GateInit, RetryAt
  <1> QED
    BY <1>1, Invariance, StepRefines, PTL DEF Spec, ImplementsGate, Gate!GateSpec
=============================================================================
