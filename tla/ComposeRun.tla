------------------------------ MODULE ComposeRun ------------------------------
(***************************************************************************)
(* One pipeline of POST /compose: its steps are charged to the caller's    *)
(* key, executed in order and paid on chain by the gateway.  A step may    *)
(* ask to wait for a person: the rest of the pipeline is then a row of     *)
(* a2a_suspended_runs, which POST /compose/resume claims with the token    *)
(* of the 202 and executes as a second half.  Requests run concurrently,   *)
(* may time out (504) while their handler goes on, and may die.            *)
(* Every step costs 1, so the i-th step is the i-th unit of the ceiling;   *)
(* the gas and the placeholder price a debit may add are no part of        *)
(* totalCostUsdc, and so of what the ceiling bounds.                       *)
(***************************************************************************)
EXTENDS Integers, FiniteSets

CONSTANTS
    Steps,      \* how many steps the pipeline has
    Ceilings,   \* what min(maxBudget, operator ceiling) may be
    Compose,    \* the request that starts the run
    Resumes,    \* requests to resume it; each may come again and again
    MasterPath  \* the caller pays with a key, not a session or a delegation

ASSUME RunAssumption ==
    /\ Steps \in Nat \ {0} /\ Ceilings \subseteq Nat
    /\ Compose \notin Resumes
    /\ MasterPath \in BOOLEAN

VARIABLES
    ceiling,
    job,        \* what each request's handler is doing
    row,        \* a2a_suspended_runs: its status and the first remaining step
    late,       \* NOW() >= expires_at
    token,      \* the caller has the resume token
    held,       \* per step, what the caller is charged: debits less refunds
    delivered,  \* per step, how often an agent's answer was accepted
    paid,       \* the steps the gateway paid on chain
    stranded,   \* per step, how many compose_stranded_payment events name it
    fees,       \* protocol fees charged for the run
    unsettled,  \* steps with a debit or a refund nobody confirmed
    free,       \* steps a resume did not charge: their agent was not found
    escaped,    \* history: steps left charged by an exception nobody catches
    cut         \* history: steps left charged by a process that died on them

left == <<escaped, cut>>
money == <<held, unsettled, free>>
work == <<delivered, paid>>
vars == <<ceiling, job, row, late, token, held, delivered, paid, stranded, fees,
          unsettled, free, escaped, cut>>

Handlers == {Compose} \cup Resumes
Pipeline == {"loop", "debit", "invoke", "refund", "retry", "open",
             "succeeded", "failed", "thrown", "suspended"}
Working == {"charge", "orphaned", "reopen", "refused", "unwind", "giveBack", "timedOut",
            "fee"} \cup Pipeline
Labels == {"idle", "expire", "done"} \cup Working

\* A handler about to work from step i on; one nobody called.
Start(label, i) == [pc |-> label, first |-> i, at |-> i, charged |-> FALSE,
                    retried |-> FALSE, uncounted |-> FALSE, sent |-> FALSE]
Fresh == Start("idle", 1)

Job == [pc : Labels, first : Nat, at : Nat, charged : BOOLEAN, retried : BOOLEAN,
        uncounted : BOOLEAN, sent : BOOLEAN]

TypeOK ==
    /\ ceiling \in Ceilings
    /\ job \in [Handlers -> Job]
    /\ row \in [status : {"none", "suspended", "resuming", "resumed", "failed", "expired"},
                next : Nat]
    /\ late \in BOOLEAN /\ token \in BOOLEAN
    /\ held \in [1..Steps -> Int] /\ delivered \in [1..Steps -> Nat]
    /\ stranded \in [1..Steps -> Nat]
    /\ paid \subseteq 1..Steps /\ unsettled \subseteq 1..Steps /\ free \subseteq 1..Steps
    /\ escaped \subseteq 1..Steps /\ cut \subseteq 1..Steps
    /\ fees \in Nat

\* The middleware is about to charge step 1.
Init ==
    /\ ceiling \in Ceilings
    /\ job = [h \in Handlers |->
                IF h = Compose THEN Start("charge", 1) ELSE Fresh]
    /\ row = [status |-> "none", next |-> 1]
    /\ late = FALSE /\ token = FALSE
    /\ held = [i \in 1..Steps |-> 0] /\ delivered = [i \in 1..Steps |-> 0]
    /\ stranded = [i \in 1..Steps |-> 0]
    /\ paid = {} /\ unsettled = {} /\ free = {} /\ fees = 0
    /\ escaped = {} /\ cut = {}

Goto(h, label) == job' = [job EXCEPT ![h].pc = label]
Leave(h) == job' = [job EXCEPT ![h] = IF h = Compose THEN [@ EXCEPT !.pc = "done"] ELSE Fresh]

\* The step at hand; totalCostUsdc; and preSpentUsd, the half before the suspension.
Current(h) == IF job[h].uncounted THEN job[h].at - 1 ELSE job[h].at
TotalCost(h) == Current(h) - job[h].first
PreSpentForgotten(h) == 0
PreSpent(h) == job[h].first - 1
Results(h) == job[h].first .. (job[h].at - 1)

Charge(i) == held' = [held EXCEPT ![i] = @ + 1]
GiveBack(i) == held' = [held EXCEPT ![i] = @ - 1]
Doubt(i) == unsettled' = unsettled \cup {i}

\* budgetService.debit: applied; rejected; or applied with its answer lost, which the
\* caller of debit takes for a rejection.
Debit(h, i, accepted, rejected) ==
    \/ Charge(i) /\ accepted /\ UNCHANGED unsettled
    \/ Goto(h, rejected) /\ UNCHANGED <<held, unsettled>>
    \/ Charge(i) /\ Goto(h, rejected) /\ Doubt(i)

-----------------------------------------------------------------------------
(* The first step of each half is charged before its pipeline.             *)

\* POST /compose: the middleware debits.  When the 504 is already out the handler never
\* runs: the debit is not made, or onDebitOrphaned gives it back.
ChargeFirst ==
    /\ job[Compose].pc = "charge"
    /\ \/ Debit(Compose, 1, job' = [job EXCEPT ![Compose].charged = TRUE,
                   ![Compose].pc = IF job[Compose].sent THEN "orphaned" ELSE "loop"],
                "done")
       \/ /\ job[Compose].sent
          /\ Goto(Compose, "done") /\ UNCHANGED <<held, unsettled>>
    /\ UNCHANGED <<ceiling, row, late, token, work, stranded, fees, free, left>>

\* The status gates of claim_suspended_run and of expire.
ClaimableTwice == row.status \in {"suspended", "resuming"}
Claimable == row.status = "suspended"
ExpirableAgain == row.status \in {"suspended", "expired"}
Expirable == row.status = "suspended"

\* POST /compose/resume claims the row.  The answer of a committed claim may be lost;
\* an expired row is only told apart, and marked by expire().
Claim(h) ==
    /\ h \in Resumes /\ token
    /\ job[h].pc = "idle"
    /\ Claimable
    /\ \/ /\ late
          /\ Goto(h, "expire") /\ UNCHANGED row
       \/ /\ ~late
          /\ row' = [row EXCEPT !.status = "resuming"]
          /\ \/ job' = [job EXCEPT ![h] = Start("charge", row.next)]
             \/ UNCHANGED job
    /\ UNCHANGED <<ceiling, late, token, money, work, stranded, fees, left>>

\* The stranded event of the steps of `done` that were paid on chain.
Strand(done) ==
    stranded' = [i \in 1..Steps |-> stranded[i] + IF i \in done \cap paid THEN 1 ELSE 0]

\* expire: UPDATE ... WHERE status = 'suspended', and the event when it changed the row.
\* The UPDATE may fail, which only a log line tells.
Expire(h) ==
    /\ job[h].pc = "expire"
    /\ Leave(h)
    /\ \/ /\ Expirable
          /\ row' = [row EXCEPT !.status = "expired"]
          /\ Strand(1 .. (row.next - 1))
       \/ UNCHANGED <<row, stranded>>
    /\ UNCHANGED <<ceiling, late, token, money, work, fees, left>>

\* debitResumedFirstStep: nothing to charge when no step remains or its agent is not
\* found; no quote, no debit, and the run reopens.
ChargeResumed(h) ==
    /\ h \in Resumes /\ job[h].pc = "charge"
    /\ LET i == job[h].at IN
       \/ /\ i <= Steps
          /\ Debit(h, i, job' = [job EXCEPT ![h].charged = TRUE, ![h].pc = "loop"],
                   "refused")
          /\ UNCHANGED free
       \/ /\ i <= Steps
          /\ Goto(h, "reopen") /\ UNCHANGED money
       \/ /\ Goto(h, "loop")
          /\ free' = free \cup ({i} \cap 1..Steps)
          /\ UNCHANGED <<held, unsettled>>
    /\ UNCHANGED <<ceiling, row, late, token, work, stranded, fees, left>>

\* settle_suspended_run changes a row that is resuming, and may fail to reach it.
Settle(outcome) ==
    \/ row' = [row EXCEPT !.status = IF @ = "resuming" THEN outcome ELSE @]
    \/ UNCHANGED row

Reopen(h) ==
    /\ job[h].pc = "reopen"
    /\ Settle("suspended")
    /\ Leave(h)
    /\ UNCHANGED <<ceiling, late, token, money, work, stranded, fees, left>>

RefuseResume(h) ==
    /\ job[h].pc = "refused"
    /\ Settle("failed")
    /\ Leave(h)
    /\ UNCHANGED <<ceiling, late, token, money, work, stranded, fees, left>>

-----------------------------------------------------------------------------
(* executePipeline: the loop over the steps that remain.                   *)

\* The price of the step fits under the ceiling, with what both halves have spent.
Affordable(h) == PreSpent(h) + TotalCost(h) + 1 <= ceiling

\* Everything that is checked before the debit.  resolveAgent and the gas quote throw.
BeginStep(h) ==
    /\ job[h].pc = "loop" /\ job[h].at <= Steps
    /\ \/ /\ Affordable(h)
          /\ job' = [job EXCEPT ![h].retried = FALSE,
                       ![h].pc = IF job[h].at > job[h].first THEN "debit" ELSE "invoke"]
       \/ Goto(h, "failed")
       \/ Goto(h, "thrown")
    /\ UNCHANGED <<ceiling, row, late, token, money, work, stranded, fees, left>>

DebitStep(h) ==
    /\ job[h].pc \in {"debit", "retry"}
    /\ Debit(h, job[h].at, Goto(h, "invoke"), "failed")
    /\ UNCHANGED <<ceiling, row, late, token, work, stranded, fees, free, left>>

\* The agent answers 2xx and its downstream leg pays it or is skipped.  Only the first
\* half reads the answer as a request to wait.
AgentAnswers(h) ==
    /\ job[h].pc = "invoke"
    /\ LET i == job[h].at IN
       /\ delivered' = [delivered EXCEPT ![i] = @ + 1]
       /\ paid' \in {paid, paid \cup {i}}
    /\ \E next \in IF h = Compose THEN {"loop", "open"} ELSE {"loop"} :
          job' = [job EXCEPT ![h].at = @ + 1, ![h].pc = next]
    /\ UNCHANGED <<ceiling, row, late, token, money, stranded, fees, left>>

\* finishSuccessfulStep pushes the answer and then looks up the next agent, which throws
\* into the catch of a failed invocation: the step is refunded and never counted.
LookupFails(h) ==
    /\ job[h].pc = "invoke" /\ job[h].at < Steps
    /\ LET i == job[h].at IN
       /\ delivered' = [delivered EXCEPT ![i] = @ + 1]
       /\ paid' \in {paid, paid \cup {i}}
       /\ job' = [job EXCEPT ![h].at = i + 1, ![h].uncounted = TRUE, ![h].retried = TRUE,
                   ![h].pc = IF MasterPath /\ i > job[h].first THEN "refund" ELSE "failed"]
    /\ UNCHANGED <<ceiling, row, late, token, money, stranded, fees, left>>

\* Anything else.  A debit of the loop's own goes back, on the master path only.
AgentFails(h) ==
    /\ job[h].pc = "invoke"
    /\ Goto(h, IF MasterPath /\ job[h].at > job[h].first THEN "refund" ELSE "failed")
    /\ UNCHANGED <<ceiling, row, late, token, money, work, stranded, fees, left>>

\* A refund is applied, or queued for the outbox to apply; neither is the log line.
Refund(i) ==
    \/ GiveBack(i) /\ UNCHANGED unsettled
    \/ Doubt(i) /\ UNCHANGED held

\* refundStepDebit, d1 and d2.  Only a refund that was applied lets the step be tried
\* again, once, with the input a model rewrote.
RefundStep(h) ==
    /\ job[h].pc = "refund"
    /\ \/ /\ Refund(Current(h)) /\ Goto(h, "failed")
       \/ /\ ~job[h].retried
          /\ GiveBack(job[h].at) /\ UNCHANGED unsettled
          /\ job' = [job EXCEPT ![h].pc = "retry", ![h].retried = TRUE]
    /\ UNCHANGED <<ceiling, row, late, token, work, stranded, fees, free, left>>

\* suspendIfEnvelope: the row is inserted; or not; or it is and the answer is lost.
Open(h) ==
    /\ job[h].pc = "open"
    /\ \/ Goto(h, "failed") /\ UNCHANGED row
       \/ /\ row' = [status |-> "suspended", next |-> job[h].at]
          /\ \E next \in {"suspended", "failed"} : Goto(h, next)
    /\ UNCHANGED <<ceiling, late, token, money, work, stranded, fees, left>>

FinishLoop(h) ==
    /\ job[h].pc = "loop" /\ job[h].at > Steps
    /\ Goto(h, "succeeded")
    /\ UNCHANGED <<ceiling, row, late, token, money, work, stranded, fees, left>>

-----------------------------------------------------------------------------
(* compose() and the two handlers, once the loop is over.                  *)

\* recordStrandedRunIfAny; the event may be lost.
RecordStranded(h) ==
    /\ job[h].pc = "failed"
    /\ Strand(Results(h)) \/ UNCHANGED stranded
    /\ Goto(h, IF job[h].sent THEN "timedOut" ELSE "unwind")
    /\ UNCHANGED <<ceiling, row, late, token, money, work, fees, left>>

\* What nobody catches: the event, a 500, and no refund.  The loop throws before it debits,
\* so a charge it leaves is the one of the first step, when that was not called yet.
Throw(h) ==
    /\ job[h].pc = "thrown"
    /\ Strand(Results(h)) \/ UNCHANGED stranded
    /\ escaped' = escaped \cup {i \in {job[h].first} : job[h].charged /\ job[h].at = i}
    /\ Leave(h)
    /\ UNCHANGED <<ceiling, row, late, token, money, cut, work, fees>>

\* refundComposeStep0: max(0, what the first step was charged less totalCostUsdc).
RefundableDelivered(h) == job[h].charged
Refundable(h) == job[h].charged /\ 1 - TotalCost(h) > 0
RefundFirst(h) ==
    IF Refundable(h) THEN Refund(job[h].first) ELSE UNCHANGED <<held, unsettled>>

\* The failure branch.  /resume closes its row before it refunds ...
Unwind(h) ==
    /\ job[h].pc = "unwind"
    /\ IF h = Compose THEN UNCHANGED row ELSE Settle("failed")
    /\ Goto(h, "giveBack")
    /\ UNCHANGED <<ceiling, late, token, money, work, stranded, fees, left>>

GiveBackFirst(h) ==
    /\ job[h].pc = "giveBack"
    /\ RefundFirst(h)
    /\ Leave(h)
    /\ UNCHANGED <<ceiling, row, late, token, work, stranded, fees, free, left>>

\* ... and after it, when reply.sent, whatever became of the pipeline.
TimedOut(h) ==
    /\ \/ job[h].pc = "timedOut"
       \/ job[h].pc \in {"succeeded", "suspended"} /\ job[h].sent
    /\ RefundFirst(h)
    /\ IF h = Compose THEN Leave(h) ELSE Goto(h, "refused")
    /\ UNCHANGED <<ceiling, row, late, token, work, stranded, fees, free, left>>

OrphanedDebit ==
    /\ job[Compose].pc = "orphaned"
    /\ Refund(1)
    /\ Leave(Compose)
    /\ UNCHANGED <<ceiling, row, late, token, work, stranded, fees, free, left>>

\* The 202 with the token.
Answer202 ==
    /\ job[Compose].pc = "suspended" /\ ~job[Compose].sent
    /\ token' = TRUE
    /\ Leave(Compose)
    /\ UNCHANGED <<ceiling, row, late, money, work, stranded, fees, left>>

CloseResumed(h) ==
    /\ h \in Resumes
    /\ job[h].pc = "succeeded" /\ ~job[h].sent
    /\ Settle("resumed")
    /\ Goto(h, "fee")
    /\ UNCHANGED <<ceiling, late, token, money, work, stranded, fees, left>>

\* The fee waits for the whole pipeline: a suspension charges none (CD-18).
FeeDueEarly(h) ==
    \/ job[h].pc = "fee"
    \/ h = Compose /\ job[h].pc \in {"succeeded", "suspended"} /\ ~job[h].sent
FeeDue(h) ==
    \/ job[h].pc = "fee"
    \/ h = Compose /\ job[h].pc = "succeeded" /\ ~job[h].sent

\* chargeProtocolFee, under request.id or compose_run_id; its failure is not the run's.
ChargeFee(h) ==
    /\ FeeDue(h)
    /\ fees' \in {fees, fees + 1}
    /\ Leave(h)
    /\ UNCHANGED <<ceiling, row, late, token, money, work, stranded, left>>

-----------------------------------------------------------------------------
(* The environment.                                                        *)

\* createTimeoutHandler sends the 504; the handler goes on.
Timeout(h) ==
    /\ job[h].pc \in Pipeline \cup {"charge"} /\ ~job[h].sent
    /\ job' = [job EXCEPT ![h].sent = TRUE]
    /\ UNCHANGED <<ceiling, row, late, token, money, work, stranded, fees, left>>

\* The process dies: the step it had charged and not delivered stays charged.
Die(h) ==
    /\ job[h].pc \in Working
    /\ cut' = cut \cup {i \in {job[h].at} : i <= Steps /\ held[i] > delivered[i]}
    /\ Leave(h)
    /\ UNCHANGED <<ceiling, row, late, token, money, escaped, work, stranded, fees>>

Lapse ==
    /\ row.status # "none" /\ ~late
    /\ late' = TRUE
    /\ UNCHANGED <<ceiling, job, row, token, money, work, stranded, fees, left>>

Request(h) ==
    \/ Claim(h) \/ Expire(h) \/ ChargeResumed(h) \/ Reopen(h) \/ RefuseResume(h)
    \/ BeginStep(h) \/ DebitStep(h) \/ AgentAnswers(h) \/ LookupFails(h) \/ AgentFails(h)
    \/ RefundStep(h) \/ Open(h) \/ FinishLoop(h) \/ RecordStranded(h) \/ Throw(h) \/ Unwind(h)
    \/ GiveBackFirst(h) \/ TimedOut(h) \/ CloseResumed(h) \/ ChargeFee(h)

Next ==
    \/ ChargeFirst \/ OrphanedDebit \/ Answer202 \/ Lapse
    \/ \E h \in Handlers : Request(h) \/ Timeout(h) \/ Die(h)

Spec == Init /\ [][Next]_vars

-----------------------------------------------------------------------------
(* Properties.                                                             *)

\* Claims race, handlers time out and die, halves reopen: no step is ever executed
\* again by another half (AC-8), nor out of order.
EachStepOnce ==
    \A i \in 1..Steps :
        /\ delivered[i] <= 1
        /\ delivered[i] = 1 => \A j \in 1 .. (i - 1) : delivered[j] = 1

\* Both halves together stay under the one ceiling the caller declared for the run.
WithinCeiling == \A i \in 1..Steps : delivered[i] > 0 => i <= ceiling

\* Once no handler works on the run, the caller is charged for no step that was not
\* delivered, and for each of them when they all were, whoever charged it (the
\* middleware, the resume or the loop) and whoever gave it back.  Not for a step whose
\* debit or refund nobody confirmed, nor for one step a half left charged: the one its
\* process died on, or its first one, when an exception came before the agent was called;
\* and that happens to one step of a run at most.
Quiet == \A h \in Handlers : job[h].pc \notin Working
Known == (1..Steps) \ (unsettled \cup free \cup escaped \cup cut)
Squared ==
    \A i \in Known :
        /\ held[i] <= delivered[i]
        /\ delivered[Steps] = 1 => held[i] = delivered[i]
OneStepLeft == \A i, j \in escaped \cup cut : i = j
ChargedForDelivered == (Quiet => Squared) /\ OneStepLeft

\* What doc/INTEGRATION.md:1146-1148 promises a prepaid caller: every rejection after the
\* charge is credited back.  The 500 of an exception is not.
RejectionsCreditedBack ==
    Quiet => \A i \in (1..Steps) \ (unsettled \cup free \cup cut) : held[i] <= delivered[i]

\* What the tests of the money path claim (compose.test.ts:3542-3550): a step that was
\* answered and settled is not refunded.  LookupFails does.
ChargedIffDelivered == Quiet => \A i \in Known : held[i] = delivered[i]

\* The protocol fee is charged at most once for both halves, and on a whole pipeline.
FeeOnWholeRun == fees <= 1 /\ (fees = 1 => \A i \in 1..Steps : delivered[i] = 1)

\* A payment is reported stranded at most once, and never when its run was resumed.
StrandedOnce ==
    \A i \in 1..Steps :
        stranded[i] <= 1 /\ (stranded[i] = 1 => i \in paid /\ row.status # "resumed")

-----------------------------------------------------------------------------
(* Why they hold.                                                          *)

\* The labels from which a step may still be delivered; those after which nothing more
\* is recorded as stranded.
Delivering == {"charge", "loop", "debit", "invoke", "refund", "retry", "open"}
Recorded == {"unwind", "giveBack", "timedOut", "refused"}

\* Whoever works on the run owns it: the first half while the caller has no token, the
\* request that claimed the row afterwards.
OwnedAs(h, j) ==
    IF h = Compose
    THEN /\ ~token /\ j.first = 1
         /\ j.pc \notin {"reopen", "refused", "fee"}
         /\ row.status \in {"none", "suspended"}
         /\ j.pc \in Delivering \cup {"orphaned", "thrown", "succeeded"} => row.status = "none"
         /\ j.pc = "suspended" => row.status = "suspended"
    ELSE /\ token
         /\ j.pc \notin {"orphaned", "open", "suspended"}
         /\ \/ row.status = "resuming"
            \/ j.pc = "fee" /\ row.status = "resumed"
            \/ j.pc = "giveBack" /\ row.status = "failed"
         /\ j.pc \in {"charge", "reopen"} => j.at = row.next

Owned == \A h \in Handlers : job[h].pc \in Working => OwnedAs(h, job[h])

OneWorker ==
    \A g, h \in Handlers : job[g].pc \in Working /\ job[h].pc \in Working => g = h

\* A suspended row is the token's, unless the answer of its insert was lost.
Claimed ==
    /\ token => job[Compose].pc = "done" /\ row.status # "none"
    /\ \A h \in Handlers : job[h].pc = "expire" => token

\* The steps before a worker's are delivered, its own and the later ones are not.
FrontierAt(j) ==
    /\ j.first \in 1 .. (Steps + 1) /\ j.at \in j.first .. (Steps + 1)
    /\ j.charged => j.first <= Steps
    /\ j.pc \in {"charge", "orphaned", "reopen"} => j.at = j.first
    /\ j.pc \in {"open", "suspended", "debit", "retry", "refund"} => j.at > j.first
    /\ j.uncounted => /\ j.pc \in {"refund", "failed"} \cup Recorded
                      /\ j.retried /\ j.at <= Steps /\ j.at > j.first
    /\ j.pc \in {"debit", "invoke", "refund", "retry"} => j.at <= Steps
    /\ j.pc \in {"debit", "invoke", "retry"} \/ (j.pc = "refund" /\ ~j.uncounted) =>
          j.at <= ceiling
    /\ j.pc \in {"succeeded", "fee"} => j.at = Steps + 1

DeliveredTo(n) == \A i \in 1..Steps : delivered[i] = IF i < n THEN 1 ELSE 0

Frontier ==
    \A h \in Handlers : job[h].pc \in Working =>
        FrontierAt(job[h]) /\ DeliveredTo(job[h].at)

\* A suspended row remembers where the first half stopped.
Waiting ==
    /\ row.next \in 1 .. (Steps + 1)
    /\ row.status = "suspended" => DeliveredTo(row.next)

\* The fee is the last thing that happens.
FeeIsLast == fees > 0 => Quiet /\ row.status # "suspended"

\* Nothing is recorded while the run may still complete.
Unstranded ==
    /\ \A h \in Handlers : job[h].pc \in Working \ Recorded => \A i \in 1..Steps : stranded[i] = 0
    /\ token /\ row.status \in {"suspended", "resumed"} => \A i \in 1..Steps : stranded[i] = 0

DeliveredInOrder == EachStepOnce /\ WithinCeiling

RunInv == TypeOK /\ Owned /\ OneWorker /\ Claimed /\ Frontier /\ Waiting /\ FeeIsLast
          /\ Unstranded /\ DeliveredInOrder /\ FeeOnWholeRun /\ StrandedOnce

\* The steps a worker has charged and not given back: those delivered, but for one it
\* refunded uncounted, and the one at hand from its debit to its refund.
ChargedFor(j) ==
    {i \in 1..Steps :
        \/ i < j.at /\ ~(j.uncounted /\ j.pc # "refund" /\ i = j.at - 1 /\ i > j.first)
        \/ /\ i = j.at
           /\ \/ j.pc \in {"invoke", "orphaned"}
              \/ j.pc = "refund" /\ ~j.uncounted
              \/ /\ i = j.first
                 /\ j.pc \in {"loop", "thrown", "failed", "unwind", "giveBack", "timedOut"}}

\* On the key's own path, where the loop gives its debits back: what a worker has charged;
\* one that refuses a resume has nothing left to give back.
HeldBy(j) ==
    IF j.pc = "refused" THEN Squared
    ELSE /\ \A i \in Known : held[i] = IF i \in ChargedFor(j) THEN 1 ELSE 0
         /\ j.pc \notin {"charge", "reopen"} /\ j.first \in Known => j.charged
         /\ j.pc = "refund" /\ j.uncounted => j.at > j.first + 1

\* What each handler has charged so far, and what it leaves behind.
HeldInv ==
    /\ \A h \in Handlers : job[h].pc \in Working => HeldBy(job[h])
    /\ Quiet => Squared
    /\ Quiet /\ token /\ row.status = "suspended" =>
          \A i \in Known : held[i] = delivered[i]

\* A half that left a charge was the last to work on the run.
LeftLast ==
    /\ OneStepLeft
    /\ ~Quiet \/ (token /\ row.status = "suspended") => escaped \cup cut = {}
=============================================================================
