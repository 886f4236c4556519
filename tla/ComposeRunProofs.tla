--------------------------- MODULE ComposeRunProofs ---------------------------
(***************************************************************************)
(* Proofs about ComposeRun, for every number of steps and of concurrent    *)
(* resumes.  Most actions move the one handler that works on the run, or   *)
(* end it: MoveKeepsInv and LeaveKeepsInv say once what that keeps.  The   *)
(* last part adds the charges (HeldInv), for a caller with a master key.   *)
(***************************************************************************)
EXTENDS ComposeRun, TLAPS

\* The history of the steps left charged is one more thing most steps leave alone.
USE DEF left

\* The initial state satisfies the invariant.
LEMMA InitInv == Init => RunInv
<1> SUFFICES ASSUME Init PROVE RunInv
  OBVIOUS
<1> USE RunAssumption
<1>1. \A h \in Handlers : /\ job[h] \in Job
                          /\ job[h].pc = (IF h = Compose THEN "charge" ELSE "idle")
                          /\ job[h].first = 1 /\ job[h].at = 1 /\ ~job[h].uncounted
  BY DEF Init, Job, Labels, Working, Pipeline, Fresh, Start
<1>2. /\ row = [status |-> "none", next |-> 1] /\ ~token /\ fees = 0
      /\ \A i \in 1..Steps : delivered[i] = 0 /\ stranded[i] = 0
  BY DEF Init
<1>3. TypeOK
  <2>1. job = [h \in Handlers |-> job[h]]
    BY Zenon DEF Init
  <2>2. job \in [Handlers -> Job]
    BY <1>1, <2>1
  <2>3. row \in [status : {"none", "suspended", "resuming", "resumed", "failed", "expired"},
                 next : Nat]
    BY <1>2
  <2>4. /\ held \in [1..Steps -> Int]
        /\ delivered \in [1..Steps -> Nat] /\ stranded \in [1..Steps -> Nat]
    BY DEF Init, Fresh, Start
  <2>5. /\ ceiling \in Ceilings /\ late \in BOOLEAN /\ token \in BOOLEAN
        /\ paid \subseteq 1..Steps /\ unsettled \subseteq 1..Steps /\ free \subseteq 1..Steps
        /\ escaped \subseteq 1..Steps /\ cut \subseteq 1..Steps
        /\ fees \in Nat
    BY DEF Init, Fresh, Start
  <2> QED
    BY <2>2, <2>3, <2>4, <2>5 DEF TypeOK
<1>4. \A h \in Handlers : job[h].pc \in Working => h = Compose
  BY <1>1 DEF Working, Pipeline
<1>5. Owned /\ OneWorker
  BY <1>1, <1>2, <1>4 DEF Owned, OwnedAs, OneWorker
<1>6. Frontier
  BY <1>1, <1>2, <1>4 DEF Frontier, FrontierAt, DeliveredTo
<1>7. Claimed /\ Waiting /\ FeeIsLast /\ Unstranded
  BY <1>1, <1>2 DEF Claimed, Waiting, FeeIsLast, Unstranded
<1>8. EachStepOnce /\ WithinCeiling /\ FeeOnWholeRun /\ StrandedOnce
  BY <1>2 DEF EachStepOnce, WithinCeiling, FeeOnWholeRun, StrandedOnce
<1> QED
  BY <1>3, <1>5, <1>6, <1>7, <1>8 DEF RunInv, DeliveredInOrder

\* What the type invariant says of the caller's money.
MoneyTyped ==
    /\ held \in [1..Steps -> Int] /\ unsettled \subseteq 1..Steps /\ free \subseteq 1..Steps
    /\ escaped \subseteq 1..Steps /\ cut \subseteq 1..Steps

\* Whoever works on the run owns it, and the steps before its own are delivered.
LEMMA WorkerOwns ==
  ASSUME RunInv, NEW h \in Handlers, job[h].pc \in Working
  PROVE  /\ job[h] \in Job /\ FrontierAt(job[h]) /\ OwnedAs(h, job[h]) /\ MoneyTyped
         /\ DeliveredTo(job[h].at) /\ job \in [Handlers -> Job]
         /\ \A g \in Handlers : job[g].pc \in Working => g = h
BY DEF RunInv, TypeOK, Frontier, Owned, OneWorker, MoneyTyped

\* A worker that only moves its label keeps the rest of its record.
LEMMA GotoMoves ==
  ASSUME RunInv, NEW h \in Handlers, job[h].pc \in Working, NEW label \in Labels, Goto(h, label)
  PROVE  /\ job' = [job EXCEPT ![h] = job'[h]] /\ job'[h] \in Job
         /\ job'[h].at = job[h].at /\ job'[h].first = job[h].first
         /\ job'[h].uncounted = job[h].uncounted /\ job'[h].retried = job[h].retried
         /\ job'[h].charged = job[h].charged
         /\ job'[h].pc = label
<1>1. job[h] \in Job /\ job \in [Handlers -> Job]
  BY WorkerOwns
<1>2. job'[h] = [job[h] EXCEPT !.pc = label] /\ job' = [job EXCEPT ![h] = job'[h]]
  BY <1>1 DEF Goto
<1> QED
  BY <1>1, <1>2 DEF Job

\* The worker goes on at the same step.
LEMMA MoveKeepsInv ==
  ASSUME RunInv, MoneyTyped',
         NEW h \in Handlers, job[h].pc \in Working,
         job' = [job EXCEPT ![h] = job'[h]], job'[h] \in Job, job'[h].pc \in Working,
         job'[h].at = job[h].at, FrontierAt(job'[h]), OwnedAs(h, job'[h]),
         job[h].pc \in Recorded => job'[h].pc \in Recorded,
         UNCHANGED <<ceiling, row, late, token, work, stranded, fees>>
  PROVE  RunInv'
<1> USE DEF RunInv, work
<1>0. TypeOK'
  BY DEF TypeOK, MoneyTyped
<1>1. \A g \in Handlers : job'[g].pc \in Working => g = h
  BY DEF TypeOK, OneWorker
<1>2. \A g \in Handlers \ {h} : job'[g] = job[g]
  BY DEF TypeOK
<1>3. Owned'
  BY <1>1 DEF Owned, OwnedAs
<1>4. OneWorker' /\ Claimed'
  BY <1>1, <1>2 DEF OneWorker, Claimed, Working, Pipeline, TypeOK, Owned, OwnedAs, Handlers
<1>5. Frontier' /\ Waiting'
  BY <1>1 DEF Frontier, FrontierAt, DeliveredTo, Waiting
<1>6. FeeIsLast' /\ Unstranded'
  BY <1>1, <1>2 DEF FeeIsLast, Quiet, Unstranded
<1>7. DeliveredInOrder' /\ FeeOnWholeRun' /\ StrandedOnce'
  BY DEF DeliveredInOrder, EachStepOnce, WithinCeiling, FeeOnWholeRun, StrandedOnce
<1> QED
  BY <1>0, <1>3, <1>4, <1>5, <1>6, <1>7

\* The handler of h is over: the first half is done, a resume may be asked for again.
Left(h) ==
    /\ job' = [job EXCEPT ![h] = job'[h]] /\ job'[h] \in Job
    /\ job'[h].pc \in {"idle", "done"} /\ (h = Compose => job'[h].pc = "done")

LEMMA LeaveIsLeft == ASSUME TypeOK, NEW h \in Handlers, Leave(h) PROVE Left(h)
<1>1. [job[h] EXCEPT !.pc = "done"] \in Job /\ Fresh \in Job
  BY DEF TypeOK, Job, Labels, Fresh, Start
<1> QED
  BY <1>1 DEF Leave, Left, TypeOK, Fresh, Start

\* The worker leaves: its request is over.
LEMMA LeaveKeepsInv ==
  ASSUME RunInv, MoneyTyped',
         NEW h \in Handlers, job[h].pc \in Working, Left(h),
         row' = row \/ (h \in Resumes /\ Settle("failed")),
         UNCHANGED <<ceiling, late, token, work, stranded, fees>>
  PROVE  RunInv'
<1> USE RunAssumption DEF RunInv, work
<1>1. \A g \in Handlers : job'[g].pc \notin Working
  BY DEF TypeOK, OneWorker, Left, Working, Pipeline
<1>2. Owned' /\ OneWorker' /\ Frontier'
  BY <1>1 DEF Owned, OneWorker, Frontier
<1>3. row'.next = row.next /\ row'.status \in {row.status, "failed"} /\ (row.status # "resuming" => row' = row)
  BY DEF Settle, TypeOK
<1>4. Claimed'
  BY <1>3 DEF Claimed, Left, TypeOK, Handlers
<1>5. Waiting' /\ FeeIsLast' /\ Unstranded'
  BY <1>1, <1>3 DEF Waiting, DeliveredTo, FeeIsLast, Quiet, Unstranded
<1>6. DeliveredInOrder' /\ FeeOnWholeRun' /\ StrandedOnce'
  BY <1>3 DEF DeliveredInOrder, EachStepOnce, WithinCeiling, FeeOnWholeRun, StrandedOnce
<1>7. TypeOK'
  <2>1. job' \in [Handlers -> Job]
    BY DEF TypeOK, Left
  <2>2. row' \in [status : {"none", "suspended", "resuming", "resumed", "failed", "expired"},
                  next : Nat]
    BY DEF TypeOK, Settle
  <2> QED
    BY <2>1, <2>2 DEF TypeOK, MoneyTyped
<1> QED
  BY <1>2, <1>4, <1>5, <1>6, <1>7

\* The checks before the debit of a step.
LEMMA BeginKeeps == ASSUME RunInv, NEW h \in Handlers, BeginStep(h) PROVE RunInv'
<1> USE DEF BeginStep, Affordable, PreSpent, TotalCost, Current
<1>1. job[h].pc \in Working
  BY DEF Working, Pipeline
<1>2. /\ job' = [job EXCEPT ![h] = job'[h]] /\ job'[h] \in Job
      /\ job'[h].at = job[h].at /\ job'[h].first = job[h].first /\ job[h].at <= Steps
      /\ ~job'[h].uncounted /\ ~job[h].uncounted
      /\ job'[h].pc \in {"debit", "invoke", "failed", "thrown"}
      /\ job'[h].pc = "debit" => job[h].at > job[h].first
      /\ job'[h].pc \in {"debit", "invoke"} => job[h].at <= ceiling
  <2>1. job[h] \in Job /\ job \in [Handlers -> Job] /\ FrontierAt(job[h])
    BY <1>1, WorkerOwns
  <2>2. ~job[h].uncounted
    BY <2>1 DEF FrontierAt, Recorded
  <2>3. Affordable(h) => job[h].at <= ceiling
    BY <2>1, <2>2 DEF Job, RunInv, TypeOK
  <2>4. /\ job' = [job EXCEPT ![h] = job'[h]]
        /\ \/ /\ job[h].at <= ceiling
              /\ job'[h] = [job[h] EXCEPT !.retried = FALSE,
                              !.pc = IF job[h].at > job[h].first THEN "debit" ELSE "invoke"]
           \/ \E pc \in {"failed", "thrown"} : job'[h] = [job[h] EXCEPT !.pc = pc]
    BY <2>1, <2>3 DEF Goto
  <2>5. job'[h] \in Job
    BY <2>1, <2>4 DEF Job, Labels, Working, Pipeline
  <2>6. job[h].at \in Nat /\ job[h].first \in Nat /\ job[h].at >= job[h].first
    BY <2>1, RunAssumption DEF Job, FrontierAt
  <2> HIDE DEF Affordable
  <2> QED
    BY <2>1, <2>2, <2>4, <2>5, <2>6 DEF Job
<1>3. FrontierAt(job'[h])
  BY <1>1, <1>2, WorkerOwns, RunAssumption DEF FrontierAt, Recorded, Job
<1>4. OwnedAs(h, job'[h])
  BY <1>1, <1>2, WorkerOwns DEF OwnedAs, Delivering
<1>5. MoneyTyped'
  BY <1>1, WorkerOwns DEF MoneyTyped, money
<1> QED
  BY <1>1, <1>2, <1>3, <1>4, <1>5, MoveKeepsInv DEF Working, Pipeline, Recorded

\* The loop debits a step.
LEMMA DebitKeeps == ASSUME RunInv, NEW h \in Handlers, DebitStep(h) PROVE RunInv'
<1> USE DEF DebitStep, Debit, Charge, Doubt
<1>1. job[h].pc \in Working
  BY DEF Working, Pipeline
<1>2. /\ job' = [job EXCEPT ![h] = job'[h]] /\ job'[h] \in Job
      /\ job'[h].at = job[h].at /\ job'[h].first = job[h].first
      /\ job'[h].uncounted = job[h].uncounted /\ job'[h].retried = job[h].retried
      /\ job'[h].pc \in {"invoke", "failed"}
  BY <1>1, WorkerOwns DEF Job, Labels, Working, Pipeline, Goto
<1>3. FrontierAt(job'[h])
  BY <1>1, <1>2, WorkerOwns, RunAssumption DEF FrontierAt, Recorded, Job
<1>4. OwnedAs(h, job'[h])
  BY <1>1, <1>2, WorkerOwns DEF OwnedAs, Delivering
<1>5. MoneyTyped'
  <2>1. MoneyTyped /\ job[h].at \in 1..Steps
    BY <1>1, WorkerOwns, RunAssumption DEF MoneyTyped, FrontierAt
  <2>2. /\ held' = held \/ held' = [held EXCEPT ![job[h].at] = @ + 1]
        /\ unsettled' = unsettled \/ unsettled' = unsettled \cup {job[h].at}
        /\ UNCHANGED <<free, escaped, cut>>
    OBVIOUS
  <2> HIDE DEF DebitStep
  <2>3. held' \in [1..Steps -> Int]
    BY <2>1, <2>2 DEF MoneyTyped
  <2>4. unsettled' \subseteq 1..Steps
    BY <2>1, <2>2 DEF MoneyTyped
  <2> QED
    BY <2>1, <2>2, <2>3, <2>4 DEF MoneyTyped
<1> QED
  BY <1>1, <1>2, <1>3, <1>4, <1>5, MoveKeepsInv DEF Working, Pipeline, Recorded

\* The agent does not deliver.
LEMMA AgentFailsKeeps == ASSUME RunInv, NEW h \in Handlers, AgentFails(h) PROVE RunInv'
<1> USE DEF AgentFails
<1>1. job[h].pc \in Working
  BY DEF Working, Pipeline
<1>2. /\ job' = [job EXCEPT ![h] = job'[h]] /\ job'[h] \in Job
      /\ job'[h].at = job[h].at /\ job'[h].first = job[h].first
      /\ job'[h].uncounted = job[h].uncounted /\ job'[h].retried = job[h].retried
      /\ job'[h].pc \in {"refund", "failed"}
      /\ job'[h].pc = "refund" => job[h].at > job[h].first
  <2> DEFINE label == IF MasterPath /\ job[h].at > job[h].first THEN "refund" ELSE "failed"
  <2>1. label \in Labels /\ label \in {"refund", "failed"} /\ (label = "refund" => job[h].at > job[h].first)
    BY DEF Labels, Working, Pipeline
  <2>2. Goto(h, label)
    OBVIOUS
  <2> QED
    BY <1>1, <2>1, <2>2, GotoMoves
<1>3. FrontierAt(job'[h])
  BY <1>1, <1>2, WorkerOwns, RunAssumption DEF FrontierAt, Recorded, Job
<1>4. OwnedAs(h, job'[h])
  BY <1>1, <1>2, WorkerOwns DEF OwnedAs, Delivering
<1>5. MoneyTyped'
  BY <1>1, WorkerOwns DEF MoneyTyped, money
<1> QED
  BY <1>1, <1>2, <1>3, <1>4, <1>5, MoveKeepsInv DEF Working, Pipeline, Recorded

\* The loop gives a debit back.
LEMMA RefundKeeps == ASSUME RunInv, NEW h \in Handlers, RefundStep(h) PROVE RunInv'
<1> USE DEF RefundStep, Refund, GiveBack, Doubt
<1>1. job[h].pc \in Working
  BY DEF Working, Pipeline
<1>2. /\ job' = [job EXCEPT ![h] = job'[h]] /\ job'[h] \in Job
      /\ job'[h].at = job[h].at /\ job'[h].first = job[h].first
      /\ job'[h].uncounted = job[h].uncounted /\ (job'[h].retried = job[h].retried \/ job'[h].retried)
      /\ job'[h].pc = "retry" => ~job[h].retried
      /\ job'[h].pc \in {"failed", "retry"}
  BY <1>1, WorkerOwns DEF Job, Labels, Working, Pipeline, Goto
<1>3. FrontierAt(job'[h])
  BY <1>1, <1>2, WorkerOwns, RunAssumption DEF FrontierAt, Recorded, Job
<1>4. OwnedAs(h, job'[h])
  BY <1>1, <1>2, WorkerOwns DEF OwnedAs, Delivering
<1>5. MoneyTyped'
  <2>1. MoneyTyped /\ job[h].at \in 1..Steps /\ Current(h) \in 1..Steps
    BY <1>1, WorkerOwns, RunAssumption DEF MoneyTyped, FrontierAt, Current
  <2> QED
    BY <2>1 DEF MoneyTyped
<1> QED
  BY <1>1, <1>2, <1>3, <1>4, <1>5, MoveKeepsInv DEF Working, Pipeline, Recorded

\* The loop is over.
LEMMA FinishKeeps == ASSUME RunInv, NEW h \in Handlers, FinishLoop(h) PROVE RunInv'
<1> USE DEF FinishLoop
<1>1. job[h].pc \in Working
  BY DEF Working, Pipeline
<1>2. /\ job' = [job EXCEPT ![h] = job'[h]] /\ job'[h] \in Job
      /\ job'[h].at = job[h].at /\ job'[h].first = job[h].first
      /\ job'[h].uncounted = job[h].uncounted
      /\ job'[h].charged = job[h].charged
      /\ job'[h].pc \in {"succeeded"}
  <2>1. "succeeded" \in Labels /\ Goto(h, "succeeded")
    BY DEF Labels, Working, Pipeline
  <2> QED
    BY <1>1, <2>1, GotoMoves
<1>3. FrontierAt(job'[h])
  <2>1. FrontierAt(job[h]) /\ job[h] \in Job
    BY <1>1, WorkerOwns
  <2> QED
    BY <1>2, <2>1, RunAssumption DEF FrontierAt, Job, Recorded
<1>4. OwnedAs(h, job'[h])
  BY <1>1, <1>2, WorkerOwns DEF OwnedAs, Delivering
<1>5. MoneyTyped'
  BY <1>1, WorkerOwns DEF MoneyTyped, money
<1> QED
  BY <1>1, <1>2, <1>3, <1>4, <1>5, MoveKeepsInv DEF Working, Pipeline, Recorded

\* The failure branch gives the first debit back.
LEMMA GiveBackKeeps == ASSUME RunInv, NEW h \in Handlers, GiveBackFirst(h) PROVE RunInv'
<1>1. job[h].pc \in Working /\ h \in Handlers
  BY DEF Working, Pipeline, Handlers, GiveBackFirst
<1>2. /\ job[h].first \in 1 .. (Steps + 1) /\ job[h].at \in 1 .. (Steps + 1)
      /\ job[h].charged => job[h].first \in 1..Steps
      /\ MoneyTyped /\ 1 \in 1..Steps
  BY <1>1, WorkerOwns, RunAssumption DEF FrontierAt
<1>3. MoneyTyped'
  <2>1. /\ held' = held \/ held' = [held EXCEPT ![job[h].first] = @ - 1]
        /\ unsettled' = unsettled \/ (job[h].charged /\ unsettled' = unsettled \cup {job[h].first})
        /\ UNCHANGED <<free, escaped, cut>>
    BY DEF GiveBackFirst, RefundFirst, Refundable, Refund, GiveBack, Doubt
  <2>2. held' \in [1..Steps -> Int]
    BY <1>2, <2>1 DEF MoneyTyped
  <2>3. unsettled' \subseteq 1..Steps
    BY <1>2, <2>1 DEF MoneyTyped
  <2> QED
    BY <1>2, <2>1, <2>2, <2>3 DEF MoneyTyped
<1>4. /\ Leave(h) /\ (row' = row \/ (h \in Resumes /\ Settle("failed")))
      /\ UNCHANGED <<ceiling, late, token, work, stranded, fees>>
  BY DEF GiveBackFirst
<1> QED
  BY <1>1, <1>3, <1>4, LeaveIsLeft, LeaveKeepsInv DEF RunInv

\* The debit of a request that timed out is given back.
LEMMA OrphanKeeps == ASSUME RunInv, OrphanedDebit PROVE RunInv'
<1>1. job[Compose].pc \in Working /\ Compose \in Handlers
  BY DEF Working, Pipeline, Handlers, OrphanedDebit
<1>2. /\ job[Compose].first \in 1 .. (Steps + 1) /\ job[Compose].at \in 1 .. (Steps + 1)
      /\ job[Compose].charged => job[Compose].first \in 1..Steps
      /\ MoneyTyped /\ 1 \in 1..Steps
  BY <1>1, WorkerOwns, RunAssumption DEF FrontierAt
<1>3. MoneyTyped'
  BY <1>2 DEF MoneyTyped, money, OrphanedDebit, Refund, GiveBack, Doubt
<1>4. /\ Leave(Compose) /\ (row' = row \/ (Compose \in Resumes /\ Settle("failed")))
      /\ UNCHANGED <<ceiling, late, token, work, stranded, fees>>
  BY DEF OrphanedDebit
<1> QED
  BY <1>1, <1>3, <1>4, LeaveIsLeft, LeaveKeepsInv DEF RunInv

\* The process dies.
LEMMA DieKeeps == ASSUME RunInv, NEW h \in Handlers, Die(h) PROVE RunInv'
<1>1. job[h].pc \in Working /\ h \in Handlers
  BY DEF Working, Pipeline, Handlers, Die
<1>2. /\ job[h].first \in 1 .. (Steps + 1) /\ job[h].at \in 1 .. (Steps + 1)
      /\ job[h].charged => job[h].first \in 1..Steps
      /\ MoneyTyped /\ 1 \in 1..Steps
  BY <1>1, WorkerOwns, RunAssumption DEF FrontierAt
<1>3. MoneyTyped'
  <2>1. /\ UNCHANGED <<held, unsettled, free, escaped>>
        /\ cut' \subseteq cut \cup ({job[h].at} \cap 1..Steps)
    BY <1>2, RunAssumption DEF Die, money
  <2> QED
    BY <1>2, <2>1 DEF MoneyTyped
<1>4. /\ Leave(h) /\ (row' = row \/ (h \in Resumes /\ Settle("failed")))
      /\ UNCHANGED <<ceiling, late, token, work, stranded, fees>>
  BY DEF Die
<1> QED
  BY <1>1, <1>3, <1>4, LeaveIsLeft, LeaveKeepsInv DEF RunInv

\* A resume that was not charged closes its row.
LEMMA RefuseKeeps == ASSUME RunInv, NEW h \in Handlers, RefuseResume(h) PROVE RunInv'
<1>1. job[h].pc \in Working /\ h \in Handlers
  BY DEF Working, Pipeline, Handlers, RefuseResume
<1>2. /\ job[h].first \in 1 .. (Steps + 1) /\ job[h].at \in 1 .. (Steps + 1)
      /\ job[h].charged => job[h].first \in 1..Steps
      /\ MoneyTyped /\ 1 \in 1..Steps
  BY <1>1, WorkerOwns, RunAssumption DEF FrontierAt
<1>3. MoneyTyped'
  BY <1>2 DEF MoneyTyped, money, RefuseResume
<1>4. /\ Leave(h) /\ (row' = row \/ (h \in Resumes /\ Settle("failed")))
      /\ UNCHANGED <<ceiling, late, token, work, stranded, fees>>
  BY <1>1, WorkerOwns DEF RefuseResume, money, OwnedAs, Handlers
<1> QED
  BY <1>1, <1>3, <1>4, LeaveIsLeft, LeaveKeepsInv DEF RunInv

\* The middleware charges the first step, or the request has timed out before.
LEMMA ChargeFirstKeeps == ASSUME RunInv, ChargeFirst PROVE RunInv'
<1> DEFINE h == Compose
<1> USE RunAssumption DEF ChargeFirst, Debit, Charge, Doubt, Goto
<1>1. h \in Handlers /\ job[h].pc \in Working
  BY DEF Working, Pipeline, Handlers
<1>2. job[h] \in Job /\ FrontierAt(job[h]) /\ OwnedAs(h, job[h]) /\ MoneyTyped
      /\ job \in [Handlers -> Job]
  BY <1>1, WorkerOwns
<1>3. MoneyTyped'
  BY <1>2 DEF MoneyTyped
<1>4. /\ job' = [job EXCEPT ![h] = job'[h]] /\ job'[h] \in Job
      /\ job'[h].at = 1 /\ job'[h].first = 1 /\ job[h].at = 1 /\ ~job'[h].uncounted
      /\ job'[h].pc \in {"orphaned", "loop", "done"}
  BY <1>1, <1>2 DEF Job, Labels, Working, Pipeline, FrontierAt, OwnedAs, Recorded
<1>5. CASE job'[h].pc = "done"
  BY <1>1, <1>3, <1>4, <1>5, LeaveKeepsInv DEF Left
<1>6. CASE job'[h].pc # "done"
  <2>1. FrontierAt(job'[h]) /\ OwnedAs(h, job'[h])
    BY <1>2, <1>4, <1>6 DEF FrontierAt, OwnedAs, Delivering
  <2> QED
    BY <1>1, <1>3, <1>4, <1>6, <2>1, MoveKeepsInv DEF Working, Pipeline, Recorded
<1> QED
  BY <1>5, <1>6

\* A resume charges its first step, finds nothing to charge, or cannot.
LEMMA ChargeResumedKeeps == ASSUME RunInv, NEW h \in Handlers, ChargeResumed(h) PROVE RunInv'
<1> USE RunAssumption DEF ChargeResumed
<1>1. job[h].pc \in Working /\ h # Compose
  BY DEF Working, Pipeline
<1>2. job[h] \in Job /\ FrontierAt(job[h]) /\ OwnedAs(h, job[h]) /\ MoneyTyped
      /\ job \in [Handlers -> Job]
  BY <1>1, WorkerOwns
<1>3. MoneyTyped'
  <2>1. /\ held' = held \/ (job[h].at <= Steps /\ held' = [held EXCEPT ![job[h].at] = @ + 1])
        /\ unsettled' = unsettled \/ (job[h].at <= Steps /\ unsettled' = unsettled \cup {job[h].at})
        /\ free' = free \/ free' = free \cup ({job[h].at} \cap 1..Steps)
        /\ UNCHANGED <<escaped, cut>>
    BY DEF Debit, Charge, Doubt, money
  <2>2. job[h].at <= Steps => job[h].at \in 1..Steps
    BY <1>2 DEF FrontierAt
  <2>3. held' \in [1..Steps -> Int]
    BY <1>2, <2>1, <2>2 DEF MoneyTyped
  <2>4. unsettled' \subseteq 1..Steps /\ free' \subseteq 1..Steps
    BY <1>2, <2>1, <2>2 DEF MoneyTyped
  <2> QED
    BY <1>2, <2>1, <2>3, <2>4 DEF MoneyTyped
<1>4. /\ job' = [job EXCEPT ![h] = job'[h]] /\ job'[h] \in Job
      /\ job'[h].at = job[h].at /\ job'[h].first = job[h].first /\ job[h].first = job[h].at
      /\ ~job'[h].uncounted
      /\ job'[h].charged => job[h].charged \/ job[h].at <= Steps
      /\ job'[h].pc \in {"refused", "reopen", "loop"}
  BY <1>1, <1>2 DEF Debit, Goto, Job, Labels, Working, Pipeline, FrontierAt, Recorded
<1>5. FrontierAt(job'[h]) /\ OwnedAs(h, job'[h])
  BY <1>1, <1>2, <1>4 DEF FrontierAt, OwnedAs, Delivering
<1> QED
  BY <1>1, <1>3, <1>4, <1>5, MoveKeepsInv DEF Working, Pipeline, Recorded

\* The 504 is sent.
LEMMA TimeoutKeeps == ASSUME RunInv, NEW h \in Handlers, Timeout(h) PROVE RunInv'
<1> USE DEF Timeout
<1>1. job[h].pc \in Working
  BY DEF Working, Pipeline
<1>2. job[h] \in Job /\ FrontierAt(job[h]) /\ OwnedAs(h, job[h]) /\ job \in [Handlers -> Job]
  BY <1>1, WorkerOwns
<1>3. MoneyTyped'
  BY <1>1, WorkerOwns DEF MoneyTyped, money
<1>4. /\ job' = [job EXCEPT ![h] = job'[h]] /\ job'[h] \in Job
      /\ job'[h].at = job[h].at /\ job'[h].first = job[h].first
      /\ job'[h].uncounted = job[h].uncounted /\ job'[h].retried = job[h].retried
      /\ job'[h].charged = job[h].charged /\ job'[h].pc = job[h].pc
  BY <1>2 DEF Job
<1>5. FrontierAt(job'[h]) /\ OwnedAs(h, job'[h])
  BY <1>2, <1>4 DEF FrontierAt, OwnedAs
<1> QED
  BY <1>1, <1>3, <1>4, <1>5, MoveKeepsInv

\* The handler finds the 504 sent and gives its first debit back.
LEMMA TimedOutKeeps == ASSUME RunInv, NEW h \in Handlers, TimedOut(h) PROVE RunInv'
<1> USE RunAssumption
<1>1. job[h].pc \in {"timedOut", "succeeded", "suspended"} /\ job[h].pc \in Working
  BY DEF TimedOut, Working, Pipeline
<1>2. job[h] \in Job /\ FrontierAt(job[h]) /\ OwnedAs(h, job[h]) /\ MoneyTyped
      /\ job \in [Handlers -> Job]
  BY <1>1, WorkerOwns
<1>3. MoneyTyped'
  <2>1. /\ held' = held \/ held' = [held EXCEPT ![job[h].first] = @ - 1]
        /\ unsettled' = unsettled \/ (job[h].charged /\ unsettled' = unsettled \cup {job[h].first})
        /\ UNCHANGED <<free, escaped, cut>>
    BY DEF TimedOut, RefundFirst, Refundable, Refund, GiveBack, Doubt
  <2>2. job[h].charged => job[h].first \in 1..Steps
    BY <1>2 DEF FrontierAt
  <2>3. held' \in [1..Steps -> Int]
    BY <1>2, <2>1 DEF MoneyTyped
  <2>4. unsettled' \subseteq 1..Steps
    BY <1>2, <2>1, <2>2 DEF MoneyTyped
  <2> QED
    BY <1>2, <2>1, <2>3, <2>4 DEF MoneyTyped
<1>4. CASE h = Compose
  BY <1>1, <1>2, <1>3, <1>4, LeaveIsLeft, LeaveKeepsInv DEF TimedOut, RunInv
<1>5. CASE h # Compose
  <2>1. /\ job' = [job EXCEPT ![h] = job'[h]] /\ job'[h] \in Job
        /\ job'[h].at = job[h].at /\ job'[h].first = job[h].first
        /\ job'[h].uncounted = job[h].uncounted /\ job'[h].retried = job[h].retried
        /\ job'[h].charged = job[h].charged /\ job'[h].pc = "refused"
    BY <1>2, <1>5 DEF TimedOut, Goto, Job, Labels, Working
  <2>2. FrontierAt(job'[h]) /\ OwnedAs(h, job'[h])
    BY <1>1, <1>2, <1>5, <2>1 DEF FrontierAt, OwnedAs, Recorded
  <2> QED
    BY <1>1, <1>3, <2>1, <2>2, MoveKeepsInv DEF TimedOut, Working, Recorded
<1> QED
  BY <1>4, <1>5

\* The worker goes on, and changes what the run has done or its row.
LEMMA WorkKeepsInv ==
  ASSUME RunInv, TypeOK',
         NEW h \in Handlers, job[h].pc \in Working,
         job' = [job EXCEPT ![h] = job'[h]], job'[h].pc \in Working,
         FrontierAt(job[h])', DeliveredTo(job[h].at)', OwnedAs(h, job[h])', Waiting',
         row.status # "none" => row'.status # "none",
         Unstranded', DeliveredInOrder', StrandedOnce', UNCHANGED <<token, fees>>
  PROVE  RunInv'
<1>1. \A g \in Handlers : job'[g].pc \in Working => g = h
  BY DEF RunInv, TypeOK, OneWorker
<1>2. Owned' /\ OneWorker' /\ Frontier'
  BY <1>1 DEF Owned, OneWorker, Frontier
<1>3. h = Compose => ~token
  BY DEF RunInv, Claimed, Working, Pipeline
<1>4. Claimed'
  BY <1>3 DEF RunInv, Claimed, TypeOK, Working, Pipeline, Handlers
<1>5. fees = 0
  BY DEF RunInv, FeeIsLast, Quiet, TypeOK
<1>6. FeeIsLast' /\ FeeOnWholeRun'
  BY <1>5 DEF FeeIsLast, FeeOnWholeRun
<1> QED
  BY <1>2, <1>4, <1>6 DEF RunInv

\* The worker leaves, and changes what the run has done or its row.
LEMMA GoneKeepsInv ==
  ASSUME RunInv, TypeOK', NEW h \in Handlers, job[h].pc \in Working, Left(h),
         Waiting', token' => job'[Compose].pc = "done" /\ row'.status # "none",
         token => token', fees' > 0 => row'.status # "suspended",
         token' /\ row'.status \in {"suspended", "resumed"} => \A i \in 1..Steps : stranded'[i] = 0,
         DeliveredInOrder', FeeOnWholeRun', StrandedOnce'
  PROVE  RunInv'
<1>1. \A g \in Handlers : job'[g].pc \notin Working
  BY DEF RunInv, TypeOK, OneWorker, Left, Working, Pipeline
<1>2. Owned' /\ OneWorker' /\ Frontier' /\ FeeIsLast' /\ Unstranded'
  BY <1>1 DEF Owned, OneWorker, Frontier, FeeIsLast, Quiet, Unstranded
<1>3. Claimed'
  BY DEF RunInv, Claimed, Left, TypeOK
<1> QED
  BY <1>2, <1>3 DEF RunInv

\* Before the run's outcome is recorded nothing was stranded and no fee charged.
LEMMA NothingRecorded ==
  ASSUME RunInv, NEW h \in Handlers, job[h].pc \in Working \ Recorded
  PROVE  fees = 0 /\ \A i \in 1..Steps : stranded[i] = 0
BY DEF RunInv, FeeIsLast, Quiet, TypeOK, Unstranded

\* An answer is accepted: the worker's next step is the first one not delivered.
LEMMA DeliveryKeepsInv ==
  ASSUME RunInv, NEW h \in Handlers, job[h].pc = "invoke",
         job' = [job EXCEPT ![h] = job'[h]], job'[h] \in Job, job'[h].pc \in Working,
         job'[h].at = job[h].at + 1, FrontierAt(job'[h]), OwnedAs(h, job'[h]),
         delivered' = [delivered EXCEPT ![job[h].at] = @ + 1],
         paid' \in {paid, paid \cup {job[h].at}},
         UNCHANGED <<ceiling, row, late, token, money, stranded, fees, left>>
  PROVE  RunInv'
<1> USE RunAssumption
<1>1. job[h].pc \in Working \ Recorded
  BY DEF Working, Pipeline, Recorded
<1>2. FrontierAt(job[h]) /\ OwnedAs(h, job[h]) /\ DeliveredTo(job[h].at)
      /\ job \in [Handlers -> Job]
  BY <1>1, WorkerOwns
<1>3. fees = 0 /\ \A i \in 1..Steps : stranded[i] = 0
  BY <1>1, NothingRecorded
<1>4. job[h].at \in 1..Steps /\ job[h].at <= ceiling
  BY <1>2 DEF FrontierAt
<1>5. delivered \in [1..Steps -> Nat] /\ paid \subseteq 1..Steps /\ ceiling \in Nat
  BY DEF RunInv, TypeOK
<1>6. \A i \in 1..Steps : delivered'[i] = IF i < job'[h].at THEN 1 ELSE 0
  <2>1. \A i \in 1..Steps : delivered[i] = IF i < job[h].at THEN 1 ELSE 0
    BY <1>2 DEF DeliveredTo
  <2> QED
    BY <1>4, <1>5, <2>1
<1>7. DeliveredTo(job[h].at)' /\ EachStepOnce'
  BY <1>4, <1>6 DEF DeliveredTo, EachStepOnce
<1>8. WithinCeiling'
  BY <1>4, <1>5, <1>6 DEF RunInv, DeliveredInOrder, WithinCeiling
<1>9. row.status # "suspended" /\ FrontierAt(job[h])' /\ OwnedAs(h, job[h])'
  <2>1. row.status # "suspended"
    BY <1>2 DEF OwnedAs, Delivering
  <2>2. FrontierAt(job[h])' /\ OwnedAs(h, job[h])'
    BY DEF FrontierAt, OwnedAs
  <2> QED
    BY <2>1, <2>2
<1>10. TypeOK'
  <2>1. job' \in [Handlers -> Job]
    BY <1>2
  <2>2. delivered' \in [1..Steps -> Nat] /\ paid' \subseteq 1..Steps
    BY <1>4, <1>5
  <2>3. late' = late /\ UNCHANGED <<held, unsettled, free, escaped, cut>>
    BY DEF money
  <2> QED
    BY <2>1, <2>2, <2>3 DEF RunInv, TypeOK
<1>11. paid \subseteq paid'
  OBVIOUS
<1>12. Waiting' /\ Unstranded' /\ StrandedOnce'
  BY <1>3, <1>9, <1>11 DEF RunInv, Waiting, Unstranded, StrandedOnce, TypeOK
<1> QED
  BY <1>1, <1>3, <1>7, <1>8, <1>9, <1>10, <1>12, WorkKeepsInv DEF DeliveredInOrder

\* The agent delivers, and its step is counted.
LEMMA AnswerKeeps == ASSUME RunInv, NEW h \in Handlers, AgentAnswers(h) PROVE RunInv'
<1> USE RunAssumption
<1>1. job[h].pc = "invoke" /\ job[h].pc \in Working
  BY DEF AgentAnswers, Working, Pipeline
<1>2. job[h] \in Job /\ FrontierAt(job[h]) /\ OwnedAs(h, job[h])
      /\ job \in [Handlers -> Job]
  BY <1>1, WorkerOwns
<1>3. ~job[h].uncounted
  BY <1>1, <1>2 DEF FrontierAt, Recorded
<1>4. /\ job' = [job EXCEPT ![h] = job'[h]] /\ job'[h] \in Job
      /\ job'[h].at = job[h].at + 1 /\ job'[h].first = job[h].first
      /\ job'[h].charged = job[h].charged /\ ~job'[h].uncounted
      /\ job'[h].pc \in (IF h = Compose THEN {"loop", "open"} ELSE {"loop"})
  BY <1>2, <1>3 DEF AgentAnswers, Job, Labels, Working, Pipeline
<1>5. row' = row /\ token' = token /\ ceiling' = ceiling
  BY DEF AgentAnswers
<1>6. FrontierAt(job'[h])
  BY <1>1, <1>2, <1>4 DEF FrontierAt
<1>7. OwnedAs(h, job'[h])
  BY <1>1, <1>2, <1>4 DEF OwnedAs, Delivering
<1>8. job'[h].pc \in Working
  BY <1>4 DEF Working, Pipeline
<1> QED
  BY <1>1, <1>4, <1>6, <1>7, <1>8, DeliveryKeepsInv DEF AgentAnswers

\* The agent delivers, and the lookup of the next one fails the step.
LEMMA LookupKeeps == ASSUME RunInv, NEW h \in Handlers, LookupFails(h) PROVE RunInv'
<1> USE RunAssumption
<1>1. job[h].pc = "invoke" /\ job[h].pc \in Working /\ job[h].at < Steps
  BY DEF LookupFails, Working, Pipeline
<1>2. job[h] \in Job /\ FrontierAt(job[h]) /\ OwnedAs(h, job[h])
      /\ job \in [Handlers -> Job]
  BY <1>1, WorkerOwns
<1>3. /\ job' = [job EXCEPT ![h] = job'[h]] /\ job'[h] \in Job
      /\ job'[h].at = job[h].at + 1 /\ job'[h].first = job[h].first
      /\ job'[h].charged = job[h].charged /\ job'[h].uncounted /\ job'[h].retried
      /\ job'[h].pc \in {"refund", "failed"}
  BY <1>2 DEF LookupFails, Job, Labels, Working, Pipeline
<1>4. FrontierAt(job'[h])
  BY <1>1, <1>2, <1>3 DEF FrontierAt, Job
<1>5. OwnedAs(h, job'[h])
  BY <1>1, <1>2, <1>3 DEF OwnedAs, Delivering
<1>6. job'[h].pc \in Working
  BY <1>3 DEF Working, Pipeline
<1> QED
  BY <1>1, <1>3, <1>4, <1>5, <1>6, DeliveryKeepsInv DEF LookupFails

\* The row of the suspension remembers the frontier.
LEMMA OpenKeeps == ASSUME RunInv, NEW h \in Handlers, Open(h) PROVE RunInv'
<1> USE RunAssumption
<1>1. job[h].pc = "open" /\ job[h].pc \in Working \ Recorded
  BY DEF Open, Working, Pipeline, Recorded
<1>2. job[h] \in Job /\ FrontierAt(job[h]) /\ OwnedAs(h, job[h]) /\ DeliveredTo(job[h].at)
      /\ job \in [Handlers -> Job]
  BY <1>1, WorkerOwns
<1>3. fees = 0 /\ \A i \in 1..Steps : stranded[i] = 0
  BY <1>1, NothingRecorded
<1>4. /\ job' = [job EXCEPT ![h] = job'[h]] /\ job'[h] \in Job
      /\ job'[h].at = job[h].at /\ job'[h].first = job[h].first
      /\ job'[h].uncounted = job[h].uncounted /\ job'[h].retried = job[h].retried
      /\ job'[h].charged = job[h].charged /\ job'[h].pc \in {"suspended", "failed"}
      /\ job'[h].pc = "suspended" => row'.status = "suspended"
      /\ row' = row \/ row' = [status |-> "suspended", next |-> job[h].at]
  BY <1>2 DEF Open, Goto, Job, Labels, Working, Pipeline
<1>5. UNCHANGED <<ceiling, late, token, held, unsettled, free, escaped, cut, delivered, paid, stranded, fees>>
  BY DEF Open, money, work
<1>6. h = Compose /\ ~token /\ row.status = "none"
  BY <1>1, <1>2 DEF OwnedAs, Delivering
<1>7. FrontierAt(job[h])' /\ OwnedAs(h, job[h])' /\ DeliveredTo(job[h].at)'
  BY <1>1, <1>2, <1>4, <1>5, <1>6 DEF FrontierAt, OwnedAs, Delivering, DeliveredTo, Recorded
<1>8. TypeOK'
  <2>1. job' \in [Handlers -> Job] /\ job[h].at \in Nat
    BY <1>2, <1>4 DEF Job
  <2>2. row' \in [status : {"none", "suspended", "resuming", "resumed", "failed", "expired"},
                  next : Nat]
    BY <1>4, <2>1 DEF RunInv, TypeOK
  <2> QED
    BY <1>5, <2>1, <2>2 DEF RunInv, TypeOK
<1>9. Waiting'
  BY <1>2, <1>4, <1>5, <1>6 DEF RunInv, Waiting, DeliveredTo, FrontierAt
<1>10. Unstranded' /\ StrandedOnce' /\ DeliveredInOrder'
  BY <1>3, <1>5 DEF RunInv, Unstranded, StrandedOnce, DeliveredInOrder, EachStepOnce, WithinCeiling
<1> QED
  BY <1>1, <1>4, <1>5, <1>6, <1>7, <1>8, <1>9, <1>10, WorkKeepsInv DEF Working, Pipeline

\* A failed half records the payments of its steps, once.
LEMMA RecordKeeps == ASSUME RunInv, NEW h \in Handlers, RecordStranded(h) PROVE RunInv'
<1> USE RunAssumption
<1>1. job[h].pc = "failed" /\ job[h].pc \in Working \ Recorded
  BY DEF RecordStranded, Working, Pipeline, Recorded
<1>2. job[h] \in Job /\ FrontierAt(job[h]) /\ OwnedAs(h, job[h]) /\ DeliveredTo(job[h].at)
      /\ job \in [Handlers -> Job]
  BY <1>1, WorkerOwns
<1>3. fees = 0 /\ \A i \in 1..Steps : stranded[i] = 0
  BY <1>1, NothingRecorded
<1>4. /\ job' = [job EXCEPT ![h] = job'[h]] /\ job'[h] \in Job
      /\ job'[h].at = job[h].at /\ job'[h].first = job[h].first
      /\ job'[h].uncounted = job[h].uncounted /\ job'[h].retried = job[h].retried
      /\ job'[h].charged = job[h].charged /\ job'[h].pc \in {"timedOut", "unwind"}
  BY <1>2 DEF RecordStranded, Goto, Job, Labels, Working, Pipeline
<1>5. UNCHANGED <<ceiling, late, token, held, unsettled, free, escaped, cut, delivered, paid, row, fees>>
  BY DEF RecordStranded, money, work
<1>6. stranded' \in [1..Steps -> Nat] /\ \A i \in 1..Steps : stranded'[i] <= 1 /\ (stranded'[i] = 1 => i \in paid)
  <2>1. \/ stranded' = stranded
        \/ stranded' = [i \in 1..Steps |->
                           stranded[i] + IF i \in Results(h) \cap paid THEN 1 ELSE 0]
    BY DEF RecordStranded, Strand
  <2>2. stranded \in [1..Steps -> Nat]
    BY DEF RunInv, TypeOK
  <2> QED
    BY <1>3, <2>1, <2>2
<1>7. FrontierAt(job[h])' /\ OwnedAs(h, job[h])' /\ DeliveredTo(job[h].at)'
  BY <1>1, <1>2, <1>4, <1>5 DEF FrontierAt, OwnedAs, Delivering, DeliveredTo, Recorded
<1>8. row.status # "resumed" /\ (token => row.status = "resuming")
  BY <1>1, <1>2 DEF OwnedAs, RunInv, Claimed
<1>9. TypeOK'
  BY <1>2, <1>4, <1>5, <1>6 DEF RunInv, TypeOK
<1>10. Waiting' /\ DeliveredInOrder'
  BY <1>5 DEF RunInv, Waiting, DeliveredTo, DeliveredInOrder, EachStepOnce, WithinCeiling
<1>11. Unstranded'
  <2>1. \A g \in Handlers : job'[g].pc \in Working => job'[g].pc \in Recorded
    BY <1>1, <1>2, <1>4, WorkerOwns DEF Recorded
  <2> QED
    BY <1>5, <1>8, <2>1 DEF Unstranded
<1>12. StrandedOnce'
  BY <1>5, <1>6, <1>8 DEF StrandedOnce
<1> QED
  BY <1>1, <1>4, <1>5, <1>7, <1>9, <1>10, <1>11, <1>12, WorkKeepsInv DEF Working

\* A failed resume closes its row.
LEMMA UnwindKeeps == ASSUME RunInv, NEW h \in Handlers, Unwind(h) PROVE RunInv'
<1> USE RunAssumption
<1>1. job[h].pc = "unwind" /\ job[h].pc \in Working
  BY DEF Unwind, Working
<1>2. job[h] \in Job /\ FrontierAt(job[h]) /\ OwnedAs(h, job[h]) /\ DeliveredTo(job[h].at)
      /\ job \in [Handlers -> Job]
  BY <1>1, WorkerOwns
<1>3. /\ job' = [job EXCEPT ![h] = job'[h]] /\ job'[h] \in Job
      /\ job'[h].at = job[h].at /\ job'[h].first = job[h].first
      /\ job'[h].uncounted = job[h].uncounted /\ job'[h].retried = job[h].retried
      /\ job'[h].charged = job[h].charged /\ job'[h].pc = "giveBack"
  BY <1>2 DEF Unwind, Goto, Job, Labels, Working, Pipeline
<1>4. UNCHANGED <<ceiling, late, token, held, unsettled, free, escaped, cut, delivered, paid, stranded, fees>>
  BY DEF Unwind, money, work
<1>5. /\ row'.next = row.next
      /\ row' = row \/ (h # Compose /\ row.status = "resuming" /\ row'.status = "failed")
      /\ row' \in [status : {"none", "suspended", "resuming", "resumed", "failed", "expired"},
                  next : Nat]
  BY DEF Unwind, Settle, RunInv, TypeOK
<1>6. FrontierAt(job[h])' /\ OwnedAs(h, job[h])' /\ DeliveredTo(job[h].at)'
  BY <1>1, <1>2, <1>3, <1>4, <1>5 DEF FrontierAt, OwnedAs, Delivering, DeliveredTo, Recorded
<1>7. TypeOK'
  BY <1>2, <1>3, <1>4, <1>5 DEF RunInv, TypeOK
<1>8. Waiting' /\ DeliveredInOrder' /\ StrandedOnce'
  BY <1>4, <1>5 DEF RunInv, Waiting, DeliveredTo, DeliveredInOrder, EachStepOnce, WithinCeiling,
                    StrandedOnce
<1>9. \A g \in Handlers : job'[g].pc \in Working => job'[g].pc \in Recorded
  BY <1>1, <1>2, <1>3, WorkerOwns DEF Recorded
<1>10. Unstranded'
  BY <1>4, <1>5, <1>9 DEF RunInv, Unstranded
<1> QED
  BY <1>1, <1>3, <1>4, <1>5, <1>6, <1>7, <1>8, <1>10, WorkKeepsInv DEF Working

\* A resume that succeeded closes its row.
LEMMA CloseKeeps == ASSUME RunInv, NEW h \in Handlers, CloseResumed(h) PROVE RunInv'
<1> USE RunAssumption
<1>1. job[h].pc = "succeeded" /\ job[h].pc \in Working \ Recorded /\ h # Compose
  BY DEF CloseResumed, Working, Pipeline, Recorded
<1>2. job[h] \in Job /\ FrontierAt(job[h]) /\ OwnedAs(h, job[h]) /\ DeliveredTo(job[h].at)
      /\ job \in [Handlers -> Job]
  BY <1>1, WorkerOwns
<1>3. fees = 0 /\ \A i \in 1..Steps : stranded[i] = 0
  BY <1>1, NothingRecorded
<1>4. /\ job' = [job EXCEPT ![h] = job'[h]] /\ job'[h] \in Job
      /\ job'[h].at = job[h].at /\ job'[h].first = job[h].first
      /\ job'[h].uncounted = job[h].uncounted /\ job'[h].retried = job[h].retried
      /\ job'[h].charged = job[h].charged /\ job'[h].pc = "fee"
  BY <1>2 DEF CloseResumed, Goto, Job, Labels, Working, Pipeline
<1>5. UNCHANGED <<ceiling, late, token, held, unsettled, free, escaped, cut, delivered, paid, stranded, fees>>
  BY DEF CloseResumed, money, work
<1>6. /\ row'.next = row.next
      /\ row.status = "resuming" /\ row'.status \in {"resuming", "resumed"}
      /\ row' \in [status : {"none", "suspended", "resuming", "resumed", "failed", "expired"},
                  next : Nat]
  BY <1>1, <1>2 DEF CloseResumed, Settle, RunInv, TypeOK, OwnedAs
<1>7. FrontierAt(job[h])' /\ OwnedAs(h, job[h])' /\ DeliveredTo(job[h].at)'
  BY <1>1, <1>2, <1>4, <1>5, <1>6 DEF FrontierAt, OwnedAs, Delivering, DeliveredTo, Recorded
<1>8. TypeOK'
  BY <1>2, <1>4, <1>5, <1>6 DEF RunInv, TypeOK
<1>9. Waiting' /\ DeliveredInOrder'
  BY <1>5, <1>6 DEF RunInv, Waiting, DeliveredTo, DeliveredInOrder, EachStepOnce, WithinCeiling
<1>10. Unstranded' /\ StrandedOnce'
  BY <1>3, <1>5 DEF Unstranded, StrandedOnce
<1> QED
  BY <1>1, <1>4, <1>5, <1>6, <1>7, <1>8, <1>9, <1>10, WorkKeepsInv DEF Working

\* A resume that could not be charged puts its row back.
LEMMA ReopenKeeps == ASSUME RunInv, NEW h \in Handlers, Reopen(h) PROVE RunInv'
<1> USE RunAssumption
<1>1. job[h].pc = "reopen" /\ job[h].pc \in Working \ Recorded
  BY DEF Reopen, Working, Recorded
<1>2. OwnedAs(h, job[h]) /\ DeliveredTo(job[h].at)
  BY <1>1, WorkerOwns
<1>3. fees = 0 /\ \A i \in 1..Steps : stranded[i] = 0
  BY <1>1, NothingRecorded
<1>4. Left(h)
  BY LeaveIsLeft DEF Reopen, RunInv
<1>5. UNCHANGED <<ceiling, late, token, held, unsettled, free, escaped, cut, delivered, paid, stranded, fees>>
  BY DEF Reopen, money, work
<1>6. /\ token /\ h # Compose /\ row.next = job[h].at /\ row'.next = row.next
      /\ row'.status \in {"resuming", "suspended"}
      /\ row' \in [status : {"none", "suspended", "resuming", "resumed", "failed", "expired"},
                  next : Nat]
  BY <1>1, <1>2 DEF Reopen, Settle, RunInv, TypeOK, OwnedAs
<1>7. TypeOK'
  BY <1>4, <1>5, <1>6 DEF RunInv, TypeOK, Left
<1>8. Waiting' /\ DeliveredInOrder' /\ FeeOnWholeRun' /\ StrandedOnce'
  BY <1>2, <1>3, <1>5, <1>6 DEF RunInv, Waiting, DeliveredTo, DeliveredInOrder, EachStepOnce,
                                WithinCeiling, FeeOnWholeRun, StrandedOnce
<1>9. job'[Compose].pc = "done"
  BY <1>4, <1>6 DEF RunInv, Claimed, Left, TypeOK, Handlers
<1> QED
  BY <1>1, <1>3, <1>4, <1>5, <1>6, <1>7, <1>8, <1>9, GoneKeepsInv

\* An exception ends the request, after the record of its payments.
LEMMA ThrowKeeps == ASSUME RunInv, NEW h \in Handlers, Throw(h) PROVE RunInv'
<1> USE RunAssumption
<1>1. job[h].pc = "thrown" /\ job[h].pc \in Working \ Recorded
  BY DEF Throw, Working, Pipeline, Recorded
<1>2. job[h] \in Job /\ FrontierAt(job[h]) /\ OwnedAs(h, job[h])
  BY <1>1, WorkerOwns
<1>3. fees = 0 /\ \A i \in 1..Steps : stranded[i] = 0
  BY <1>1, NothingRecorded
<1>4. Left(h)
  BY LeaveIsLeft DEF Throw, RunInv
<1>5. UNCHANGED <<ceiling, late, token, held, unsettled, free, cut, delivered, paid, row, fees>>
  BY DEF Throw, money, work
<1>6. stranded' \in [1..Steps -> Nat] /\ \A i \in 1..Steps : stranded'[i] <= 1 /\ (stranded'[i] = 1 => i \in paid)
  <2>1. \/ stranded' = stranded
        \/ stranded' = [i \in 1..Steps |->
                           stranded[i] + IF i \in Results(h) \cap paid THEN 1 ELSE 0]
    BY DEF Throw, Strand
  <2>2. stranded \in [1..Steps -> Nat]
    BY DEF RunInv, TypeOK
  <2> QED
    BY <1>3, <2>1, <2>2
<1>7. row.status # "resumed" /\ (token => row.status = "resuming")
  BY <1>1, <1>2 DEF OwnedAs, RunInv, Claimed
<1>8. escaped' \subseteq 1..Steps
  <2>1. job[h].charged => job[h].first \in 1..Steps
    BY <1>2 DEF FrontierAt
  <2> QED
    BY <2>1 DEF Throw, RunInv, TypeOK
<1>9. TypeOK'
  BY <1>4, <1>5, <1>6, <1>8 DEF RunInv, TypeOK, Left
<1>10. Waiting' /\ DeliveredInOrder' /\ FeeOnWholeRun' /\ StrandedOnce'
  BY <1>3, <1>5, <1>6, <1>7 DEF RunInv, Waiting, DeliveredTo, DeliveredInOrder, EachStepOnce,
                                WithinCeiling, FeeOnWholeRun, StrandedOnce
<1>11. token => job'[Compose].pc = "done" /\ row.status # "none"
  BY <1>1, <1>4 DEF RunInv, Claimed, Left, TypeOK, Handlers, Working, Pipeline
<1> QED
  BY <1>1, <1>3, <1>4, <1>5, <1>7, <1>9, <1>10, <1>11, GoneKeepsInv

\* The first half hands out the token.
LEMMA TokenKeeps == ASSUME RunInv, Answer202 PROVE RunInv'
<1> USE RunAssumption
<1>0. Compose \in Handlers
  BY DEF Handlers
<1>1. job[Compose].pc = "suspended" /\ job[Compose].pc \in Working \ Recorded
  BY DEF Answer202, Working, Pipeline, Recorded
<1>2. OwnedAs(Compose, job[Compose])
  BY <1>0, <1>1, WorkerOwns
<1>3. fees = 0 /\ \A i \in 1..Steps : stranded[i] = 0
  BY <1>0, <1>1, NothingRecorded
<1>4. Left(Compose)
  BY <1>0, LeaveIsLeft DEF Answer202, RunInv
<1>5. token' /\ UNCHANGED <<ceiling, late, row, held, unsettled, free, escaped, cut, delivered, paid, stranded, fees>>
  BY DEF Answer202, money, work
<1>6. row.status = "suspended"
  BY <1>1, <1>2 DEF OwnedAs
<1>7. TypeOK'
  BY <1>4, <1>5 DEF RunInv, TypeOK, Left
<1>8. Waiting' /\ DeliveredInOrder' /\ FeeOnWholeRun' /\ StrandedOnce'
  BY <1>3, <1>5 DEF RunInv, Waiting, DeliveredTo, DeliveredInOrder, EachStepOnce,
                    WithinCeiling, FeeOnWholeRun, StrandedOnce
<1>9. job'[Compose].pc = "done"
  BY <1>4 DEF Left
<1> QED
  BY <1>0, <1>1, <1>3, <1>4, <1>5, <1>6, <1>7, <1>8, <1>9, GoneKeepsInv

\* The fee of a whole pipeline.
LEMMA FeeKeeps == ASSUME RunInv, NEW h \in Handlers, ChargeFee(h) PROVE RunInv'
<1> USE RunAssumption
<1>1. job[h].pc \in {"fee", "succeeded"} /\ job[h].pc \in Working \ Recorded
      /\ (job[h].pc = "succeeded" => h = Compose)
  BY DEF ChargeFee, FeeDue, Working, Pipeline, Recorded
<1>2. FrontierAt(job[h]) /\ OwnedAs(h, job[h]) /\ DeliveredTo(job[h].at)
  BY <1>1, WorkerOwns
<1>3. fees = 0 /\ \A i \in 1..Steps : stranded[i] = 0
  BY <1>1, NothingRecorded
<1>4. Left(h)
  BY LeaveIsLeft DEF ChargeFee, RunInv
<1>5. UNCHANGED <<ceiling, late, token, row, held, unsettled, free, escaped, cut, delivered, paid, stranded>>
  BY DEF ChargeFee, money, work
<1>6. fees' \in {0, 1} /\ \A i \in 1..Steps : delivered[i] = 1
  BY <1>1, <1>2, <1>3 DEF ChargeFee, FrontierAt, DeliveredTo
<1>7. row.status # "suspended"
  BY <1>1, <1>2 DEF OwnedAs
<1>8. TypeOK'
  <2>1. job' \in [Handlers -> Job] /\ fees' \in Nat
    BY <1>4, <1>6 DEF RunInv, TypeOK, Left
  <2> QED
    BY <1>5, <2>1 DEF RunInv, TypeOK
<1>9. Waiting' /\ DeliveredInOrder' /\ FeeOnWholeRun' /\ StrandedOnce'
  BY <1>3, <1>5, <1>6 DEF RunInv, Waiting, DeliveredTo, DeliveredInOrder, EachStepOnce,
                          WithinCeiling, FeeOnWholeRun, StrandedOnce
<1>10. token => job'[Compose].pc = "done" /\ row.status # "none"
  BY <1>1, <1>4 DEF RunInv, Claimed, Left, TypeOK, Handlers, Working, Pipeline
<1> QED
  BY <1>1, <1>3, <1>4, <1>5, <1>7, <1>8, <1>9, <1>10, GoneKeepsInv

\* While a row waits for its token nobody works on the run and nothing is recorded.
LEMMA WaitingIsQuiet ==
  ASSUME RunInv, token, row.status = "suspended"
  PROVE  /\ \A g \in Handlers : job[g].pc \notin Working
         /\ fees = 0 /\ DeliveredTo(row.next) /\ \A i \in 1..Steps : stranded[i] = 0
<1>1. \A g \in Handlers : job[g].pc \notin Working
  BY DEF RunInv, Owned, OwnedAs
<1>2. fees = 0
  BY DEF RunInv, FeeIsLast, TypeOK
<1> QED
  BY <1>1, <1>2 DEF RunInv, Waiting, Unstranded

\* A request with the token claims the row, or finds it expired.
LEMMA ClaimKeeps == ASSUME RunInv, NEW h \in Handlers, Claim(h) PROVE RunInv'
<1> USE RunAssumption
<1>1. /\ token /\ row.status = "suspended" /\ job[h].pc = "idle" /\ h # Compose
      /\ job \in [Handlers -> Job] /\ row.next \in 1 .. (Steps + 1)
  BY DEF Claim, Claimable, RunInv, TypeOK, Waiting
<1>2. /\ \A g \in Handlers : job[g].pc \notin Working
      /\ fees = 0 /\ DeliveredTo(row.next) /\ \A i \in 1..Steps : stranded[i] = 0
  BY <1>1, WaitingIsQuiet
<1>3. UNCHANGED <<ceiling, late, token, held, unsettled, free, escaped, cut, delivered, paid, stranded, fees>>
  BY DEF Claim, money, work
<1>4. CASE late
  <2>1. /\ row' = row
        /\ job' = [job EXCEPT ![h] = job'[h]] /\ job'[h] \in Job /\ job'[h].pc = "expire"
    BY <1>1, <1>4 DEF Claim, Goto, Job, Labels
  <2>2. \A g \in Handlers : job'[g].pc \notin Working
    BY <1>1, <1>2, <2>1 DEF Working, Pipeline
  <2>3. TypeOK' /\ Claimed'
    BY <1>1, <1>3, <2>1 DEF RunInv, TypeOK, Claimed, Handlers
  <2>4. Owned' /\ OneWorker' /\ Frontier' /\ Waiting' /\ FeeIsLast' /\ Unstranded'
    BY <1>2, <1>3, <2>1, <2>2 DEF Owned, OneWorker, Frontier, Waiting, DeliveredTo, FeeIsLast,
                                  Unstranded, RunInv
  <2>5. DeliveredInOrder' /\ FeeOnWholeRun' /\ StrandedOnce'
    BY <1>3, <2>1 DEF RunInv, DeliveredInOrder, EachStepOnce, WithinCeiling, FeeOnWholeRun,
                      StrandedOnce
  <2> QED
    BY <2>3, <2>4, <2>5 DEF RunInv
<1>5. CASE ~late
  <2>1. /\ row' = [row EXCEPT !.status = "resuming"]
        /\ job' = job \/ job' = [job EXCEPT ![h] = Start("charge", row.next)]
    BY <1>5 DEF Claim
  <2>2. row'.status = "resuming" /\ row'.next = row.next
        /\ row' \in [status : {"none", "suspended", "resuming", "resumed", "failed", "expired"},
                  next : Nat]
    BY <2>1 DEF RunInv, TypeOK
  <2>3. Start("charge", row.next) \in Job
    BY <1>1 DEF Start, Job, Labels, Working
  <2>4. \A g \in Handlers : job'[g].pc \in Working =>
          g = h /\ job'[g] = Start("charge", row.next)
    BY <1>1, <1>2, <2>1
  <2>5. OneWorker' /\ Owned'
    BY <1>1, <1>3, <2>2, <2>4 DEF OneWorker, Owned, OwnedAs, Start
  <2>6. Frontier'
    BY <1>1, <1>2, <1>3, <2>4 DEF Frontier, FrontierAt, DeliveredTo, Start
  <2>7. TypeOK'
    BY <1>1, <1>3, <2>1, <2>2, <2>3 DEF RunInv, TypeOK
  <2>8. Claimed'
    BY <1>1, <1>3, <2>1, <2>2 DEF RunInv, Claimed, Start, Handlers
  <2>9. Waiting' /\ FeeIsLast' /\ Unstranded'
    BY <1>2, <1>3, <2>2 DEF RunInv, Waiting, FeeIsLast, Unstranded
  <2>10. DeliveredInOrder' /\ FeeOnWholeRun' /\ StrandedOnce'
    BY <1>2, <1>3 DEF RunInv, DeliveredInOrder, EachStepOnce, WithinCeiling, FeeOnWholeRun,
                      StrandedOnce
  <2> QED
    BY <2>5, <2>6, <2>7, <2>8, <2>9, <2>10 DEF RunInv
<1> QED
  BY <1>4, <1>5

\* The run expires, unless another request was first.
LEMMA ExpireKeeps == ASSUME RunInv, NEW h \in Handlers, Expire(h) PROVE RunInv'
<1> USE RunAssumption
<1>1. token /\ job[h].pc = "expire" /\ h # Compose /\ job[Compose].pc = "done" /\ row.status # "none"
  BY DEF Expire, RunInv, Claimed
<1>2. Left(h) /\ job'[h].pc \notin Working
  BY LeaveIsLeft DEF Expire, RunInv, Left, Working, Pipeline
<1>3. UNCHANGED <<ceiling, late, token, held, unsettled, free, escaped, cut, delivered, paid, fees>>
  BY DEF Expire, money, work
<1>4. \A g \in Handlers : job'[g].pc \in Working => job'[g] = job[g] /\ job[g].pc \in Working
  BY <1>2 DEF Left, RunInv, TypeOK
<1>5. OneWorker' /\ Claimed'
  <2>1. row'.status # "none"
    BY <1>1 DEF Expire, RunInv, TypeOK
  <2> QED
    BY <1>1, <1>2, <1>3, <1>4, <2>1 DEF RunInv, OneWorker, Claimed, Left, TypeOK, Handlers
<1>6. DeliveredInOrder' /\ FeeOnWholeRun'
  BY <1>3 DEF RunInv, DeliveredInOrder, EachStepOnce, WithinCeiling, FeeOnWholeRun
<1>7. CASE row' = row /\ stranded' = stranded
  <2>1. TypeOK' /\ StrandedOnce' /\ Waiting'
    BY <1>2, <1>3, <1>7 DEF RunInv, TypeOK, Left, StrandedOnce, Waiting, DeliveredTo
  <2>2. Owned' /\ Frontier'
    BY <1>3, <1>4, <1>7 DEF RunInv, Owned, OwnedAs, Frontier, FrontierAt, DeliveredTo
  <2>3. FeeIsLast' /\ Unstranded'
    BY <1>3, <1>4, <1>7 DEF RunInv, FeeIsLast, Quiet, Unstranded
  <2> QED
    BY <1>5, <1>6, <2>1, <2>2, <2>3 DEF RunInv
<1>8. CASE row.status = "suspended" /\ row' = [row EXCEPT !.status = "expired"]
           /\ Strand(1 .. (row.next - 1))
  <2>1. /\ \A g \in Handlers : job[g].pc \notin Working
        /\ fees = 0 /\ \A i \in 1..Steps : stranded[i] = 0
    BY <1>1, <1>8, WaitingIsQuiet
  <2>2. /\ row'.status = "expired" /\ row'.next = row.next
        /\ row' \in [status : {"none", "suspended", "resuming", "resumed", "failed", "expired"},
                  next : Nat]
    BY <1>8 DEF RunInv, TypeOK
  <2>3. /\ stranded' \in [1..Steps -> Nat]
        /\ \A i \in 1..Steps : stranded'[i] <= 1 /\ (stranded'[i] = 1 => i \in paid)
    BY <1>8, <2>1 DEF Strand
  <2>4. Owned' /\ Frontier' /\ FeeIsLast'
    BY <1>3, <1>4, <2>1 DEF Owned, Frontier, FeeIsLast
  <2>5. Unstranded'
    BY <1>4, <2>1, <2>2 DEF Unstranded
  <2>6. Waiting' /\ StrandedOnce'
    BY <1>3, <2>2, <2>3 DEF RunInv, Waiting, StrandedOnce
  <2>7. TypeOK'
    BY <1>2, <1>3, <2>2, <2>3 DEF RunInv, TypeOK, Left
  <2> QED
    BY <1>5, <1>6, <2>4, <2>5, <2>6, <2>7 DEF RunInv
<1> QED
  BY <1>7, <1>8 DEF Expire, Expirable

\* Time passes; or nothing does.
LEMMA LapseKeeps == ASSUME RunInv, Lapse \/ UNCHANGED vars PROVE RunInv'
<1>1. UNCHANGED <<ceiling, job, row, token, held, unsettled, free, escaped, cut, delivered, paid, stranded, fees>>
      /\ late' \in BOOLEAN
  BY DEF Lapse, vars, money, work, RunInv, TypeOK
<1>2. TypeOK' /\ Claimed' /\ Waiting' /\ StrandedOnce'
  BY <1>1 DEF RunInv, TypeOK, Claimed, Waiting, DeliveredTo, StrandedOnce
<1>3. Owned' /\ OneWorker' /\ Frontier'
  BY <1>1 DEF RunInv, Owned, OwnedAs, OneWorker, Frontier, FrontierAt, DeliveredTo
<1>4. FeeIsLast' /\ Unstranded' /\ DeliveredInOrder' /\ FeeOnWholeRun'
  BY <1>1 DEF RunInv, FeeIsLast, Quiet, Unstranded, DeliveredInOrder, EachStepOnce, WithinCeiling,
              FeeOnWholeRun
<1> QED
  BY <1>2, <1>3, <1>4 DEF RunInv

\* Every step keeps the invariant.
LEMMA StepKeepsInv == RunInv /\ [Next]_vars => RunInv'
<1> SUFFICES ASSUME RunInv, [Next]_vars PROVE RunInv'
  OBVIOUS
<1>1. ASSUME NEW h \in Handlers, Request(h) PROVE RunInv'
  BY <1>1, ClaimKeeps, ExpireKeeps, ChargeResumedKeeps, ReopenKeeps, RefuseKeeps, BeginKeeps,
     DebitKeeps, AnswerKeeps, LookupKeeps, AgentFailsKeeps, RefundKeeps, OpenKeeps, FinishKeeps, RecordKeeps,
     ThrowKeeps, UnwindKeeps, GiveBackKeeps, TimedOutKeeps, CloseKeeps, FeeKeeps DEF Request
<1> QED
  BY <1>1, ChargeFirstKeeps, OrphanKeeps, TokenKeeps, LapseKeeps, TimeoutKeeps, DieKeeps DEF Next

\* What the concurrency of the two halves never breaks.
THEOREM RunInvariant == Spec => []RunInv
BY InitInv, StepKeepsInv, PTL DEF Spec

\* claim_suspended_run hands the remaining steps to one half: none is executed twice.
THEOREM StepsOnce == Spec => []EachStepOnce
<1>1. RunInv => EachStepOnce
  BY DEF RunInv, DeliveredInOrder
<1> QED
  BY <1>1, RunInvariant, PTL

\* preSpentUsd carries the first half's spending: one ceiling holds for both.
THEOREM CeilingHolds == Spec => []WithinCeiling
<1>1. RunInv => WithinCeiling
  BY DEF RunInv, DeliveredInOrder
<1> QED
  BY <1>1, RunInvariant, PTL

\* The protocol fee is charged once, when every step was delivered.
THEOREM FeeIsOnWholeRun == Spec => []FeeOnWholeRun
<1>1. RunInv => FeeOnWholeRun
  BY DEF RunInv
<1> QED
  BY <1>1, RunInvariant, PTL

\* No payment is reported stranded twice, nor when its run was resumed to the end.
THEOREM PaymentStrandedOnce == Spec => []StrandedOnce
<1>1. RunInv => StrandedOnce
  BY DEF RunInv
<1> QED
  BY <1>1, RunInvariant, PTL

-----------------------------------------------------------------------------
(***************************************************************************)
(* The caller's charges.  HeldInv says which steps a worker has charged    *)
(* and not given back; Booked(j, k) is a step of a worker, from record j   *)
(* to record k, that moves the charges with it.                            *)
(***************************************************************************)
Moves(i, j, k) ==
    held'[i] = held[i] + (IF i \in ChargedFor(k) THEN 1 ELSE 0)
                       - (IF i \in ChargedFor(j) THEN 1 ELSE 0)

Booked(j, k) ==
    /\ Known' \subseteq Known
    /\ \A i \in Known' : Moves(i, j, k)
    /\ k.pc \notin {"charge", "reopen"} /\ k.first \in Known' => k.charged
    /\ k.pc = "refund" /\ k.uncounted => k.at > k.first + 1

\* What a worker knows, and what the books say of it.
LEMMA WorkerHeld ==
  ASSUME RunInv, HeldInv, NEW h \in Handlers, job[h].pc \in Working, job[h].pc # "refused"
  PROVE  /\ job[h] \in Job /\ FrontierAt(job[h]) /\ OwnedAs(h, job[h])
         /\ job \in [Handlers -> Job] /\ MoneyTyped /\ delivered \in [1..Steps -> Nat]
         /\ DeliveredTo(job[h].at)
         /\ \A i \in Known : held[i] = IF i \in ChargedFor(job[h]) THEN 1 ELSE 0
         /\ job[h].pc \notin {"charge", "reopen"} /\ job[h].first \in Known => job[h].charged
         /\ job[h].pc = "refund" /\ job[h].uncounted => job[h].at > job[h].first + 1
<1>1. HeldBy(job[h])
  BY DEF HeldInv
<1>2. delivered \in [1..Steps -> Nat]
  BY DEF RunInv, TypeOK
<1> QED
  BY <1>1, <1>2, WorkerOwns DEF HeldBy

\* The charges of the steps whose debits are known are numbers.
LEMMA KnownMoney ==
  ASSUME MoneyTyped
  PROVE  Known \subseteq 1..Steps /\ \A i \in Known : held[i] \in Int
BY DEF MoneyTyped, Known

\* A worker that goes on keeps the books.
LEMMA WorkerBooks ==
  ASSUME RunInv', NEW h \in Handlers, job'[h].pc \in Working, HeldBy(job[h])'
  PROVE  HeldInv'
<1>1. \A g \in Handlers : job'[g].pc \in Working => g = h
  BY DEF RunInv, OneWorker
<1> QED
  BY <1>1 DEF HeldInv, Quiet

LEMMA BookedKeeps ==
  ASSUME RunInv, HeldInv, RunInv', NEW h \in Handlers, job[h].pc \in Working,
         job'[h].pc \in Working, job[h].pc # "refused", job'[h].pc # "refused",
         Booked(job[h], job'[h])
  PROVE  HeldInv'
<1>1. \A i \in Known : held[i] = IF i \in ChargedFor(job[h]) THEN 1 ELSE 0
  BY WorkerHeld
<1>2. \A i \in Known' : held'[i] = IF i \in ChargedFor(job'[h]) THEN 1 ELSE 0
  BY <1>1, WorkerHeld, KnownMoney DEF Booked, Moves
<1>3. HeldBy(job[h])'
  BY <1>2 DEF HeldBy, Booked, ChargedFor
<1> QED
  BY <1>3, WorkerBooks

\* When the last worker is gone the books are square; exactly, when its row waits for
\* the other half.
LEMMA GoneBooks ==
  ASSUME RunInv, HeldInv, RunInv', NEW h \in Handlers, job[h].pc \in Working, Left(h),
         Squared',
         token' /\ row'.status = "suspended" => \A i \in Known' : held'[i] = delivered'[i]
  PROVE  HeldInv'
<1>1. \A g \in Handlers : job'[g].pc \notin Working
  BY DEF RunInv, TypeOK, OneWorker, Left, Working, Pipeline
<1> QED
  BY <1>1 DEF HeldInv

\* Charged for what was delivered, exactly.
LEMMA ExactIsSquared ==
  ASSUME delivered \in [1..Steps -> Nat], \A i \in Known : held[i] = delivered[i]
  PROVE  Squared
BY DEF Squared, Known

\* The same, after a step.
LEMMA ExactIsSquaredNext ==
  ASSUME (delivered \in [1..Steps -> Nat])', \A i \in Known' : held'[i] = delivered'[i]
  PROVE  Squared'
BY DEF Squared, Known

\* The refund a handler makes at its end, if it owes one, squares the books: the first
\* step goes back when the half charged for it and delivered nothing it counts.
LEMMA RefundSquares ==
  ASSUME RunInv, HeldInv, NEW h \in Handlers,
         job[h].pc \in {"giveBack", "timedOut", "succeeded", "suspended"},
         RefundFirst(h), UNCHANGED <<delivered, free, left>>
  PROVE  Squared'
<1> USE RunAssumption
<1>0. job[h].pc \in Working /\ job[h].pc # "refused"
  BY DEF Working, Pipeline
<1>1. /\ job[h] \in Job /\ FrontierAt(job[h]) /\ MoneyTyped
      /\ delivered \in [1..Steps -> Nat]
      /\ \A i \in 1..Steps : delivered[i] = IF i < job[h].at THEN 1 ELSE 0
      /\ \A i \in Known : held[i] = IF i \in ChargedFor(job[h]) THEN 1 ELSE 0
      /\ job[h].first \in Known => job[h].charged
  BY <1>0, WorkerHeld DEF DeliveredTo
<1>2. /\ job[h].first \in 1 .. (Steps + 1) /\ job[h].at \in job[h].first .. (Steps + 1)
      /\ job[h].charged => job[h].first <= Steps
      /\ job[h].uncounted => job[h].at <= Steps /\ job[h].at > job[h].first
      /\ job[h].pc \in {"succeeded", "suspended"} =>
            ~job[h].uncounted /\ (job[h].charged => job[h].at > job[h].first)
      /\ job[h].pc = "suspended" => job[h].at > job[h].first
      /\ job[h].pc = "succeeded" => job[h].at = Steps + 1
  BY <1>0, <1>1 DEF FrontierAt, Recorded
<1>3. Refundable(h) <=>
        /\ job[h].charged
        /\ job[h].at = job[h].first \/ (job[h].uncounted /\ job[h].at = job[h].first + 1)
  BY <1>1, <1>2 DEF Refundable, TotalCost, Current, Job
<1>4. Known' \subseteq Known /\ Known \subseteq 1..Steps
  BY DEF Known, RefundFirst, Refund, GiveBack, Doubt
<1>5. CASE Refundable(h)
  <2>1. \A i \in Known' : held'[i] = IF i = job[h].first THEN held[i] - 1 ELSE held[i]
    <3>1. GiveBack(job[h].first) \/ (held' = held /\ job[h].first \in unsettled')
      BY <1>5 DEF RefundFirst, Refund, Doubt
    <3>2. job[h].first \in 1..Steps
      BY <1>2, <1>3, <1>5
    <3>3. ASSUME GiveBack(job[h].first), NEW i \in 1..Steps
          PROVE  held'[i] = IF i = job[h].first THEN held[i] - 1 ELSE held[i]
      BY <1>1, <3>2, <3>3 DEF GiveBack, MoneyTyped
    <3> QED
      BY <1>4, <3>1, <3>3 DEF Known
  <2>2. delivered[Steps] = 0
    BY <1>1, <1>2, <1>3, <1>5
  <2>3. \A i \in Known' : held'[i] <= delivered[i]
    BY <1>1, <1>2, <1>3, <1>4, <1>5, <2>1 DEF ChargedFor
  <2> QED
    BY <2>2, <2>3 DEF Squared
<1>6. CASE ~Refundable(h)
  <2>1. held' = held /\ Known' = Known
    BY <1>6 DEF RefundFirst, Known
  <2>2. ASSUME NEW i \in Known
        PROVE  held[i] <= delivered[i] /\ (job[h].uncounted \/ held[i] = delivered[i])
    BY <1>1, <1>2, <1>3, <1>4, <1>6 DEF ChargedFor
  <2>3. job[h].uncounted => delivered[Steps] = 0
    BY <1>1, <1>2
  <2> QED
    BY <2>1, <2>2, <2>3 DEF Squared
<1> QED
  BY <1>5, <1>6


\* The checks before the debit of a step.
LEMMA BeginBooks ==
  ASSUME RunInv, HeldInv, RunInv', NEW h \in Handlers, BeginStep(h)
  PROVE  HeldInv'
<1>1. job[h].pc = "loop" /\ job[h].pc \in Working /\ job[h].at <= Steps
  BY DEF BeginStep, Working, Pipeline
<1>2. /\ job[h] \in Job /\ FrontierAt(job[h]) /\ job \in [Handlers -> Job] /\ MoneyTyped
      /\ job[h].first \in Known => job[h].charged
  BY <1>1, WorkerHeld
<1>3. ~job[h].uncounted /\ job[h].at >= job[h].first
  BY <1>1, <1>2, RunAssumption DEF FrontierAt, Recorded, Job
<1>4. /\ job'[h].at = job[h].at /\ job'[h].first = job[h].first
      /\ job'[h].uncounted = job[h].uncounted /\ job'[h].charged = job[h].charged
      /\ \/ job'[h].pc \in {"failed", "thrown"}
         \/ job'[h].pc = "debit" /\ job[h].at > job[h].first
         \/ job'[h].pc = "invoke" /\ job[h].at = job[h].first
  BY <1>2, <1>3 DEF BeginStep, Goto, Job
<1>5. held' = held /\ Known' = Known
  BY DEF BeginStep, money, Known
<1>6. ChargedFor(job'[h]) = ChargedFor(job[h])
  BY <1>1, <1>3, <1>4 DEF ChargedFor
<1>7. Booked(job[h], job'[h])
  <2>1. \A i \in Known' : Moves(i, job[h], job'[h])
    BY <1>2, <1>5, <1>6, KnownMoney DEF Moves
  <2> QED
    BY <1>1, <1>2, <1>3, <1>4, <1>5, <2>1 DEF Booked, Job
<1> QED
  BY <1>1, <1>4, <1>7, BookedKeeps DEF Working, Pipeline

\* A debit of the loop, with its answer or without.
LEMMA DebitBooks ==
  ASSUME RunInv, HeldInv, RunInv', NEW h \in Handlers, DebitStep(h)
  PROVE  HeldInv'
<1>1. job[h].pc \in {"debit", "retry"} /\ job[h].pc \in Working
  BY DEF DebitStep, Working, Pipeline
<1>2. /\ job[h] \in Job /\ FrontierAt(job[h]) /\ job \in [Handlers -> Job] /\ MoneyTyped
      /\ job[h].first \in Known => job[h].charged
  BY <1>1, WorkerHeld
<1>3. ~job[h].uncounted /\ job[h].at > job[h].first /\ job[h].at \in 1..Steps
  BY <1>1, <1>2, RunAssumption DEF FrontierAt, Recorded, Job
<1>4. /\ job'[h].at = job[h].at /\ job'[h].first = job[h].first
      /\ job'[h].uncounted = job[h].uncounted /\ job'[h].charged = job[h].charged
      /\ job'[h].pc \in {"invoke", "failed"}
  BY <1>2 DEF DebitStep, Debit, Goto, Job
<1>5. Known' \subseteq Known /\ Known \subseteq 1..Steps
  BY DEF DebitStep, Debit, Doubt, Known
<1>6. CASE job'[h].pc = "invoke" /\ Charge(job[h].at)
  <2>1. \A i \in 1..Steps : held'[i] = IF i = job[h].at THEN held[i] + 1 ELSE held[i]
    BY <1>2, <1>3, <1>6 DEF Charge, MoneyTyped
  <2>2. \A i \in 1..Steps : /\ i \in ChargedFor(job'[h]) <=> i <= job[h].at
                            /\ i \in ChargedFor(job[h]) <=> i < job[h].at
    BY <1>1, <1>2, <1>3, <1>4, <1>6 DEF ChargedFor, Job
  <2>3. Booked(job[h], job'[h])
    <3>1. ASSUME NEW i \in Known' PROVE Moves(i, job[h], job'[h])
      <4>1. i \in 1..Steps /\ held[i] \in Int /\ job[h].at \in Int
        BY <1>2, <1>3, <1>5, KnownMoney
      <4>2. held'[i] = held[i] + (IF i = job[h].at THEN 1 ELSE 0)
        BY <2>1, <4>1
      <4> QED
        BY <2>2, <4>1, <4>2 DEF Moves
    <3> QED
      BY <1>2, <1>4, <1>5, <1>6, <3>1 DEF Booked
  <2> QED
    BY <1>1, <1>6, <2>3, BookedKeeps DEF Working, Pipeline
<1>7. CASE /\ job'[h].pc = "failed"
           /\ held' = held \/ (Charge(job[h].at) /\ job[h].at \in unsettled')
  <2>1. \A i \in Known' : held'[i] = held[i]
    BY <1>2, <1>5, <1>7 DEF Charge, MoneyTyped, Known
  <2>2. ChargedFor(job'[h]) = ChargedFor(job[h])
    BY <1>1, <1>3, <1>4, <1>7 DEF ChargedFor
  <2>3. Booked(job[h], job'[h])
    <3>1. \A i \in Known' : Moves(i, job[h], job'[h])
      BY <1>2, <1>5, <2>1, <2>2, KnownMoney DEF Moves
    <3> QED
      BY <1>2, <1>4, <1>5, <1>7, <3>1 DEF Booked
  <2> QED
    BY <1>1, <1>7, <2>3, BookedKeeps DEF Working, Pipeline
<1>8. \/ job'[h].pc = "invoke" /\ Charge(job[h].at)
      \/ /\ job'[h].pc = "failed"
         /\ held' = held \/ (Charge(job[h].at) /\ job[h].at \in unsettled')
  BY <1>2 DEF DebitStep, Debit, Doubt, Goto, Job
<1> QED
  BY <1>6, <1>7, <1>8

\* The agent delivers: the step at hand becomes the first one not charged.
LEMMA AnswerBooks ==
  ASSUME RunInv, HeldInv, RunInv', NEW h \in Handlers, AgentAnswers(h)
  PROVE  HeldInv'
<1>1. job[h].pc = "invoke" /\ job[h].pc \in Working
  BY DEF AgentAnswers, Working, Pipeline
<1>2. /\ job[h] \in Job /\ FrontierAt(job[h]) /\ job \in [Handlers -> Job] /\ MoneyTyped
      /\ job[h].first \in Known => job[h].charged
  BY <1>1, WorkerHeld
<1>3. ~job[h].uncounted /\ job[h].at >= job[h].first /\ job[h].at \in 1..Steps
  BY <1>1, <1>2, RunAssumption DEF FrontierAt, Recorded, Job
<1>4. /\ job'[h].at = job[h].at + 1 /\ job'[h].first = job[h].first
      /\ job'[h].uncounted = job[h].uncounted /\ job'[h].charged = job[h].charged
      /\ job'[h].pc \in {"loop", "open"}
  BY <1>2 DEF AgentAnswers, Job
<1>5. held' = held /\ Known' = Known
  BY DEF AgentAnswers, money, Known
<1>6. ChargedFor(job'[h]) = ChargedFor(job[h])
  BY <1>1, <1>2, <1>3, <1>4 DEF ChargedFor, Job
<1>7. Booked(job[h], job'[h])
  <2>1. \A i \in Known' : Moves(i, job[h], job'[h])
    BY <1>2, <1>5, <1>6, KnownMoney DEF Moves
  <2> QED
    BY <1>1, <1>2, <1>3, <1>4, <1>5, <2>1 DEF Booked, Job
<1> QED
  BY <1>1, <1>4, <1>7, BookedKeeps DEF Working, Pipeline

\* The agent delivers and the step is not counted: the loop's own debit goes back.
LEMMA LookupBooks ==
  ASSUME MasterPath, RunInv, HeldInv, RunInv', NEW h \in Handlers, LookupFails(h)
  PROVE  HeldInv'
<1>1. job[h].pc = "invoke" /\ job[h].pc \in Working /\ job[h].at < Steps
  BY DEF LookupFails, Working, Pipeline
<1>2. /\ job[h] \in Job /\ FrontierAt(job[h]) /\ job \in [Handlers -> Job] /\ MoneyTyped
      /\ job[h].first \in Known => job[h].charged
  BY <1>1, WorkerHeld
<1>3. ~job[h].uncounted /\ job[h].at >= job[h].first /\ job[h].at \in 1..Steps
  BY <1>1, <1>2, RunAssumption DEF FrontierAt, Recorded, Job
<1>4. /\ job'[h].at = job[h].at + 1 /\ job'[h].first = job[h].first
      /\ job'[h].uncounted /\ job'[h].charged = job[h].charged
      /\ \/ job'[h].pc = "refund" /\ job[h].at > job[h].first
         \/ job'[h].pc = "failed" /\ job[h].at = job[h].first
  BY <1>2, <1>3 DEF LookupFails, Job
<1>5. held' = held /\ Known' = Known
  BY DEF LookupFails, money, Known
<1>6. ChargedFor(job'[h]) = ChargedFor(job[h])
  BY <1>1, <1>2, <1>3, <1>4 DEF ChargedFor, Job
<1>7. Booked(job[h], job'[h])
  <2>1. \A i \in Known' : Moves(i, job[h], job'[h])
    BY <1>2, <1>5, <1>6, KnownMoney DEF Moves
  <2> QED
    BY <1>1, <1>2, <1>3, <1>4, <1>5, <2>1 DEF Booked, Job
<1> QED
  BY <1>1, <1>4, <1>7, BookedKeeps DEF Working, Pipeline

\* The agent does not deliver.
LEMMA FailBooks ==
  ASSUME MasterPath, RunInv, HeldInv, RunInv', NEW h \in Handlers, AgentFails(h)
  PROVE  HeldInv'
<1>1. job[h].pc = "invoke" /\ job[h].pc \in Working
  BY DEF AgentFails, Working, Pipeline
<1>2. /\ job[h] \in Job /\ FrontierAt(job[h]) /\ job \in [Handlers -> Job] /\ MoneyTyped
      /\ job[h].first \in Known => job[h].charged
  BY <1>1, WorkerHeld
<1>3. ~job[h].uncounted /\ job[h].at >= job[h].first /\ job[h].at \in 1..Steps
  BY <1>1, <1>2, RunAssumption DEF FrontierAt, Recorded, Job
<1>4. /\ job'[h].at = job[h].at /\ job'[h].first = job[h].first
      /\ job'[h].uncounted = job[h].uncounted /\ job'[h].charged = job[h].charged
      /\ \/ job'[h].pc = "refund" /\ job[h].at > job[h].first
         \/ job'[h].pc = "failed" /\ job[h].at = job[h].first
  BY <1>2, <1>3 DEF AgentFails, Goto, Job
<1>5. held' = held /\ Known' = Known
  BY DEF AgentFails, money, Known
<1>6. ChargedFor(job'[h]) = ChargedFor(job[h])
  BY <1>1, <1>2, <1>3, <1>4 DEF ChargedFor, Job
<1>7. Booked(job[h], job'[h])
  <2>1. \A i \in Known' : Moves(i, job[h], job'[h])
    BY <1>2, <1>5, <1>6, KnownMoney DEF Moves
  <2> QED
    BY <1>1, <1>2, <1>3, <1>4, <1>5, <2>1 DEF Booked, Job
<1> QED
  BY <1>1, <1>4, <1>7, BookedKeeps DEF Working, Pipeline

\* The loop gives the debit at hand back, or leaves it in doubt.
LEMMA RefundBooks ==
  ASSUME RunInv, HeldInv, RunInv', NEW h \in Handlers, RefundStep(h)
  PROVE  HeldInv'
<1>1. job[h].pc = "refund" /\ job[h].pc \in Working
  BY DEF RefundStep, Working, Pipeline
<1>2. /\ job[h] \in Job /\ FrontierAt(job[h]) /\ job \in [Handlers -> Job] /\ MoneyTyped
      /\ job[h].first \in Known => job[h].charged
      /\ job[h].uncounted => job[h].at > job[h].first + 1
  BY <1>1, WorkerHeld
<1>3. /\ job[h].at > job[h].first /\ job[h].at \in 1..Steps /\ job[h].first \in 1..Steps
      /\ Current(h) \in 1..Steps /\ Current(h) > job[h].first
      /\ Current(h) = IF job[h].uncounted THEN job[h].at - 1 ELSE job[h].at
      /\ job[h].uncounted => job[h].retried
  BY <1>1, <1>2, RunAssumption DEF FrontierAt, Recorded, Job, Current
<1>4. /\ job'[h].at = job[h].at /\ job'[h].first = job[h].first
      /\ job'[h].uncounted = job[h].uncounted /\ job'[h].charged = job[h].charged
      /\ job'[h].pc \in {"failed", "retry"}
      /\ job'[h].pc = "retry" => ~job[h].uncounted
  BY <1>2, <1>3 DEF RefundStep, Goto, Job
<1>5. Known' \subseteq Known /\ Known \subseteq 1..Steps
  BY DEF RefundStep, Refund, Doubt, Known
<1>6. \A i \in Known' : held'[i] = IF i = Current(h) THEN held[i] - 1 ELSE held[i]
  <2>1. \/ GiveBack(Current(h))
        \/ held' = held /\ Current(h) \in unsettled'
    BY <1>2, <1>3 DEF RefundStep, Refund, Doubt
  <2> QED
    BY <1>2, <1>3, <1>5, <2>1 DEF GiveBack, MoneyTyped, Known
<1>7. \A i \in 1..Steps : /\ i \in ChargedFor(job[h]) <=> i <= Current(h)
                          /\ i \in ChargedFor(job'[h]) <=> i < Current(h)
  BY <1>1, <1>2, <1>3, <1>4 DEF ChargedFor, Job
<1>8. Booked(job[h], job'[h])
  <2>1. ASSUME NEW i \in Known' PROVE Moves(i, job[h], job'[h])
    <3>1. i \in 1..Steps /\ held[i] \in Int /\ Current(h) \in Int
      BY <1>2, <1>3, <1>5, KnownMoney DEF Job
    <3>2. held'[i] = held[i] - (IF i = Current(h) THEN 1 ELSE 0)
      BY <1>6, <3>1
    <3> QED
      BY <1>7, <3>1, <3>2 DEF Moves
  <2> QED
    BY <1>2, <1>4, <1>5, <2>1 DEF Booked
<1> QED
  BY <1>1, <1>4, <1>8, BookedKeeps DEF Working, Pipeline


\* The insert of the suspension, the end of the loop, the record of its payments, the row
\* of a failed resume, and the 504 move no money and keep what the worker has charged.
LEMMA StillBooks ==
  ASSUME RunInv, HeldInv, RunInv', NEW h \in Handlers,
         Open(h) \/ FinishLoop(h) \/ RecordStranded(h) \/ Unwind(h) \/ CloseResumed(h)
  PROVE  HeldInv'
<1>1. /\ job[h].pc \in {"open", "loop", "failed", "unwind", "succeeded"}
      /\ job[h].pc \in Working /\ job[h].pc # "refused"
      /\ job[h].pc = "loop" => job[h].at > Steps
  BY DEF Open, FinishLoop, RecordStranded, Unwind, CloseResumed, Working, Pipeline
<1>2. /\ job[h] \in Job /\ FrontierAt(job[h]) /\ job \in [Handlers -> Job] /\ MoneyTyped
      /\ job[h].first \in Known => job[h].charged
  BY <1>1, WorkerHeld
<1>3. /\ job[h].pc \in {"open", "loop", "succeeded"} => ~job[h].uncounted
      /\ job[h].pc = "open" => job[h].at > job[h].first
      /\ job[h].pc \in {"loop", "succeeded"} => job[h].at = Steps + 1
  BY <1>1, <1>2, RunAssumption DEF FrontierAt, Recorded, Job
<1>4. /\ job'[h].at = job[h].at /\ job'[h].first = job[h].first
      /\ job'[h].uncounted = job[h].uncounted /\ job'[h].charged = job[h].charged
      /\ \/ job[h].pc = "open" /\ job'[h].pc \in {"failed", "suspended"}
         \/ job[h].pc = "loop" /\ job'[h].pc = "succeeded"
         \/ job[h].pc = "failed" /\ job'[h].pc \in {"timedOut", "unwind"}
         \/ job[h].pc = "unwind" /\ job'[h].pc = "giveBack"
         \/ job[h].pc = "succeeded" /\ job'[h].pc = "fee"
  BY <1>2 DEF Open, FinishLoop, RecordStranded, Unwind, CloseResumed, Goto, Job
<1>5. held' = held /\ Known' = Known
  BY DEF Open, FinishLoop, RecordStranded, Unwind, CloseResumed, money, Known
<1>6. ChargedFor(job'[h]) = ChargedFor(job[h])
  BY <1>2, <1>3, <1>4, RunAssumption DEF ChargedFor, Job
<1>7. Booked(job[h], job'[h])
  <2>1. \A i \in Known' : Moves(i, job[h], job'[h])
    BY <1>2, <1>5, <1>6, KnownMoney DEF Moves
  <2> QED
    BY <1>1, <1>2, <1>3, <1>4, <1>5, <2>1 DEF Booked, Job
<1> QED
  BY <1>1, <1>4, <1>7, BookedKeeps DEF Working, Pipeline

\* The 504 is sent.
LEMMA TimeoutBooks ==
  ASSUME RunInv, HeldInv, RunInv', NEW h \in Handlers, Timeout(h)
  PROVE  HeldInv'
<1>1. job[h].pc \in Working /\ job[h].pc # "refused"
  BY DEF Timeout, Working, Pipeline
<1>2. /\ job[h] \in Job /\ job \in [Handlers -> Job] /\ MoneyTyped
      /\ job[h].pc \notin {"charge", "reopen"} /\ job[h].first \in Known => job[h].charged
      /\ job[h].pc = "refund" /\ job[h].uncounted => job[h].at > job[h].first + 1
  BY <1>1, WorkerHeld
<1>3. /\ job'[h].at = job[h].at /\ job'[h].first = job[h].first /\ job'[h].pc = job[h].pc
      /\ job'[h].uncounted = job[h].uncounted /\ job'[h].charged = job[h].charged
  BY <1>2 DEF Timeout, Job
<1>4. held' = held /\ Known' = Known
  BY DEF Timeout, money, Known
<1>5. ChargedFor(job'[h]) = ChargedFor(job[h])
  BY <1>3 DEF ChargedFor
<1>6. Booked(job[h], job'[h])
  <2>1. \A i \in Known' : Moves(i, job[h], job'[h])
    BY <1>2, <1>4, <1>5, KnownMoney DEF Moves
  <2> QED
    BY <1>2, <1>3, <1>4, <2>1 DEF Booked, Job
<1> QED
  BY <1>1, <1>3, <1>6, BookedKeeps

\* The middleware charges the first step, or the request ends before it is executed.
LEMMA ChargeFirstBooks ==
  ASSUME RunInv, HeldInv, RunInv', ChargeFirst
  PROVE  HeldInv'
<1> DEFINE h == Compose
<1> USE RunAssumption
<1>1. h \in Handlers /\ job[h].pc = "charge" /\ job[h].pc \in Working /\ job[h].pc # "refused"
  BY DEF ChargeFirst, Handlers, Working
<1>2. /\ job[h] \in Job /\ FrontierAt(job[h]) /\ OwnedAs(h, job[h]) /\ job \in [Handlers -> Job]
      /\ MoneyTyped /\ delivered \in [1..Steps -> Nat] /\ DeliveredTo(job[h].at)
      /\ \A i \in Known : held[i] = IF i \in ChargedFor(job[h]) THEN 1 ELSE 0
  BY <1>1, WorkerHeld
<1>3. job[h].at = 1 /\ job[h].first = 1 /\ ~job[h].uncounted /\ ~token
  BY <1>1, <1>2 DEF FrontierAt, OwnedAs, Recorded
<1>4. Known' \subseteq Known /\ Known \subseteq 1..Steps /\ delivered' = delivered
      /\ ~token'
  BY <1>3 DEF ChargeFirst, Debit, Doubt, Known, work
<1>5. ChargedFor(job[h]) = {}
  BY <1>1, <1>2, <1>3 DEF ChargedFor
<1>6. CASE /\ Charge(1) /\ UNCHANGED unsettled
           /\ job' = [job EXCEPT ![h].charged = TRUE,
                        ![h].pc = IF job[h].sent THEN "orphaned" ELSE "loop"]
  <2>1. /\ job'[h].at = 1 /\ job'[h].first = 1 /\ ~job'[h].uncounted /\ job'[h].charged
        /\ job'[h].pc \in {"orphaned", "loop"}
    BY <1>1, <1>2, <1>3, <1>6 DEF Job
  <2>2. \A i \in 1..Steps : held'[i] = IF i = 1 THEN held[i] + 1 ELSE held[i]
    BY <1>2, <1>6 DEF Charge, MoneyTyped
  <2>3. ChargedFor(job'[h]) = {1}
    BY <2>1 DEF ChargedFor
  <2>4. \A i \in Known' : Moves(i, job[h], job'[h])
    BY <1>2, <1>4, <1>5, <2>2, <2>3, KnownMoney DEF Moves
  <2>5. Booked(job[h], job'[h])
    BY <1>4, <2>1, <2>4 DEF Booked
  <2> QED
    BY <1>1, <2>1, <2>5, BookedKeeps DEF Working, Pipeline
<1>7. CASE Goto(h, "done") /\ (held' = held \/ (Charge(1) /\ 1 \in unsettled'))
  <2>1. Left(h)
    BY <1>1, <1>2, <1>7 DEF Left, Goto, Job, Labels
  <2>2. \A i \in Known' : held'[i] = held[i]
    BY <1>2, <1>4, <1>7 DEF Charge, MoneyTyped, Known
  <2>3. \A i \in Known' : held'[i] = delivered'[i]
    BY <1>2, <1>3, <1>4, <1>5, <2>2 DEF DeliveredTo
  <2> QED
    BY <1>1, <1>2, <1>4, <2>1, <2>3, GoneBooks, ExactIsSquaredNext
<1> QED
  BY <1>6, <1>7 DEF ChargeFirst, Debit, Doubt

\* A resume charges its first step, finds nothing to charge, or cannot.
LEMMA ChargeResumedBooks ==
  ASSUME RunInv, HeldInv, RunInv', NEW h \in Handlers, ChargeResumed(h)
  PROVE  HeldInv'
<1> USE RunAssumption
<1>1. job[h].pc = "charge" /\ job[h].pc \in Working /\ job[h].pc # "refused"
  BY DEF ChargeResumed, Working
<1>2. /\ job[h] \in Job /\ FrontierAt(job[h]) /\ job \in [Handlers -> Job]
      /\ MoneyTyped /\ delivered \in [1..Steps -> Nat] /\ DeliveredTo(job[h].at)
      /\ \A i \in Known : held[i] = IF i \in ChargedFor(job[h]) THEN 1 ELSE 0
  BY <1>1, WorkerHeld
<1>3. job[h].at = job[h].first /\ ~job[h].uncounted /\ job[h].at \in 1 .. (Steps + 1)
  BY <1>1, <1>2 DEF FrontierAt, Recorded
<1>4. Known' \subseteq Known /\ Known \subseteq 1..Steps /\ delivered' = delivered
  BY DEF ChargeResumed, Debit, Doubt, Known, work, money
<1>5. \A i \in 1..Steps : i \in ChargedFor(job[h]) <=> i < job[h].at
  BY <1>1, <1>2, <1>3 DEF ChargedFor, Job
<1>6. CASE /\ Charge(job[h].at) /\ job[h].at <= Steps
           /\ job' = [job EXCEPT ![h].charged = TRUE, ![h].pc = "loop"]
  <2>1. /\ job'[h].at = job[h].at /\ job'[h].first = job[h].first /\ ~job'[h].uncounted
        /\ job'[h].charged /\ job'[h].pc = "loop"
    BY <1>2, <1>3, <1>6 DEF Job
  <2>2. \A i \in 1..Steps : held'[i] = IF i = job[h].at THEN held[i] + 1 ELSE held[i]
    BY <1>2, <1>3, <1>6 DEF Charge, MoneyTyped
  <2>3. \A i \in 1..Steps : i \in ChargedFor(job'[h]) <=> i <= job[h].at
    BY <1>2, <1>3, <2>1 DEF ChargedFor, Job
  <2>4. \A i \in Known' : Moves(i, job[h], job'[h])
    BY <1>2, <1>4, <1>5, <2>2, <2>3, KnownMoney DEF Moves, Job
  <2>5. Booked(job[h], job'[h])
    BY <1>4, <2>1, <2>4 DEF Booked
  <2> QED
    BY <1>1, <2>1, <2>5, BookedKeeps DEF Working, Pipeline
<1>7. CASE /\ Goto(h, "refused")
           /\ held' = held \/ (Charge(job[h].at) /\ job[h].at \in unsettled')
  <2>1. job'[h].pc = "refused"
    BY <1>2, <1>7 DEF Goto, Job
  <2>2. \A i \in Known' : held'[i] = held[i]
    BY <1>2, <1>4, <1>7 DEF Charge, MoneyTyped, Known
  <2>3. \A i \in Known' : held'[i] = delivered'[i]
    BY <1>2, <1>4, <1>5, <2>2 DEF DeliveredTo
  <2>4. HeldBy(job[h])'
    BY <1>2, <1>4, <2>1, <2>3, ExactIsSquaredNext DEF HeldBy
  <2> QED
    BY <2>1, <2>4, WorkerBooks DEF Working
<1>8. CASE /\ Goto(h, "reopen") \/ (Goto(h, "loop") /\ job[h].first \notin Known')
           /\ held' = held
  <2>1. /\ job'[h].at = job[h].at /\ job'[h].first = job[h].first
        /\ job'[h].uncounted = job[h].uncounted /\ job'[h].pc \in {"reopen", "loop"}
        /\ job'[h].pc = "loop" => job[h].first \notin Known'
    BY <1>2, <1>8 DEF Goto, Job
  <2>2. \A i \in Known' : i \in ChargedFor(job'[h]) <=> i < job[h].at
    BY <1>2, <1>3, <1>4, <2>1 DEF ChargedFor, Job
  <2>3. \A i \in Known' : Moves(i, job[h], job'[h])
    BY <1>2, <1>4, <1>5, <1>8, <2>2, KnownMoney DEF Moves
  <2>4. Booked(job[h], job'[h])
    BY <1>4, <2>1, <2>3 DEF Booked
  <2> QED
    BY <1>1, <2>1, <2>4, BookedKeeps DEF Working, Pipeline
<1> QED
  <2>1. Goto(h, "loop") /\ free' = free \cup ({job[h].at} \cap 1..Steps) =>
           job[h].first \notin Known'
    BY <1>3 DEF Known
  <2> QED
    BY <1>6, <1>7, <1>8, <2>1 DEF ChargeResumed, Debit, Doubt, money


\* A request that leaves a run it worked on leaves no row waiting, unless it is the first
\* half that hands out the token or a resume that puts the row back.
LEMMA NothingWaits ==
  ASSUME RunInv, NEW h \in Handlers, job[h].pc \in Working,
         token' = token, row' = row \/ row'.status \in {"failed", "resuming"}
  PROVE  ~(token' /\ row'.status = "suspended")
<1>1. OwnedAs(h, job[h])
  BY WorkerOwns
<1> QED
  BY <1>1 DEF OwnedAs, RunInv, TypeOK

\* The failure branch gives the first debit back.
LEMMA GiveBackBooks ==
  ASSUME RunInv, HeldInv, RunInv', NEW h \in Handlers, GiveBackFirst(h)
  PROVE  HeldInv'
<1>1. job[h].pc = "giveBack" /\ job[h].pc \in Working
  BY DEF GiveBackFirst, Working
<1>2. Left(h)
  BY LeaveIsLeft DEF GiveBackFirst, RunInv
<1>3. Squared'
  BY <1>1, RefundSquares DEF GiveBackFirst, work
<1>4. ~(token' /\ row'.status = "suspended")
  BY <1>1, NothingWaits DEF GiveBackFirst
<1> QED
  BY <1>1, <1>2, <1>3, <1>4, GoneBooks

\* The handler finds the 504 sent and gives its first debit back.
LEMMA TimedOutBooks ==
  ASSUME RunInv, HeldInv, RunInv', NEW h \in Handlers, TimedOut(h)
  PROVE  HeldInv'
<1>1. job[h].pc \in {"timedOut", "succeeded", "suspended"} /\ job[h].pc \in Working
  BY DEF TimedOut, Working, Pipeline
<1>2. Squared'
  BY <1>1, RefundSquares DEF TimedOut, work
<1>3. CASE h = Compose
  <2>1. Left(h)
    BY <1>3, LeaveIsLeft DEF TimedOut, RunInv
  <2>2. ~(token' /\ row'.status = "suspended")
    BY <1>1, NothingWaits DEF TimedOut
  <2> QED
    BY <1>1, <1>2, <2>1, <2>2, GoneBooks
<1>4. CASE h # Compose
  <2>1. job'[h].pc = "refused"
    BY <1>1, <1>4, WorkerOwns DEF TimedOut, Goto, Job
  <2> QED
    BY <1>2, <2>1, WorkerBooks DEF HeldBy, Working
<1> QED
  BY <1>3, <1>4

\* The debit of a request that timed out before its handler ran is given back.
LEMMA OrphanBooks ==
  ASSUME RunInv, HeldInv, RunInv', OrphanedDebit
  PROVE  HeldInv'
<1> DEFINE h == Compose
<1> USE RunAssumption
<1>1. h \in Handlers /\ job[h].pc = "orphaned" /\ job[h].pc \in Working /\ job[h].pc # "refused"
  BY DEF OrphanedDebit, Handlers, Working
<1>2. /\ job[h] \in Job /\ FrontierAt(job[h]) /\ OwnedAs(h, job[h]) /\ MoneyTyped
      /\ delivered \in [1..Steps -> Nat] /\ DeliveredTo(job[h].at)
      /\ \A i \in Known : held[i] = IF i \in ChargedFor(job[h]) THEN 1 ELSE 0
  BY <1>1, WorkerHeld
<1>3. job[h].at = 1 /\ ~token
  BY <1>1, <1>2 DEF FrontierAt, OwnedAs
<1>4. Known' \subseteq Known /\ Known \subseteq 1..Steps /\ delivered' = delivered /\ ~token'
  BY <1>3 DEF OrphanedDebit, Refund, GiveBack, Doubt, Known, work
<1>5. \A i \in 1..Steps : i \in ChargedFor(job[h]) <=> i = 1
  BY <1>1, <1>2, <1>3 DEF ChargedFor
<1>6. GiveBack(1) \/ (held' = held /\ 1 \in unsettled')
  BY DEF OrphanedDebit, Refund, Doubt
<1>7. \A i \in Known' : held'[i] = 0
  <2> SUFFICES ASSUME NEW i \in Known' PROVE held'[i] = 0
    OBVIOUS
  <2>1. i \in 1..Steps /\ i \in Known /\ i \notin unsettled'
    BY <1>4 DEF Known
  <2>2. held[i] = IF i = 1 THEN 1 ELSE 0
    BY <1>2, <1>5, <2>1
  <2>3. CASE GiveBack(1)
    BY <1>2, <2>1, <2>2, <2>3 DEF GiveBack, MoneyTyped
  <2>4. CASE held' = held /\ 1 \in unsettled'
    BY <2>1, <2>2, <2>4
  <2> QED
    BY <1>6, <2>3, <2>4
<1>8. \A i \in Known' : held'[i] = delivered'[i]
  <2>1. DeliveredTo(1)
    BY <1>2, <1>3
  <2>2. \A i \in 1..Steps : delivered[i] = 0
    BY <2>1 DEF DeliveredTo
  <2> QED
    BY <1>4, <1>7, <2>2
<1>9. Left(h)
  BY <1>1, LeaveIsLeft DEF OrphanedDebit, RunInv
<1> QED
  BY <1>1, <1>2, <1>4, <1>8, <1>9, GoneBooks, ExactIsSquaredNext

\* The answer of the suspension, the fee of a whole pipeline, and a resume that puts its
\* row back leave exactly what was delivered charged.
LEMMA ExactBooks ==
  ASSUME RunInv, HeldInv, RunInv', NEW h \in Handlers,
         (h = Compose /\ Answer202) \/ ChargeFee(h) \/ Reopen(h)
  PROVE  HeldInv'
<1> USE RunAssumption
<1>1. /\ job[h].pc \in {"suspended", "fee", "succeeded", "reopen"}
      /\ job[h].pc \in Working /\ job[h].pc # "refused"
  BY DEF Answer202, ChargeFee, FeeDue, Reopen, Working, Pipeline
<1>2. /\ job[h] \in Job /\ FrontierAt(job[h]) /\ delivered \in [1..Steps -> Nat]
      /\ DeliveredTo(job[h].at)
      /\ \A i \in Known : held[i] = IF i \in ChargedFor(job[h]) THEN 1 ELSE 0
  BY <1>1, WorkerHeld
<1>3. ~job[h].uncounted
  BY <1>1, <1>2 DEF FrontierAt, Recorded
<1>4. held' = held /\ Known' = Known /\ delivered' = delivered /\ Known \subseteq 1..Steps
  BY DEF Answer202, ChargeFee, Reopen, money, work, Known
<1>5. \A i \in 1..Steps : i \in ChargedFor(job[h]) <=> i < job[h].at
  BY <1>1, <1>2, <1>3 DEF ChargedFor, Job
<1>6. \A i \in Known' : held'[i] = delivered'[i]
  BY <1>2, <1>4, <1>5 DEF DeliveredTo
<1>7. Left(h)
  BY LeaveIsLeft DEF Answer202, ChargeFee, Reopen, RunInv
<1> QED
  BY <1>1, <1>2, <1>4, <1>6, <1>7, GoneBooks, ExactIsSquaredNext

\* A resume that was not charged closes its row.
LEMMA RefuseBooks ==
  ASSUME RunInv, HeldInv, RunInv', NEW h \in Handlers, RefuseResume(h)
  PROVE  HeldInv'
<1>1. job[h].pc = "refused" /\ job[h].pc \in Working
  BY DEF RefuseResume, Working
<1>2. Squared
  BY <1>1 DEF HeldInv, HeldBy
<1>3. Squared'
  BY <1>2 DEF RefuseResume, money, work, Squared, Known
<1>4. Left(h)
  BY LeaveIsLeft DEF RefuseResume, RunInv
<1>5. row' = row \/ row'.status \in {"failed", "resuming"}
  BY DEF RefuseResume, Settle, RunInv, TypeOK
<1>6. ~(token' /\ row'.status = "suspended")
  BY <1>1, <1>5, NothingWaits DEF RefuseResume
<1> QED
  BY <1>1, <1>3, <1>4, <1>6, GoneBooks

\* An exception or a death: the one step that was charged and not delivered is left so.
LEMMA AbandonBooks ==
  ASSUME RunInv, HeldInv, RunInv', NEW h \in Handlers, Throw(h) \/ Die(h)
  PROVE  HeldInv'
<1> USE RunAssumption
<1>1. job[h].pc \in Working
  BY DEF Throw, Die, Working, Pipeline
<1>2. Left(h)
  BY LeaveIsLeft DEF Throw, Die, RunInv
<1>3. /\ UNCHANGED <<held, unsettled, free, delivered, row, token>>
      /\ Known' \subseteq Known /\ Known \subseteq 1..Steps
  BY DEF Throw, Die, money, work, Known
<1>4. ~(token' /\ row'.status = "suspended")
  BY <1>1, <1>3, NothingWaits
<1>5. CASE job[h].pc = "refused"
  <2>1. Squared
    BY <1>1, <1>5 DEF HeldInv, HeldBy
  <2>2. Squared'
    BY <1>3, <2>1 DEF Squared
  <2> QED
    BY <1>1, <1>2, <1>4, <2>2, GoneBooks
<1>6. CASE job[h].pc # "refused"
  <2>1. /\ job[h] \in Job /\ FrontierAt(job[h]) /\ delivered \in [1..Steps -> Nat]
        /\ DeliveredTo(job[h].at)
        /\ \A i \in Known : held[i] = IF i \in ChargedFor(job[h]) THEN 1 ELSE 0
        /\ job[h].pc \notin {"charge", "reopen"} /\ job[h].first \in Known => job[h].charged
    BY <1>1, <1>6, WorkerHeld
  <2>2. /\ job[h].first \in 1 .. (Steps + 1) /\ job[h].at \in job[h].first .. (Steps + 1)
        /\ job[h].uncounted => job[h].at <= Steps
    BY <2>1 DEF FrontierAt
  <2>3. ASSUME NEW i \in Known'
        PROVE  held[i] <= delivered[i] /\ (delivered[Steps] = 1 => held[i] = delivered[i])
    <3>1. i \in Known /\ i \in 1..Steps
      BY <1>3
    <3>2. CASE i = job[h].at
      <4>1. delivered[i] = 0 /\ held[i] \in {0, 1}
        BY <2>1, <3>1, <3>2 DEF DeliveredTo
      <4>2. CASE Die(h)
        <5>1. ~(held[i] > delivered[i])
          BY <3>1, <3>2, <4>2 DEF Die, Known
        <5> QED
          BY <4>1, <5>1
      <4>3. CASE Throw(h)
        <5>1. job[h].pc = "thrown" /\ ~(job[h].charged /\ i = job[h].first)
          BY <3>2, <4>3 DEF Throw, Known
        <5>2. i # job[h].first
          BY <2>1, <3>1, <5>1
        <5>3. i \notin ChargedFor(job[h])
          BY <2>2, <3>2, <5>1, <5>2 DEF ChargedFor
        <5> QED
          BY <2>1, <3>1, <4>1, <5>3
      <4> QED
        BY <4>2, <4>3
    <3>3. CASE i < job[h].at
      <4>1. delivered[i] = 1 /\ held[i] \in {0, 1}
        BY <2>1, <3>1, <3>3 DEF DeliveredTo
      <4>2. delivered[Steps] = 1 => job[h].at > Steps
        BY <2>1, <2>2 DEF DeliveredTo
      <4>3. delivered[Steps] = 1 => i \in ChargedFor(job[h])
        BY <2>2, <3>1, <3>3, <4>2 DEF ChargedFor
      <4> QED
        BY <2>1, <3>1, <4>1, <4>3
    <3>4. CASE i > job[h].at
      BY <2>1, <2>2, <3>1, <3>4 DEF ChargedFor, DeliveredTo
    <3> QED
      BY <2>2, <3>1, <3>2, <3>3, <3>4
  <2>4. Squared'
    BY <1>3, <2>3 DEF Squared
  <2> QED
    BY <1>1, <1>2, <1>4, <2>4, GoneBooks
<1> QED
  BY <1>5, <1>6

\* A request with the token claims the row: what is charged is what was delivered.
LEMMA ClaimBooks ==
  ASSUME RunInv, HeldInv, RunInv', NEW h \in Handlers, Claim(h)
  PROVE  HeldInv'
<1> USE RunAssumption
<1>1. /\ token /\ row.status = "suspended" /\ job \in [Handlers -> Job]
      /\ delivered \in [1..Steps -> Nat] /\ row.next \in 1 .. (Steps + 1)
  BY DEF Claim, Claimable, RunInv, TypeOK, Waiting
<1>2. (\A g \in Handlers : job[g].pc \notin Working) /\ DeliveredTo(row.next)
  BY <1>1, WaitingIsQuiet
<1>3. \A i \in Known : held[i] = delivered[i]
  BY <1>1, <1>2 DEF HeldInv, Quiet
<1>4. held' = held /\ Known' = Known /\ delivered' = delivered /\ Known \subseteq 1..Steps
  BY DEF Claim, money, work, Known
<1>5. Squared' /\ \A i \in Known' : held'[i] = delivered'[i]
  BY <1>1, <1>3, <1>4, ExactIsSquaredNext
<1>6. CASE job' = [job EXCEPT ![h] = Start("charge", row.next)]
  <2>1. job'[h] = Start("charge", row.next)
    BY <1>1, <1>6
  <2>2. /\ job'[h].pc = "charge" /\ job'[h].at = row.next /\ ~job'[h].uncounted
    BY <2>1 DEF Start
  <2>3. \A i \in 1..Steps : i \in ChargedFor(job'[h]) <=> i < row.next
    BY <1>1, <2>2 DEF ChargedFor
  <2>4. \A i \in Known' : held'[i] = IF i \in ChargedFor(job'[h]) THEN 1 ELSE 0
    BY <1>2, <1>3, <1>4, <2>3 DEF DeliveredTo
  <2>5. HeldBy(job[h])'
    BY <2>2, <2>4 DEF HeldBy, ChargedFor
  <2> QED
    BY <2>2, <2>5, WorkerBooks DEF Working
<1>7. CASE job' = job \/ Goto(h, "expire")
  <2>1. \A g \in Handlers : job'[g].pc \notin Working
    BY <1>1, <1>2, <1>7 DEF Goto, Job, Working, Pipeline
  <2> QED
    BY <1>5, <2>1 DEF HeldInv
<1> QED
  BY <1>6, <1>7 DEF Claim

\* The run expires, or time passes, or nothing does.
LEMMA IdleBooks ==
  ASSUME RunInv, HeldInv, RunInv', (\E h \in Handlers : Expire(h)) \/ Lapse \/ UNCHANGED vars
  PROVE  HeldInv'
<1>1. /\ held' = held /\ Known' = Known /\ delivered' = delivered /\ token' = token
      /\ row'.status = "suspended" => row.status = "suspended"
  BY DEF Expire, Lapse, vars, money, work, Known, RunInv, TypeOK
<1>2. \A g \in Handlers : /\ job'[g].pc \in Working <=> job[g].pc \in Working
                          /\ job[g].pc \in Working => job'[g] = job[g]
  <2>1. CASE job' = job
    BY <2>1
  <2>2. CASE \E h \in Handlers : Expire(h)
    <3>1. PICK h \in Handlers : Expire(h)
      BY <2>2
    <3>2. Left(h) /\ job[h].pc = "expire"
      BY <3>1, LeaveIsLeft DEF Expire, RunInv
    <3> QED
      BY <3>2 DEF Left, RunInv, TypeOK, Working, Pipeline
  <2> QED
    BY <2>1, <2>2 DEF Lapse, vars
<1>3. Squared' <=> Squared
  BY <1>1 DEF Squared
<1>4. ASSUME NEW g \in Handlers, job'[g].pc \in Working
      PROVE  HeldBy(job[g])'
  <2>1. job'[g] = job[g] /\ HeldBy(job[g])
    BY <1>2, <1>4 DEF HeldInv
  <2> QED
    BY <1>1, <1>3, <2>1 DEF HeldBy
<1> QED
  BY <1>1, <1>2, <1>3, <1>4 DEF HeldInv, Quiet

\* Nothing is charged before the middleware does.
LEMMA InitBooks == Init => HeldInv
<1> SUFFICES ASSUME Init PROVE HeldInv
  OBVIOUS
<1>1. \A h \in Handlers : job[h] = IF h = Compose THEN Start("charge", 1) ELSE Fresh
  BY DEF Init
<1>2. job[Compose] = Start("charge", 1) /\ Compose \in Handlers
  BY <1>1 DEF Handlers
<1>3. ~Quiet
  BY <1>2 DEF Quiet, Start, Working
<1>4. HeldBy(Start("charge", 1))
  BY DEF HeldBy, Start, ChargedFor, Known, Init
<1>5. Fresh.pc \notin Working
  BY DEF Fresh, Start, Working, Pipeline
<1> QED
  BY <1>1, <1>3, <1>4, <1>5 DEF HeldInv

\* On the key's own path every step keeps the books.
LEMMA StepKeepsBooks ==
  ASSUME MasterPath, RunInv, HeldInv, [Next]_vars
  PROVE  HeldInv'
<1>1. RunInv'
  BY StepKeepsInv
<1>2. ASSUME NEW h \in Handlers, Request(h) PROVE HeldInv'
  BY <1>1, <1>2, ClaimBooks, IdleBooks, ChargeResumedBooks, ExactBooks, RefuseBooks, BeginBooks,
     DebitBooks, AnswerBooks, LookupBooks, FailBooks, RefundBooks, StillBooks, AbandonBooks,
     GiveBackBooks, TimedOutBooks DEF Request
<1>3. Compose \in Handlers
  BY DEF Handlers
<1> QED
  BY <1>1, <1>2, <1>3, ChargeFirstBooks, OrphanBooks, ExactBooks, IdleBooks, TimeoutBooks,
     AbandonBooks DEF Next

\* A run that nobody works on and nobody may claim stays so.
LEMMA OnlyClaimStarts ==
  ASSUME RunInv, [Next]_vars, Quiet, ~(token /\ row.status = "suspended")
  PROVE  Quiet' /\ ~(token' /\ row'.status = "suspended") /\ UNCHANGED left
<1>1. Compose \in Handlers /\ \A h \in Handlers : job[h].pc \notin Working
  BY DEF Quiet, Handlers
<1>2. CASE UNCHANGED vars
  BY <1>1, <1>2 DEF vars, Quiet
<1>3. CASE Lapse
  BY <1>1, <1>3 DEF Lapse, Quiet
<1>4. ASSUME NEW h \in Handlers, Expire(h)
      PROVE  Quiet' /\ ~(token' /\ row'.status = "suspended") /\ UNCHANGED left
  <2>1. Left(h)
    BY <1>4, LeaveIsLeft DEF Expire, RunInv
  <2>2. Quiet'
    BY <1>1, <2>1 DEF Left, Quiet, RunInv, TypeOK, Working, Pipeline
  <2>3. token' = token /\ (row' = row \/ row'.status = "expired") /\ UNCHANGED left
    BY <1>4 DEF Expire, RunInv, TypeOK
  <2> QED
    BY <2>2, <2>3
<1>5. ASSUME NEW h \in Handlers, Request(h) \/ Timeout(h) \/ Die(h), ~Expire(h)
      PROVE  FALSE
  <2>1. job[h].pc \notin Working
    BY <1>1
  <2>2. ~Claim(h)
    BY DEF Claim, Claimable
  <2> QED
    BY <1>5, <2>1, <2>2
    DEF Request, ChargeResumed, Reopen, RefuseResume, BeginStep, DebitStep, AgentAnswers,
        LookupFails, AgentFails, RefundStep, Open, FinishLoop, RecordStranded, Throw, Unwind,
        GiveBackFirst, TimedOut, CloseResumed, ChargeFee, FeeDue, Timeout, Die, Working, Pipeline
<1>6. ~ChargeFirst /\ ~OrphanedDebit /\ ~Answer202
  BY <1>1 DEF ChargeFirst, OrphanedDebit, Answer202, Working, Pipeline
<1> QED
  BY <1>2, <1>3, <1>4, <1>5, <1>6 DEF Next

\* The half that leaves a charge is the last one, so it leaves one step.
LEMMA StepKeepsLeft ==
  ASSUME RunInv, LeftLast, [Next]_vars
  PROVE  LeftLast'
<1>1. CASE UNCHANGED left
  <2>1. OneStepLeft'
    BY <1>1 DEF LeftLast, OneStepLeft
  <2>2. ~Quiet' \/ (token' /\ row'.status = "suspended") =>
           ~Quiet \/ (token /\ row.status = "suspended")
    BY OnlyClaimStarts
  <2> QED
    BY <1>1, <2>1, <2>2 DEF LeftLast
<1>2. ASSUME NEW h \in Handlers, Throw(h) \/ Die(h)
      PROVE  LeftLast'
  <2>1. job[h].pc \in Working /\ Left(h)
    BY <1>2, LeaveIsLeft DEF Throw, Die, Working, Pipeline, RunInv
  <2>2. escaped = {} /\ cut = {}
    BY <2>1 DEF LeftLast, Quiet
  <2>3. escaped' \cup cut' \subseteq {job[h].first} \/ escaped' \cup cut' \subseteq {job[h].at}
    BY <1>2, <2>2 DEF Throw, Die
  <2>4. UNCHANGED <<row, token>>
    BY <1>2 DEF Throw, Die
  <2>5. ~(token' /\ row'.status = "suspended")
    BY <2>1, <2>4, NothingWaits
  <2>6. Quiet'
    BY <2>1 DEF Quiet, RunInv, TypeOK, OneWorker, Left, Working, Pipeline
  <2> QED
    BY <2>3, <2>5, <2>6 DEF LeftLast, OneStepLeft
<1>3. UNCHANGED left \/ \E h \in Handlers : Throw(h) \/ Die(h)
  <2>1. ASSUME NEW h \in Handlers, Request(h) \/ Timeout(h)
        PROVE  UNCHANGED left \/ Throw(h)
    BY <2>1
    DEF Request, Claim, Expire, ChargeResumed, Reopen, RefuseResume, BeginStep, DebitStep,
        AgentAnswers, LookupFails, AgentFails, RefundStep, Open, FinishLoop, RecordStranded,
        Unwind, GiveBackFirst, TimedOut, CloseResumed, ChargeFee, Timeout
  <2> QED
    BY <2>1 DEF Next, ChargeFirst, OrphanedDebit, Answer202, Lapse, vars
<1> QED
  BY <1>1, <1>2, <1>3

\* A caller who pays with a key is charged for what is delivered: once no handler works on
\* the run no undelivered step is charged, and a run that completed is charged in full,
\* whatever timed out, was refunded or failed on the way; an exception or a death leaves
\* one charged step behind at most.
THEOREM DeliveredIsCharged == MasterPath => (Spec => []ChargedForDelivered)
<1> SUFFICES ASSUME MasterPath PROVE Spec => []ChargedForDelivered
  OBVIOUS
<1>1. RunInv /\ HeldInv /\ LeftLast /\ [Next]_vars => RunInv' /\ HeldInv' /\ LeftLast'
  BY StepKeepsInv, StepKeepsBooks, StepKeepsLeft
<1>2. Init => RunInv /\ HeldInv /\ LeftLast
  BY InitInv, InitBooks DEF Init, LeftLast, OneStepLeft
<1>3. RunInv /\ HeldInv /\ LeftLast => ChargedForDelivered
  BY DEF HeldInv, LeftLast, ChargedForDelivered
<1> QED
  BY <1>1, <1>2, <1>3, PTL DEF Spec
=============================================================================
