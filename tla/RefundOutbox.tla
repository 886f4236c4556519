---------------------------- MODULE RefundOutbox ----------------------------
(***************************************************************************)
(* Giving a debit back: the best-effort credit a failed request makes      *)
(* (src/lib/step0-refund.ts and its twins in routes/compose.ts,            *)
(* routes/gasless.ts, services/compose.ts, services/orchestrate.ts), the   *)
(* outbox row it leaves when that credit reports an error                  *)
(* (src/services/refund-outbox.ts, table a2a_refund_outbox), the sweep     *)
(* that retries it (setInterval in src/index.ts) and the functions in      *)
(* Postgres that credit a logical refund once (HU-194).                    *)
(*                                                                         *)
(* A step is one database call.  A call whose answer is lost has either    *)
(* not run, or has run, or runs later: it goes to "late" and the database  *)
(* may still execute it at any time.  Sweeps overlap: the timer does not   *)
(* wait for the previous pass, and every instance of the gateway has one.  *)
(***************************************************************************)
EXTENDS Naturals, FiniteSets

CONSTANTS
    Refunds,        \* logical refunds (one idem_key each)
    NoRow,          \* no refund
    Legacy,         \* rows enqueued before HU-194: idem_key IS NULL
    Delegated,      \* refunds of a debit made under a delegation or a key-session
    Orchestrated,   \* refunds of orchestrate.ts, which enqueues master refunds only
    Sweeps,         \* passes of processRefundOutbox that may run at once
    Limit,          \* rows one pass claims
    MaxAttempts,    \* MAX_REFUND_ATTEMPTS
    UpdatesFail,    \* the UPDATE that writes an outcome may fail (it is only logged)
    Crashes         \* the process may die in the middle of a pass

ASSUME SetsAssumption ==
    /\ IsFiniteSet(Refunds)
    /\ Legacy \subseteq Refunds /\ Delegated \subseteq Refunds
    /\ Orchestrated \subseteq Refunds
    /\ Legacy \cap Delegated = {} /\ NoRow \notin Refunds
ASSUME NumbersAssumption == Limit \in Nat /\ MaxAttempts \in Nat \ {0}
ASSUME FaultsAssumption == UpdatesFail \in BOOLEAN /\ Crashes \in BOOLEAN

VARIABLES
    call,          \* where the request that owes the refund is
    row,           \* a2a_refund_outbox.status, "none" without a row
    attempts,      \* a2a_refund_outbox.attempts
    createdAt,     \* a2a_refund_outbox.created_at, as an arrival number
    applied,       \* a2a_refund_applications: the idem_keys already credited
    keyCredits,    \* how often the agent key's budget was credited
    childCredits,  \* how often the delegation's or session's counter was
    late,          \* credits whose caller gave up on the answer
    step,          \* per sweep: "idle", "loop", "mark", "bump"
    held,          \* per sweep: the claimed rows it has not finished
    at             \* per sweep: the row whose outcome it is about to write, or NoRow

rowVars == <<row, attempts, createdAt>>
ledgerVars == <<applied, keyCredits, childCredits>>
sweepVars == <<step, held, at>>
vars == <<call, rowVars, ledgerVars, late, sweepVars>>

\* "unqueued": answered, but the row that should remember the refund was not written
CallSteps == {"credit", "enqueue", "answered", "unqueued"}
RowStatuses == {"none", "pending", "processing", "done", "dead"}
Decided == {"done", "dead"}
\* A credit: of the key alone, or of the key and the delegation or session together.
Credits == [refund : Refunds, dual : BOOLEAN]

TypeOK ==
    /\ call \in [Refunds -> CallSteps]
    /\ row \in [Refunds -> RowStatuses]
    /\ attempts \in [Refunds -> Nat]
    /\ createdAt \in [Refunds -> Nat]
    /\ applied \subseteq Refunds \ Legacy
    /\ keyCredits \in [Refunds -> Nat]
    /\ childCredits \in [Refunds -> Nat]
    /\ late \subseteq Credits
    /\ step \in [Sweeps -> {"idle", "loop", "mark", "bump"}]
    /\ held \in [Sweeps -> SUBSET Refunds]
    /\ at \in [Sweeps -> Refunds \cup {NoRow}]

\* Legacy rows are waiting already; whether their first credit ran is not recorded.
Init ==
    /\ call = [r \in Refunds |-> IF r \in Legacy THEN "answered" ELSE "credit"]
    /\ row = [r \in Refunds |-> IF r \in Legacy THEN "pending" ELSE "none"]
    /\ attempts = [r \in Refunds |-> 0]
    /\ createdAt = [r \in Refunds |-> 0]
    /\ applied = {}
    /\ \E ran \in SUBSET Legacy :
          keyCredits = [r \in Refunds |-> IF r \in ran THEN 1 ELSE 0]
    /\ childCredits = [r \in Refunds |-> 0]
    /\ late = {}
    /\ step = [s \in Sweeps |-> "idle"]
    /\ held = [s \in Sweeps |-> {}]
    /\ at = [s \in Sweeps |-> NoRow]

-----------------------------------------------------------------------------
(* The credit functions: refund_a2a_key_spend, refund_with_dest_policy,     *)
(* refund_delegation_and_parent, refund_session_and_parent.                 *)

\* refund_idem_claim: the key is already in a2a_refund_applications.
NeverClaimed(r) == FALSE
AlreadyApplied(r) == r \in applied

\* what the claim inserts: nothing for a row without a key
ClaimKey(r) == {r} \ Legacy

\* One transaction: the claim and the money commit together, or neither does.
Credit(c) ==
    IF AlreadyApplied(c.refund)
    THEN UNCHANGED ledgerVars
    ELSE /\ applied' = applied \cup ClaimKey(c.refund)
         /\ keyCredits' = [keyCredits EXCEPT ![c.refund] = @ + 1]
         /\ childCredits' = [childCredits EXCEPT ![c.refund] = IF c.dual THEN @ + 1 ELSE @]

\* The caller sees an error: refused, lost before, or not answered yet.
Unanswered(c) ==
    /\ late' \in {late, late \cup {c}}
    /\ UNCHANGED ledgerVars

\* The database executes a call nobody waits for any more.
LateCredit(c) ==
    /\ c \in late
    /\ Credit(c)
    /\ late' = late \ {c}
    /\ UNCHANGED <<call, rowVars, sweepVars>>

-----------------------------------------------------------------------------
(* The request: credit, and enqueue when the credit reports an error.       *)

Owed(r) == [refund |-> r, dual |-> r \in Delegated]

EnqueuesAll(r) == TRUE
\* orchestrate.ts does not enqueue a delegated refund: the sweep credits the key only.
Enqueues(r) == ~(r \in Orchestrated /\ r \in Delegated)

RefundOnce(r) ==
    /\ call[r] = "credit"
    /\ \/ /\ Credit(Owed(r))
          /\ call' = [call EXCEPT ![r] = "answered"]
          /\ UNCHANGED late
       \/ /\ Unanswered(Owed(r))
          /\ call' = [call EXCEPT ![r] = IF Enqueues(r) THEN "enqueue" ELSE "answered"]
    /\ UNCHANGED <<rowVars, sweepVars>>

Rows == {r \in Refunds : row[r] # "none"}

\* enqueueRefund: an INSERT; its failure is logged and the refund is forgotten.
EnqueueRefund(r) ==
    /\ call[r] = "enqueue"
    /\ \/ /\ row' = [row EXCEPT ![r] = "pending"]
          /\ createdAt' = [createdAt EXCEPT ![r] = Cardinality(Rows)]
          /\ call' = [call EXCEPT ![r] = "answered"]
       \/ /\ call' = [call EXCEPT ![r] = "unqueued"]
          /\ UNCHANGED <<row, createdAt>>
    /\ UNCHANGED <<attempts, ledgerVars, late, sweepVars>>

-----------------------------------------------------------------------------
(* The sweep: claim a batch, then for each row credit and write the outcome. *)

ClaimableAgain == {r \in Refunds : row[r] \in {"pending", "processing"}}
Claimable == {r \in Refunds : row[r] = "pending"}

\* ORDER BY created_at FOR UPDATE SKIP LOCKED LIMIT p_limit
OldestPending(batch) ==
    /\ batch \subseteq Claimable /\ batch # {}
    /\ Cardinality(batch) = Limit \/ (batch = Claimable /\ Cardinality(batch) <= Limit)
    /\ \A r \in batch, q \in Claimable \ batch : createdAt[r] <= createdAt[q]

ClaimRefundOutbox(s) ==
    /\ step[s] = "idle"
    /\ \E batch \in SUBSET Claimable :
          /\ OldestPending(batch)
          /\ row' = [r \in Refunds |-> IF r \in batch THEN "processing" ELSE row[r]]
          /\ held' = [held EXCEPT ![s] = batch]
    /\ step' = [step EXCEPT ![s] = "loop"]
    /\ UNCHANGED <<call, attempts, createdAt, ledgerVars, late, at>>

\* A row knows neither its delegation nor its session: the sweep credits the key.
Retried(r) == [refund |-> r, dual |-> FALSE]

OutcomeOptimistic(ok) == "mark"
\* what processEntry writes next: done only when the credit answered with success
Outcome(ok) == IF ok THEN "mark" ELSE "bump"

ProcessEntry(s, r) ==
    /\ step[s] = "loop" /\ r \in held[s]
    /\ at' = [at EXCEPT ![s] = r]
    /\ \/ Credit(Retried(r)) /\ UNCHANGED late /\ step' = [step EXCEPT ![s] = Outcome(TRUE)]
       \/ Unanswered(Retried(r)) /\ step' = [step EXCEPT ![s] = Outcome(FALSE)]
    /\ UNCHANGED <<call, rowVars, held>>

\* The pass goes on with the rest of its batch.
Advance(s) ==
    LET rest == held[s] \ {at[s]}
    IN  /\ held' = [held EXCEPT ![s] = rest]
        /\ step' = [step EXCEPT ![s] = IF rest = {} THEN "idle" ELSE "loop"]
        /\ at' = [at EXCEPT ![s] = NoRow]
        /\ UNCHANGED <<call, createdAt, ledgerVars, late>>

MarkDone(s) ==
    /\ step[s] = "mark"
    /\ \/ row' = [row EXCEPT ![at[s]] = "done"]
       \/ UpdatesFail /\ UNCHANGED row
    /\ Advance(s)
    /\ UNCHANGED attempts

\* the attempts bumpAttempt writes: those of the row as it was claimed, and one more
\* (a row the pass holds is changed by nobody else, so they are also the row's own)
NextAttemptsStuck(n) == n
NextAttempts(n) == n + 1

BumpAttempt(s) ==
    LET n == NextAttempts(attempts[at[s]])
    IN  /\ step[s] = "bump"
        /\ \/ /\ attempts' = [attempts EXCEPT ![at[s]] = n]
              /\ row' = [row EXCEPT ![at[s]] = IF n >= MaxAttempts THEN "dead" ELSE "pending"]
           \/ UpdatesFail /\ UNCHANGED <<attempts, row>>
        /\ Advance(s)

\* The process exits (SIGTERM, a deploy, a crash) between two calls of a pass.
SweepDies(s) ==
    /\ Crashes /\ step[s] # "idle"
    /\ step' = [step EXCEPT ![s] = "idle"]
    /\ held' = [held EXCEPT ![s] = {}]
    /\ at' = [at EXCEPT ![s] = NoRow]
    /\ UNCHANGED <<call, rowVars, ledgerVars, late>>

-----------------------------------------------------------------------------
Pass(s) ==
    \/ ClaimRefundOutbox(s)
    \/ \E r \in Refunds : ProcessEntry(s, r)
    \/ MarkDone(s)
    \/ BumpAttempt(s)

Next ==
    \/ \E c \in late : LateCredit(c)
    \/ \E r \in Refunds : RefundOnce(r) \/ EnqueueRefund(r)
    \/ \E s \in Sweeps : Pass(s) \/ SweepDies(s)

Spec == Init /\ [][Next]_vars

\* setInterval keeps starting passes and a pass that is alive goes on: every call
\* it makes ends, with an answer or with an error.
FairSpec == Spec /\ \A s \in Sweeps : WF_vars(Pass(s))

-----------------------------------------------------------------------------
(* Properties.                                                              *)

\* A keyed refund moves money once, in the key and in the delegation, however often
\* the request, overlapping sweeps and calls that run late try it (HU-194).
CreditedAtMostOnce ==
    \A r \in Refunds \ Legacy : keyCredits[r] <= 1 /\ childCredits[r] <= 1

\* A refund that was not made leaves a row: a handler that has answered leaves a credited
\* key or a row that does not say "done".  It does not say that the row is retried: a pass
\* that dies, or whose UPDATE fails, leaves it in processing, which nobody claims or lists.
\* (An INSERT that fails is only logged: that refund is "unqueued".  Of a delegated
\* refund orchestrate.ts keeps a log line and the refundError flag, no row.)
NoRefundForgotten ==
    \A r \in Refunds :
        call[r] = "answered" /\ row[r] \in {"none", "done"} /\ Enqueues(r) => keyCredits[r] >= 1

\* FOR UPDATE SKIP LOCKED: two passes never hold the same row.  For a legacy row,
\* which nothing deduplicates, this is all that keeps two passes from both paying.
PassesAreDisjoint ==
    \A s, t \in Sweeps : s # t => held[s] \cap held[t] = {}

\* markDone and bumpAttempt update by id alone, whatever the status: a row that is
\* done or dead nevertheless stays so.
DecidedIsFinal ==
    [][\A r \in Refunds : row[r] \in Decided => row'[r] = row[r]]_vars

\* Every row that is queued is eventually credited, or buried for a person to review.
QueuedIsDecided ==
    \A r \in Refunds : row[r] \in {"pending", "processing"} ~> row[r] \in Decided

\* What step0-refund.ts says of a refund under a delegation or a session: it reverts both
\* ledgers, never the key alone.  The sweep of a refund that was enqueued breaks it.
BothLedgersCredited ==
    \A r \in Delegated : keyCredits[r] = childCredits[r]

\* What does hold: the delegation or session never receives what its key did not, and it
\* falls behind its key only for a refund whose request left a row in the outbox -- never
\* for one of orchestrate.ts, which enqueues no delegated refund for that reason.
KeyAloneOnlyFromQueue ==
    \A r \in Delegated :
        /\ childCredits[r] <= keyCredits[r]
        /\ keyCredits[r] # childCredits[r] => row[r] # "none" /\ r \notin Orchestrated

-----------------------------------------------------------------------------
(* Why the safety properties hold: the inductive strengthening.             *)

\* The application record counts the credits of a keyed refund.
LedgerMatchesKeys ==
    \A r \in Refunds \ Legacy :
        /\ keyCredits[r] = IF r \in applied THEN 1 ELSE 0
        /\ childCredits[r] <= keyCredits[r]

\* A pass owns what it holds: the row is in processing, and in no other pass's hands.
PassesOwnTheirRows ==
    /\ PassesAreDisjoint
    /\ \A s \in Sweeps : \A r \in held[s] : row[r] = "processing"
    /\ \A s \in Sweeps :
          /\ step[s] = "idle" => held[s] = {}
          /\ step[s] \in {"mark", "bump"} => at[s] \in held[s]

\* A refund has no row before its request has enqueued it.
RowAfterRequest ==
    \A r \in Refunds : call[r] \in {"credit", "enqueue"} => row[r] = "none"

\* A pass about to write "done" has seen the credit succeed.
MarkMeansCredited ==
    \A s \in Sweeps : step[s] = "mark" => keyCredits[at[s]] >= 1

\* The invariant the proofs are by induction on: each queued refund has one owner at a
\* time, its request or one pass, and only an owner that saw the credit writes "done".
OutboxInv ==
    /\ TypeOK
    /\ LedgerMatchesKeys
    /\ PassesOwnTheirRows
    /\ RowAfterRequest
    /\ MarkMeansCredited
    /\ NoRefundForgotten

\* Only what was enqueued can be credited to the key alone, now or by a late call.
KeyAloneInv ==
    /\ \A r \in Delegated \cap Orchestrated : call[r] # "enqueue" /\ row[r] = "none"
    /\ \A c \in late : c.refund \in Delegated /\ ~c.dual => row[c.refund] # "none"
    /\ KeyAloneOnlyFromQueue
=============================================================================
