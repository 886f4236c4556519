# TLA+ verification of the WasiAI A2A gateway

The gateway charges agents' prepaid keys, pays sellers on-chain, and gives money back when a
step fails. This directory models the parts of it where money could be moved twice, lost or
forgotten because requests, sweeps, retries and crashes interleave: nine modules, each with its
model-checked instance, eight of them with proofs, and two abstract specifications that the
detailed modules are shown to implement.

Contents: [system](#1-the-system) - [modules](#2-modules-and-how-they-correspond-to-the-code) -
[runs](#3-runs-bounds-fairness) - [disagreements](#4-where-code-and-documents-disagree) -
[proofs](#5-proofs) - [plan](#6-plan) - [limits](#7-what-is-not-modelled-and-why)

## 1. The system

A Fastify server (`src/src`) over Postgres (`src/supabase/migrations`, SECURITY DEFINER
functions that lock their row), on-chain settlement through facilitators and adapters, and an
escrow contract (`src/contracts`). Several instances of the server may run; they share only the
database and the chain. Every database call is a transaction; nothing spans two calls.

| Component | State it keeps | Operations | What makes it hard | What makes it correct | Module |
|---|---|---|---|---|---|
| Payment intents (`services/payment-intent.ts`) | `a2a_payment_intents`, `a2a_payment_vouchers` | open, voucher, close, upto settle, sweep | settle is slow and may answer ambiguously; retries and sweeps find rows half done | one settle; exact books; finished means finished; nobody looks at the type | `PaymentIntent` |
| Arbiter (`services/arbiter.ts`) | the same row, `a2a_arbitrations`, `a2a_arbiter_nonces` | dispute, hold, forced settle, override, revert | disputes race closes; a best-effort revert runs late | same; a forced payment is covered | `PaymentIntent` |
| Escrow settlement (`settleEscrowAware`, `adapters/escrow`) | `a2a_payment_intent_debit_signatures` | capture, hop 1, hop 2 | two on-chain hops, unknown results, a lease | the seller is paid once | `EscrowSettle` |
| Reconciliation (`services/reconciliation.ts`) | the same row | claim, settle or refund side, resolve, release | races the settler and itself | one resolution per debit | `EscrowSettle` |
| Escrow contract (`WasiAIEscrow.sol`) | balances, locks, nonces, consent, roles | deposit, debit, batch, withdraw, lock, release, resolve | several authorities over one balance | each key pays for itself, one nonce moves money once | `WasiAIEscrow` |
| Budget ledger (`services/budget.ts`), delegations, key-sessions, spend policies, deposits | `a2a_agent_keys`, their child rows, `a2a_key_dest_spend_ledger` | debit and refund of one or two ledgers | daily reset, windows, late refunds, revocation | balance equals the books; what each limit really bounds | `BudgetLedger` |
| Refund outbox (`services/refund-outbox.ts`, `lib/step0-refund.ts`) | `a2a_refund_outbox`, `a2a_refund_applications` | credit, enqueue, claim, retry | lost answers, late calls, overlapping passes, death in mid-pass | credited at most once, never forgotten | `RefundOutbox` |
| Compose (`services/compose.ts`, `routes/compose.ts`) and suspended runs | run-local, `a2a_suspended_runs` | step loop, suspend, resume, expire, refund, fee | a failing step in the middle, a 504 while the handler goes on, two resumes | each step once, charged when delivered, one ceiling, one fee | `ComposeRun` |
| Agent links (`services/agent-link.ts`), the approved plan of `orchestrate.ts` | `a2a_agent_links` | redeem: claim, quote, debit, invoke, refund, settle | single use that may be given back | served once, charged when served | `AgentLink` |
| Solana settle ledger (`adapters/solana/payment.ts`) | `a2a_solana_settle_intents` | claim, sign, record, send, confirm, reclaim | leases, transactions that land late | one payment per intent, one intent per payment | `SolanaSettle` |
| Solana inbound proofs (`middleware/x402.ts`) | `a2a_solana_inbound_proofs` | check, probe, observe, consume | a stored verdict is reused; two providers disagree | a transfer serves one paid request | `SolanaInbound` |
| Circuit breaker (`lib/circuit-breaker.ts`) | in-memory state | execute | concurrent calls straddle a transition | bounded traffic while open | - |
| Fees and splits | `a2a_protocol_fees` | charge, split | partial failure, rounding | shares sum to the fee | - |
| The rest (discovery, registries, identity, receipts, routes, adapters, MCP, SDK) | records and caches | CRUD and I/O | little | data shaping | - |

How they interact. A route debits a key through the budget ledger; compose and orchestrate call
agents and pay them through the adapters (Solana among them); a failed request credits the key
back and, when that credit reports an error, enqueues it in the outbox; the sweep timer of
`index.ts` retries it. A link redeem is an orchestrate run on somebody else's key. A payment
intent reserves or debits the same key, settles to the seller directly or through the escrow
(hop 1, hop 2), and an admin or the arbiter may force its outcome, locking the buyer's escrow
balance meanwhile.

The modules meet at these seams: a debit or a refund is one atomic step with three possible
answers (applied, refused, applied with the answer lost) in `ComposeRun`, `AgentLink` and
`RefundOutbox`, because `BudgetLedger` makes it one transaction; "queued" in the first two is the
initial state of a row of `RefundOutbox`; `Settle` of `PaymentIntent` is the whole of
`EscrowSettle` for an intent with a signed debit.

## 2. Modules, and how they correspond to the code

Conventions. A step is one `await` that reads or writes shared state: one RPC, one query, one
chain call. A process may die, and a call may fail, commit, or commit and lose its answer, at each
of them. A variable documented as *history* is not in the code; it only remembers for a property.
Definitions such as `ClaimableTwice` beside `Claimable` are the same code with one plausible bug;
no action uses them, and they serve to show that each property notices a bug of its kind.

### PaymentIntent, IntentContract

`PaymentIntent` is one intent: its row (`type`, `status`, `outcome`, `consumed`, `seen`), its
money (`charged`, `refunded`, `paid`, `settles`), two clock conditions (`expired`, `aged`), and
per worker the next call it will make (`pc`) with its locals (`path`, `amt`, `verdict`). A worker
is an in-flight request or a pass of `expireStale`; a step is one database call, or one settle.

| Action | Code |
|---|---|
| `Open`, `Voucher` | `open_payment_intent`, `accumulate_payment_voucher` |
| `CloseSession`, `SettleUpto` (`CloseRow`, `RecoverClosing`, `AnswerFromRow`) | `closeSession`, `settleUpto` up to their settle, with `close_payment_intent_for_settle` |
| `Debit` | `debitBuyer` and its catch in `settleUpto` |
| `Settle` | `settleEscrowAware` / `settlePaymentIntentOnChain`: `SettleResults` lists what may have happened with what the handler concludes |
| `Record`, `Finalize` | `record_settle_outcome`, `finalize_payment_intent` |
| `OpenDispute`, `Hold`, `ExecuteArbitration`, `ResolveHold`, `ResolveThrows`, `RevertDisputeToOpen` | the handlers of `arbiter.ts`; the decision (rules or LLM) is any amount |
| `SweepQuery`, `SweepClose`, `SweepArb` | `expireStale`, whose query and handling of a row are separate calls, and `recoverArbClosing` |
| `Crash` | the process dies, a response is lost, or a call throws outside a catch |

No handler, and no SQL function but `accumulate_payment_voucher`, looks at the type of the intent
it is called on: an upto may be disputed, a session settled as an upto. The model lets clients do
all of it, and history says who froze which amount (`frozenBy`, `due`) and who finished the row
(`finishedBy`), because what the buyer is charged follows the endpoint and what is given back
follows the type.

`IntentContract` says what an intent promises with no workers in it: an amount is frozen, it is
transferred at most once, charged in the way of the endpoint that froze it, and at the end credited
back in the way of the type, or the intent failed and nothing was given back.
`PaymentIntent!ImplementsContract` is the refinement: disputes and holds still count as open, and
the two closing states as one.

Abstractions: amounts are natural numbers of micro-USD (the code's rounding of floats to micro is
outside); ownership checks are left out because every call uses the owner's reference; the cap
signature and nonce of an upto are left out; the on-chain verdict is nondeterministic.

### EscrowSettle, DebitResolution

One signed debit: the row of `a2a_payment_intent_debit_signatures` (`status`, `attempted`,
`hash1`, `hash2`), the hop 1 transaction on chain (`hop1`), what the seller received (`paid`) and
the buyer got back (`credited`), the settler (`settler`, which runs once because an intent is
closed once) and concurrent calls of the reconciliation endpoints (`pc`).

| Action | Code |
|---|---|
| `SendHop1`, `AwaitHop1`, `Seam`, `RecordHop1`, `Defer` | `executeDebitHop1` and the branches of `settleEscrowAware` on its result; `record_debit_hop1` |
| `Lease`, `Hop2`, `Flip`, `Release` | `record_debit_settle_status` (the lease) around `settlePaymentIntentOnChain` |
| `ResolveIntent`, `ClaimSettle`, `Verify`, `SendHop2`, `SaveTx`, `RecordSettled` | `resolveIntent`, settle side, with `claim_reconciliation` and `record_reconciliation_resolution` |
| `ClaimRefund`, `RecordRefunded` | the refund side; the flip and the credit are one commit |
| `Evidence`, `AttestUnpaid`, `ReleaseLease` | `resolveWithHop2Evidence`, `releaseHop2Lease`; the attestation is true when it is made |
| `Mine`, `SettlerDies`, `AdminStops` | the chain; process death or a failing query |

Two things the code leaves to chance happen in the model as in the code. A claim may overtake a
write of `reconciliation_pending`, which has no guard and erases the claim when it lands (`late`
remembers whose writes were overtaken). A node that has not heard of a landed hop 2 says it does not
exist (`MaxPaid` bounds for how many payments). `lost` remembers that one of them did harm, and the
properties that the code keeps say so. The constants `LateWrites` and `NodesLag` switch either off
to see the other alone; both are on in `EscrowSettleSafety`, and the proofs assume nothing of them.
`DebitResolution` is the abstract specification: a debit ends on one side, and once as long as the
gateway has not lost track. `ResolvesOneSide` is the refinement, whose mapping is the identity on
`paid`, `credited` and `lost`.

### BudgetLedger

One key on one chain. Every operation is one RPC that holds the key's row lock, so a step is an
operation: `Deposit`, `Debit` (through the key, its delegation or its session, with or without a
destination policy), `Refund` (all or part, on any later day, through the child or through the key
alone, which is how the outbox credits), `SetPolicy`, `CloseChild`, `Deactivate`, `Tick`. The daily
counter resets lazily, as in `increment_a2a_key_spend`. `day`, `today`, `carried` and `net` are
history: what was really spent today, what of today's refunds was of earlier days, and what each
child really spent. Left out: the limit per call (a pure comparison), the budgets of other chains.

### RefundOutbox

Each logical refund has its request (`call`), its row (`row`, `attempts`, `createdAt`), the claim
record (`applied`) and what the ledgers received (`keyCredits`, `childCredits`). `late` holds
credits whose caller stopped waiting; the database may still run them. Passes claim a batch of the
oldest pending rows (`ClaimRefundOutbox`, SKIP LOCKED), credit (`ProcessEntry`) and write the
outcome (`MarkDone`, `BumpAttempt`). Legacy rows have no idempotency key; delegated refunds owe two
ledgers; `Orchestrated` refunds follow the rule of `orchestrate.ts`, which enqueues master refunds
only, and the others that of `step0-refund.ts`, compose and gasless, which enqueue every refund.
`SweepDies` is the end of the process in mid-pass.

Abstractions: the amount of a refund is one unit; "nothing to revert" and "error" are the same
answer for the caller; destination caps are not told apart from the key's budget.

### ComposeRun

One pipeline, from the charge of its first step to the fee, with the half that may run days later.
A request is a record (`job`): the next call of its handler, the first step of its half and the
step it is at, whether it charged the first step (`charged`), used its one retry, ended on a step
that was delivered and not counted, and whether the 504 is out (`sent`). The rest is the row of
`a2a_suspended_runs` (`row`, `late`, `token`) and what everybody can see: `held` (debits less
refunds per step), `delivered`, `paid`, `stranded`, `fees`.

| Action | Code |
|---|---|
| `ChargeFirst`, `OrphanedDebit` | the debit of `middleware/a2a-key.ts` and `refundIfDebitOrphaned` |
| `Claim`, `Expire`, `ChargeResumed`, `Reopen`, `RefuseResume`, `CloseResumed` | `POST /compose/resume` with `claim_suspended_run`, `expire`, `debitResumedFirstStep`, `settle_suspended_run` |
| `BeginStep`, `DebitStep`, `AgentAnswers`, `LookupFails`, `AgentFails`, `RefundStep`, `Open`, `FinishLoop` | `executePipeline`: gates, debit, invocation with its downstream leg, `finishSuccessfulStep`, the catch with `refundStepDebit` and the single retry, `suspendIfEnvelope` |
| `RecordStranded`, `Throw`, `Unwind`, `GiveBackFirst`, `TimedOut`, `Answer202`, `ChargeFee` | the ends of `compose()` and of both handlers: `recordStrandedRunIfAny`, `refundComposeStep0`, the `reply.sent` branches, `chargeProtocolFee` |
| `Timeout`, `Die`, `Lapse` | `createTimeoutHandler`, process death, the expiry of the row |

Two history variables keep apart what stays charged with nothing delivered: `escaped`, the first
step of a half whose pipeline threw before calling it (`Throw`: a 500, no refund), and `cut`, a step
charged when the process died. `unsettled` holds only debits whose answer was lost and refunds that
failed.

Abstractions: every step costs one unit, so the ceiling bounds agents' prices; the gas and the
placeholder price that a debit may add are in no `totalCostUsdc` of the code either
(`compose.ts:592`, 673), and what they add to a charge is outside this model. Scope checks, field
mapping, schema transforms and discovery either let a step begin or make it fail or throw; a refund
handed to the outbox is in `unsettled`, because what becomes of it is `RefundOutbox`.
`MasterPath = FALSE` is the caller with a session or a delegation, whose loop debits are not
refunded (section 4).

### AgentLink

One link and the requests that redeem it. `Lookup` reads the row and a price, both possibly stale
by the time of `Claim`; `Quote`, `Debit`, `Invoke` and `Refund` are `executeApprovedPlan` for a
plan of one step (its cap gate asks for the price again); `Redeem`, `Reopen` and `Fail` settle the
row by what came back; `Sweep` is the outbox. `held` is what the owner is charged for each request
and `doubt` remembers charges that nobody will return: a lost answer of a debit, a thrown
run, a death, a refund that is only a log line.

### SolanaSettle

The rows of `a2a_solana_settle_intents` (`status`, `sig`, `expired`, `lease`), the chain (`height`,
and per transaction: accepted by a node, landed, failed), and calls of `settle()` (`pc`, `held`).
All intents pay the same amount to the same agent, the worst case: two that sign under one
blockhash make the same transaction, so a signature *is* the height of its blockhash, and only the
unique index tells the intents apart. `Claim`, `RecordSigned`, `RecordConfirmed` and `Reclaim` are
the RPCs of the ledger; `Sign`, `Send`, `Confirm`, `Recover` are `signPersistBroadcast`; `Reverify`,
`Probe`, `ReadHeight` are `settleAlreadyConfirmed` and `settleAlreadySigned`; `LeaseRunsOut` is the
database's clock. A node may have seen too little (`Presence` may always say absent), blocks and
transfers come between the probe of a transaction and the reading of the height, and
`confirmTransaction` resolves for a failed transaction too. History marks where that bites: `stale`
holds the signatures told absent that are on chain, or landed before the height was read; `trusted`
the calls that took an error for a confirmation. Left out: settling through the facilitator, and
`landed_mismatch` (calls of one intent agree on the terms).

### SolanaInbound

One transfer, the challenges it may carry and the requests that present it, to one provider or
two. `Check`, `Peek`, `ProbeTransfer`, `Observe`, `Consume`, `Spend` and `Grant` are phases P2 to
P9 of `handleSolanaInboundPayment`: `Consume` is the look at `reply.sent`, `Spend` the RPC that
consumes the proof, `Grant` what follows its answer. `InboundPresence`, `Binding` and their
combinations by rank translate the verdict functions; `TimeOut` is the 504, which may leave between
any two of them, and `caught` remembers whom it met with the spending call under way. The chain
moves meanwhile (`TransferLands`, `Finalize`, forks included), challenges expire, and a node tells
the truth, an older truth or nothing (`Views`).

### WasiAIEscrow

One action per external function; a reverted transaction is no step. `usedNonces` and `consent`
are sets; flows out of each key (`toOperator`, `toOwner`, `toSeller`) and into it (`deposited`) and
the number of movements under each nonce (`uses`) are history variables. `debit` is a batch of one;
a batch is a set because elements with equal key and nonce make it revert; its elements pass the
contract's check one after the other exactly when their sum per key is covered (`Covered`). `Sign`
is the depositor's wallet, `MaxSigned` the bound on what it signs. The contract checks a debit
against the whole balance, locked part included; `OnlyDebitsUncover` says that this is the only way
a balance falls below its lock.

Abstractions: `USDC` transfers what it is asked; uint256 does not overflow (the supply is far
below it); only the owner calls `setOperator` and `setArbiter`, who the owner is does not matter;
`setOperator(0)` is refused; upgrades are left out.

## 3. Runs, bounds, fairness

| Run | Bounds | Distinct states | Shows |
|---|---|---|---|
| `IntentSafety` | 3 workers, 2 vouchers (1 and 2), deposit 2, usages and arbitration amounts 0, 1, 3 | 312,035 | one settle, exact books, justified refunds, finality, refinement of `IntentContract`, whichever endpoints are called |
| `OutboxSafety` | legacy, master, delegated and orchestrated delegated refund; 2 passes; batch of 2; 2 attempts; every fault | 2,035,452 | credited once, never forgotten, decided is final, the key alone only from the queue |
| `OutboxLiveness` | legacy, master and delegated refund, 2 passes, batch of 1, 2 attempts, no faults of the pass itself | 266,685 | queued is decided |
| `EscrowFunds` | 2 keys, 2 nonces, 2 people, amount 1, supply 2, 3 signatures, batches of 2, TTL 1, clock to 1 | 400,682 | each key pays for itself, a nonce moves money once, only debits uncover a lock |
| `EscrowSettleSafety` | settler and 3 admins, late writes and lagging nodes, 2 payments | 151,403 | once unless a claim was erased or a payment denied; refunds need a revert; true records; refinement of `DebitResolution` |
| `EscrowSettleLateWrite` | settler and 2 admins, late writes only | violation | disagreement 1 |
| `Budget` | deposit 5; payments of 2 and 1 by a delegation and of 2 by the key, to one destination; daily limit 3, child total 2, cap 3; 3 ticks of a day each, window 1 | 1,361,676 | balance matches the books; what the daily limit, the child's total and the cap bound |
| `SolanaSafety` | 3 calls, two of one intent; 2 intents; validity 1, height to 3 | 2,622,640 | a second payment or a shared transfer needs a stale absence, what is claimed is unsent, a false success is a trusted error |
| `SolanaInbound` | 3 requests (prices 1, 1, 2), challenges of 1 and 2, a transfer of 1 or 2 | 711,468 | one request per transfer, granted is paid, burnt only in flight |
| `ComposeSafety` | 4 steps, 2 resumes, ceilings 2 and 4, master key | 23,972 | each step once and in order, one ceiling, charges, fee, stranded events |
| `ComposeLookup` | same | violation | disagreement 2 |
| `AgentLinkRedeem` | 3 requests, prices none, 2, 3, 4, cap 3, fee 1, gas 1, placeholder 2 | 122,850 | served once, open is unserved, charged when served, within the cap |

Beside these runs stand configurations that check one property which the code does not keep, and
which a passing property states with the exact exception. TLC stops in each with the trace that
section 4 tells: `IntentUptoDispute`, `IntentRefundWhole` (with `PaymentIntentMC`),
`OutboxDelegated` (`RefundOutboxMC`), `EscrowSettleNodeLag` (`EscrowSettleMC`), `SolanaStaleProbe`,
`SolanaErrorValue`, `SolanaFailedLands` (`SolanaSettleMC`), `SolanaInboundLate504`
(`SolanaInboundMC`) and `ComposeThrow` (`ComposeRunMC`).

Why these bounds are enough to be interesting. *Intents*: three workers give a settler, a racer
and a sweep, the smallest set in which a stale observer, a recovery and the real owner are all
distinct; two vouchers below and above the deposit give partial use, full use and overshoot; an
amount of 3 exceeds the deposit, so every clamp bites. *Outbox*: two passes with a batch of two
leave more refunds waiting, and two attempts let a row be retried and buried; of the two delegated
refunds one may be enqueued and one may not. *Escrow*: two keys with the same two nonces separate
per-key from global uniqueness, and let a batch hold two elements of one key that are covered one by
one and not in sum. *Escrow settlement*: three admins let one hold a lease, one attest and one claim
while the settler is still there; a call that ended may come again, so more calls are more of the
same; two payments are enough to see a second. *Budget*: the daily limit is below what the
payments sum to, and so is each cap; the clock reaches two days after the first, so a refund can be
one and two days late and a rolling window can have lost either row. *Solana*: two calls of an
intent race and one of another may sign the same transaction; with a validity of 1 and heights to
3 a signature can be alive with its successor, expire at two heights, and be signed anew after
either. *Inbound*: two requests of the same price can share a challenge or not,
the third needs more than the cheap challenge covers. *Compose*: with four steps the run can suspend
after any of the first three, both halves can have a first, a middle and
a last step, and a ceiling of 2 is reached by either half; two resumes race. *Link*: prices below,
at (with the fee) and above the cap, and none.

Symmetry is used over workers, passes, calls of one intent, resumes, redeems and the requests of
one price, which no other constant tells apart, and never in a run with liveness. Deadlock is
unchecked where the system rightly comes to rest (a decided outbox, a resolved debit, an ended
run): in all runs but `IntentSafety` and `EscrowFunds`.

Every checked property is violated by some plausible bug in the code, recorded in `PROJECT.json`
(`mutants`) and listed with the line where it would be made.

Fairness. The outbox has weak fairness of each pass, because `setInterval` in `index.ts` keeps
starting passes and every call in a pass ends, with an answer or an error. Nothing is assumed of
requests, of late calls or of crashes. No other module has fairness: `expireStale` is called from
nowhere in the repository, a row left in `resuming` or `redeeming` has no recovery, and the
reconciler is a person calling an endpoint, so nothing promises that they end, and no liveness is
claimed of them.

## 4. Where code and documents disagree

Shown by a run:

1. `EscrowSettleLateWrite`. Migration `20260729000000_hu202_hop2_lease.sql` argues (60-63,
   234-236) that a stamped hop 2 stays protected whatever a caller does to the status.
   `record_debit_settle_status` (140) guards only the transition to `resolving_settle`: a slow
   write of `reconciliation_pending` lands on a row that the reconciler has claimed meanwhile, clears
   its stamp, and a second call sends hop 2 again.
2. `ComposeLookup`. `finishSuccessfulStep` looks up the next step's agent (`compose.ts:1585`) after
   it has pushed the delivered step; a lookup that throws lands in the catch of a failed
   invocation, which refunds that step. `compose.test.ts:3542-3550` calls this drain closed.
   `ChargedForDelivered` is what does hold: no step undelivered is charged, but the first of a half
   whose pipeline threw or whose process died, of which there is at most one (`ComposeThrow` below),
   and a whole
   pipeline is charged whole.

Shown by a configuration kept beside the runs (section 3); the property in brackets is what the code
does keep, checked and proved:

1. `IntentUptoDispute`. `openDispute` (`arbiter.ts:593`) reads the owner and the chain and never the
   type, nor does `open_dispute`; an upto, which only `settleUpto` debits, can be disputed and paid
   with money nobody was charged. The arbiter is documented for sessions (`arbiter.ts:4`;
   `doc/sdd/145-wkh-139-agent-arbiter/sdd.md:527` "Disputas sobre `upto` (v1 sólo `session`)" is out
   of scope), and migration `20260704100000_wkh139_arbiter.sql:189` says of the amount "no crear
   plata". (`OnlyDisputedUptosUnfunded`: nothing else leaves the operator out of pocket.)
2. `IntentRefundWhole`. `routes/payments.ts:519` and `settleUpto` look at no type either: a session
   settled as an upto is debited its usage on top of its deposit, and a certain failure refunds the
   deposit only, where migration `20260704000000_wkh135_payment_intents.sql:366-369` says "el buyer
   queda entero". (`SettledBooksBalance`: exact but for these two, and then off by the deposit.)
3. `OutboxDelegated`. `step0-refund.ts:43-46` refunds a delegation or session on both ledgers,
   "nunca sólo el parent"; when that credit reports an error, it enqueues a row that names neither
   (160, 180), and the sweep credits the key alone (`refund-outbox.ts:188`). Compose and gasless do
   the same. (`KeyAloneOnlyFromQueue`: only a queued refund, never one of `orchestrate.ts`.)
4. `EscrowSettleNodeLag`. `verifyDefaultChainSettle` answers `TX_NOT_FOUND` when the node asked knows
   no receipt, and `resolveIntent` (`reconciliation.ts:1176`) then sends hop 2 again; the comment at
   1308-1312 says that the re-verification "nunca double-paga". (`TwiceOnlyIfLost`.)
5. `ComposeThrow`. An exception of `resolveAgent` or of the gas quote (`compose.ts:429`, 567) ends in
   a 500 that nobody refunds; before the first agent is called, its charge stays with nothing
   delivered. `doc/INTEGRATION.md:1146-1148`: "every post-charge rejection is credited back except
   the `500` of `POST /tasks`". (`ChargedForDelivered`: at most that one step.)
6. `SolanaStaleProbe`. `settleAlreadySigned` asks for the transaction (`payment.ts:599`) and then for
   the height (711): one that lands in between, or that the node has not seen, is archived as dead and
   the intent is paid again, where the comment (580-591) calls both facts proofs.
   (`PaidTwiceOnlyIfStale`, `ClaimedMeansUnsent`.)
7. `SolanaErrorValue`. What `confirmTransaction` resolves to is not looked at (1171), so a failed
   transaction is recorded and reported as paid ("El pago OCURRIO", 1193). (`FalseSuccessIsTrusted`.)
8. `SolanaFailedLands`. `recoverConfirmedSettle` takes an absent transaction for proof that nothing
   was paid (1226) while it can still land, which the same file says at 695-697. (Nothing holds of a
   reported failure: it is a guess until the blockhash is dead.)
9. `SolanaInboundLate504`. `reply.sent` is read (`x402.ts:1072`) before the awaited consumption
   (1073): a 504 in between burns the proof of a payer already answered with an error, which the
   comment at 1058-1071 says is what the check avoids. (`BurntOnlyInFlight`.)

Met while modelling, and present in the models as behaviour the stated properties allow for:

- *Intents*: the sweep treats rows of its open-and-expired query as orphans although they may be
  closing with a live settler (`payment-intent.ts:1738`, against the comment at 1733-1736); a hold that
  changed no row is recorded all the same (`arbiter.ts:1096`).
- *Outbox*: a row claimed by a pass that dies stays in `processing` (migration
  `20260627000000_wkh_audit_m6_refund_outbox.sql:66`); an enqueue that fails is a log line; a last
  attempt that commits and loses its answer is dead although it was credited.
- *Escrow*: a debit may take locked balance (`WasiAIEscrow.sol:177`, accepted risk R-1).
- *Escrow settlement*: a throwing `writeContract` counts as not broadcast (`debit-executor.ts:172`)
  and `recordDebitHop1` looks at no error (249).
- *Solana*: an inbound proof whose consumption commits and loses its answer is spent with nobody
  served.
- *Compose*: on the delegation and session path the loop's debits are not refunded
  (`compose.ts:871`); a resumed run that fails reports only the payments of its own half as stranded
  (317); a process that dies leaves a step charged, and a run in `resuming` stays there.
- *Links*: a refused debit whose answer was lost reopens the link with the charge in place
  (`agent-link.ts:422`); a request that dies leaves the link `redeeming`; the cap does not include
  the gas, nor the placeholder price of an unpriced listing.
- *Budget*: the refund of an earlier day's debit lowers today's counter, and a refund row may
  outlive its debit's row in a rolling window: the limits hold up to those refunds, which is what
  `DailyLimitUpToRefunds` and `DebitsRespectTheCap` state.
- *Circuit breaker* (not modelled): concurrent calls may all probe when it half-opens
  (`circuit-breaker.ts:56`).

## 5. Proofs

The `*Proofs` modules hold theorems checked by TLAPS, for every value of the constants that
satisfies the named ASSUMEs of the component's module (every one is evaluated by a run). Each
proof has Init => Inv, one step per action for preservation, and one for the consequence.

- **Intents** (`SettlementInv`). The safety properties are not inductive: a state with two workers
  about to settle, or a worker holding a verdict of certain failure next to a settle still pending,
  satisfies them and then breaks them. Before the amount is frozen nobody settles or carries a
  verdict (`NothingBeforeFreeze`), at most one worker can still settle and then none has
  (`OneSettler`), money moves only by that settle (`PaidBySettle`), and a verdict of certain failure
  exists only when it is over and moved nothing (`RefundNeedsProof`). From it: `SettledOnce`,
  `PaidWithinAuthorization`, `RefundedMeansUnpaid`, `TerminalIsFinal`, for any number of workers.
- **Intents, the money** (`BooksInv`). Whoever settles does it with the amount that was frozen, and
  whoever records or finalizes with that or the row's (`AmountsAgree`), which are the same unless the
  upto endpoint froze a session (`FrozenAmount`); the verdict `settled` exists only when the transfer
  paid that amount (`SettledNeedsProof`); a session is charged its deposit when it opens, the upto
  endpoint charges before its settle, an arbitration charges nothing (`Charges`); the one credit is
  the one made with the status (`Refunds`). From it: `OnlyDisputedUptosUnfunded`,
  `SettledBooksBalance`, and the refinement `ImplementsContract`, where every step of a handler, SQL
  function, dispute or sweep is a step of `IntentContract` or a stutter. Nothing is assumed of which
  endpoint is called on which type.
- **Escrow settlement** (`SettleInv`). Two parts. Whatever is erased or denied, which side somebody
  works on follows the chain (`SidesFollowChain`) and records are true (`RecordsAreTrue`). Until
  something is (`LeaseInv`), whoever sends hop 2 holds the lease, alone, and whoever still gives one
  up has been overtaken (`SenderHoldsLease`); a lease is given up in time only for a debit nobody paid
  (`GivenUpUnpaid`); once paid, the row is leased or terminal (`PaidIsKept`). From the first:
  `RefundNeedsRevert`, `SettledMeansPaid`; from both: `TwiceOnlyIfLost`, and the refinement
  (`ImplementsResolution`), where every step is a `Pay`, a `Refund`, a loss of track or a stutter.
- **Budget** (`BudgetInv`). The day of the counter and the calendar day are tied to what was really
  spent and to the refunds carried over; a child's counter is never below its net spending. From it:
  `DailyLimitUpToRefunds`, `ChildSpendsWithinMax`.
- **Budget, the money** (`MoneyInv`). With `BudgetInv`: the balance matches the books, which are sums
  over the deposits seen and the payments debited, and a payment not debited has no refund and no
  row. From it: `BooksBalance` and `DebitsRespectTheCap`. For the second, the refunds the guard
  subtracts are split into those of debits the policy counts, which do lower what the destination
  keeps, and the others, which are the `Overhang`. The sums are `SumFunctionOnSet` of the community
  module `Functions`, the choice of a recursive function on the subsets of a set. The first part of
  `BudgetLedgerProofs` proves that there is exactly one such function for a finite set and that it
  is a sum
  (`SumGrow`, `SumChange`, `SumMinus`, `SumUnion`); induction is over the members of a *set* of
  subsets (`SubsetInduction`, by a minimal counterexample of the strict-subset order), so that no
  theorem with an operator parameter is needed.
- **Outbox** (`OutboxInv`). A pass owns the rows it holds (`PassesOwnTheirRows`), a refund has no row
  before its request has enqueued it (`RowAfterRequest`), the claim record counts the credits
  (`LedgerMatchesKeys`), and a pass about to write done saw the credit (`MarkMeansCredited`). From
  it: `CreditedAtMostOnce`, `NoRefundForgotten`, `PassesAreDisjoint`, `DecidedIsFinal`. With
  `KeyAloneInv`, which follows a delegated refund from its request through the late credits to its
  row: `KeyAloneOnlyFromQueue`. `CreditedAtMostOnce` is about refunds with a key; that a legacy row,
  which has none, is not paid by two passes rests on `PassesAreDisjoint`.
- **Escrow** (`EscrowInv`). `usedNonces` records the movements (`UsesCounted`). From it:
  `KeyBooksBalance`, `NonceMovesOnce`, `ArbitrationNeedsConsent`; `DepositorIsForever`,
  `WithdrawalsLeaveTheLock` and `OnlyDebitsUncover` are action properties.
- **Compose** (`RunInv`). One handler works on a run at a time (`OneWorker`) and owns it: the first
  half until the caller has the token, then the request whose claim made the row `resuming`
  (`Owned`); the steps before it are delivered and the later ones are not (`Frontier`), which a
  waiting row remembers (`Waiting`). From it: `EachStepOnce`, `WithinCeiling`, `FeeOnWholeRun`,
  `StrandedOnce`, for any number of steps and resumes, on both paths.
- **Compose, the charges** (`HeldInv`, on top of `RunInv`, assuming `MasterPath`). At every place of
  a handler, what is held for each step whose debit has a known outcome (`HeldBy`, `ChargedFor`):
  the steps before its own are charged once, but for the one that a failed lookup gave back; its own
  step is charged from its debit to its delivery or its refund, the first step of a half from its
  charge by the middleware or the resume until it is given back, and later steps not at all. A run
  that waits for its caller is square, and whatever an exception or a death left charged is the last
  thing that happened on the run (`LeftLast`). From it: `ChargedForDelivered`. Without the hypothesis
  it is false: the loop's debits of a delegation or session are not refunded (section 4).
- **Links** (`LinkInv`). One request holds the claim and the agent of one at most delivered
  (`ClaimHeldOnce`); what each request left on the key follows from where it is (`ChargesInv`). From
  it all five properties of the run.
- **Solana settle** (`IntentInv`). A signature is in the ledger before it is sent
  (`SentIsLedgered`), an archived one is dead, and unlanded unless its absence was stale
  (`ArchivedIsDead`), no two intents have the same live one (`SigIsUnique`), and the proof a call
  holds is undone by nothing but what `stale` and `trusted` record (`ProofsHold`). From it all four
  properties of the run, with nothing assumed of nodes or blocks.
- **Solana inbound** (`InboundInv`, in `SolanaSettleProofs` with the other direction). What the table
  of proofs, or a request about to write it, holds was borne out by a final transfer, and a request
  past the row lookup is covered by it, also when it skipped the chain (`VerdictsAreProven`); until
  the row is consumed nobody was served (`ServedFromRow`), and only a request whose spending call was
  under way is caught (`CaughtInFlight`). From it all three properties of the run,
  for any requests, prices, challenges and views of the nodes.

Only model-checked: `QueuedIsDecided`, because liveness under fairness is out of the prover's reach.
Every other property of the passing runs is a theorem, of the model as the code has it; the one
hypothesis left is `MasterPath`, for `ChargedForDelivered`, which the runs make as well. The
disagreements of section 4 are counterexamples, which only a run can give.

## 6. Plan

Done: the money path end to end, in the order intents, outbox, escrow, escrow settlement, budget,
compose with suspended runs, links, Solana out and in. Left:

1. Liveness: what the outbox still decides when passes die, up to the rows left in `processing`.
2. Solana: the facilitator path and `landed_mismatch`.
3. Compose: charges on the delegation path (`MasterPath = FALSE`), with two ledgers.
4. `CircuitBreaker`; inbound tasks; the fee splits as a pure function against a reference
   definition; the escrow's upgrade governance.

## 7. What is not modelled, and why

`PROJECT.json` lists every component with its status. Left out: parsing, signatures and HTTP
shaping (no state to interleave); pricing and planning by an LLM (no promise to check); discovery
and ranking; receipts and dashboards (nothing reads them back into a decision); the contracting
chain guard (pure); identity and nonces (single unique inserts); inbound tasks and webhooks (single
conditional writes outside the money path); the MCP server and the SDK (clients of the HTTP API);
and the chains and USDC themselves, of which only the possible results are modelled. Most of the
repository's lines are of these kinds (generated types, request schemas, clients, routes), which is
why the map covers the stateful core and a small share of the whole. Manual
reconciliation of failed intents and of dead refunds is a person's work outside the code.
