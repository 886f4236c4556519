------------------------- MODULE RefundOutboxProofs -------------------------
(***************************************************************************)
(* Proofs about RefundOutbox: for any number of refunds, passes, rows per  *)
(* pass and attempts, a keyed refund is credited once, a refund nobody     *)
(* looks at any more has been credited, no row is held by two passes, a    *)
(* decided row stays decided, and the refunds orchestrate.ts asks for      *)
(* credit the child and the key alike.                                     *)
(***************************************************************************)
EXTENDS RefundOutbox, TLAPS, FiniteSetTheorems

USE SetsAssumption, NumbersAssumption, FaultsAssumption

\* The initial states satisfy the invariant.
LEMMA InitInv == Init => OutboxInv
<1> SUFFICES ASSUME Init PROVE OutboxInv
  OBVIOUS
<1>1. TypeOK
  BY DEF Init, TypeOK, CallSteps, RowStatuses, Credits
<1>2. LedgerMatchesKeys /\ NoRefundForgotten
  BY DEF Init, LedgerMatchesKeys, NoRefundForgotten
<1>3. PassesOwnTheirRows /\ RowAfterRequest /\ MarkMeansCredited
  BY DEF Init, PassesOwnTheirRows, PassesAreDisjoint, RowAfterRequest, MarkMeansCredited
<1> QED
  BY <1>1, <1>2, <1>3 DEF OutboxInv

\* What a credit does to the ledgers, whoever makes it: credits only grow, at least
\* one is on record afterwards, and the record still counts those of a keyed refund.
LEMMA CreditFacts ==
  ASSUME TypeOK, LedgerMatchesKeys, NEW c \in Credits, Credit(c)
  PROVE  /\ LedgerMatchesKeys'
         /\ applied' \subseteq Refunds \ Legacy
         /\ keyCredits' \in [Refunds -> Nat] /\ childCredits' \in [Refunds -> Nat]
         /\ keyCredits'[c.refund] >= 1
         /\ \A r \in Refunds : keyCredits'[r] >= keyCredits[r]
<1> DEFINE q == c.refund
<1>0. q \in Refunds /\ c.dual \in BOOLEAN
  BY DEF Credits
<1>1. CASE AlreadyApplied(q)
  <2>1. q \in Refunds \ Legacy /\ keyCredits[q] = 1
    BY <1>0, <1>1 DEF AlreadyApplied, TypeOK, LedgerMatchesKeys
  <2>2. UNCHANGED ledgerVars
    BY <1>1 DEF Credit
  <2> QED
    BY <2>1, <2>2 DEF ledgerVars, TypeOK, LedgerMatchesKeys
<1>2. CASE ~AlreadyApplied(q)
  <2>1. /\ applied' = applied \cup ({q} \ Legacy)
        /\ keyCredits' = [keyCredits EXCEPT ![q] = @ + 1]
        /\ childCredits' = [childCredits EXCEPT ![q] = IF c.dual THEN @ + 1 ELSE @]
    BY <1>2 DEF Credit, ClaimKey
  <2>2. /\ keyCredits' \in [Refunds -> Nat] /\ childCredits' \in [Refunds -> Nat]
        /\ keyCredits'[q] = keyCredits[q] + 1
        /\ childCredits'[q] \in {childCredits[q], childCredits[q] + 1}
        /\ \A r \in Refunds : r # q => keyCredits'[r] = keyCredits[r]
                                       /\ childCredits'[r] = childCredits[r]
    BY <1>0, <2>1 DEF TypeOK
  <2>3. LedgerMatchesKeys'
    <3> SUFFICES ASSUME NEW r \in Refunds \ Legacy
                 PROVE  /\ keyCredits'[r] = IF r \in applied' THEN 1 ELSE 0
                        /\ childCredits'[r] <= keyCredits'[r]
      BY DEF LedgerMatchesKeys
    <3>1. CASE r = q
      BY <1>0, <1>2, <2>1, <2>2, <3>1 DEF AlreadyApplied, TypeOK, LedgerMatchesKeys
    <3>2. CASE r # q
      BY <1>0, <2>1, <2>2, <3>2 DEF TypeOK, LedgerMatchesKeys
    <3> QED
      BY <3>1, <3>2
  <2>4. \A r \in Refunds : keyCredits'[r] >= keyCredits[r]
    BY <1>0, <2>2 DEF TypeOK
  <2>5. keyCredits'[q] >= 1
    BY <1>0, <2>2 DEF TypeOK
  <2> QED
    BY <1>0, <2>1, <2>2, <2>3, <2>4, <2>5 DEF TypeOK
<1> QED
  BY <1>1, <1>2

\* A step that leaves the outbox rows, the requests and the passes alone and keeps
\* every credit on record keeps what only relates them to the credits.
LEMMA MoreCreditsKeepPromises ==
  ASSUME OutboxInv, UNCHANGED <<call, rowVars, sweepVars>>,
         keyCredits' \in [Refunds -> Nat],
         \A r \in Refunds : keyCredits'[r] >= keyCredits[r]
  PROVE  /\ PassesOwnTheirRows' /\ RowAfterRequest'
         /\ MarkMeansCredited' /\ NoRefundForgotten'
<1>1. PassesOwnTheirRows' /\ RowAfterRequest'
  BY DEF OutboxInv, PassesOwnTheirRows, PassesAreDisjoint, RowAfterRequest, rowVars, sweepVars
<1>2. MarkMeansCredited'
  <2> SUFFICES ASSUME NEW s \in Sweeps, step[s] = "mark" PROVE keyCredits'[at[s]] >= 1
    BY DEF MarkMeansCredited, sweepVars
  <2>1. at[s] \in Refunds /\ keyCredits[at[s]] >= 1
    BY DEF OutboxInv, PassesOwnTheirRows, MarkMeansCredited, TypeOK
  <2> QED
    BY <2>1 DEF OutboxInv, TypeOK
<1>3. NoRefundForgotten'
  BY DEF OutboxInv, TypeOK, NoRefundForgotten, rowVars
<1> QED
  BY <1>1, <1>2, <1>3

\* A call nobody waits for runs: only the ledgers change.
LEMMA LateCreditKeepsInv ==
  ASSUME OutboxInv, NEW c \in late, LateCredit(c)
  PROVE  OutboxInv'
<1>0. c \in Credits /\ Credit(c) /\ late' = late \ {c} /\ UNCHANGED <<call, rowVars, sweepVars>>
  BY DEF OutboxInv, TypeOK, LateCredit
<1>1. /\ LedgerMatchesKeys'
      /\ applied' \subseteq Refunds \ Legacy
      /\ keyCredits' \in [Refunds -> Nat] /\ childCredits' \in [Refunds -> Nat]
      /\ \A r \in Refunds : keyCredits'[r] >= keyCredits[r]
  BY <1>0, CreditFacts DEF OutboxInv
<1>2. TypeOK'
  BY <1>0, <1>1 DEF OutboxInv, TypeOK, rowVars, sweepVars
<1> QED
  BY <1>0, <1>1, <1>2, MoreCreditsKeepPromises DEF OutboxInv

\* The request answers after a credit that succeeded, or goes on to enqueue.
LEMMA RefundOnceKeepsInv ==
  ASSUME OutboxInv, NEW q \in Refunds, RefundOnce(q)
  PROVE  OutboxInv'
<1> DEFINE c == Owed(q)
<1>0. /\ c \in Credits /\ c.refund = q
      /\ call[q] = "credit" /\ UNCHANGED <<rowVars, sweepVars>>
  BY DEF RefundOnce, Owed, Credits
<1>1. CASE Credit(c) /\ call' = [call EXCEPT ![q] = "answered"] /\ UNCHANGED late
  <2>1. /\ LedgerMatchesKeys'
        /\ applied' \subseteq Refunds \ Legacy
        /\ keyCredits' \in [Refunds -> Nat] /\ childCredits' \in [Refunds -> Nat]
        /\ keyCredits'[q] >= 1
        /\ \A r \in Refunds : keyCredits'[r] >= keyCredits[r]
    BY <1>0, <1>1, CreditFacts DEF OutboxInv
  <2>2. TypeOK'
    BY <1>0, <1>1, <2>1 DEF OutboxInv, TypeOK, CallSteps, rowVars, sweepVars
  <2>3. PassesOwnTheirRows' /\ RowAfterRequest'
    BY <1>0, <1>1 DEF OutboxInv, TypeOK, PassesOwnTheirRows, PassesAreDisjoint, RowAfterRequest,
                      rowVars, sweepVars
  <2>4. MarkMeansCredited'
    <3> SUFFICES ASSUME NEW s \in Sweeps, step[s] = "mark" PROVE keyCredits'[at[s]] >= 1
      BY <1>0 DEF MarkMeansCredited, sweepVars
    <3>1. at[s] \in Refunds /\ keyCredits[at[s]] >= 1
      BY DEF OutboxInv, PassesOwnTheirRows, MarkMeansCredited, TypeOK
    <3> QED
      BY <2>1, <3>1 DEF OutboxInv, TypeOK
  <2>5. NoRefundForgotten'
    <3> SUFFICES ASSUME NEW r \in Refunds,
                        call'[r] = "answered", row'[r] \in {"none", "done"}, Enqueues(r)
                 PROVE  keyCredits'[r] >= 1
      BY DEF NoRefundForgotten
    <3>1. CASE r = q
      BY <2>1, <3>1
    <3>2. CASE r # q
      <4>1. call[r] = "answered" /\ row[r] = row'[r]
        BY <1>0, <1>1, <3>2 DEF OutboxInv, TypeOK, rowVars
      <4>2. keyCredits[r] >= 1
        BY <4>1 DEF OutboxInv, NoRefundForgotten
      <4> QED
        BY <2>1, <4>2 DEF OutboxInv, TypeOK
    <3> QED
      BY <3>1, <3>2
  <2> QED
    BY <2>1, <2>2, <2>3, <2>4, <2>5 DEF OutboxInv
<1>2. CASE /\ Unanswered(c)
           /\ call' = [call EXCEPT ![q] = IF Enqueues(q) THEN "enqueue" ELSE "answered"]
  <2>1. late' \subseteq Credits /\ UNCHANGED ledgerVars
    BY <1>0, <1>2 DEF Unanswered, OutboxInv, TypeOK
  <2>2. TypeOK'
    BY <1>0, <1>2, <2>1 DEF OutboxInv, TypeOK, CallSteps, rowVars, sweepVars, ledgerVars
  <2>3. PassesOwnTheirRows' /\ RowAfterRequest' /\ MarkMeansCredited' /\ LedgerMatchesKeys'
    BY <1>0, <1>2, <2>1 DEF OutboxInv, TypeOK, PassesOwnTheirRows, PassesAreDisjoint, RowAfterRequest,
                      MarkMeansCredited, LedgerMatchesKeys, rowVars, sweepVars, ledgerVars
  <2>4. NoRefundForgotten'
    BY <1>0, <1>2, <2>1 DEF OutboxInv, TypeOK, NoRefundForgotten, rowVars, ledgerVars
  <2> QED
    BY <2>2, <2>3, <2>4 DEF OutboxInv
<1> QED
  BY <1>1, <1>2 DEF RefundOnce

\* The row appears, in pending; no pass has it yet.
LEMMA EnqueueRefundKeepsInv ==
  ASSUME OutboxInv, NEW q \in Refunds, EnqueueRefund(q)
  PROVE  OutboxInv'
<1>0. /\ call[q] = "enqueue" /\ row[q] = "none"
      /\ UNCHANGED <<attempts, ledgerVars, late, sweepVars>>
  BY DEF EnqueueRefund, OutboxInv, RowAfterRequest
<1>1. CASE /\ row' = [row EXCEPT ![q] = "pending"]
           /\ createdAt' = [createdAt EXCEPT ![q] = Cardinality(Rows)]
           /\ call' = [call EXCEPT ![q] = "answered"]
  <2>1. Cardinality(Rows) \in Nat
    <3>1. IsFiniteSet(Rows)
      BY FS_Subset DEF Rows
    <3> QED
      BY <3>1, FS_CardinalityType
  <2>2. TypeOK'
    BY <1>0, <1>1, <2>1 DEF OutboxInv, TypeOK, CallSteps, RowStatuses, ledgerVars, sweepVars
  <2>3. PassesOwnTheirRows'
    <3>1. \A s \in Sweeps : q \notin held[s]
      BY <1>0 DEF OutboxInv, PassesOwnTheirRows
    <3> QED
      BY <1>0, <1>1, <3>1 DEF OutboxInv, TypeOK, PassesOwnTheirRows, PassesAreDisjoint, sweepVars
  <2>4. RowAfterRequest' /\ MarkMeansCredited' /\ LedgerMatchesKeys' /\ NoRefundForgotten'
    BY <1>0, <1>1 DEF OutboxInv, TypeOK, RowAfterRequest, MarkMeansCredited, LedgerMatchesKeys,
                      NoRefundForgotten, ledgerVars, sweepVars
  <2> QED
    BY <2>2, <2>3, <2>4 DEF OutboxInv
<1>2. CASE call' = [call EXCEPT ![q] = "unqueued"] /\ UNCHANGED <<row, createdAt>>
  <2>1. TypeOK'
    BY <1>0, <1>2 DEF OutboxInv, TypeOK, CallSteps, ledgerVars, sweepVars
  <2>2. /\ PassesOwnTheirRows' /\ RowAfterRequest' /\ MarkMeansCredited' /\ LedgerMatchesKeys'
        /\ NoRefundForgotten'
    BY <1>0, <1>2 DEF OutboxInv, TypeOK, PassesOwnTheirRows, PassesAreDisjoint, RowAfterRequest,
                MarkMeansCredited, LedgerMatchesKeys, NoRefundForgotten, ledgerVars, sweepVars
  <2> QED
    BY <2>1, <2>2 DEF OutboxInv
<1> QED
  BY <1>1, <1>2 DEF EnqueueRefund

\* A claim moves pending rows, which no pass holds, into the hands of an idle pass.
LEMMA ClaimKeepsInv ==
  ASSUME OutboxInv, NEW s \in Sweeps, ClaimRefundOutbox(s)
  PROVE  OutboxInv'
<1>0. PICK batch \in SUBSET Claimable :
        /\ OldestPending(batch)
        /\ row' = [r \in Refunds |-> IF r \in batch THEN "processing" ELSE row[r]]
        /\ held' = [held EXCEPT ![s] = batch]
  BY DEF ClaimRefundOutbox
<1>1. /\ step[s] = "idle" /\ step' = [step EXCEPT ![s] = "loop"]
      /\ UNCHANGED <<call, attempts, createdAt, ledgerVars, late, at>>
  BY DEF ClaimRefundOutbox
<1>2. \A r \in batch : r \in Refunds /\ row[r] = "pending"
  BY <1>0 DEF Claimable
<1>3. TypeOK'
  BY <1>0, <1>1, <1>2 DEF OutboxInv, TypeOK, RowStatuses, ledgerVars
<1>4. PassesOwnTheirRows'
  <2>1. \A t \in Sweeps : held[t] \cap batch = {}
    BY <1>2 DEF OutboxInv, PassesOwnTheirRows
  <2>2. /\ held'[s] = batch /\ step'[s] = "loop"
        /\ \A t \in Sweeps : t # s => held'[t] = held[t] /\ step'[t] = step[t]
    BY <1>0, <1>1 DEF OutboxInv, TypeOK
  <2>3. \A r \in Refunds : row'[r] = IF r \in batch THEN "processing" ELSE row[r]
    BY <1>0
  <2>4. PassesAreDisjoint'
    BY <2>1, <2>2 DEF OutboxInv, PassesOwnTheirRows, PassesAreDisjoint
  <2>5. \A t \in Sweeps : \A r \in held'[t] : row'[r] = "processing"
    BY <1>2, <2>2, <2>3 DEF OutboxInv, PassesOwnTheirRows, TypeOK
  <2>6. \A t \in Sweeps :
          /\ step'[t] = "idle" => held'[t] = {}
          /\ step'[t] \in {"mark", "bump"} => at'[t] \in held'[t]
    BY <1>1, <2>2 DEF OutboxInv, PassesOwnTheirRows
  <2> QED
    BY <2>4, <2>5, <2>6 DEF PassesOwnTheirRows
<1>5. RowAfterRequest' /\ NoRefundForgotten'
  BY <1>0, <1>1, <1>2 DEF OutboxInv, TypeOK, RowAfterRequest, NoRefundForgotten, ledgerVars
<1>6. MarkMeansCredited' /\ LedgerMatchesKeys'
  BY <1>1 DEF OutboxInv, TypeOK, MarkMeansCredited, LedgerMatchesKeys, ledgerVars
<1> QED
  BY <1>3, <1>4, <1>5, <1>6 DEF OutboxInv

\* A pass retries one of its rows: "mark" only after a credit that succeeded.
LEMMA ProcessEntryKeepsInv ==
  ASSUME OutboxInv, NEW s \in Sweeps, NEW q \in Refunds, ProcessEntry(s, q)
  PROVE  OutboxInv'
<1> DEFINE c == Retried(q)
<1>0. /\ c \in Credits /\ c.refund = q
      /\ step[s] = "loop" /\ q \in held[s]
      /\ at' = [at EXCEPT ![s] = q]
      /\ UNCHANGED <<call, rowVars, held>>
  BY DEF ProcessEntry, Retried, Credits
<1>1. CASE Credit(c) /\ UNCHANGED late /\ step' = [step EXCEPT ![s] = "mark"]
  <2>1. /\ LedgerMatchesKeys'
        /\ applied' \subseteq Refunds \ Legacy
        /\ keyCredits' \in [Refunds -> Nat] /\ childCredits' \in [Refunds -> Nat]
        /\ keyCredits'[q] >= 1
        /\ \A r \in Refunds : keyCredits'[r] >= keyCredits[r]
    BY <1>0, <1>1, CreditFacts DEF OutboxInv
  <2>2. TypeOK'
    BY <1>0, <1>1, <2>1 DEF OutboxInv, TypeOK, rowVars
  <2>3. PassesOwnTheirRows' /\ RowAfterRequest'
    BY <1>0, <1>1 DEF OutboxInv, TypeOK, PassesOwnTheirRows, PassesAreDisjoint, RowAfterRequest, rowVars
  <2>4. MarkMeansCredited'
    <3> SUFFICES ASSUME NEW t \in Sweeps, step'[t] = "mark" PROVE keyCredits'[at'[t]] >= 1
      BY DEF MarkMeansCredited
    <3>1. CASE t = s
      BY <1>0, <2>1, <3>1 DEF OutboxInv, TypeOK
    <3>2. CASE t # s
      <4>1. at'[t] = at[t] /\ at[t] \in Refunds /\ keyCredits[at[t]] >= 1
        BY <1>0, <1>1, <3>2 DEF OutboxInv, TypeOK, PassesOwnTheirRows, MarkMeansCredited
      <4> QED
        BY <2>1, <4>1 DEF OutboxInv, TypeOK
    <3> QED
      BY <3>1, <3>2
  <2>5. NoRefundForgotten'
    BY <1>0, <2>1 DEF OutboxInv, TypeOK, NoRefundForgotten, rowVars
  <2> QED
    BY <2>1, <2>2, <2>3, <2>4, <2>5 DEF OutboxInv
<1>2. CASE Unanswered(c) /\ step' = [step EXCEPT ![s] = "bump"]
  <2>1. late' \subseteq Credits /\ UNCHANGED ledgerVars
    BY <1>0, <1>2 DEF Unanswered, OutboxInv, TypeOK
  <2>2. TypeOK'
    BY <1>0, <1>2, <2>1 DEF OutboxInv, TypeOK, rowVars, ledgerVars
  <2>3. PassesOwnTheirRows'
    BY <1>0, <1>2 DEF OutboxInv, TypeOK, PassesOwnTheirRows, PassesAreDisjoint, rowVars
  <2>4. RowAfterRequest' /\ MarkMeansCredited' /\ LedgerMatchesKeys' /\ NoRefundForgotten'
    BY <1>0, <1>2, <2>1 DEF OutboxInv, TypeOK, RowAfterRequest, MarkMeansCredited, LedgerMatchesKeys,
                      NoRefundForgotten, rowVars, ledgerVars
  <2> QED
    BY <2>2, <2>3, <2>4 DEF OutboxInv
<1> QED
  BY <1>1, <1>2 DEF ProcessEntry, Outcome

\* A pass writes the outcome of the row at hand, or fails to, and lets go of it.
LEMMA AdvanceKeepsInv ==
  ASSUME OutboxInv, NEW s \in Sweeps, step[s] \in {"mark", "bump"}, Advance(s),
         NEW v \in {"done", "dead", "pending"},
         v = "done" => step[s] = "mark",
         \/ row' = [row EXCEPT ![at[s]] = v]
         \/ row' = row,
         attempts' \in [Refunds -> Nat]
  PROVE  OutboxInv'
<1> DEFINE q == at[s]
<1>0. /\ q \in held[s] /\ q \in Refunds /\ row[q] = "processing"
      /\ step[s] = "mark" => keyCredits[q] >= 1
  BY DEF OutboxInv, TypeOK, PassesOwnTheirRows, MarkMeansCredited
<1>1. /\ held' = [held EXCEPT ![s] = held[s] \ {q}]
      /\ step' = [step EXCEPT ![s] = IF held[s] \ {q} = {} THEN "idle" ELSE "loop"]
      /\ at' = [at EXCEPT ![s] = NoRow]
      /\ UNCHANGED <<call, createdAt, ledgerVars, late>>
  BY DEF Advance
<1>2. /\ row'[q] \in {v, "processing"}
      /\ \A r \in Refunds : r # q => row'[r] = row[r]
      /\ row' \in [Refunds -> RowStatuses]
  BY <1>0 DEF OutboxInv, TypeOK, RowStatuses
<1>3. TypeOK'
  BY <1>1, <1>2 DEF OutboxInv, TypeOK, ledgerVars
<1>4. PassesOwnTheirRows'
  <2>1. /\ held'[s] = held[s] \ {q}
        /\ step'[s] = IF held'[s] = {} THEN "idle" ELSE "loop"
        /\ \A t \in Sweeps : t # s => /\ held'[t] = held[t] /\ step'[t] = step[t]
                                      /\ at'[t] = at[t]
    BY <1>1 DEF OutboxInv, TypeOK
  <2>2. \A t \in Sweeps : q \notin held'[t] /\ held'[t] \subseteq held[t]
    BY <1>0, <2>1 DEF OutboxInv, PassesOwnTheirRows, PassesAreDisjoint
  <2>3. PassesAreDisjoint'
    BY <2>2 DEF OutboxInv, PassesOwnTheirRows, PassesAreDisjoint
  <2>4. \A t \in Sweeps : \A r \in held'[t] : row'[r] = "processing"
    BY <1>2, <2>2 DEF OutboxInv, PassesOwnTheirRows, TypeOK
  <2>5. \A t \in Sweeps :
          /\ step'[t] = "idle" => held'[t] = {}
          /\ step'[t] \in {"mark", "bump"} => at'[t] \in held'[t]
    BY <2>1 DEF OutboxInv, PassesOwnTheirRows
  <2> QED
    BY <2>3, <2>4, <2>5 DEF PassesOwnTheirRows
<1>5. RowAfterRequest'
  BY <1>0, <1>1, <1>2 DEF OutboxInv, TypeOK, RowAfterRequest
<1>6. MarkMeansCredited'
  BY <1>1 DEF OutboxInv, TypeOK, MarkMeansCredited, ledgerVars
<1>7. LedgerMatchesKeys'
  BY <1>1 DEF OutboxInv, LedgerMatchesKeys, ledgerVars
<1>8. NoRefundForgotten'
  BY <1>0, <1>1, <1>2 DEF OutboxInv, TypeOK, NoRefundForgotten, ledgerVars
<1> QED
  BY <1>3, <1>4, <1>5, <1>6, <1>7, <1>8 DEF OutboxInv

LEMMA MarkDoneKeepsInv ==
  ASSUME OutboxInv, NEW s \in Sweeps, MarkDone(s)
  PROVE  OutboxInv'
<1>1. /\ step[s] = "mark" /\ Advance(s)
      /\ row' = [row EXCEPT ![at[s]] = "done"] \/ row' = row
      /\ attempts' \in [Refunds -> Nat]
  BY DEF MarkDone, OutboxInv, TypeOK
<1> QED
  BY <1>1, AdvanceKeepsInv

LEMMA BumpAttemptKeepsInv ==
  ASSUME OutboxInv, NEW s \in Sweeps, BumpAttempt(s)
  PROVE  OutboxInv'
<1> DEFINE n == NextAttempts(attempts[at[s]])
           v == IF n >= MaxAttempts THEN "dead" ELSE "pending"
<1>1. step[s] = "bump" /\ Advance(s)
  BY DEF BumpAttempt
<1>2. at[s] \in Refunds
  BY <1>1 DEF OutboxInv, PassesOwnTheirRows, TypeOK
<1>3. n \in Nat
  BY <1>2 DEF OutboxInv, TypeOK, NextAttempts
<1>4. /\ row' = [row EXCEPT ![at[s]] = v] \/ row' = row
      /\ attempts' \in [Refunds -> Nat]
  BY <1>2, <1>3 DEF BumpAttempt, OutboxInv, TypeOK
<1>5. v \in {"done", "dead", "pending"} /\ v # "done"
  OBVIOUS
<1> HIDE DEF v, n
<1> QED
  BY <1>1, <1>4, <1>5, AdvanceKeepsInv

\* A dead pass holds nothing; its rows stay in processing.
LEMMA SweepDiesKeepsInv ==
  ASSUME OutboxInv, NEW s \in Sweeps, SweepDies(s)
  PROVE  OutboxInv'
<1>1. /\ step' = [step EXCEPT ![s] = "idle"] /\ held' = [held EXCEPT ![s] = {}]
      /\ at' = [at EXCEPT ![s] = NoRow]
      /\ UNCHANGED <<call, rowVars, ledgerVars, late>>
  BY DEF SweepDies
<1>2. TypeOK'
  BY <1>1 DEF OutboxInv, TypeOK, rowVars, ledgerVars
<1>3. PassesOwnTheirRows'
  BY <1>1 DEF OutboxInv, TypeOK, PassesOwnTheirRows, PassesAreDisjoint, rowVars
<1>4. RowAfterRequest' /\ MarkMeansCredited' /\ LedgerMatchesKeys' /\ NoRefundForgotten'
  BY <1>1 DEF OutboxInv, TypeOK, RowAfterRequest, MarkMeansCredited, LedgerMatchesKeys,
              NoRefundForgotten, rowVars, ledgerVars
<1> QED
  BY <1>2, <1>3, <1>4 DEF OutboxInv

-----------------------------------------------------------------------------
LEMMA NextKeepsInv == OutboxInv /\ [Next]_vars => OutboxInv'
<1> SUFFICES ASSUME OutboxInv, [Next]_vars PROVE OutboxInv'
  OBVIOUS
<1>1. ASSUME NEW c \in late, LateCredit(c) PROVE OutboxInv'
  BY <1>1, LateCreditKeepsInv
<1>2. ASSUME NEW r \in Refunds, RefundOnce(r) PROVE OutboxInv'
  BY <1>2, RefundOnceKeepsInv
<1>3. ASSUME NEW r \in Refunds, EnqueueRefund(r) PROVE OutboxInv'
  BY <1>3, EnqueueRefundKeepsInv
<1>4. ASSUME NEW s \in Sweeps, Pass(s) PROVE OutboxInv'
  BY <1>4, ClaimKeepsInv, ProcessEntryKeepsInv, MarkDoneKeepsInv, BumpAttemptKeepsInv DEF Pass
<1>5. ASSUME NEW s \in Sweeps, SweepDies(s) PROVE OutboxInv'
  BY <1>5, SweepDiesKeepsInv
<1>6. CASE UNCHANGED vars
  BY <1>6 DEF vars, rowVars, ledgerVars, sweepVars, OutboxInv, TypeOK, LedgerMatchesKeys,
              PassesOwnTheirRows, PassesAreDisjoint, RowAfterRequest, MarkMeansCredited,
              NoRefundForgotten
<1> QED
  BY <1>1, <1>2, <1>3, <1>4, <1>5, <1>6 DEF Next

\* Every queued refund has one owner at a time, and only an owner that saw the credit
\* succeed writes "done": the invariant behind the four results below.
THEOREM OutboxInvariant == Spec => []OutboxInv
<1> QED
  BY InitInv, NextKeepsInv, PTL DEF Spec

\* HU-194: a refund with an idem_key is credited at most once, in the key and in the
\* delegation, whatever is retried, overlaps or runs late.
THEOREM CreditedOnce == Spec => []CreditedAtMostOnce
<1>1. OutboxInv => CreditedAtMostOnce
  BY DEF OutboxInv, TypeOK, LedgerMatchesKeys, CreditedAtMostOnce
<1> QED
  BY <1>1, OutboxInvariant, PTL

\* A refund that no handler and no row waits for any more has been credited.
THEOREM NothingForgotten == Spec => []NoRefundForgotten
<1>1. OutboxInv => NoRefundForgotten
  BY DEF OutboxInv
<1> QED
  BY <1>1, OutboxInvariant, PTL

\* Two passes never hold the same row.
THEOREM DisjointPasses == Spec => []PassesAreDisjoint
<1>1. OutboxInv => PassesAreDisjoint
  BY DEF OutboxInv, PassesOwnTheirRows
<1> QED
  BY <1>1, OutboxInvariant, PTL

\* A row that is done or dead is never written again, although the updates name it by
\* id alone: whoever writes holds it, and then it is in processing.
LEMMA DecidedStep ==
  OutboxInv /\ [Next]_vars => \A r \in Refunds : row[r] \in Decided => row'[r] = row[r]
<1> SUFFICES ASSUME OutboxInv, [Next]_vars, NEW r \in Refunds, row[r] \in Decided
             PROVE  row'[r] = row[r]
  OBVIOUS
<1>0. row \in [Refunds -> RowStatuses]
  BY DEF OutboxInv, TypeOK
<1>1. ASSUME NEW c \in late, LateCredit(c) PROVE row'[r] = row[r]
  BY <1>1 DEF LateCredit, rowVars
<1>2. ASSUME NEW q \in Refunds, RefundOnce(q) PROVE row'[r] = row[r]
  BY <1>2 DEF RefundOnce, rowVars
<1>3. ASSUME NEW q \in Refunds, EnqueueRefund(q) PROVE row'[r] = row[r]
  <2>1. q # r
    BY <1>3 DEF EnqueueRefund, OutboxInv, RowAfterRequest, Decided
  <2> QED
    BY <1>0, <1>3, <2>1 DEF EnqueueRefund
<1>4. ASSUME NEW s \in Sweeps, ClaimRefundOutbox(s) PROVE row'[r] = row[r]
  BY <1>4 DEF ClaimRefundOutbox, Claimable, Decided
<1>5. ASSUME NEW s \in Sweeps, NEW q \in Refunds, ProcessEntry(s, q) PROVE row'[r] = row[r]
  BY <1>5 DEF ProcessEntry, rowVars
<1>6. ASSUME NEW s \in Sweeps, MarkDone(s) \/ BumpAttempt(s) PROVE row'[r] = row[r]
  <2>1. step[s] \in {"mark", "bump"}
    BY <1>6 DEF MarkDone, BumpAttempt
  <2>2. at[s] # r
    BY <2>1 DEF OutboxInv, PassesOwnTheirRows, Decided
  <2> QED
    BY <1>0, <1>6, <2>2 DEF MarkDone, BumpAttempt
<1>7. ASSUME NEW s \in Sweeps, SweepDies(s) PROVE row'[r] = row[r]
  BY <1>7 DEF SweepDies, rowVars
<1>8. CASE UNCHANGED vars
  BY <1>8 DEF vars, rowVars
<1> QED
  BY <1>1, <1>2, <1>3, <1>4, <1>5, <1>6, <1>7, <1>8 DEF Next, Pass

\* Done and dead are final.
THEOREM DecidedFinal == Spec => DecidedIsFinal
<1>1. OutboxInv /\ [Next]_vars => [\A r \in Refunds : row[r] \in Decided => row'[r] = row[r]]_vars
  BY DecidedStep
<1> QED
  BY <1>1, OutboxInvariant, PTL DEF Spec, DecidedIsFinal


-----------------------------------------------------------------------------
(* Delegated refunds: who can be credited to the key alone.                  *)

\* A credit that is of both ledgers, or of a refund that has its row, leaves the child
\* behind its key only where that is allowed.
LEMMA CreditKeepsDual ==
  ASSUME TypeOK, LedgerMatchesKeys, KeyAloneInv, NEW c \in Credits, Credit(c), row' = row,
         c.refund \in Delegated /\ ~c.dual => row[c.refund] # "none"
  PROVE  KeyAloneOnlyFromQueue'
<1> SUFFICES ASSUME NEW r \in Delegated
             PROVE  /\ childCredits'[r] <= keyCredits'[r]
                    /\ keyCredits'[r] # childCredits'[r] =>
                          row'[r] # "none" /\ r \notin Orchestrated
  BY DEF KeyAloneOnlyFromQueue
<1>1. /\ r \in Refunds /\ c.refund \in Refunds /\ c.dual \in BOOLEAN
      /\ keyCredits[r] \in Nat /\ childCredits[r] \in Nat
      /\ childCredits[r] <= keyCredits[r]
      /\ keyCredits[r] # childCredits[r] => row[r] # "none" /\ r \notin Orchestrated
      /\ row[r] # "none" => r \notin Orchestrated
  BY SetsAssumption DEF Credits, KeyAloneInv, KeyAloneOnlyFromQueue, TypeOK
<1>2. CASE AlreadyApplied(c.refund)
  BY <1>1, <1>2 DEF Credit, ledgerVars
<1>3. CASE ~AlreadyApplied(c.refund)
  <2>1. /\ keyCredits'[r] = IF r = c.refund THEN keyCredits[r] + 1 ELSE keyCredits[r]
        /\ childCredits'[r] = IF r = c.refund /\ c.dual THEN childCredits[r] + 1
                              ELSE childCredits[r]
    BY <1>1, <1>3 DEF Credit, TypeOK
  <2> QED
    BY <1>1, <2>1
<1> QED
  BY <1>2, <1>3

\* Nothing else can be disturbed by a step that keeps the ledgers and takes no row away.
LEMMA LedgersKeepDual ==
  ASSUME KeyAloneInv, UNCHANGED ledgerVars,
         \A r \in Refunds : row[r] # "none" => row'[r] # "none"
  PROVE  KeyAloneOnlyFromQueue'
BY SetsAssumption DEF KeyAloneInv, KeyAloneOnlyFromQueue, ledgerVars

LEMMA StepKeepsDual ==
  ASSUME OutboxInv, KeyAloneInv, [Next]_vars
  PROVE  KeyAloneInv'
<1> USE SetsAssumption
<1>0. /\ call \in [Refunds -> CallSteps] /\ row \in [Refunds -> RowStatuses]
      /\ late \subseteq Credits /\ TypeOK /\ LedgerMatchesKeys
  BY DEF OutboxInv, TypeOK
<1>1. ASSUME NEW c \in late, LateCredit(c) PROVE KeyAloneInv'
  <2>1. KeyAloneOnlyFromQueue'
    BY <1>0, <1>1, CreditKeepsDual DEF LateCredit, rowVars, KeyAloneInv
  <2> QED
    BY <1>1, <2>1 DEF LateCredit, rowVars, KeyAloneInv
<1>2. ASSUME NEW q \in Refunds, RefundOnce(q) PROVE KeyAloneInv'
  <2>1. Owed(q) \in Credits /\ Owed(q).refund = q /\ Owed(q).dual = (q \in Delegated)
    BY DEF Owed, Credits
  <2>2. row' = row
    BY <1>2 DEF RefundOnce, rowVars
  <2>3. KeyAloneOnlyFromQueue'
    <3>1. CASE Credit(Owed(q))
      BY <1>0, <2>1, <2>2, <3>1, CreditKeepsDual
    <3>2. CASE UNCHANGED ledgerVars
      BY <2>2, <3>2, LedgersKeepDual
    <3> QED
      BY <1>2, <3>1, <3>2 DEF RefundOnce, Unanswered
  <2>4. late' \subseteq late \cup {Owed(q)}
    BY <1>2 DEF RefundOnce, Unanswered
  <2>5. \A r \in Delegated \cap Orchestrated : call'[r] # "enqueue" /\ row'[r] = "none"
    BY <1>0, <1>2, <2>2 DEF RefundOnce, Enqueues, KeyAloneInv
  <2> QED
    BY <2>1, <2>2, <2>3, <2>4, <2>5 DEF KeyAloneInv
<1>3. ASSUME NEW q \in Refunds, EnqueueRefund(q) PROVE KeyAloneInv'
  <2>1. q \notin Delegated \cap Orchestrated
    BY <1>3 DEF EnqueueRefund, KeyAloneInv
  <2>2. /\ UNCHANGED <<ledgerVars, late>>
        /\ \A r \in Refunds : /\ row[r] # "none" => row'[r] # "none"
                              /\ r # q => row'[r] = row[r] /\ call'[r] = call[r]
    BY <1>0, <1>3 DEF EnqueueRefund
  <2>3. KeyAloneOnlyFromQueue'
    BY <2>2, LedgersKeepDual
  <2> QED
    BY <1>0, <2>1, <2>2, <2>3 DEF KeyAloneInv, Credits
<1>4. ASSUME NEW s \in Sweeps, ClaimRefundOutbox(s) PROVE KeyAloneInv'
  <2>1. /\ UNCHANGED <<ledgerVars, late, call>>
        /\ \A r \in Refunds : /\ row[r] # "none" => row'[r] # "none"
                              /\ row[r] = "none" => row'[r] = "none"
    BY <1>0, <1>4 DEF ClaimRefundOutbox, Claimable
  <2>2. KeyAloneOnlyFromQueue'
    BY <2>1, LedgersKeepDual
  <2> QED
    BY <1>0, <2>1, <2>2 DEF KeyAloneInv, Credits
<1>5. ASSUME NEW s \in Sweeps, NEW q \in Refunds, ProcessEntry(s, q) PROVE KeyAloneInv'
  <2>1. row[q] # "none"
    BY <1>5 DEF ProcessEntry, OutboxInv, PassesOwnTheirRows
  <2>2. Retried(q) \in Credits /\ Retried(q).refund = q
    BY DEF Retried, Credits
  <2>3. UNCHANGED <<call, row>>
    BY <1>5 DEF ProcessEntry, rowVars
  <2>4. KeyAloneOnlyFromQueue'
    <3>1. CASE Credit(Retried(q))
      BY <1>0, <2>1, <2>2, <2>3, <3>1, CreditKeepsDual
    <3>2. CASE UNCHANGED ledgerVars
      BY <2>3, <3>2, LedgersKeepDual
    <3> QED
      BY <1>5, <3>1, <3>2 DEF ProcessEntry, Unanswered
  <2>5. late' \subseteq late \cup {Retried(q)}
    BY <1>5 DEF ProcessEntry, Unanswered
  <2> QED
    BY <2>1, <2>2, <2>3, <2>4, <2>5 DEF KeyAloneInv
<1>6. ASSUME NEW s \in Sweeps, MarkDone(s) \/ BumpAttempt(s) PROVE KeyAloneInv'
  <2>1. at[s] \in Refunds /\ row[at[s]] # "none"
    BY <1>6 DEF MarkDone, BumpAttempt, OutboxInv, PassesOwnTheirRows, TypeOK
  <2>2. /\ UNCHANGED <<ledgerVars, late, call>>
        /\ \A r \in Refunds : /\ row[r] # "none" => row'[r] # "none"
                              /\ row[r] = "none" => row'[r] = "none"
    BY <1>0, <1>6, <2>1 DEF MarkDone, BumpAttempt, Advance
  <2>3. KeyAloneOnlyFromQueue'
    BY <2>2, LedgersKeepDual
  <2> QED
    BY <1>0, <2>2, <2>3 DEF KeyAloneInv, Credits
<1>7. CASE (\E s \in Sweeps : SweepDies(s)) \/ UNCHANGED vars
  <2>1. UNCHANGED <<ledgerVars, late, call, row>>
    BY <1>7 DEF SweepDies, rowVars, vars
  <2>2. KeyAloneOnlyFromQueue'
    BY <2>1, LedgersKeepDual
  <2> QED
    BY <2>1, <2>2 DEF KeyAloneInv
<1> QED
  BY <1>1, <1>2, <1>3, <1>4, <1>5, <1>6, <1>7 DEF Next, Pass

\* The ledger of a delegation or a session falls behind its key's only through the outbox:
\* however often a refund is tried and however late its calls run, one that left no row is
\* credited to both ledgers or to neither.
THEOREM KeyAloneIsQueued == Spec => []KeyAloneOnlyFromQueue
<1>1. Init => OutboxInv /\ KeyAloneInv
  <2>1. Init => KeyAloneInv
    BY SetsAssumption DEF Init, KeyAloneInv, KeyAloneOnlyFromQueue
  <2> QED
    BY <2>1, InitInv
<1>2. OutboxInv /\ KeyAloneInv /\ [Next]_vars => OutboxInv' /\ KeyAloneInv'
  BY NextKeepsInv, StepKeepsDual
<1>3. KeyAloneInv => KeyAloneOnlyFromQueue
  BY DEF KeyAloneInv
<1> QED
  BY <1>1, <1>2, <1>3, PTL DEF Spec
=============================================================================
