------------------------- MODULE PaymentIntentProofs -------------------------
(***************************************************************************)
(* Proofs about PaymentIntent, for every value of its constants: any       *)
(* number of concurrent workers, vouchers and amounts, whichever endpoints *)
(* the clients call on whichever kind of intent, and whether or not a      *)
(* settle outlasts CLOSING_STALE_SECONDS.                                  *)
(***************************************************************************)
EXTENDS PaymentIntent, TLAPS

-----------------------------------------------------------------------------
(* Facts about the helpers.                                                 *)

\* LEAST returns one of its arguments and exceeds neither.
LEMMA LeastFacts ==
    ASSUME NEW a \in Nat, NEW b \in Nat
    PROVE  Least(a, b) \in Nat /\ Least(a, b) <= a /\ Least(a, b) <= b
BY DEF Least

\* normalizeVerdict yields a verdict, and certain failure only when it was recorded.
LEMMA NormalizeFacts ==
    ASSUME NEW o \in Verdicts \cup {"null"}
    PROVE  /\ Normalize(o) \in Verdicts
           /\ Normalize(o) = "failed_unequivocal" => o = "failed_unequivocal"
BY DEF Normalize, Verdicts

\* The part of TypeOK about the workers.
LocalsTyped ==
    /\ pc \in [Workers -> Steps] /\ path \in [Workers -> Paths]
    /\ amt \in [Workers -> Nat] /\ verdict \in [Workers -> Verdicts]

\* A worker that takes up work keeps the types of the workers' locals.
LEMMA TakeType ==
    ASSUME TypeOK, NEW w \in Workers, NEW step \in Steps, NEW p \in Paths,
           NEW a \in Nat, NEW v \in Verdicts, Take(w, step, p, a, v)
    PROVE  LocalsTyped'
BY DEF TypeOK, Take, LocalsTyped

\* So does a worker that answers its caller.
LEMMA DoneType ==
    ASSUME TypeOK, NEW w \in Workers, Done(w)
    PROVE  LocalsTyped'
<1>1. /\ "idle" \in Steps /\ "session" \in Paths /\ 0 \in Nat
      /\ "failed_ambiguous" \in Verdicts
  BY DEF Steps, Paths, Verdicts
<1>2. Take(w, "idle", "session", 0, "failed_ambiguous")
  BY DEF Done
<1>. QED
  BY ONLY TypeOK, w \in Workers, <1>1, <1>2, TakeType

-----------------------------------------------------------------------------
(* Type correctness.                                                        *)

LEMMA InitType == Init => TypeOK
<1>. SUFFICES ASSUME Init PROVE TypeOK
  OBVIOUS
<1>1. LocalsTyped
  BY DEF Init, LocalsTyped, Steps, Paths, Verdicts
<1>2. /\ type \in Types /\ status \in Statuses /\ outcome \in Verdicts \cup {"null"}
      /\ seen \subseteq VoucherIds /\ expired \in BOOLEAN /\ aged \in BOOLEAN
  BY DEF Init, Statuses
<1>3. /\ consumed \in Nat /\ charged \in Nat /\ refunded \in Nat /\ paid \in Nat
      /\ settles \in Nat /\ due \in Nat
      /\ frozenBy \in Paths \cup {"none"} /\ finishedBy \in Paths \cup {"none"}
  BY DEF Init
<1>. QED
  BY <1>1, <1>2, <1>3 DEF TypeOK, LocalsTyped

\* Closing, recovering or answering from the row keeps every type.
LEMMA CloseOrRecoverType ==
    ASSUME TypeOK, NEW w \in Workers, NEW p \in Paths, NEW stale \in BOOLEAN,
           NEW usage \in Nat, CloseOrRecover(w, p, stale, usage)
    PROVE  TypeOK'
<1>. USE AuthorizedAssumption DEF TypeOK, rowVars, historyVars, moneyVars, clockVars, Touch
<1>1. CASE CloseRow(w, p, usage)
  <2>. DEFINE rowDue == IF type = "session" THEN Least(consumed, Authorized)
                                            ELSE Least(Authorized, usage)
              final == IF p = "session" THEN rowDue ELSE Least(Authorized, usage)
  <2>1. rowDue \in Nat /\ final \in Nat
    BY LeastFacts
  <2>2. LocalsTyped'
    BY <1>1, <2>1 DEF CloseRow, Take, LocalsTyped, Steps, Verdicts
  <2>. QED
    BY <1>1, <2>1, <2>2 DEF CloseRow, LocalsTyped, Statuses, Closing
<1>2. CASE RecoverClosing(w, p, stale)
  <2>1. LocalsTyped'
    BY <1>2, NormalizeFacts DEF RecoverClosing, Take, LocalsTyped, Steps
  <2>. QED
    BY <1>2, <2>1 DEF RecoverClosing, LocalsTyped
<1>3. CASE AnswerFromRow(w, stale)
  <2>1. LocalsTyped'
    BY <1>3, DoneType DEF AnswerFromRow
  <2>. QED
    BY <1>3, <2>1 DEF AnswerFromRow, LocalsTyped
<1>. QED
  BY <1>1, <1>2, <1>3 DEF CloseOrRecover

\* So does recovering an arbitration.
LEMMA ArbRecoverType ==
    ASSUME TypeOK, NEW w \in Workers, NEW stale \in BOOLEAN, ArbRecover(w, stale)
    PROVE  TypeOK'
<1>1. LocalsTyped'
  <2>1. CASE outcome # "null" \/ stale
    BY <2>1, NormalizeFacts DEF ArbRecover, Take, TypeOK, LocalsTyped, Steps
  <2>2. CASE ~(outcome # "null" \/ stale)
    BY <2>2, DoneType DEF ArbRecover
  <2>. QED
    BY <2>1, <2>2
<1>. QED
  BY <1>1 DEF ArbRecover, TypeOK, LocalsTyped, rowVars, historyVars, clockVars, moneyVars

\* No step takes a variable out of its type.
LEMMA NextType == TypeOK /\ [Next]_vars => TypeOK'
<1>. SUFFICES ASSUME TypeOK, [Next]_vars
              PROVE  TypeOK'
  OBVIOUS
<1>. USE AuthorizedAssumption, VoucherAssumption, InputAssumption DEF historyVars
<1>1. CASE UNCHANGED vars
  BY <1>1 DEF TypeOK, vars, rowVars, moneyVars, clockVars, workerVars
<1>2. CASE Open
  BY <1>2 DEF Open, TypeOK, Touch, Statuses, workerVars
<1>3. CASE Expire
  BY <1>3 DEF Expire, TypeOK, rowVars, moneyVars, workerVars
<1>4. CASE Age
  BY <1>4 DEF Age, TypeOK, rowVars, moneyVars, workerVars
<1>5. ASSUME NEW v \in VoucherIds, Voucher(v)
      PROVE  TypeOK'
  <2>1. consumed' \in Nat
    BY <1>5, LeastFacts DEF Voucher, TypeOK
  <2>. QED
    BY <1>5, <2>1 DEF Voucher, TypeOK, Touch, moneyVars, workerVars
<1>6. ASSUME NEW w \in Workers, Request(w)
      PROVE  TypeOK'
  <2>1. CASE CloseSession(w)
    BY <2>1, CloseOrRecoverType DEF CloseSession, Paths
  <2>2. ASSUME NEW u \in Usages, SettleUpto(w, u)
        PROVE  TypeOK'
    BY <2>2, CloseOrRecoverType DEF SettleUpto, Paths
  <2>3. CASE OpenDispute(w)
    BY <2>3 DEF OpenDispute, Take, Touch, TypeOK, moneyVars, Statuses, ArbStates, Steps,
                Paths, Verdicts
  <2>4. CASE ResolveHold(w)
    BY <2>4 DEF ResolveHold, Take, TypeOK, rowVars, clockVars, moneyVars, Steps, Paths,
                Verdicts
  <2>5. CASE SweepQuery(w)
    BY <2>5 DEF SweepQuery, Take, TypeOK, rowVars, clockVars, moneyVars, Steps, Paths,
                Verdicts, Types
  <2>. QED
    BY <1>6, <2>1, <2>2, <2>3, <2>4, <2>5 DEF Request
<1>7. ASSUME NEW w \in Workers, Continue(w)
      PROVE  TypeOK'
  <2>1. CASE Debit(w)
    BY <2>1 DEF Debit, Go, TypeOK, rowVars, clockVars, Steps
  <2>2. CASE Settle(w)
    BY <2>2 DEF Settle, SettleResults, Go, TypeOK, rowVars, clockVars, Steps, Verdicts
  <2>3. CASE Record(w)
    BY <2>3 DEF Record, Go, Touch, TypeOK, moneyVars, clockVars, Steps, Verdicts
  <2>4. CASE Finalize(w)
    <3>1. RefundDue(w) \in Nat
      BY DEF RefundDue, Residual, TypeOK, Verdicts
    <3>2. FinalStatus(verdict[w]) \in Statuses
      BY DEF FinalStatus, TypeOK, Verdicts, Statuses, Terminal
    <3>3. LocalsTyped'
      BY <2>4, DoneType DEF Finalize
    <3>4. CASE Finalizable
      <4>1. expired' \in BOOLEAN /\ aged' \in BOOLEAN
        BY <2>4, <3>4 DEF Finalize, Touch, TypeOK
      <4>2. /\ refunded' \in Nat /\ outcome' \in Verdicts /\ status' \in Statuses
            /\ finishedBy' \in Paths
        BY <2>4, <3>1, <3>2, <3>4 DEF Finalize, TypeOK
      <4>. QED
        BY <2>4, <3>3, <4>1, <4>2 DEF Finalize, TypeOK, LocalsTyped
    <3>5. CASE ~Finalizable
      BY <2>4, <3>3, <3>5 DEF Finalize, TypeOK, LocalsTyped, clockVars
    <3>. QED
      BY <3>4, <3>5
  <2>5. CASE FinalizeFails(w)
    BY <2>5 DEF FinalizeFails, Go, TypeOK, rowVars, clockVars, moneyVars, Steps
  <2>6. CASE Hold(w)
    <3>1. LocalsTyped'
      BY <2>6, DoneType DEF Hold
    <3>. QED
      BY <2>6, <3>1 DEF Hold, Touch, TypeOK, LocalsTyped, clockVars, moneyVars, Statuses,
                        ArbStates
  <2>7. CASE ResolveThrows(w)
    BY <2>7 DEF ResolveThrows, Go, TypeOK, rowVars, clockVars, moneyVars, Steps
  <2>8. ASSUME NEW a \in ArbAmounts, ExecuteArbitration(w, a)
        PROVE  TypeOK'
    <3>1. CASE ArbTransition(w, a)
      <4>1. ArbClamp(a) \in Nat
        BY LeastFacts DEF ArbClamp
      <4>. QED
        BY <3>1, <4>1 DEF ArbTransition, Take, Touch, TypeOK, moneyVars, Statuses,
                          ArbStates, Steps, Verdicts
    <3>2. CASE ArbRecover(w, FALSE)
      BY <3>2, ArbRecoverType
    <3>3. CASE ArbRefused(w)
      <4>1. LocalsTyped'
        <5>1. CASE path[w] = "dispute"
          BY <3>3, <5>1 DEF ArbRefused, Go, TypeOK, LocalsTyped, Steps
        <5>2. CASE path[w] # "dispute"
          BY <3>3, <5>2, DoneType DEF ArbRefused
        <5>. QED
          BY <5>1, <5>2
      <4>. QED
        BY <3>3, <4>1 DEF ArbRefused, TypeOK, LocalsTyped, rowVars, clockVars, moneyVars
    <3>. QED
      BY <2>8, <3>1, <3>2, <3>3 DEF ExecuteArbitration
  <2>9. CASE RevertDisputeToOpen(w)
    <3>1. LocalsTyped'
      BY <2>9, DoneType DEF RevertDisputeToOpen
    <3>. QED
      BY <2>9, <3>1 DEF RevertDisputeToOpen, Touch, TypeOK, LocalsTyped, clockVars,
                        moneyVars, Statuses
  <2>10. CASE SweepClose(w)
    <3>1. path[w] \in Paths
      BY DEF TypeOK
    <3>. QED
      BY <2>10, <3>1, CloseOrRecoverType DEF SweepClose
  <2>11. CASE SweepArb(w)
    <3>1. CASE ArbRecover(w, TRUE)
      BY <3>1, ArbRecoverType
    <3>2. CASE status \in {"disputed", "arb_hold"}
      <4>1. LocalsTyped'
        BY <2>11, <3>2, DoneType DEF SweepArb, ArbRecover, ArbStates
      <4>2. expired' \in BOOLEAN /\ aged' \in BOOLEAN
        BY <2>11, <3>2 DEF SweepArb, ArbRecover, Touch, TypeOK, ArbStates
      <4>3. /\ status' \in Statuses /\ consumed' \in Nat /\ due' \in Nat
            /\ frozenBy' \in Paths /\ UNCHANGED <<type, outcome, seen, moneyVars, finishedBy>>
        BY <2>11, <3>2 DEF SweepArb, ArbRecover, Statuses, ArbStates, TypeOK
      <4>. QED
        BY <4>1, <4>2, <4>3 DEF TypeOK, LocalsTyped, moneyVars
    <3>3. CASE status \notin ArbStates
      <4>1. LocalsTyped'
        BY <2>11, <3>3, DoneType DEF SweepArb, ArbRecover, ArbStates
      <4>. QED
        BY <2>11, <3>3, <4>1 DEF SweepArb, ArbRecover, TypeOK, LocalsTyped, rowVars,
                                 clockVars, moneyVars, ArbStates
    <3>. QED
      BY <2>11, <3>1, <3>2, <3>3 DEF SweepArb
  <2>. QED
    BY <1>7, <2>1, <2>2, <2>3, <2>4, <2>5, <2>6, <2>7, <2>8, <2>9, <2>10, <2>11 DEF Continue
<1>8. ASSUME NEW w \in Workers, Crash(w)
      PROVE  TypeOK'
  <2>1. LocalsTyped'
    BY <1>8, DoneType DEF Crash
  <2>. QED
    BY <1>8, <2>1 DEF Crash, TypeOK, LocalsTyped, rowVars, clockVars, moneyVars
<1>. QED
  BY <1>1, <1>2, <1>3, <1>4, <1>5, <1>6, <1>7, <1>8 DEF Next

\* Every reachable state is well typed.
THEOREM TypeCorrect == Spec => []TypeOK
<1>1. Init => TypeOK
  BY InitType
<1>2. TypeOK /\ [Next]_vars => TypeOK'
  BY NextType
<1>. QED
  BY <1>1, <1>2, PTL DEF Spec

-----------------------------------------------------------------------------
(* The settlement invariant.  A step is one of three kinds: it freezes the  *)
(* amount and makes one worker the settler, it launches the settle, or it   *)
(* does neither ("harmless").                                               *)

Harmless ==
    /\ UNCHANGED <<settles, paid>>
    /\ \A u \in Workers : pc'[u] \in Settling => pc[u] \in Settling /\ amt'[u] = amt[u]
    /\ status' \in Unfrozen =>
          /\ status \in Unfrozen /\ outcome' = outcome
          /\ \A u \in Workers : verdict'[u] \in {verdict[u], "failed_ambiguous"}
    /\ CertainFailure' => CertainFailure
    /\ status' = "refunded" =>
          \/ status = "refunded" /\ outcome' = outcome
          \/ outcome' = "failed_unequivocal"

\* A harmless step keeps the invariant.
LEMMA HarmlessKeepsInv ==
    ASSUME SettlementInv, TypeOK', Harmless
    PROVE  SettlementInv'
<1>. USE DEF SettlementInv, Harmless
<1>1. NothingBeforeFreeze'
  BY DEF NothingBeforeFreeze
<1>2. OneSettler'
  BY DEF OneSettler
<1>3. PaidBySettle'
  BY DEF PaidBySettle
<1>4. RefundNeedsProof'
  BY DEF RefundNeedsProof
<1>. QED
  BY <1>1, <1>2, <1>3, <1>4

\* So does freezing the amount: the row was unfrozen, so nobody was settling.
LEMMA FreezeKeepsInv ==
    ASSUME SettlementInv, TypeOK', NEW w \in Workers, NEW step, NEW p, NEW a \in Nat,
           NEW v \in Verdicts \ {"failed_unequivocal"}, Take(w, step, p, a, v),
           a <= Authorized, status \in Unfrozen, status' \in Closing,
           UNCHANGED <<outcome, settles, paid>>
    PROVE  SettlementInv'
<1>. USE DEF SettlementInv, Take, TypeOK
<1>1. /\ outcome = "null" /\ settles = 0
      /\ \A u \in Workers : pc[u] \notin Settling /\ verdict[u] = "failed_ambiguous"
  BY DEF NothingBeforeFreeze
<1>2. status' \notin Unfrozen /\ status' # "refunded"
  BY DEF Unfrozen, Closing
<1>3. NothingBeforeFreeze'
  BY <1>2 DEF NothingBeforeFreeze
<1>4. OneSettler'
  BY <1>1 DEF OneSettler
<1>5. PaidBySettle'
  BY DEF PaidBySettle
<1>6. ~CertainFailure'
  BY <1>1 DEF CertainFailure
<1>7. RefundNeedsProof'
  BY <1>2, <1>6 DEF RefundNeedsProof
<1>. QED
  BY <1>3, <1>4, <1>5, <1>7

\* So does the settle itself: it is the first, and its verdict is what it did.
LEMMA SettleKeepsInv ==
    ASSUME SettlementInv, TypeOK', NEW w \in Workers, Settle(w)
    PROVE  SettlementInv'
<1>. USE AuthorizedAssumption DEF SettlementInv, TypeOK, Settle, Go, Settling
<1>1. /\ settles = 0 /\ paid = 0 /\ amt[w] <= Authorized
      /\ \A u \in Workers : u # w => pc[u] \notin Settling
  BY DEF OneSettler, PaidBySettle
<1>2. status \notin Unfrozen
  BY DEF NothingBeforeFreeze
<1>3. ~CertainFailure
  BY DEF RefundNeedsProof
<1>4. \A u \in Workers : pc'[u] \notin Settling
  BY <1>1
<1>5. NothingBeforeFreeze'
  BY <1>2 DEF NothingBeforeFreeze, rowVars
<1>6. OneSettler'
  BY <1>1, <1>4 DEF OneSettler
<1>7. PaidBySettle'
  BY <1>1 DEF PaidBySettle
<1>8. RefundNeedsProof'
  <2>1. CertainFailure' => paid' = 0
    BY <1>1, <1>3 DEF CertainFailure, SettleResults, rowVars
  <2>. QED
    BY <2>1, <1>4 DEF RefundNeedsProof, rowVars
<1>. QED
  BY <1>5, <1>6, <1>7, <1>8

\* A worker that leaves the row and the money alone, takes no settling step and
\* picks up no verdict of certain failure it did not read from the row is harmless.
LEMMA TakeIsHarmless ==
    ASSUME SettlementInv, NEW w \in Workers, NEW step \in Steps \ Settling, NEW p, NEW a,
           NEW v \in Verdicts, Take(w, step, p, a, v),
           UNCHANGED <<outcome, settles, paid>>,
           v = "failed_unequivocal" => outcome = "failed_unequivocal",
           status' \in Unfrozen => status \in Unfrozen /\ v = "failed_ambiguous",
           status' = "refunded" => status = "refunded"
    PROVE  Harmless
<1>. USE DEF SettlementInv, TypeOK, Take
<1>1. \A u \in Workers : pc'[u] \in Settling => pc[u] \in Settling /\ amt'[u] = amt[u]
  OBVIOUS
<1>2. \A u \in Workers : verdict'[u] \in {verdict[u], v}
  OBVIOUS
<1>3. CertainFailure' => CertainFailure
  BY <1>2 DEF CertainFailure
<1>. QED
  BY <1>1, <1>2, <1>3 DEF Harmless

\* A worker that answers its caller, with the row going nowhere terminal, is harmless.
LEMMA DoneIsHarmless ==
    ASSUME SettlementInv, NEW w \in Workers, Done(w), UNCHANGED <<outcome, settles, paid>>,
           status' \in Unfrozen => status \in Unfrozen,
           status' = "refunded" => status = "refunded"
    PROVE  Harmless
BY TakeIsHarmless DEF Done, Steps, Settling, Verdicts

\* A worker that only moves on to a step that is not the settle is harmless.
LEMMA GoIsHarmless ==
    ASSUME SettlementInv, NEW w \in Workers, NEW step, Go(w, step),
           step \in Settling => pc[w] \in Settling,
           UNCHANGED <<status, outcome, settles, paid, amt, verdict>>
    PROVE  Harmless
BY DEF SettlementInv, TypeOK, Go, Harmless, CertainFailure

\* Closing freezes the amount; recovering and answering are harmless.
LEMMA CloseOrRecoverKeepsInv ==
    ASSUME SettlementInv, TypeOK', NEW w \in Workers, NEW p \in Paths, NEW stale \in BOOLEAN,
           NEW usage \in Nat, CloseOrRecover(w, p, stale, usage)
    PROVE  SettlementInv'
<1>. USE AuthorizedAssumption
<1>0. consumed \in Nat /\ outcome \in Verdicts \cup {"null"}
  BY DEF SettlementInv, TypeOK
<1>1. CASE CloseRow(w, p, usage)
  <2>. DEFINE rowDue == IF type = "session" THEN Least(consumed, Authorized)
                                            ELSE Least(Authorized, usage)
              final == IF p = "session" THEN rowDue ELSE Least(Authorized, usage)
              step == IF final = 0 THEN "record" ELSE IF p = "upto" THEN "debit" ELSE "settle"
              v == IF final = 0 THEN "settled" ELSE "failed_ambiguous"
  <2>1. final \in Nat /\ final <= Authorized
    BY <1>0, LeastFacts
  <2>2. v \in Verdicts \ {"failed_unequivocal"}
    BY DEF Verdicts
  <2>3. Take(w, step, p, final, v)
    BY <1>1 DEF CloseRow
  <2>4. status \in Unfrozen /\ status' \in Closing /\ UNCHANGED <<outcome, settles, paid>>
    BY <1>1 DEF CloseRow, Closable, Unfrozen, Closing, moneyVars
  <2>. HIDE DEF final, step, v
  <2>. QED
    BY <2>1, <2>2, <2>3, <2>4, FreezeKeepsInv
<1>2. CASE RecoverClosing(w, p, stale)
  <2>1. Take(w, "finalize", p, consumed, Normalize(outcome))
    BY <1>2 DEF RecoverClosing
  <2>2. /\ Normalize(outcome) \in Verdicts
        /\ Normalize(outcome) = "failed_unequivocal" => outcome = "failed_unequivocal"
    BY <1>0, NormalizeFacts
  <2>3. UNCHANGED <<outcome, settles, paid, status>> /\ status \notin Unfrozen
    BY <1>2 DEF RecoverClosing, rowVars, moneyVars, Unfrozen
  <2>4. "finalize" \in Steps \ Settling
    BY DEF Steps, Settling
  <2>5. Harmless
    BY <2>1, <2>2, <2>3, <2>4, TakeIsHarmless
  <2>. QED
    BY <2>5, HarmlessKeepsInv
<1>3. CASE AnswerFromRow(w, stale)
  <2>1. Harmless
    BY <1>3, DoneIsHarmless DEF AnswerFromRow, rowVars, moneyVars
  <2>. QED
    BY <2>1, HarmlessKeepsInv
<1>. QED
  BY <1>1, <1>2, <1>3 DEF CloseOrRecover

\* Recovering an arbitration is harmless.
LEMMA ArbRecoverKeepsInv ==
    ASSUME SettlementInv, TypeOK', NEW w \in Workers, NEW stale \in BOOLEAN,
           ArbRecover(w, stale)
    PROVE  SettlementInv'
<1>1. UNCHANGED <<outcome, settles, paid, status>> /\ status \notin Unfrozen
  BY DEF ArbRecover, rowVars, moneyVars, Unfrozen
<1>2. CASE outcome # "null" \/ stale
  <2>1. Take(w, "finalize", path[w], consumed, Normalize(outcome))
    BY <1>2 DEF ArbRecover
  <2>2. /\ Normalize(outcome) \in Verdicts
        /\ Normalize(outcome) = "failed_unequivocal" => outcome = "failed_unequivocal"
    BY NormalizeFacts DEF SettlementInv, TypeOK
  <2>3. "finalize" \in Steps \ Settling
    BY DEF Steps, Settling
  <2>4. Harmless
    BY <1>1, <2>1, <2>2, <2>3, TakeIsHarmless
  <2>. QED
    BY <2>4, HarmlessKeepsInv
<1>3. CASE ~(outcome # "null" \/ stale)
  <2>1. Done(w)
    BY <1>3 DEF ArbRecover
  <2>2. Harmless
    BY <1>1, <2>1, DoneIsHarmless
  <2>. QED
    BY <2>2, HarmlessKeepsInv
<1>. QED
  BY <1>2, <1>3

\* Every step of Next keeps the invariant.
LEMMA NextKeepsInv == SettlementInv /\ [Next]_vars => SettlementInv'
<1>. SUFFICES ASSUME SettlementInv, [Next]_vars
              PROVE  SettlementInv'
  OBVIOUS
<1>. USE AuthorizedAssumption, InputAssumption
<1>0. TypeOK /\ TypeOK'
  BY NextType DEF SettlementInv
<1>1. CASE UNCHANGED vars
  <2>1. Harmless
    BY <1>1 DEF Harmless, CertainFailure, vars, rowVars, moneyVars, workerVars
  <2>. QED
    BY <1>0, <2>1, HarmlessKeepsInv
<1>2. CASE Open
  <2>1. Harmless
    BY <1>2 DEF Open, Harmless, CertainFailure, Unfrozen, workerVars
  <2>. QED
    BY <1>0, <2>1, HarmlessKeepsInv
<1>3. CASE Expire \/ Age
  <2>1. Harmless
    BY <1>3 DEF Expire, Age, Harmless, CertainFailure, rowVars, moneyVars, workerVars
  <2>. QED
    BY <1>0, <2>1, HarmlessKeepsInv
<1>4. ASSUME NEW v \in VoucherIds, Voucher(v)
      PROVE  SettlementInv'
  <2>1. Harmless
    BY <1>4 DEF Voucher, Harmless, CertainFailure, moneyVars, workerVars
  <2>. QED
    BY <1>0, <2>1, HarmlessKeepsInv
<1>5. ASSUME NEW w \in Workers, Request(w)
      PROVE  SettlementInv'
  <2>1. CASE CloseSession(w)
    BY <1>0, <2>1, CloseOrRecoverKeepsInv DEF CloseSession, Paths
  <2>2. ASSUME NEW u \in Usages, SettleUpto(w, u)
        PROVE  SettlementInv'
    BY <1>0, <2>2, CloseOrRecoverKeepsInv DEF SettleUpto, Paths
  <2>3. CASE OpenDispute(w)
    <3>1. Harmless
      BY <2>3, TakeIsHarmless DEF OpenDispute, Unfrozen, moneyVars, Steps, Settling, Verdicts
    <3>. QED
      BY <1>0, <3>1, HarmlessKeepsInv
  <2>4. CASE ResolveHold(w)
    <3>1. Harmless
      BY <2>4, TakeIsHarmless DEF ResolveHold, rowVars, moneyVars, Steps, Settling, Verdicts
    <3>. QED
      BY <1>0, <3>1, HarmlessKeepsInv
  <2>5. CASE SweepQuery(w)
    <3>1. PICK step \in {"sweepClose", "sweepArb", "revert"}, p \in {type, "admin", "session"} :
             Take(w, step, p, 0, "failed_ambiguous")
      BY <2>5 DEF SweepQuery
    <3>2. Harmless
      BY <2>5, <3>1, TakeIsHarmless DEF SweepQuery, rowVars, moneyVars, Steps, Settling, Verdicts
    <3>. QED
      BY <1>0, <3>2, HarmlessKeepsInv
  <2>. QED
    BY <1>5, <2>1, <2>2, <2>3, <2>4, <2>5 DEF Request
<1>6. ASSUME NEW w \in Workers, Continue(w)
      PROVE  SettlementInv'
  <2>1. CASE Debit(w)
    <3>1. Harmless
      BY <2>1, GoIsHarmless DEF Debit, rowVars, Settling
    <3>. QED
      BY <1>0, <3>1, HarmlessKeepsInv
  <2>2. CASE Settle(w)
    BY <1>0, <2>2, SettleKeepsInv
  <2>3. CASE Record(w)
    <3>1. CASE outcome' = outcome
      <4>1. Harmless
        BY <2>3, <3>1, GoIsHarmless DEF Record, moneyVars, Settling
      <4>. QED
        BY <1>0, <4>1, HarmlessKeepsInv
    <3>2. CASE outcome' # outcome
      <4>1. status \in Closing /\ outcome' = verdict[w]
        BY <2>3, <3>2 DEF Record
      <4>2. status' \notin Unfrozen /\ status' # "refunded"
        BY <2>3, <4>1 DEF Record, Closing, Unfrozen
      <4>3. CertainFailure' => CertainFailure
        BY <2>3, <4>1 DEF Record, CertainFailure
      <4>4. \A u \in Workers : pc'[u] \in Settling => pc[u] \in Settling /\ amt'[u] = amt[u]
        BY <1>0, <2>3 DEF Record, Go, TypeOK, Settling
      <4>5. Harmless
        BY <2>3, <4>2, <4>3, <4>4 DEF Record, Harmless, moneyVars
      <4>. QED
        BY <1>0, <4>5, HarmlessKeepsInv
    <3>. QED
      BY <3>1, <3>2
  <2>4. CASE Finalize(w)
    <3>1. \A u \in Workers : /\ pc'[u] \in Settling => pc[u] \in Settling /\ amt'[u] = amt[u]
                             /\ verdict'[u] \in {verdict[u], "failed_ambiguous"}
      BY <1>0, <2>4 DEF Finalize, Done, Take, TypeOK, Settling
    <3>2. CertainFailure' => CertainFailure
      BY <2>4, <3>1 DEF Finalize, CertainFailure, clockVars
    <3>3. CASE Finalizable
      <4>1. status' \notin Unfrozen
        BY <1>0, <2>4, <3>3 DEF Finalize, FinalStatus, TypeOK, Verdicts, Unfrozen
      <4>2. status' = "refunded" => outcome' = "failed_unequivocal"
        BY <1>0, <2>4, <3>3 DEF Finalize, FinalStatus, TypeOK, Verdicts
      <4>. QED
        BY <2>4, <3>1, <3>2, <4>1, <4>2, <1>0, HarmlessKeepsInv DEF Finalize, Harmless
    <3>4. CASE ~Finalizable
      <4>1. Harmless
        BY <2>4, <3>1, <3>2, <3>4 DEF Finalize, Harmless
      <4>. QED
        BY <1>0, <4>1, HarmlessKeepsInv
    <3>. QED
      BY <3>3, <3>4
  <2>5. CASE FinalizeFails(w) \/ ResolveThrows(w)
    <3>1. Harmless
      BY <2>5, GoIsHarmless DEF FinalizeFails, ResolveThrows, rowVars, moneyVars, Settling
    <3>. QED
      BY <1>0, <3>1, HarmlessKeepsInv
  <2>6. CASE Hold(w)
    <3>1. Harmless
      BY <2>6, DoneIsHarmless DEF Hold, Unfrozen, moneyVars
    <3>. QED
      BY <1>0, <3>1, HarmlessKeepsInv
  <2>7. ASSUME NEW a \in ArbAmounts, ExecuteArbitration(w, a)
        PROVE  SettlementInv'
    <3>1. CASE ArbTransition(w, a)
      <4>1. ArbClamp(a) \in Nat /\ ArbClamp(a) <= Authorized
        BY LeastFacts DEF ArbClamp
      <4>2. PICK step \in Steps, v \in {"settled", "failed_ambiguous"} :
               Take(w, step, path[w], ArbClamp(a), v)
        BY <3>1 DEF ArbTransition, Steps
      <4>3. /\ status \in Unfrozen /\ status' \in Closing
            /\ UNCHANGED <<outcome, settles, paid>>
        BY <3>1 DEF ArbTransition, Unfrozen, Closing, moneyVars
      <4>4. v \in Verdicts \ {"failed_unequivocal"}
        BY DEF Verdicts
      <4>. QED
        BY <1>0, <4>1, <4>2, <4>3, <4>4, FreezeKeepsInv
    <3>2. CASE ArbRecover(w, FALSE)
      BY <1>0, <3>2, ArbRecoverKeepsInv
    <3>3. CASE ArbRefused(w)
      <4>1. UNCHANGED <<status, outcome, settles, paid>>
        BY <3>3 DEF ArbRefused, rowVars, moneyVars
      <4>2. CASE path[w] = "dispute"
        <5>1. Harmless
          BY <3>3, <4>1, <4>2, GoIsHarmless DEF ArbRefused, Settling
        <5>. QED
          BY <1>0, <5>1, HarmlessKeepsInv
      <4>3. CASE path[w] # "dispute"
        <5>1. Harmless
          BY <3>3, <4>1, <4>3, DoneIsHarmless DEF ArbRefused
        <5>. QED
          BY <1>0, <5>1, HarmlessKeepsInv
      <4>. QED
        BY <4>2, <4>3
    <3>. QED
      BY <2>7, <3>1, <3>2, <3>3 DEF ExecuteArbitration
  <2>8. CASE RevertDisputeToOpen(w)
    <3>1. Harmless
      BY <2>8, DoneIsHarmless DEF RevertDisputeToOpen, Revertable, Unfrozen, moneyVars
    <3>. QED
      BY <1>0, <3>1, HarmlessKeepsInv
  <2>9. CASE SweepClose(w)
    BY <1>0, <2>9, CloseOrRecoverKeepsInv DEF SweepClose, TypeOK
  <2>10. CASE SweepArb(w)
    <3>1. CASE ArbRecover(w, TRUE)
      BY <1>0, <3>1, ArbRecoverKeepsInv
    <3>2. CASE status # "arb_closing"
      <4>1. Done(w) /\ UNCHANGED <<outcome, settles, paid>>
        BY <2>10, <3>2 DEF SweepArb, ArbRecover, rowVars, moneyVars
      <4>2. status' = status \/ (status \in Unfrozen /\ status' = "arb_closing")
        BY <2>10, <3>2 DEF SweepArb, ArbRecover, rowVars, Unfrozen
      <4>3. Harmless
        BY <4>1, <4>2, DoneIsHarmless DEF Unfrozen
      <4>. QED
        BY <1>0, <4>3, HarmlessKeepsInv
    <3>. QED
      BY <2>10, <3>1, <3>2 DEF SweepArb, ArbStates
  <2>. QED
    BY <1>6, <2>1, <2>2, <2>3, <2>4, <2>5, <2>6, <2>7, <2>8, <2>9, <2>10 DEF Continue
<1>7. ASSUME NEW w \in Workers, Crash(w)
      PROVE  SettlementInv'
  <2>1. Harmless
    BY <1>7, DoneIsHarmless DEF Crash, rowVars, moneyVars
  <2>. QED
    BY <1>0, <2>1, HarmlessKeepsInv
<1>. QED
  BY <1>1, <1>2, <1>3, <1>4, <1>5, <1>6, <1>7 DEF Next

LEMMA InitInv == Init => SettlementInv
<1>. SUFFICES ASSUME Init PROVE SettlementInv
  OBVIOUS
<1>1. TypeOK
  BY InitType
<1>2. NothingBeforeFreeze
  BY DEF Init, NothingBeforeFreeze, Settling
<1>3. OneSettler
  BY DEF Init, OneSettler, Settling
<1>4. PaidBySettle /\ RefundNeedsProof
  BY AuthorizedAssumption DEF Init, PaidBySettle, RefundNeedsProof, CertainFailure
<1>. QED
  BY <1>1, <1>2, <1>3, <1>4 DEF SettlementInv

\* In every reachable state at most one worker can still launch the settle, and every
\* verdict of certain failure is backed by a settle that moved nothing.
THEOREM SettlementInvariant == Spec => []SettlementInv
<1>1. Init => SettlementInv
  BY InitInv
<1>2. SettlementInv /\ [Next]_vars => SettlementInv'
  BY NextKeepsInv
<1>. QED
  BY <1>1, <1>2, PTL DEF Spec

\* close_payment_intent_for_settle, close_payment_intent_for_arbitration and open_dispute
\* never let two settles of one intent be launched, however many requests race.
THEOREM SettledAtMostOnce == Spec => []SettledOnce
<1>1. SettlementInv => SettledOnce
  BY DEF SettlementInv, OneSettler, SettledOnce
<1>. QED
  BY <1>1, SettlementInvariant, PTL

\* The clamps of the SQL functions bound what the seller receives by the deposit or
\* the cap, on the cooperative path and under arbitration.
THEOREM PaymentBounded == Spec => []PaidWithinAuthorization
<1>1. SettlementInv => PaidWithinAuthorization
  BY DEF SettlementInv, PaidBySettle, PaidWithinAuthorization
<1>. QED
  BY <1>1, SettlementInvariant, PTL

\* finalize_payment_intent credits a whole deposit back only when the seller got nothing.
THEOREM RefundIsJustified == Spec => []RefundedMeansUnpaid
<1>1. SettlementInv => RefundedMeansUnpaid
  BY DEF SettlementInv, RefundNeedsProof, CertainFailure, RefundedMeansUnpaid
<1>. QED
  BY <1>1, SettlementInvariant, PTL

-----------------------------------------------------------------------------
(* Finality needs no invariant: every writer of the row tests its status    *)
(* under the row lock (or in the WHERE clause of the UPDATE).               *)

\* What no step may change once the intent is settled, refunded or failed.
Frozen == UNCHANGED <<status, outcome, consumed, refunded>>

LEMMA TerminalStep == (status \in Terminal) /\ [Next]_vars => Frozen
<1>. SUFFICES ASSUME status \in Terminal, [Next]_vars
              PROVE  Frozen
  OBVIOUS
<1>. USE DEF Terminal, Frozen, rowVars, moneyVars
<1>1. CASE UNCHANGED vars \/ Open \/ Expire \/ Age
  BY <1>1 DEF vars, Open, Expire, Age
<1>2. ASSUME NEW v \in VoucherIds, Voucher(v)
      PROVE  Frozen
  BY <1>2 DEF Voucher, VoucherOpen
<1>3. ASSUME NEW w, NEW p, NEW stale, NEW usage, CloseOrRecover(w, p, stale, usage)
      PROVE  Frozen
  BY <1>3 DEF CloseOrRecover, CloseRow, RecoverClosing, AnswerFromRow, Closable
<1>4. ASSUME NEW w \in Workers, Request(w)
      PROVE  Frozen
  <2>1. CASE CloseSession(w) \/ \E u \in Usages : SettleUpto(w, u)
    BY <1>3, <2>1 DEF CloseSession, SettleUpto
  <2>2. CASE OpenDispute(w) \/ ResolveHold(w) \/ SweepQuery(w)
    BY <2>2 DEF OpenDispute, ResolveHold, SweepQuery
  <2>. QED
    BY <1>4, <2>1, <2>2 DEF Request
<1>5. ASSUME NEW w \in Workers, Continue(w)
      PROVE  Frozen
  <2>1. CASE Debit(w) \/ Settle(w) \/ FinalizeFails(w) \/ ResolveThrows(w)
    BY <2>1 DEF Debit, Settle, FinalizeFails, ResolveThrows
  <2>2. CASE Record(w) \/ Finalize(w)
    BY <2>2 DEF Record, Finalize, Finalizable, Closing
  <2>3. CASE Hold(w) \/ RevertDisputeToOpen(w)
    BY <2>3 DEF Hold, RevertDisputeToOpen, Revertable
  <2>4. ASSUME NEW a \in ArbAmounts, ExecuteArbitration(w, a)
        PROVE  Frozen
    BY <2>4 DEF ExecuteArbitration, ArbTransition, ArbRecover, ArbRefused
  <2>5. CASE SweepClose(w)
    BY <1>3, <2>5 DEF SweepClose
  <2>6. CASE SweepArb(w)
    BY <2>6 DEF SweepArb, ArbRecover
  <2>. QED
    BY <1>5, <2>1, <2>2, <2>3, <2>4, <2>5, <2>6 DEF Continue
<1>6. ASSUME NEW w \in Workers, Crash(w)
      PROVE  Frozen
  BY <1>6 DEF Crash
<1>. QED
  BY <1>1, <1>2, <1>4, <1>5, <1>6 DEF Next

\* A finished intent is never reopened, re-priced or credited again.
THEOREM TerminalFinal == Spec => TerminalIsFinal
<1>1. [Next]_vars => [(status \in Terminal) => UNCHANGED <<status, outcome, consumed, refunded>>]_vars
  BY TerminalStep DEF Frozen
<1>. QED
  BY <1>1, PTL DEF Spec, TerminalIsFinal

-----------------------------------------------------------------------------
(* The books.  A step either leaves the money alone ("quiet"), opens the    *)
(* intent, meters it, freezes its amount, debits, settles or finalizes.     *)

\* Money, amounts and kind stay, the row moves at most between its unfrozen states, nobody
\* becomes a settler, and who records or finalizes does it with an amount of a frozen row
\* and a verdict somebody held before.
Quiet ==
    /\ UNCHANGED <<type, consumed, charged, refunded, paid, settles, frozenBy, due, finishedBy>>
    /\ status' = status \/ {status, status'} \subseteq Unfrozen \ {"absent"}
    /\ status \in Terminal => outcome' = outcome
    /\ \A u \in Workers :
          /\ pc'[u] \in Settling => pc'[u] = pc[u] /\ amt'[u] = amt[u]
          /\ pc'[u] \in Busy =>
                /\ status \notin Unfrozen /\ amt'[u] \in {due, consumed}
                /\ path'[u] # "upto" => amt'[u] = consumed
          /\ Routed(pc'[u], path'[u])
    /\ \A v \in {"settled", "failed_unequivocal"} : Held(v)' => Held(v)

\* The amount becomes final, and one worker may settle it the way its path does; nothing
\* has to be settled when it is 0.
Freezes ==
    /\ status \in Unfrozen \ {"absent"} /\ status' \in Closing
    /\ frozenBy' \in Paths /\ consumed' <= Authorized /\ due' <= Authorized
    /\ due' = consumed' \/ (type = "session" /\ frozenBy' = "upto")
    /\ type = "upto" /\ frozenBy' = "session" => due' = 0
    /\ UNCHANGED <<type, outcome, charged, refunded, paid, settles, finishedBy>>
    /\ \A u \in Workers :
          /\ pc'[u] \in Busy => amt'[u] = due' /\ (path'[u] # "upto" => amt'[u] = consumed')
          /\ pc'[u] = "settle" => frozenBy' # "upto"
          /\ pc'[u] = "debit" => frozenBy' = "upto"
          /\ Routed(pc'[u], path'[u])
          /\ verdict'[u] # "failed_unequivocal"
          /\ verdict'[u] = "settled" => due' = 0 /\ \A x \in Workers : pc'[x] \notin Settling

BookStep ==
    \/ Quiet \/ Open \/ Freezes
    \/ \E v \in VoucherIds : Voucher(v)
    \/ \E w \in Workers : Debit(w) \/ Settle(w) \/ (Finalize(w) /\ Finalizable)

\* What a quiet step leaves alone.
Kept == UNCHANGED <<type, outcome, consumed, charged, refunded, paid, settles, historyVars>>

\* A worker that takes up a step without settling, with a verdict from the row, is quiet.
LEMMA TakeIsQuiet ==
    ASSUME BooksInv, NEW w \in Workers, NEW step \in Steps \ Settling, NEW p, NEW a \in Nat,
           NEW v \in Verdicts, Take(w, step, p, a, v),
           v = "failed_ambiguous" \/ v = outcome,
           step \in Busy => status \notin Unfrozen /\ a = consumed,
           Routed(step, p),
           Kept, status' = status \/ {status, status'} \subseteq Unfrozen \ {"absent"}
    PROVE  Quiet
<1>. USE DEF BooksInv, SettlementInv, TypeOK, Take, Kept
<1>1. \A u \in Workers :
          /\ pc'[u] \in Settling => pc'[u] = pc[u] /\ amt'[u] = amt[u]
          /\ pc'[u] \in Busy =>
                /\ status \notin Unfrozen /\ amt'[u] \in {due, consumed}
                /\ path'[u] # "upto" => amt'[u] = consumed
          /\ Routed(pc'[u], path'[u])
  BY DEF AmountsAgree
<1>2. \A u \in Workers : verdict'[u] \in {verdict[u], "failed_ambiguous", outcome}
  OBVIOUS
<1>3. \A x \in {"settled", "failed_unequivocal"} : Held(x)' => Held(x)
  BY <1>2 DEF Held
<1>. QED
  BY <1>1, <1>3 DEF Quiet, historyVars

LEMMA DoneIsQuiet ==
    ASSUME BooksInv, NEW w \in Workers, Done(w), Kept,
           status' = status \/ {status, status'} \subseteq Unfrozen \ {"absent"}
    PROVE  Quiet
BY TakeIsQuiet DEF Done, Steps, Settling, Busy, Verdicts, Routed

LEMMA GoIsQuiet ==
    ASSUME BooksInv, NEW w \in Workers, NEW step, Go(w, step), step \notin Settling,
           step \in Busy => pc[w] \in Busy,
           step \notin {"sweepClose", "resolve", "override", "sweepArb"},
           UNCHANGED <<type, status, consumed, charged, refunded, paid, settles, historyVars>>,
           UNCHANGED <<path, amt, verdict>>,
           \/ outcome' = outcome
           \/ status \notin Terminal /\ outcome' = verdict[w]
    PROVE  Quiet
<1>. USE DEF BooksInv, SettlementInv, TypeOK, Go
<1>1. \A u \in Workers :
          /\ pc'[u] \in Settling => pc'[u] = pc[u] /\ amt'[u] = amt[u]
          /\ pc'[u] \in Busy =>
                /\ status \notin Unfrozen /\ amt'[u] \in {due, consumed}
                /\ path'[u] # "upto" => amt'[u] = consumed
          /\ Routed(pc'[u], path'[u])
  BY DEF AmountsAgree, Routed
<1>2. \A x \in {"settled", "failed_unequivocal"} : Held(x)' => Held(x)
  BY DEF Held
<1>. QED
  BY <1>1, <1>2 DEF Quiet, historyVars

\* The one worker that froze the amount settles it the way of its path.
LEMMA TakeFreezes ==
    ASSUME BooksInv, NEW w \in Workers, NEW p \in Paths, NEW a \in Nat, NEW step,
           a <= Authorized,
           Take(w, step, p, a, IF a = 0 THEN "settled" ELSE "failed_ambiguous"),
           step = IF a = 0 THEN "record" ELSE IF p = "upto" THEN "debit" ELSE "settle",
           status \in Unfrozen \ {"absent"}, status' \in Closing,
           frozenBy' = p, due' = a, consumed' <= Authorized,
           a = consumed' \/ (type = "session" /\ p = "upto"),
           type = "upto" /\ p = "session" => a = 0,
           UNCHANGED <<type, outcome, charged, refunded, paid, settles, finishedBy>>
    PROVE  Freezes
<1>. USE DEF BooksInv, SettlementInv, TypeOK, Take
<1>1. /\ \A u \in Workers : pc[u] \notin Busy /\ verdict[u] = "failed_ambiguous"
      /\ \A u \in Workers : Routed(pc[u], path[u])
  BY DEF NothingBeforeFreeze, AmountsAgree
<1>2. \A u \in Workers : u # w => /\ pc'[u] = pc[u] /\ path'[u] = path[u]
                                  /\ verdict'[u] = verdict[u]
  OBVIOUS
<1>3. /\ pc'[w] = step /\ amt'[w] = a /\ path'[w] = p
      /\ verdict'[w] = IF a = 0 THEN "settled" ELSE "failed_ambiguous"
  OBVIOUS
<1>. QED
  BY <1>1, <1>2, <1>3 DEF Freezes, Busy, Settling, Routed

LEMMA CloseOrRecoverBooks ==
    ASSUME BooksInv, NEW w \in Workers, NEW p \in Types, NEW stale \in BOOLEAN,
           NEW usage \in Nat, p = "session" => usage = 0, CloseOrRecover(w, p, stale, usage)
    PROVE  Quiet \/ Freezes
<1>. USE AuthorizedAssumption
<1>0. /\ consumed \in Nat /\ outcome \in Verdicts \cup {"null"} /\ type \in {"session", "upto"}
      /\ consumed <= Authorized /\ p \in {"session", "upto"} /\ p \in Paths
  BY DEF BooksInv, SettlementInv, TypeOK, Types, FrozenAmount, Paths
<1>1. CASE CloseRow(w, p, usage)
  <2>. DEFINE cap == Least(Authorized, usage)
              final == IF p = "session" /\ type = "session" THEN consumed ELSE cap
  <2>1. final \in Nat /\ final <= Authorized /\ cap \in Nat /\ cap <= Authorized
    BY <1>0, LeastFacts
  <2>2. /\ Least(consumed, Authorized) = consumed
        /\ p = "session" => cap = 0
    BY <1>0 DEF Least
  <2>3. consumed' = (IF type = "session" THEN consumed ELSE cap) /\ frozenBy' = p /\ due' = final
    BY <1>0, <1>1, <2>2 DEF CloseRow
  <2>4. Take(w, IF final = 0 THEN "record" ELSE IF p = "upto" THEN "debit" ELSE "settle",
             p, final, IF final = 0 THEN "settled" ELSE "failed_ambiguous")
    BY <1>0, <1>1, <2>2 DEF CloseRow
  <2>5. /\ status \in Unfrozen \ {"absent"} /\ status' \in Closing
        /\ UNCHANGED <<type, outcome, charged, refunded, paid, settles, finishedBy>>
    BY <1>1 DEF CloseRow, Closable, Unfrozen, Closing, moneyVars
  <2>6. /\ final = consumed' \/ (type = "session" /\ p = "upto")
        /\ type = "upto" /\ p = "session" => final = 0
        /\ consumed' <= Authorized
    BY <1>0, <2>1, <2>2, <2>3
  <2>. HIDE DEF final, cap
  <2>. QED
    BY <1>0, <2>1, <2>3, <2>4, <2>5, <2>6, TakeFreezes
<1>2. CASE RecoverClosing(w, p, stale)
  <2>1. Take(w, "finalize", p, consumed, Normalize(outcome))
    BY <1>2 DEF RecoverClosing
  <2>2. /\ Normalize(outcome) \in Verdicts
        /\ Normalize(outcome) = "failed_ambiguous" \/ Normalize(outcome) = outcome
    BY <1>0 DEF Normalize, Verdicts
  <2>3. Kept /\ status' = status /\ status \notin Unfrozen
    BY <1>2 DEF RecoverClosing, rowVars, moneyVars, Unfrozen, Kept
  <2>4. "finalize" \in Steps \ Settling
    BY DEF Steps, Settling
  <2>. QED
    BY <1>0, <2>1, <2>2, <2>3, <2>4, TakeIsQuiet DEF Routed
<1>3. CASE AnswerFromRow(w, stale)
  BY <1>3, DoneIsQuiet DEF AnswerFromRow, rowVars, moneyVars, Kept
<1>. QED
  BY <1>1, <1>2, <1>3 DEF CloseOrRecover

LEMMA ArbRecoverBooks ==
    ASSUME BooksInv, NEW w \in Workers, NEW stale \in BOOLEAN, ArbRecover(w, stale)
    PROVE  Quiet
<1>0. /\ consumed \in Nat /\ outcome \in Verdicts \cup {"null"}
      /\ status \notin Unfrozen /\ Kept /\ status' = status
  BY DEF BooksInv, SettlementInv, TypeOK, ArbRecover, rowVars, moneyVars, Unfrozen, Kept
<1>1. CASE outcome # "null" \/ stale
  <2>1. Take(w, "finalize", path[w], consumed, Normalize(outcome))
    BY <1>1 DEF ArbRecover
  <2>2. /\ Normalize(outcome) \in Verdicts
        /\ Normalize(outcome) = "failed_ambiguous" \/ Normalize(outcome) = outcome
    BY <1>0 DEF Normalize, Verdicts
  <2>3. "finalize" \in Steps \ Settling
    BY DEF Steps, Settling
  <2>. QED
    BY <1>0, <2>1, <2>2, <2>3, TakeIsQuiet DEF Routed
<1>2. CASE ~(outcome # "null" \/ stale)
  BY <1>0, <1>2, DoneIsQuiet DEF ArbRecover
<1>. QED
  BY <1>1, <1>2

LEMMA NextIsBookStep == BooksInv /\ [Next]_vars => BookStep
<1>. SUFFICES ASSUME BooksInv, [Next]_vars
              PROVE  BookStep
  OBVIOUS
<1>. USE AuthorizedAssumption, InputAssumption
<1>0. TypeOK
  BY DEF BooksInv, SettlementInv
<1>1. CASE UNCHANGED vars \/ Expire \/ Age
  <2>1. UNCHANGED <<rowVars, moneyVars, workerVars>>
    BY <1>1 DEF vars, Expire, Age
  <2>2. Quiet
    BY <2>1 DEF Quiet, rowVars, historyVars, moneyVars, workerVars, Held, BooksInv, AmountsAgree
  <2>. QED
    BY <2>2 DEF BookStep
<1>2. CASE Open \/ \E v \in VoucherIds : Voucher(v)
  BY <1>2 DEF BookStep
<1>3. ASSUME NEW w \in Workers, Request(w)
      PROVE  BookStep
  <2>1. CASE CloseSession(w)
    BY <2>1, CloseOrRecoverBooks DEF CloseSession, BookStep, Types
  <2>2. ASSUME NEW u \in Usages, SettleUpto(w, u)
        PROVE  BookStep
    BY <2>2, CloseOrRecoverBooks DEF SettleUpto, BookStep, Types
  <2>3. CASE OpenDispute(w)
    <3>1. Quiet
      BY <2>3, TakeIsQuiet
         DEF OpenDispute, Unfrozen, moneyVars, Steps, Settling, Busy, Verdicts, Kept, Routed
    <3>. QED
      BY <3>1 DEF BookStep
  <2>4. CASE ResolveHold(w)
    <3>1. Quiet
      BY <2>4, TakeIsQuiet
         DEF ResolveHold, rowVars, moneyVars, Steps, Settling, Busy, Verdicts, Kept, Routed
    <3>. QED
      BY <3>1 DEF BookStep
  <2>5. CASE SweepQuery(w)
    <3>1. PICK step \in {"sweepClose", "sweepArb", "revert"}, p \in {type, "admin", "session"} :
             /\ Take(w, step, p, 0, "failed_ambiguous")
             /\ Routed(step, p)
      BY <1>0, <2>5 DEF SweepQuery, Routed, TypeOK
    <3>2. Kept /\ status' = status
      BY <2>5 DEF SweepQuery, rowVars, moneyVars, Kept
    <3>3. Quiet
      BY <1>0, <3>1, <3>2, TakeIsQuiet DEF TypeOK, Steps, Settling, Busy, Verdicts
    <3>. QED
      BY <3>3 DEF BookStep
  <2>. QED
    BY <1>3, <2>1, <2>2, <2>3, <2>4, <2>5 DEF Request
<1>4. ASSUME NEW w \in Workers, Continue(w)
      PROVE  BookStep
  <2>1. CASE Debit(w) \/ Settle(w)
    BY <2>1 DEF BookStep
  <2>2. CASE Record(w)
    <3>1. outcome' = outcome \/ status \notin Terminal
      BY <2>2 DEF Record, Closing, Terminal
    <3>2. Quiet
      BY <2>2, <3>1, GoIsQuiet DEF Record, moneyVars, Busy, Settling
    <3>. QED
      BY <3>2 DEF BookStep
  <2>3. CASE Finalize(w)
    <3>1. CASE Finalizable
      BY <2>3, <3>1 DEF BookStep
    <3>2. CASE ~Finalizable
      <4>1. Quiet
        BY <2>3, <3>2, DoneIsQuiet DEF Finalize, Kept, historyVars
      <4>. QED
        BY <4>1 DEF BookStep
    <3>. QED
      BY <3>1, <3>2
  <2>4. CASE FinalizeFails(w) \/ ResolveThrows(w)
    <3>1. Quiet
      BY <2>4, GoIsQuiet DEF FinalizeFails, ResolveThrows, rowVars, moneyVars, Busy, Settling
    <3>. QED
      BY <3>1 DEF BookStep
  <2>5. CASE Hold(w) \/ RevertDisputeToOpen(w)
    <3>1. status' = status \/ {status, status'} \subseteq Unfrozen \ {"absent"}
      BY <2>5 DEF Hold, RevertDisputeToOpen, Revertable, Unfrozen
    <3>2. Quiet
      BY <2>5, <3>1, DoneIsQuiet DEF Hold, RevertDisputeToOpen, moneyVars, Kept
    <3>. QED
      BY <3>2 DEF BookStep
  <2>6. ASSUME NEW a \in ArbAmounts, ExecuteArbitration(w, a)
        PROVE  BookStep
    <3>1. CASE ArbTransition(w, a)
      <4>1. ArbClamp(a) \in Nat /\ ArbClamp(a) <= Authorized
        BY LeastFacts DEF ArbClamp
      <4>2. /\ status \in Unfrozen \ {"absent"} /\ status' \in Closing
            /\ UNCHANGED <<type, outcome, charged, refunded, paid, settles, finishedBy>>
            /\ consumed' = ArbClamp(a) /\ due' = ArbClamp(a) /\ frozenBy' = path[w]
        BY <3>1 DEF ArbTransition, Unfrozen, Closing, moneyVars
      <4>3. path[w] \in {"dispute", "admin"}
        BY <2>6 DEF BooksInv, AmountsAgree, ExecuteArbitration, Routed
      <4>4. Take(w, IF ArbClamp(a) = 0 THEN "record"
                    ELSE IF path[w] = "upto" THEN "debit" ELSE "settle",
                 path[w], ArbClamp(a),
                 IF ArbClamp(a) = 0 THEN "settled" ELSE "failed_ambiguous")
        BY <3>1, <4>3 DEF ArbTransition
      <4>5. Freezes
        BY <4>1, <4>2, <4>3, <4>4, TakeFreezes DEF Paths
      <4>. QED
        BY <4>5 DEF BookStep
    <3>2. CASE ArbRecover(w, FALSE)
      BY <3>2, ArbRecoverBooks DEF BookStep
    <3>3. CASE ArbRefused(w)
      <4>1. Kept /\ status' = status
        BY <3>3 DEF ArbRefused, rowVars, moneyVars, Kept
      <4>2. Quiet
        BY <3>3, <4>1, GoIsQuiet, DoneIsQuiet DEF ArbRefused, Busy, Settling, Kept
      <4>. QED
        BY <4>2 DEF BookStep
    <3>. QED
      BY <2>6, <3>1, <3>2, <3>3 DEF ExecuteArbitration
  <2>7. CASE SweepClose(w)
    <3>1. path[w] \in Types
      BY <2>7 DEF SweepClose, BooksInv, AmountsAgree, Routed
    <3>. QED
      BY <2>7, <3>1, CloseOrRecoverBooks DEF SweepClose, BookStep
  <2>8. CASE SweepArb(w)
    <3>1. CASE ArbRecover(w, TRUE)
      BY <3>1, ArbRecoverBooks DEF BookStep
    <3>2. CASE status \in {"disputed", "arb_hold"}
      <4>1. /\ status' = "arb_closing" /\ consumed' = 0 /\ due' = 0 /\ Done(w)
            /\ frozenBy' = path[w]
            /\ UNCHANGED <<type, outcome, charged, refunded, paid, settles, finishedBy>>
        BY <2>8, <3>2 DEF SweepArb, ArbRecover, ArbStates, moneyVars
      <4>2. \A u \in Workers : pc[u] \notin Busy /\ verdict[u] = "failed_ambiguous"
        BY <3>2 DEF BooksInv, SettlementInv, NothingBeforeFreeze, AmountsAgree, Unfrozen
      <4>3. \A u \in Workers : /\ pc'[u] \notin Busy /\ verdict'[u] = "failed_ambiguous"
                               /\ Routed(pc'[u], path'[u])
        BY <1>0, <4>1, <4>2 DEF Done, Take, TypeOK, Busy, Settling, BooksInv, AmountsAgree, Routed
      <4>4. path[w] \in Paths
        BY <1>0 DEF TypeOK
      <4>5. Freezes
        BY <3>2, <4>1, <4>3, <4>4 DEF Freezes, Unfrozen, Closing, Busy, Settling
      <4>. QED
        BY <4>5 DEF BookStep
    <3>3. CASE ~ArbRecover(w, TRUE) /\ status \notin {"disputed", "arb_hold"}
      <4>1. Quiet
        BY <2>8, <3>3, DoneIsQuiet DEF SweepArb, rowVars, moneyVars, Kept
      <4>. QED
        BY <4>1 DEF BookStep
    <3>. QED
      BY <3>1, <3>2, <3>3
  <2>. QED
    BY <1>4, <2>1, <2>2, <2>3, <2>4, <2>5, <2>6, <2>7, <2>8 DEF Continue
<1>5. ASSUME NEW w \in Workers, Crash(w)
      PROVE  BookStep
  <2>1. Quiet
    BY <1>5, DoneIsQuiet DEF Crash, rowVars, moneyVars, Kept
  <2>. QED
    BY <2>1 DEF BookStep
<1>. QED
  BY <1>1, <1>2, <1>3, <1>4, <1>5 DEF Next

Books == FrozenAmount /\ AmountsAgree /\ SettledNeedsProof /\ Charges /\ Refunds

Amounts ==
    /\ Authorized \in Nat /\ consumed \in Nat /\ charged \in Nat /\ refunded \in Nat
    /\ paid \in Nat /\ due \in Nat /\ Reserve \in Nat

LEMMA BooksTyped == BooksInv => TypeOK /\ Amounts
BY AuthorizedAssumption DEF BooksInv, SettlementInv, TypeOK, Amounts, Reserve

LEMMA QuietKeepsBooks ==
    ASSUME BooksInv, Quiet
    PROVE  Books'
<1>. USE DEF Quiet
<1>1. status \in Unfrozen <=> status' \in Unfrozen
  BY DEF Unfrozen
<1>2. /\ status' \in {"settled", "refunded", "absent"} => status' = status
      /\ status \in {"settled", "refunded", "absent"} => status' = status
  BY DEF Unfrozen
<1>3. FrozenAmount'
  BY <1>1 DEF BooksInv, FrozenAmount
<1>4. AmountsAgree'
  BY <1>1 DEF BooksInv, AmountsAgree, Settling
<1>5. SettledNeedsProof'
  <2>1. status' = "settled" => outcome' = "settled"
    BY <1>2 DEF BooksInv, SettledNeedsProof, Terminal
  <2>. QED
    BY <2>1 DEF BooksInv, SettledNeedsProof
<1>6. Charges'
  <2>1. \A u \in Workers : /\ pc'[u] = "debit" => pc[u] = "debit"
                           /\ pc'[u] = "settle" => pc[u] = "settle"
    BY DEF Settling
  <2>2. Reserve' = Reserve
    BY <1>2 DEF Reserve
  <2>3. /\ Held("settled")' => Held("settled")
        /\ Held("failed_unequivocal")' => Held("failed_unequivocal")
    OBVIOUS
  <2>. HIDE DEF Quiet
  <2>4. UNCHANGED <<frozenBy, charged, paid, due>>
    BY DEF Quiet
  <2>. QED
    BY <2>1, <2>2, <2>3, <2>4 DEF BooksInv, Charges
<1>7. Refunds'
  BY <1>2 DEF BooksInv, Refunds
<1>. QED
  BY <1>3, <1>4, <1>5, <1>6, <1>7 DEF Books

LEMMA OpenKeepsBooks ==
    ASSUME BooksInv, Open
    PROVE  Books'
<1>. USE BooksTyped DEF Open, workerVars, historyVars, Amounts
<1>1. status = "absent" /\ status' = "open"
  OBVIOUS
<1>2. \A u \in Workers : pc[u] \notin Busy
  BY <1>1 DEF BooksInv, AmountsAgree, Unfrozen
<1>3. FrozenAmount'
  BY <1>1 DEF BooksInv, FrozenAmount, Unfrozen
<1>4. AmountsAgree'
  BY <1>2 DEF BooksInv, AmountsAgree, Busy, Settling
<1>5. SettledNeedsProof'
  BY <1>1 DEF BooksInv, SettledNeedsProof, Held
<1>6. Charges'
  BY <1>1 DEF BooksInv, Charges, FrozenAmount, Reserve, Unfrozen
<1>7. Refunds'
  BY <1>1 DEF BooksInv, Refunds
<1>. QED
  BY <1>3, <1>4, <1>5, <1>6, <1>7 DEF Books

LEMMA VoucherKeepsBooks ==
    ASSUME BooksInv, TypeOK', NEW v \in VoucherIds, Voucher(v)
    PROVE  Books'
<1>. USE BooksTyped DEF Voucher, VoucherOpen, moneyVars, workerVars, historyVars, Amounts
<1>1. status = "open" /\ status' = "open"
  OBVIOUS
<1>2. consumed' \in Nat /\ consumed' <= Authorized
  <2>1. consumed + VoucherAmount[v] \in Nat /\ Authorized \in Nat
    BY VoucherAssumption
  <2>2. consumed' = Least(consumed + VoucherAmount[v], Authorized)
    OBVIOUS
  <2>. QED
    BY ONLY <2>1, <2>2, LeastFacts
<1>3. \A u \in Workers : pc[u] \notin Busy
  BY <1>1 DEF BooksInv, AmountsAgree, Unfrozen
<1>4. FrozenAmount'
  BY <1>1, <1>2 DEF BooksInv, FrozenAmount, Unfrozen
<1>5. AmountsAgree'
  BY <1>3 DEF BooksInv, AmountsAgree, Busy, Settling
<1>6. SettledNeedsProof'
  BY <1>1 DEF BooksInv, SettledNeedsProof, Held
<1>7. Charges'
  BY <1>1 DEF BooksInv, Charges, FrozenAmount, Reserve, Unfrozen
<1>8. Refunds'
  BY <1>1 DEF BooksInv, Refunds
<1>. QED
  BY <1>4, <1>5, <1>6, <1>7, <1>8 DEF Books

LEMMA FreezesKeepsBooks ==
    ASSUME BooksInv, TypeOK', Freezes
    PROVE  Books'
<1>. USE BooksTyped DEF Freezes, Amounts
<1>1. /\ status' \notin Unfrozen \cup {"settled", "refunded"}
      /\ status \notin {"absent", "settled", "refunded"} /\ status' # "absent"
      /\ status \in Unfrozen
  BY DEF Unfrozen, Closing
<1>2. outcome = "null" /\ paid = 0
  BY DEF BooksInv, SettlementInv, NothingBeforeFreeze, PaidBySettle
<1>3. FrozenAmount'
  BY <1>1 DEF FrozenAmount, Paths
<1>4. AmountsAgree'
  BY <1>1 DEF AmountsAgree, Busy, Settling
<1>5. /\ Held("settled")' => due' = 0 /\ \A u \in Workers : pc'[u] \notin Settling
      /\ ~Held("failed_unequivocal")'
  BY <1>2 DEF Held
<1>6. SettledNeedsProof'
  BY <1>1, <1>2, <1>5 DEF SettledNeedsProof
<1>7. Charges'
  <2>1. charged = Reserve /\ Reserve' = Reserve /\ charged' = charged
    BY <1>1 DEF BooksInv, Charges, FrozenAmount, Reserve
  <2>2. frozenBy' = "upto" => \A u \in Workers : pc'[u] # "settle"
    OBVIOUS
  <2>3. paid' = 0 /\ due' \in Nat
    BY <1>2 DEF TypeOK
  <2>4. Held("settled")' => due' = 0
    BY <1>5
  <2>. HIDE DEF Freezes
  <2>. QED
    BY <1>5, <2>1, <2>2, <2>3, <2>4 DEF Charges
<1>8. Refunds'
  BY <1>1 DEF BooksInv, Refunds
<1>. QED
  BY <1>3, <1>4, <1>6, <1>7, <1>8 DEF Books

\* Where the one settler stands: the row is frozen and not finished as paid or refunded,
\* nothing was transferred, no verdict exists, and what has been charged is known.
LEMMA SettlerFacts ==
    ASSUME BooksInv, NEW w \in Workers, pc[w] \in Settling
    PROVE  /\ status \notin Unfrozen \cup {"absent", "settled", "refunded"}
           /\ settles = 0 /\ paid = 0 /\ amt[w] = due
           /\ ~Held("settled") /\ ~Held("failed_unequivocal")
           /\ \A u \in Workers : u # w => pc[u] \notin Settling
           /\ pc[w] = "debit" => frozenBy = "upto" /\ charged = Reserve
           /\ pc[w] = "settle" =>
                 charged = Reserve + (IF frozenBy = "upto" THEN due ELSE 0)
<1>. USE BooksTyped DEF BooksInv, SettlementInv, Amounts
<1>1. /\ settles = 0 /\ paid = 0 /\ \A u \in Workers : u # w => pc[u] \notin Settling
  BY DEF OneSettler, PaidBySettle
<1>2. ~Held("settled") /\ ~Held("failed_unequivocal")
  BY DEF SettledNeedsProof, RefundNeedsProof, CertainFailure, Held
<1>3. status \notin Unfrozen /\ amt[w] = due
  BY DEF AmountsAgree, Busy
<1>4. status \notin {"absent", "settled", "refunded"}
  BY <1>2, <1>3 DEF SettledNeedsProof, RefundNeedsProof, Held, Unfrozen
<1>5. pc[w] = "debit" => frozenBy = "upto"
  BY DEF AmountsAgree
<1>6. pc[w] = "debit" => charged = Reserve
  BY <1>5 DEF Charges
<1>7. pc[w] = "settle" => charged = Reserve + (IF frozenBy = "upto" THEN due ELSE 0)
  BY DEF Charges
<1>. QED
  BY <1>1, <1>2, <1>3, <1>4, <1>5, <1>6, <1>7

LEMMA DebitKeepsBooks ==
    ASSUME BooksInv, TypeOK', NEW w \in Workers, Debit(w)
    PROVE  Books'
<1>. USE BooksTyped DEF Debit, Amounts, rowVars, historyVars
<1>1. /\ pc[w] = "debit" /\ pc[w] \in Settling
  BY DEF Settling
<1>2. /\ status \notin Unfrozen \cup {"absent", "settled", "refunded"}
      /\ paid = 0 /\ amt[w] = due /\ frozenBy = "upto" /\ charged = Reserve
      /\ ~Held("settled") /\ ~Held("failed_unequivocal")
      /\ \A u \in Workers : u # w => pc[u] \notin Settling
  BY <1>1, SettlerFacts
<1>3. \A u \in Workers : u # w => pc'[u] = pc[u]
  BY DEF Go, TypeOK
<1>4. \/ pc'[w] = "settle" /\ charged' = Reserve + due
      \/ pc'[w] = "finalize" /\ charged' \in {Reserve, Reserve + due}
  BY <1>2 DEF Go, TypeOK
<1>5. FrozenAmount'
  BY <1>2 DEF BooksInv, FrozenAmount
<1>6. AmountsAgree'
  <2>1. pc[w] \in Busy /\ \A u \in Workers : pc'[u] \in Busy => pc[u] \in Busy
    BY <1>1, <1>3 DEF Busy
  <2>2. \A u \in Workers : /\ pc'[u] \in Settling => u = w
                           /\ pc'[u] # "debit"
                           /\ Routed(pc[u], path[u])
    BY <1>2, <1>3, <1>4 DEF Settling, BooksInv, AmountsAgree
  <2>3. \A u \in Workers : Routed(pc'[u], path'[u])
    BY <1>3, <1>4, <2>2 DEF Routed
  <2>. QED
    BY <1>2, <2>1, <2>2, <2>3 DEF BooksInv, AmountsAgree
<1>7. SettledNeedsProof'
  BY <1>2 DEF BooksInv, SettledNeedsProof, Held
<1>8. ~Held("settled")' /\ ~Held("failed_unequivocal")'
  BY <1>2 DEF Held
<1>9. Charges'
  <2>1. \A u \in Workers : pc'[u] # "debit" /\ (pc'[u] = "settle" => u = w)
    BY <1>2, <1>3, <1>4 DEF Settling
  <2>2. Reserve' = Reserve /\ frozenBy' = "upto" /\ paid' = 0 /\ due' = due
    BY <1>2 DEF Reserve
  <2>. QED
    BY <1>4, <1>8, <2>1, <2>2 DEF Charges
<1>10. Refunds'
  BY <1>2 DEF BooksInv, Refunds
<1>. QED
  BY <1>5, <1>6, <1>7, <1>9, <1>10 DEF Books

LEMMA SettleKeepsBooks ==
    ASSUME BooksInv, TypeOK', NEW w \in Workers, Settle(w)
    PROVE  Books'
<1>. USE BooksTyped DEF Settle, Amounts, rowVars, historyVars
<1>1. pc[w] = "settle" /\ pc[w] \in Settling
  BY DEF Settling
<1>2. /\ status \notin Unfrozen \cup {"absent", "settled", "refunded"}
      /\ paid = 0 /\ amt[w] = due
      /\ ~Held("settled") /\ ~Held("failed_unequivocal")
      /\ \A u \in Workers : u # w => pc[u] \notin Settling
      /\ charged = Reserve + (IF frozenBy = "upto" THEN due ELSE 0)
  BY <1>1, SettlerFacts
<1>3. /\ \A u \in Workers : u # w => pc'[u] = pc[u]
      /\ pc'[w] = "record"
  BY DEF Go, TypeOK
<1>4. \A u \in Workers : pc'[u] \notin Settling
  BY <1>2, <1>3 DEF Settling
<1>5. PICK r \in SettleResults :
          /\ paid' = IF r.moved THEN paid + amt[w] ELSE paid
          /\ verdict' = [verdict EXCEPT ![w] = r.verdict]
  OBVIOUS
<1>6. paid' \in {0, due} /\ (r.verdict = "settled" => paid' = due)
  BY <1>2, <1>5 DEF SettleResults
<1>7. Held("settled")' => r.verdict = "settled"
  BY <1>2, <1>5 DEF Held, TypeOK
<1>8. FrozenAmount'
  BY <1>2 DEF BooksInv, FrozenAmount
<1>9. AmountsAgree'
  <2>1. pc[w] \in Busy /\ \A u \in Workers : pc'[u] \in Busy => pc[u] \in Busy
    BY <1>1, <1>3 DEF Busy
  <2>2. \A u \in Workers : Routed(pc'[u], path'[u])
    BY <1>3 DEF BooksInv, AmountsAgree, Routed
  <2>3. \A u \in Workers : pc'[u] # "debit"
    BY <1>4 DEF Settling
  <2>. QED
    BY <1>2, <1>4, <2>1, <2>2, <2>3 DEF BooksInv, AmountsAgree
<1>10. SettledNeedsProof'
  BY <1>2, <1>4, <1>6, <1>7 DEF SettledNeedsProof
<1>11. Charges'
  <2>1. /\ Reserve' = Reserve /\ UNCHANGED <<frozenBy, charged, due>>
        /\ \A u \in Workers : pc'[u] \notin {"debit", "settle"}
    BY <1>4 DEF Reserve, Settling
  <2>. QED
    BY <1>2, <2>1 DEF Charges
<1>12. Refunds'
  BY <1>2 DEF BooksInv, Refunds
<1>. QED
  BY <1>8, <1>9, <1>10, <1>11, <1>12 DEF Books

\* What finalize_payment_intent credits, by the verdict and the endpoint that calls it.
LEMMA FinalizeFacts ==
    ASSUME BooksInv, NEW w \in Workers, Finalize(w), Finalizable
    PROVE  /\ status' = FinalStatus(verdict[w]) /\ outcome' = verdict[w]
           /\ verdict[w] \in Verdicts /\ path[w] \in Paths /\ finishedBy' = path[w]
           /\ UNCHANGED <<type, consumed, charged, paid, frozenBy, due>>
           /\ verdict[w] = "settled" =>
                 /\ paid = due
                 /\ refunded' = IF type = "session" /\ path[w] # "upto"
                                THEN Authorized - consumed ELSE 0
           /\ verdict[w] = "failed_unequivocal" =>
                 /\ paid = 0
                 /\ refunded' = IF type = "session" THEN Authorized ELSE consumed
           /\ verdict[w] = "failed_ambiguous" => refunded' = 0
           /\ refunded = 0
<1>. USE BooksTyped DEF BooksInv, SettlementInv, Amounts
<1>1. pc[w] = "finalize" /\ refunded' = refunded + RefundDue(w)
  BY DEF Finalize
<1>2. status \notin Unfrozen \cup {"absent", "settled", "refunded"} /\ consumed <= Authorized
  BY DEF FrozenAmount, Finalizable, Closing, Unfrozen
<1>3. path[w] # "upto" => amt[w] = consumed
  BY <1>1 DEF AmountsAgree, Busy
<1>4. refunded = 0
  BY <1>2 DEF Refunds
<1>5. verdict[w] \in Verdicts /\ path[w] \in Paths
  BY DEF TypeOK
<1>6. verdict[w] = "settled" => paid = due
  BY DEF SettledNeedsProof, Held
<1>7. verdict[w] = "failed_unequivocal" => paid = 0
  BY DEF RefundNeedsProof, CertainFailure
<1>8. verdict[w] = "settled" =>
          RefundDue(w) = IF type = "session" /\ path[w] # "upto"
                         THEN Authorized - consumed ELSE 0
  BY <1>2, <1>3 DEF RefundDue, Residual
<1>9. /\ verdict[w] = "failed_unequivocal" =>
            RefundDue(w) = IF type = "session" THEN Authorized ELSE consumed
      /\ verdict[w] = "failed_ambiguous" => RefundDue(w) = 0
  BY DEF RefundDue
<1>10. /\ status' = FinalStatus(verdict[w]) /\ outcome' = verdict[w]
       /\ finishedBy' = path[w]
       /\ UNCHANGED <<type, consumed, charged, paid, frozenBy, due>>
  BY DEF Finalize
<1>. QED
  BY <1>1, <1>2, <1>4, <1>5, <1>6, <1>7, <1>8, <1>9, <1>10

LEMMA FinalizeKeepsBooks ==
    ASSUME BooksInv, TypeOK', NEW w \in Workers, Finalize(w), Finalizable
    PROVE  Books'
<1>. USE BooksTyped, FinalizeFacts DEF Amounts
<1>0. status' \in Terminal
  BY DEF FinalStatus, Verdicts, Terminal
<1>1. status' \notin Unfrozen /\ status # "absent" /\ status' # "absent"
      /\ status \notin Unfrozen
  BY <1>0 DEF Terminal, Unfrozen, Finalizable, Closing
<1>2. /\ \A u \in Workers : u # w => /\ pc'[u] = pc[u] /\ amt'[u] = amt[u]
                                     /\ verdict'[u] = verdict[u] /\ path'[u] = path[u]
      /\ pc'[w] = "idle" /\ verdict'[w] = "failed_ambiguous"
  BY DEF Finalize, Done, Take, TypeOK
<1>3. \A u \in Workers : pc'[u] # "idle" =>
          pc'[u] = pc[u] /\ amt'[u] = amt[u] /\ path'[u] = path[u]
  BY <1>2
<1>4. \A v \in {"settled", "failed_unequivocal"} : Held(v)' => Held(v)
  BY <1>2 DEF Held
<1>5. FrozenAmount'
  BY <1>1 DEF BooksInv, FrozenAmount
<1>6. AmountsAgree'
  BY <1>1, <1>3 DEF BooksInv, AmountsAgree, Busy, Settling, Routed
<1>7. \A u \in Workers : /\ pc'[u] = "debit" => pc[u] = "debit"
                         /\ pc'[u] = "settle" => pc[u] = "settle"
                         /\ pc'[u] \in Settling => pc[u] \in Settling
  BY <1>3 DEF Settling
<1>8. SettledNeedsProof'
  <2>1. status' = "settled" => outcome' = "settled"
    BY DEF FinalStatus, Verdicts
  <2>. QED
    BY <1>4, <1>7, <2>1 DEF BooksInv, SettledNeedsProof
<1>9. Charges'
  <2>1. Reserve' = Reserve
    BY <1>1 DEF Reserve
  <2>. QED
    BY <1>4, <1>7, <2>1 DEF BooksInv, Charges
<1>10. Refunds'
  <2>1. type' = type /\ type \in {"session", "upto"} /\ consumed' = consumed
    BY DEF TypeOK, Types
  <2>2. \/ verdict[w] = "settled" /\ status' = "settled"
        \/ verdict[w] = "failed_unequivocal" /\ status' = "refunded"
        \/ verdict[w] = "failed_ambiguous" /\ status' = "failed"
    BY DEF FinalStatus, Verdicts
  <2>3. /\ status' = "settled" =>
             refunded' = IF type = "session" /\ finishedBy' # "upto"
                         THEN Authorized - consumed ELSE 0
        /\ status' = "refunded" =>
             refunded' = IF type = "session" THEN Authorized ELSE consumed
        /\ status' = "failed" => refunded' = 0
    BY <2>2
  <2>. QED
    BY ONLY <2>1, <2>2, <2>3 DEF Refunds
<1>. QED
  BY <1>5, <1>6, <1>8, <1>9, <1>10 DEF Books

LEMMA NextKeepsBooks == BooksInv /\ [Next]_vars => BooksInv'
<1>. SUFFICES ASSUME BooksInv, [Next]_vars
              PROVE  BooksInv'
  OBVIOUS
<1>1. SettlementInv' /\ TypeOK'
  BY NextKeepsInv, NextType DEF BooksInv, SettlementInv
<1>2. Books'
  BY <1>1, NextIsBookStep, QuietKeepsBooks, OpenKeepsBooks, FreezesKeepsBooks,
     VoucherKeepsBooks, DebitKeepsBooks, SettleKeepsBooks, FinalizeKeepsBooks DEF BookStep
<1>. QED
  BY <1>1, <1>2 DEF BooksInv, Books

LEMMA InitBooks == Init => BooksInv
<1>. SUFFICES ASSUME Init PROVE BooksInv
  OBVIOUS
<1>1. FrozenAmount /\ AmountsAgree
  BY AuthorizedAssumption
     DEF Init, FrozenAmount, AmountsAgree, Unfrozen, Busy, Settling, Routed
<1>2. SettledNeedsProof /\ Charges
  BY DEF Init, SettledNeedsProof, Charges, Held, Reserve
<1>3. Refunds
  BY DEF Init, Refunds
<1>. QED
  BY <1>1, <1>2, <1>3, InitInv DEF BooksInv

\* The books of an intent follow its row and the endpoint that froze its amount, whichever
\* endpoints of whichever type are called on it and whatever races and crashes there are.
THEOREM BooksInvariant == Spec => []BooksInv
<1>1. Init => BooksInv
  BY InitBooks
<1>2. BooksInv /\ [Next]_vars => BooksInv'
  BY NextKeepsBooks
<1>. QED
  BY <1>1, <1>2, PTL DEF Spec

\* The operator is never out of pocket for an intent, to the seller or to the buyer, by
\* more than the amount an arbitration froze on an upto.
THEOREM OperatorCovered == Spec => []OnlyDisputedUptosUnfunded
<1>1. BooksInv => OnlyDisputedUptosUnfunded
  <2>. SUFFICES ASSUME BooksInv PROVE OnlyDisputedUptosUnfunded
    OBVIOUS
  <2>. USE BooksTyped DEF BooksInv, Amounts
  <2>1. /\ type \in {"session", "upto"} /\ frozenBy \in Paths \cup {"none"}
        /\ paid \in {0, due} /\ due <= Authorized /\ consumed <= Authorized
        /\ due = consumed \/ (type = "session" /\ frozenBy = "upto") \/ status \in Unfrozen
        /\ status \in Unfrozen => paid = 0 /\ due = 0 /\ frozenBy = "none"
    BY DEF TypeOK, Types, SettledNeedsProof, FrozenAmount, SettlementInv,
           NothingBeforeFreeze, PaidBySettle
  <2>2. status = "refunded" => paid = 0 /\ Held("failed_unequivocal")
    BY DEF SettlementInv, RefundNeedsProof, CertainFailure, Held
  <2>3. status = "settled" => paid = due /\ Held("settled")
    BY DEF SettledNeedsProof, Held
  <2>4. charged >= Reserve
    BY DEF Charges
  <2>5. frozenBy = "upto" /\ (paid > 0 \/ status \in {"settled", "refunded"})
            => charged = Reserve + due
    BY <2>2, <2>3 DEF Charges
  <2>6. CASE type = "session"
    <3>1. status # "absent" => Reserve = Authorized
      BY <2>6 DEF Reserve
    <3>2. status = "absent" => refunded = 0 /\ paid = 0
      BY <2>1 DEF Refunds, Unfrozen
    <3>3. refunded <= Authorized /\ (status \notin {"settled", "refunded"} => refunded = 0)
      BY <2>1, <2>6 DEF Refunds
    <3>4. status = "settled" /\ frozenBy # "upto" => paid + refunded <= Authorized
      BY <2>1, <2>3, <2>6 DEF Refunds, Unfrozen
    <3>5. frozenBy = "upto" /\ (paid > 0 \/ status \in {"settled", "refunded"})
              => paid + refunded <= charged
      BY <2>1, <2>5, <3>1, <3>2, <3>3
    <3>6. paid + refunded <= charged
      BY <2>1, <2>2, <2>4, <3>1, <3>2, <3>3, <3>4, <3>5
    <3>. QED
      BY <2>6, <3>6 DEF OnlyDisputedUptosUnfunded, DisputedUpto
  <2>7. CASE type = "upto"
    <3>1. Reserve = 0
      BY <2>7 DEF Reserve
    <3>2. /\ status \notin {"settled", "refunded"} => refunded = 0
          /\ status = "settled" => refunded = 0
          /\ status = "refunded" => refunded = due
      BY <2>1, <2>7 DEF Refunds, Unfrozen
    <3>3. paid + refunded <= due
      BY <2>1, <2>2, <3>2
    <3>4. frozenBy = "session" => due = 0
      BY <2>7 DEF FrozenAmount
    <3>5. frozenBy = "upto" => paid + refunded <= charged
      BY <2>5, <3>1, <3>2, <3>3
    <3>6. frozenBy = "none" => due = 0
      BY <2>1 DEF FrozenAmount
    <3>. QED
      BY <2>1, <2>7, <3>3, <3>4, <3>5, <3>6 DEF OnlyDisputedUptosUnfunded, DisputedUpto, Paths
  <2>. QED
    BY <2>1, <2>6, <2>7
<1>. QED
  BY <1>1, BooksInvariant, PTL

\* A row that says settled is exact: the seller has the frozen amount, the buyer paid it,
\* and the other type's endpoint costs the buyer at most the deposit.
THEOREM SettledIsExact == Spec => []SettledBooksBalance
<1>1. BooksInv => SettledBooksBalance
  <2>. SUFFICES ASSUME BooksInv, status = "settled"
                PROVE  /\ paid = due
                       /\ IF SessionAsUpto \/ DisputedUpto
                          THEN charged <= paid + refunded + Authorized
                          ELSE paid = consumed /\ charged = paid + refunded
    BY DEF SettledBooksBalance
  <2>. USE BooksTyped DEF BooksInv, Amounts
  <2>1. Held("settled") /\ paid = due
    BY DEF SettledNeedsProof, Held
  <2>2. /\ type \in {"session", "upto"} /\ frozenBy \in Paths
        /\ due = consumed \/ (type = "session" /\ frozenBy = "upto")
        /\ consumed <= Authorized
        /\ type = "upto" /\ frozenBy = "session" => due = 0
    BY DEF TypeOK, Types, FrozenAmount, Unfrozen
  <2>3. charged = Reserve + (IF frozenBy = "upto" THEN due ELSE 0)
    BY <2>1 DEF Charges
  <2>4. Reserve = IF type = "session" THEN Authorized ELSE 0
    BY DEF Reserve
  <2>5. refunded = IF type = "session" /\ finishedBy # "upto" THEN Authorized - consumed ELSE 0
    BY DEF Refunds
  <2>6. charged <= paid + refunded + Authorized
    BY <2>1, <2>3, <2>4
  <2>7. CASE ~SessionAsUpto /\ ~DisputedUpto
    <3>1. type = "session" => frozenBy # "upto" /\ finishedBy # "upto"
      BY <2>7 DEF SessionAsUpto
    <3>2. type = "upto" => frozenBy \in {"session", "upto"}
      BY <2>2, <2>7 DEF DisputedUpto, Paths
    <3>. QED
      BY <2>1, <2>2, <2>3, <2>4, <2>5, <2>7, <3>1, <3>2
  <2>. QED
    BY <2>1, <2>6, <2>7
<1>. QED
  BY <1>1, BooksInvariant, PTL

-----------------------------------------------------------------------------
(* The refinement: a quiet or metering step is a stutter of IntentContract, *)
(* every other kind of step is the action of the contract that it serves.   *)

LEMMA AmountIsDue ==
    (BooksInv => ContractDue = due) /\ (BooksInv' => ContractDue' = due')
BY DEF BooksInv, FrozenAmount, ContractDue, ContractPhase, Unfrozen, SettlementInv, TypeOK,
       Statuses, Closing, ArbStates, Terminal

LEMMA QuietRefines ==
    ASSUME BooksInv, BooksInv', Quiet
    PROVE  UNCHANGED Contract!contractVars
<1>1. ContractDue = due /\ ContractDue' = due'
  BY AmountIsDue
<1>2. ContractPhase' = ContractPhase
  BY DEF Quiet, ContractPhase, Unfrozen
<1>. QED
  BY <1>1, <1>2 DEF Quiet, Contract!contractVars

LEMMA OpenRefines ==
    ASSUME BooksInv, BooksInv', Open
    PROVE  Contract!COpen
<1>1. status = "absent" /\ status' = "open"
  BY DEF Open
<1>2. ContractDue = due /\ ContractDue' = due'
  BY AmountIsDue
<1>. QED
  BY <1>1, <1>2 DEF Open, Contract!COpen, Contract!Deposit, ContractPhase, historyVars

LEMMA VoucherRefines ==
    ASSUME BooksInv, BooksInv', NEW v \in VoucherIds, Voucher(v)
    PROVE  UNCHANGED Contract!contractVars
<1>1. ContractDue = due /\ ContractDue' = due'
  BY AmountIsDue
<1>. QED
  BY <1>1 DEF Voucher, VoucherOpen, moneyVars, historyVars, Contract!contractVars,
              ContractPhase

LEMMA FreezesRefines ==
    ASSUME BooksInv, BooksInv', Freezes
    PROVE  Contract!Freeze
<1>1. status \in {"open", "disputed", "arb_hold"} /\ status' \in {"closing", "arb_closing"}
  BY DEF Freezes, Unfrozen, Closing
<1>2. due' \in 0 .. Authorized
  BY AuthorizedAssumption DEF Freezes, BooksInv, SettlementInv, TypeOK
<1>3. ContractDue' = due'
  BY AmountIsDue
<1>. QED
  BY <1>1, <1>2, <1>3 DEF Freezes, Contract!Freeze, Contract!Endpoints, ContractPhase, Paths

\* While somebody settles, the contract is closing, or has failed in the hands of a sweep.
LEMMA SettlerPhase ==
    ASSUME BooksInv, status \notin Unfrozen \cup {"absent", "settled", "refunded"}
    PROVE  ContractPhase \in {"closing", "failed"}
BY BooksTyped DEF TypeOK, Statuses, ContractPhase, Unfrozen, Closing, ArbStates, Terminal

LEMMA DebitRefines ==
    ASSUME BooksInv, BooksInv', NEW w \in Workers, Debit(w)
    PROVE  Contract!Charge \/ UNCHANGED Contract!contractVars
<1>. USE BooksTyped DEF Amounts
<1>1. pc[w] = "debit" /\ pc[w] \in Settling
  BY DEF Debit, Settling
<1>2. /\ status \notin Unfrozen \cup {"absent", "settled", "refunded"}
      /\ paid = 0 /\ amt[w] = due /\ frozenBy = "upto" /\ charged = Reserve
  BY <1>1, SettlerFacts
<1>3. charged' \in {charged, charged + due}
  BY <1>2 DEF Debit
<1>4. UNCHANGED <<type, status, refunded, paid, frozenBy, due, finishedBy>>
  BY DEF Debit, rowVars, historyVars
<1>5. ContractPhase \in {"closing", "failed"} /\ ContractPhase' = ContractPhase
  BY <1>2, <1>4, SettlerPhase DEF ContractPhase
<1>6. ContractDue = due /\ ContractDue' = due'
  BY AmountIsDue
<1>7. charged = Contract!Deposit
  BY <1>2 DEF Reserve, Contract!Deposit, Unfrozen
<1>. QED
  BY <1>2, <1>3, <1>4, <1>5, <1>6, <1>7 DEF Contract!Charge, Contract!contractVars

LEMMA SettleRefines ==
    ASSUME BooksInv, BooksInv', NEW w \in Workers, Settle(w)
    PROVE  Contract!Pay \/ UNCHANGED Contract!contractVars
<1>. USE BooksTyped DEF Amounts
<1>1. pc[w] = "settle" /\ pc[w] \in Settling
  BY DEF Settle, Settling
<1>2. /\ status \notin Unfrozen \cup {"absent", "settled", "refunded"}
      /\ paid = 0 /\ amt[w] = due
      /\ charged = Reserve + (IF frozenBy = "upto" THEN due ELSE 0)
  BY <1>1, SettlerFacts
<1>3. paid' \in {0, due}
  BY <1>2 DEF Settle
<1>4. UNCHANGED <<type, status, charged, refunded, frozenBy, due, finishedBy>>
  BY DEF Settle, rowVars, historyVars
<1>5. ContractPhase \in {"closing", "failed"} /\ ContractPhase' = ContractPhase
  BY <1>2, <1>4, SettlerPhase DEF ContractPhase
<1>6. ContractDue = due /\ ContractDue' = due'
  BY AmountIsDue
<1>7. Reserve = Contract!Deposit
  BY <1>2 DEF Reserve, Contract!Deposit, Unfrozen
<1>. QED
  BY <1>2, <1>3, <1>4, <1>5, <1>6, <1>7 DEF Contract!Pay, Contract!contractVars

LEMMA FinalizeRefines ==
    ASSUME BooksInv, BooksInv', NEW w \in Workers, Finalize(w), Finalizable
    PROVE  Contract!SettleIntent \/ Contract!RefundIntent \/ Contract!FailIntent
<1>. USE FinalizeFacts, BooksTyped DEF Amounts
<1>1. /\ ContractPhase = "closing" /\ status \notin Unfrozen
      /\ status \notin {"absent", "settled", "refunded"}
  BY DEF Finalizable, Closing, ContractPhase, Unfrozen
<1>2. status' \in Terminal
  BY DEF FinalStatus, Verdicts, Terminal
<1>3. ContractPhase' = status'
  BY <1>2 DEF ContractPhase, Terminal
<1>4. ContractDue = due /\ ContractDue' = due /\ due' = due
  BY AmountIsDue
<1>5. finishedBy' \in Contract!Endpoints
  BY DEF Contract!Endpoints, Paths
<1>6. /\ type \in {"session", "upto"} /\ consumed <= Authorized
      /\ due = consumed \/ (type = "session" /\ frozenBy = "upto")
  BY <1>1 DEF BooksInv, FrozenAmount, TypeOK, Types
<1>7. CASE verdict[w] = "settled"
  <2>1. Contract!Finish("settled")
    BY <1>1, <1>3, <1>4, <1>5, <1>7 DEF FinalStatus, Contract!Finish
  <2>2. type = "session" /\ frozenBy # "upto" => charged = Authorized
    BY <1>1 DEF BooksInv, Charges, Reserve
  <2>. QED
    BY <1>4, <1>6, <1>7, <2>1, <2>2 DEF Contract!SettleIntent
<1>8. CASE verdict[w] = "failed_unequivocal"
  <2>1. Contract!Finish("refunded")
    BY <1>1, <1>3, <1>4, <1>5, <1>8 DEF FinalStatus, Contract!Finish
  <2>. QED
    BY <1>4, <1>6, <1>8, <2>1 DEF Contract!RefundIntent
<1>9. CASE verdict[w] = "failed_ambiguous"
  <2>1. Contract!Finish("failed")
    BY <1>1, <1>3, <1>4, <1>5, <1>9 DEF FinalStatus, Contract!Finish
  <2>. QED
    BY <1>9, <2>1 DEF Contract!FailIntent
<1>. QED
  BY <1>7, <1>8, <1>9 DEF Verdicts

LEMMA StepRefines ==
    BooksInv /\ BooksInv' /\ [Next]_vars => [Contract!CNext]_(Contract!contractVars)
<1>. SUFFICES ASSUME BooksInv, BooksInv', [Next]_vars
              PROVE  [Contract!CNext]_(Contract!contractVars)
  OBVIOUS
<1>1. BookStep
  BY NextIsBookStep
<1>. QED
  BY <1>1, QuietRefines, OpenRefines, VoucherRefines, FreezesRefines, DebitRefines,
     SettleRefines, FinalizeRefines DEF BookStep, Contract!CNext

\* The handlers, their SQL functions and the sweeps together implement the contract: one
\* amount is frozen and transferred at most once, and the buyer ends up charged for it by
\* the rules of the endpoint that froze it.
THEOREM ContractImplemented == Spec => ImplementsContract
<1>1. Init => Contract!CInit
  BY DEF Init, Contract!CInit, ContractPhase, ContractDue, Types
<1>2. BooksInv /\ BooksInv' /\ [Next]_vars => [Contract!CNext]_(Contract!contractVars)
  BY StepRefines
<1>3. Spec => []BooksInv
  BY BooksInvariant
<1>. QED
  BY <1>1, <1>2, <1>3, PTL DEF Spec, ImplementsContract, Contract!CSpec
=============================================================================
