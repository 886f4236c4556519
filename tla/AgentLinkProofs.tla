-------------------------- MODULE AgentLinkProofs --------------------------
(***************************************************************************)
(* The single use of a link, and what its redeems leave on the key of its  *)
(* owner, for any number of requests and any prices.  The invariant is     *)
(* LinkInv; each of its parts is preserved by each action.                 *)
(***************************************************************************)
EXTENDS AgentLink, TLAPS

LEMMA PricesAreNat == ASSUME NEW p \in Prices \cup {0}
                      PROVE  p \in Nat
<1>1. CASE p \in Prices
  <2>1. Prices \subseteq Nat BY LinkAssumption
  <2> QED BY <1>1, <2>1, Zenon
<1>2. CASE p = 0 BY <1>2
<1> QED BY <1>1, <1>2

LEMMA CostIsPositive == ASSUME TypeOK, NEW r \in Requests
                        PROVE  Cost(r) \in Nat /\ Cost(r) > 0
<1>0. price[r] \in Prices \cup {0} BY DEF TypeOK
<1>1. price[r] \in Nat BY <1>0, PricesAreNat
<1>2. Priced(price[r]) \in Nat /\ Priced(price[r]) > 0
  BY <1>1, LinkAssumption DEF Priced
<1> QED BY <1>2, LinkAssumption DEF Cost

LEMMA CostKept == ASSUME price' = price, NEW r \in Requests
                  PROVE  Cost(r)' = Cost(r)
  BY DEF Cost

LEMMA LookupKeeps ==
  ASSUME LinkInv, NEW r \in Requests, Lookup(r)
  PROVE  LinkInv'
<1>1. TypeOK'
  BY LinkAssumption, CostIsPositive DEF LinkInv, TypeOK, Statuses, Steps,
     Lookup, Allowed, Claimable, Goto
<1>2. ClaimHeldOnce'
  BY DEF LinkInv, TypeOK, ClaimHeldOnce, ChargesInv, RedeemedInv, Holders,
     Claimable, Lookup, Allowed, Goto
<1>4. ChargesInv'
  BY DEF LinkInv, TypeOK, ClaimHeldOnce, Holders, ChargesInv, Cost, Lookup,
     Allowed, Claimable, Goto
<1>5. RedeemedInv'
  BY DEF LinkInv, TypeOK, ClaimHeldOnce, Holders, RedeemedInv, Lookup,
     Allowed, Claimable, Goto
<1> QED BY <1>1, <1>2, <1>4, <1>5 DEF LinkInv

LEMMA ClaimKeeps ==
  ASSUME LinkInv, NEW r \in Requests, Claim(r)
  PROVE  LinkInv'
<1>1. TypeOK'
  BY LinkAssumption, CostIsPositive DEF LinkInv, TypeOK, Statuses, Steps,
     Claim, Claimable, Goto
<1>2. ClaimHeldOnce'
  BY DEF LinkInv, TypeOK, ClaimHeldOnce, ChargesInv, RedeemedInv, Holders,
     Claimable, Claim, Goto
<1>3. price' = price BY DEF Claim, Claimable, Goto
<1>4. ChargesInv'
  BY <1>3, CostKept, CostIsPositive DEF LinkInv, TypeOK, ClaimHeldOnce,
     Holders, ChargesInv, Claim, Claimable, Goto
<1>5. RedeemedInv'
  BY DEF LinkInv, TypeOK, ClaimHeldOnce, Holders, RedeemedInv, Claim,
     Claimable, Goto
<1> QED BY <1>1, <1>2, <1>4, <1>5 DEF LinkInv

LEMMA QuoteKeeps ==
  ASSUME LinkInv, NEW r \in Requests, Quote(r)
  PROVE  LinkInv'
<1>1. TypeOK'
  BY LinkAssumption, CostIsPositive DEF LinkInv, TypeOK, Statuses, Steps,
     Quote, Goto, Quoted, Priced
<1>2. ClaimHeldOnce'
  BY DEF LinkInv, TypeOK, ClaimHeldOnce, ChargesInv, RedeemedInv, Holders,
     Claimable, Quote, Goto, Quoted, Priced
<1>3. price' = price BY DEF Quote, Goto, Quoted, Priced
<1>4. ChargesInv'
  BY <1>3, CostKept, CostIsPositive DEF LinkInv, TypeOK, ClaimHeldOnce,
     Holders, ChargesInv, Quote, Goto, Quoted, Priced
<1>5. RedeemedInv'
  BY DEF LinkInv, TypeOK, ClaimHeldOnce, Holders, RedeemedInv, Quote, Goto,
     Quoted, Priced
<1> QED BY <1>1, <1>2, <1>4, <1>5 DEF LinkInv

LEMMA DebitKeeps ==
  ASSUME LinkInv, NEW r \in Requests, Debit(r)
  PROVE  LinkInv'
<1>1. TypeOK'
  BY LinkAssumption, CostIsPositive DEF LinkInv, TypeOK, Statuses, Steps,
     Debit, Goto, AfterRefusal
<1>2. ClaimHeldOnce'
  BY DEF LinkInv, TypeOK, ClaimHeldOnce, ChargesInv, RedeemedInv, Holders,
     Claimable, Debit, Goto, AfterRefusal
<1>3. price' = price BY DEF Debit, Goto, AfterRefusal
<1>4. ChargesInv'
  BY <1>3, CostKept, CostIsPositive DEF LinkInv, TypeOK, ClaimHeldOnce,
     Holders, ChargesInv, Debit, Goto, AfterRefusal
<1>5. RedeemedInv'
  BY DEF LinkInv, TypeOK, ClaimHeldOnce, Holders, RedeemedInv, Debit, Goto,
     AfterRefusal
<1> QED BY <1>1, <1>2, <1>4, <1>5 DEF LinkInv

LEMMA InvokeKeeps ==
  ASSUME LinkInv, NEW r \in Requests, Invoke(r)
  PROVE  LinkInv'
<1>1. TypeOK'
  BY LinkAssumption, CostIsPositive DEF LinkInv, TypeOK, Statuses, Steps,
     Invoke, Goto, AfterRun
<1>2. ClaimHeldOnce'
  BY DEF LinkInv, TypeOK, ClaimHeldOnce, ChargesInv, RedeemedInv, Holders,
     Claimable, Invoke, Goto, AfterRun
<1>3. price' = price BY DEF Invoke, Goto, AfterRun
<1>4. ChargesInv'
  BY <1>3, CostKept, CostIsPositive DEF LinkInv, TypeOK, ClaimHeldOnce,
     Holders, ChargesInv, Invoke, Goto, AfterRun
<1>5. RedeemedInv'
  BY DEF LinkInv, TypeOK, ClaimHeldOnce, Holders, RedeemedInv, Invoke, Goto,
     AfterRun
<1> QED BY <1>1, <1>2, <1>4, <1>5 DEF LinkInv

LEMMA RefundKeeps ==
  ASSUME LinkInv, NEW r \in Requests, Refund(r)
  PROVE  LinkInv'
<1>1. TypeOK'
  BY LinkAssumption, CostIsPositive DEF LinkInv, TypeOK, Statuses, Steps,
     Refund, Goto
<1>2. ClaimHeldOnce'
  BY DEF LinkInv, TypeOK, ClaimHeldOnce, ChargesInv, RedeemedInv, Holders,
     Claimable, Refund, Goto
<1>3. price' = price BY DEF Refund, Goto
<1>4. ChargesInv'
  BY <1>3, CostKept, CostIsPositive DEF LinkInv, TypeOK, ClaimHeldOnce,
     Holders, ChargesInv, Refund, Goto
<1>5. RedeemedInv'
  BY DEF LinkInv, TypeOK, ClaimHeldOnce, Holders, RedeemedInv, Refund, Goto
<1> QED BY <1>1, <1>2, <1>4, <1>5 DEF LinkInv

LEMMA SweepKeeps ==
  ASSUME LinkInv, NEW r \in Requests, Sweep(r)
  PROVE  LinkInv'
<1>1. TypeOK'
  BY LinkAssumption, CostIsPositive DEF LinkInv, TypeOK, Statuses, Steps,
     Sweep
<1>2. ClaimHeldOnce'
  BY DEF LinkInv, TypeOK, ClaimHeldOnce, ChargesInv, RedeemedInv, Holders,
     Claimable, Sweep
<1>3. price' = price BY DEF Sweep
<1>4. ChargesInv'
  BY <1>3, CostKept, CostIsPositive DEF LinkInv, TypeOK, ClaimHeldOnce,
     Holders, ChargesInv, Sweep
<1>5. RedeemedInv'
  BY DEF LinkInv, TypeOK, ClaimHeldOnce, Holders, RedeemedInv, Sweep
<1> QED BY <1>1, <1>2, <1>4, <1>5 DEF LinkInv

LEMMA ReopenKeeps ==
  ASSUME LinkInv, NEW r \in Requests, Reopen(r)
  PROVE  LinkInv'
<1>1. TypeOK'
  BY LinkAssumption, CostIsPositive DEF LinkInv, TypeOK, Statuses, Steps,
     Reopen, Goto, Settle, AfterReopenLost
<1>2. ClaimHeldOnce'
  BY DEF LinkInv, TypeOK, ClaimHeldOnce, ChargesInv, RedeemedInv, Holders,
     Claimable, Reopen, Goto, Settle, AfterReopenLost
<1>3. price' = price BY DEF Reopen, Goto, Settle, AfterReopenLost
<1>4. ChargesInv'
  BY <1>3, CostKept, CostIsPositive DEF LinkInv, TypeOK, ClaimHeldOnce,
     Holders, ChargesInv, Reopen, Goto, Settle, AfterReopenLost
<1>5. RedeemedInv'
  BY DEF LinkInv, TypeOK, ClaimHeldOnce, Holders, RedeemedInv, Reopen, Goto,
     Settle, AfterReopenLost
<1> QED BY <1>1, <1>2, <1>4, <1>5 DEF LinkInv

LEMMA RedeemKeeps ==
  ASSUME LinkInv, NEW r \in Requests, Redeem(r)
  PROVE  LinkInv'
<1>1. TypeOK'
  BY LinkAssumption, CostIsPositive DEF LinkInv, TypeOK, Statuses, Steps,
     Redeem, Close, Goto, Settle
<1>2. ClaimHeldOnce'
  BY DEF LinkInv, TypeOK, ClaimHeldOnce, ChargesInv, RedeemedInv, Holders,
     Claimable, Redeem, Close, Goto, Settle
<1>3. price' = price BY DEF Redeem, Close, Goto, Settle
<1>4. ChargesInv'
  BY <1>3, CostKept, CostIsPositive DEF LinkInv, TypeOK, ClaimHeldOnce,
     Holders, ChargesInv, Redeem, Close, Goto, Settle
<1>5. RedeemedInv'
  BY DEF LinkInv, TypeOK, ClaimHeldOnce, Holders, RedeemedInv, Redeem, Close,
     Goto, Settle
<1> QED BY <1>1, <1>2, <1>4, <1>5 DEF LinkInv

LEMMA FailKeeps ==
  ASSUME LinkInv, NEW r \in Requests, Fail(r)
  PROVE  LinkInv'
<1>1. TypeOK'
  BY LinkAssumption, CostIsPositive DEF LinkInv, TypeOK, Statuses, Steps,
     Fail, Close, Goto, Settle
<1>2. ClaimHeldOnce'
  BY DEF LinkInv, TypeOK, ClaimHeldOnce, ChargesInv, RedeemedInv, Holders,
     Claimable, Fail, Close, Goto, Settle
<1>3. price' = price BY DEF Fail, Close, Goto, Settle
<1>4. ChargesInv'
  BY <1>3, CostKept, CostIsPositive DEF LinkInv, TypeOK, ClaimHeldOnce,
     Holders, ChargesInv, Fail, Close, Goto, Settle
<1>5. RedeemedInv'
  BY DEF LinkInv, TypeOK, ClaimHeldOnce, Holders, RedeemedInv, Fail, Close,
     Goto, Settle
<1> QED BY <1>1, <1>2, <1>4, <1>5 DEF LinkInv

LEMMA DieKeeps ==
  ASSUME LinkInv, NEW r \in Requests, Die(r)
  PROVE  LinkInv'
<1>1. TypeOK'
  BY LinkAssumption, CostIsPositive DEF LinkInv, TypeOK, Statuses, Steps, Die,
     Goto
<1>2. ClaimHeldOnce'
  BY DEF LinkInv, TypeOK, ClaimHeldOnce, ChargesInv, RedeemedInv, Holders,
     Claimable, Die, Goto
<1>3. price' = price BY DEF Die, Goto
<1>4. ChargesInv'
  BY <1>3, CostKept, CostIsPositive DEF LinkInv, TypeOK, ClaimHeldOnce,
     Holders, ChargesInv, Die, Goto
<1>5. RedeemedInv'
  BY DEF LinkInv, TypeOK, ClaimHeldOnce, Holders, RedeemedInv, Die, Goto
<1> QED BY <1>1, <1>2, <1>4, <1>5 DEF LinkInv

LEMMA LapseKeeps == ASSUME LinkInv, Lapse PROVE LinkInv'
<1>1. price' = price BY DEF Lapse
<1>2. TypeOK' BY DEF LinkInv, TypeOK, Lapse
<1>3. ClaimHeldOnce' BY DEF LinkInv, ClaimHeldOnce, Holders, Lapse
<1>4. ChargesInv' BY <1>1, CostKept DEF LinkInv, ChargesInv, Lapse
<1>5. RedeemedInv' BY DEF LinkInv, RedeemedInv, Lapse
<1> QED BY <1>2, <1>3, <1>4, <1>5 DEF LinkInv

LEMMA InitInv == Init => LinkInv
<1> SUFFICES ASSUME Init PROVE LinkInv
  OBVIOUS
<1>1. TypeOK BY DEF Init, TypeOK, Statuses, Steps
<1>2. ClaimHeldOnce BY DEF Init, ClaimHeldOnce, Holders
<1>3. ChargesInv BY DEF Init, ChargesInv
<1>4. RedeemedInv BY DEF Init, RedeemedInv
<1> QED BY <1>1, <1>2, <1>3, <1>4 DEF LinkInv

LEMMA NextKeeps == LinkInv /\ [Next]_vars => LinkInv'
<1> SUFFICES ASSUME LinkInv, [Next]_vars PROVE LinkInv'
  OBVIOUS
<1>1. CASE Lapse BY <1>1, LapseKeeps
<1>2. ASSUME NEW r \in Requests,
             Lookup(r) \/ Claim(r) \/ Quote(r) \/ Debit(r) \/ Invoke(r)
               \/ Refund(r) \/ Sweep(r) \/ Reopen(r) \/ Redeem(r) \/ Fail(r)
               \/ Die(r)
      PROVE  LinkInv'
  BY <1>2, LookupKeeps, ClaimKeeps, QuoteKeeps, DebitKeeps, InvokeKeeps,
     RefundKeeps, SweepKeeps, ReopenKeeps, RedeemKeeps, FailKeeps, DieKeeps
<1>3. CASE UNCHANGED vars
  <2>1. price' = price BY <1>3 DEF vars
  <2>2. TypeOK' BY <1>3 DEF LinkInv, TypeOK, vars
  <2>3. ClaimHeldOnce' BY <1>3 DEF LinkInv, ClaimHeldOnce, Holders, vars
  <2>4. ChargesInv' BY <1>3, <2>1, CostKept DEF LinkInv, ChargesInv, vars
  <2>5. RedeemedInv' BY <1>3 DEF LinkInv, RedeemedInv, vars
  <2> QED BY <2>2, <2>3, <2>4, <2>5 DEF LinkInv
<1> QED BY <1>1, <1>2, <1>3 DEF Next

\* The claim has one holder, and every charge is accounted for, in every
\* reachable state (redeem, claim_agent_link, settle_agent_link).
THEOREM LinkInvariant == Spec => []LinkInv
BY InitInv, NextKeeps, PTL DEF Spec

\* For one link the agent delivers at most once (the single use of the link
\* that claim_agent_link and settle_agent_link keep between them).
THEOREM AgentServesOnce == Spec => []ServedOnce
<1>1. LinkInv => ServedOnce BY DEF LinkInv, ClaimHeldOnce, ServedOnce
<1> QED BY <1>1, LinkInvariant, PTL

\* A link that is open again has not delivered (the three reopen branches of
\* redeem and the catch that settles a lost reopen as failed).
THEOREM OpenIsUnserved == Spec => []OpenMeansUnserved
<1>1. LinkInv => OpenMeansUnserved
  BY DEF LinkInv, ClaimHeldOnce, OpenMeansUnserved
<1> QED BY <1>1, LinkInvariant, PTL

\* A redeemed link was paid for by the request it was delivered to (the settle
\* after executeApprovedPlan, and a refused debit that never gets there).
THEOREM RedeemedIsPaid == Spec => []RedeemedMeansPaid
<1>1. LinkInv => RedeemedMeansPaid
 
   BY DEF LinkInv, RedeemedInv, ClaimHeldOnce, ChargesInv, TypeOK,
      RedeemedMeansPaid
<1> QED BY <1>1, LinkInvariant, PTL

\* The owner is charged for a finished request exactly when the agent served
\* it, refunds under way and doubtful charges aside (executeApprovedPlan's
\* step-0 debit and credit-back).
THEOREM ServedIsCharged == Spec => []ChargedIffServed
<1>1. LinkInv => ChargedIffServed
  <2> SUFFICES ASSUME LinkInv, NEW r \in Requests \ (queued \cup doubt),
                      pc[r] = "done"
               PROVE  held[r] > 0 <=> r \in served
    BY DEF ChargedIffServed
  <2>1. Cost(r) > 0 BY CostIsPositive DEF LinkInv
  <2> QED BY <2>1 DEF LinkInv, ChargesInv
<1> QED BY <1>1, LinkInvariant, PTL

\* No redeem charges the owner more than the cap and the gas of a step, or the
\* placeholder and the gas for a listing without a price (the cap gate before
\* the claim is on the very price that is debited).
THEOREM ChargeIsCapped == Spec => []ChargeWithinCap
<1>1. LinkInv => ChargeWithinCap
  <2> SUFFICES ASSUME LinkInv, NEW r \in Requests
               PROVE  held[r] <= Gas + (IF price[r] = 0 THEN Fallback ELSE Cap)
    BY DEF ChargeWithinCap
  <2>0. price[r] \in Prices \cup {0} BY DEF LinkInv, TypeOK
  <2>1. price[r] \in Nat BY <2>0, PricesAreNat
  <2>5. held[r] \in Nat BY DEF LinkInv, TypeOK
  <2>2. held[r] > 0 => held[r] = Cost(r) /\ price[r] <= Cap
    BY DEF LinkInv, ChargesInv, Allowed
  <2>3. CASE held[r] = 0 BY <2>3, LinkAssumption
  <2>4. CASE held[r] > 0
    BY <2>1, <2>2, <2>4, <2>5, LinkAssumption DEF Cost, Priced
  <2> QED BY <2>5, <2>3, <2>4
<1> QED BY <1>1, LinkInvariant, PTL
=============================================================================
