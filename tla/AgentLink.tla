----------------------------- MODULE AgentLink -----------------------------
(***************************************************************************)
(* One invocation link and the requests that redeem it: anyone who holds   *)
(* the token may run one call of the agent, paid by the key of whoever     *)
(* minted the link.  agentLinkService.redeem claims the row, hands a plan  *)
(* of one step to orchestrateService.executeApprovedPlan and settles the   *)
(* row by what came back.  A step is one database call, or the run of the  *)
(* pipeline.                                                               *)
(***************************************************************************)
EXTENDS Integers, FiniteSets

CONSTANTS Requests,   \* the redeem calls that may arrive
          Prices,     \* prices the agent may be listed at; 0 is a listing without one
          Cap,        \* max_price_usdc of the link
          Markup,     \* protocol fee in the quote of executeApprovedPlan
          Gas,        \* getStepGasOverheadUsd of the chain
          Fallback    \* PLACEHOLDER_FEE_USD, the price of a listing without one

ASSUME LinkAssumption ==
  /\ Prices \subseteq Nat
  /\ Cap \in Nat \ {0}
  /\ Markup \in Nat
  /\ Gas \in Nat
  /\ Fallback \in Nat \ {0}

VARIABLES status,    \* of the row of a2a_agent_links
          lapsed,    \* expires_at has passed
          pc,        \* the next call of each request
          price,     \* the price each request read before its claim
          held,      \* what the owner's key is still charged for each request
          queued,    \* requests whose refund waits in the refund outbox
          served,    \* history: requests whose agent delivered
          doubt      \* history: requests that left a charge nobody will return

vars == <<status, lapsed, pc, price, held, queued, served, doubt>>

Statuses == {"open", "redeeming", "redeemed", "failed"}
Steps == {"lookup", "claim", "quote", "debit", "invoke", "refund", "redeem",
          "reopen", "fail", "done"}

Init ==
  /\ status = "open"
  /\ lapsed = FALSE
  /\ pc = [r \in Requests |-> "lookup"]
  /\ price = [r \in Requests |-> 0]
  /\ held = [r \in Requests |-> 0]
  /\ queued = {}
  /\ served = {}
  /\ doubt = {}

Goto(r, step) == pc' = [pc EXCEPT ![r] = step]
Priced(p) == IF p = 0 THEN Fallback ELSE p
ClaimableTwice == status \in {"open", "redeeming"} /\ ~lapsed
Claimable == status = "open" /\ ~lapsed

(***************************************************************************)
(* Before the claim: the row and the price are read, and both may be stale *)
(* by the time they are used.  A refused request wrote nothing.            *)
(***************************************************************************)
AllowedAlways(p) == TRUE
Allowed(p) == p <= Cap

Lookup(r) ==
  /\ pc[r] = "lookup"
  /\ \E p \in Prices :
       IF Claimable /\ Allowed(p)
         THEN price' = [price EXCEPT ![r] = p] /\ Goto(r, "claim")
         ELSE UNCHANGED price /\ Goto(r, "done")
  /\ UNCHANGED <<status, lapsed, held, queued, served, doubt>>

\* claim_agent_link; the claim may commit while its answer is lost, and then
\* nobody settles the row.
Claim(r) ==
  /\ pc[r] = "claim"
  /\ IF Claimable
       THEN status' = "redeeming" /\ \E step \in {"quote", "done"} : Goto(r, step)
       ELSE UNCHANGED status /\ Goto(r, "done")
  /\ UNCHANGED <<lapsed, price, held, queued, served, doubt>>

(***************************************************************************)
(* executeApprovedPlan.  Its cap gate prices the step again; a stale quote *)
(* or a destination that is this gateway returns before any debit, and an  *)
(* error of a lookup (or a missing key) throws.                            *)
(***************************************************************************)
Quoted(p) == Priced(p) + Markup

Quote(r) ==
  /\ pc[r] = "quote"
  /\ \/ \E p \in Prices : Goto(r, IF Quoted(p) > Cap THEN "reopen" ELSE "debit")
     \/ Goto(r, "reopen")
     \/ Goto(r, "fail")
  /\ UNCHANGED <<status, lapsed, price, held, queued, served, doubt>>

\* What the step-0 debit costs: the price read before the claim, and the gas.
Cost(r) == Priced(price[r]) + Gas
\* A debit reported as failed is a result without a charge: the link reopens.
AfterRefusalIgnored == "invoke"
AfterRefusal == "reopen"

Debit(r) ==
  /\ pc[r] = "debit"
  /\ \/ /\ held' = [held EXCEPT ![r] = Cost(r)]          \* debited
        /\ Goto(r, "invoke")
        /\ UNCHANGED doubt
     \/ /\ UNCHANGED <<held, doubt>>                     \* refused
        /\ Goto(r, AfterRefusal)
     \/ /\ held' = [held EXCEPT ![r] = Cost(r)]          \* committed, answer lost
        /\ doubt' = doubt \cup {r}
        /\ Goto(r, AfterRefusal)
  /\ UNCHANGED <<status, lapsed, price, queued, served>>

\* The pipeline: the agent delivers, its step fails, or compose throws, before
\* or after the agent delivered.
AfterRunKept(delivered) == IF delivered THEN "redeem" ELSE "reopen"
AfterRun(delivered) == IF delivered THEN "redeem" ELSE "refund"

Invoke(r) ==
  /\ pc[r] = "invoke"
  /\ \E delivered \in BOOLEAN, throws \in BOOLEAN :
       /\ served' = IF delivered THEN served \cup {r} ELSE served
       /\ doubt' = IF throws THEN doubt \cup {r} ELSE doubt
       /\ Goto(r, IF throws THEN "fail" ELSE AfterRun(delivered))
  /\ UNCHANGED <<status, lapsed, price, held, queued>>

\* The credit-back of the step-0 debit: applied, handed to the outbox (the
\* credit may have been applied all the same: the outbox knows its key), or
\* neither, which only a log line remembers.
Refund(r) ==
  /\ pc[r] = "refund"
  /\ \/ held' = [held EXCEPT ![r] = 0] /\ UNCHANGED <<queued, doubt>>
     \/ /\ \E applied \in BOOLEAN :
             held' = [held EXCEPT ![r] = IF applied THEN 0 ELSE @]
        /\ queued' = queued \cup {r}
        /\ UNCHANGED doubt
     \/ doubt' = doubt \cup {r} /\ UNCHANGED <<held, queued>>
  /\ Goto(r, "reopen")
  /\ UNCHANGED <<status, lapsed, price, served>>

\* The sweep of the outbox: applied, or given up after its last attempt.
Sweep(r) ==
  /\ r \in queued
  /\ queued' = queued \ {r}
  /\ \/ held' = [held EXCEPT ![r] = 0] /\ UNCHANGED doubt
     \/ doubt' = doubt \cup {r} /\ UNCHANGED held
  /\ UNCHANGED <<status, lapsed, pc, price, served>>

(***************************************************************************)
(* settle_agent_link closes only a row that is redeeming, whoever claimed  *)
(* it.  A reopen whose answer is lost is caught and settled as failed; a   *)
(* redeemed settle that fails is only logged.                              *)
(***************************************************************************)
Settle(s) == status' = IF status = "redeeming" THEN s ELSE status
AfterReopenRetried == "reopen"
AfterReopenLost == "fail"

Reopen(r) ==
  /\ pc[r] = "reopen"
  /\ \/ Settle("open") /\ \E step \in {"done", AfterReopenLost} : Goto(r, step)
     \/ UNCHANGED status /\ Goto(r, AfterReopenLost)
  /\ UNCHANGED <<lapsed, price, held, queued, served, doubt>>

Close(r, step, s) ==
  /\ pc[r] = step
  /\ Settle(s) \/ UNCHANGED status
  /\ Goto(r, "done")
  /\ UNCHANGED <<lapsed, price, held, queued, served, doubt>>

Redeem(r) == Close(r, "redeem", "redeemed")
Fail(r) == Close(r, "fail", "failed")

\* The process dies: a charge that was neither delivered nor handed to the
\* outbox stays.
Die(r) ==
  /\ pc[r] \notin {"lookup", "done"}
  /\ Goto(r, "done")
  /\ doubt' = IF held[r] > 0 /\ r \notin queued THEN doubt \cup {r} ELSE doubt
  /\ UNCHANGED <<status, lapsed, price, held, queued, served>>

Lapse ==
  /\ ~lapsed
  /\ lapsed' = TRUE
  /\ UNCHANGED <<status, pc, price, held, queued, served, doubt>>

Next ==
  \/ \E r \in Requests :
       \/ Lookup(r) \/ Claim(r) \/ Quote(r) \/ Debit(r) \/ Invoke(r)
       \/ Refund(r) \/ Sweep(r) \/ Reopen(r) \/ Redeem(r) \/ Fail(r)
       \/ Die(r)
  \/ Lapse

Spec == Init /\ [][Next]_vars

----------------------------------------------------------------------------
TypeOK ==
  /\ status \in Statuses
  /\ lapsed \in BOOLEAN
  /\ pc \in [Requests -> Steps]
  /\ price \in [Requests -> Prices \cup {0}]
  /\ held \in [Requests -> Nat]
  /\ queued \subseteq Requests
  /\ served \subseteq Requests
  /\ doubt \subseteq Requests

\* A request that holds the claim: it may still settle the row as its own.
Holders == {r \in Requests :
              pc[r] \in {"quote", "debit", "invoke", "refund", "redeem", "reopen"}}

\* The single use of the link: the claim has one holder, and the agent of one
\* claim at most delivered; a request that reopens or has yet to run delivered
\* nothing.
ClaimHeldOnce ==
  /\ \A r, q \in Holders : r = q
  /\ Holders # {} => status \in {"redeeming", "failed"}
  /\ \A r \in Holders : served = IF pc[r] = "redeem" THEN {r} ELSE {}
  /\ served # {} => status # "open"
  /\ \A r, q \in served : r = q
  /\ \A r \in Requests : pc[r] \in {"lookup", "claim"} => r \notin served

\* What each request left on the key of the owner.
ChargesInv ==
  \A r \in Requests :
    /\ pc[r] \in {"lookup", "claim", "quote", "debit"} =>
         held[r] = 0 /\ r \notin queued
    /\ r \in served => held[r] = Cost(r) /\ r \notin queued
    /\ pc[r] \in {"invoke", "refund"} =>
         held[r] = Cost(r) /\ r \notin queued
    /\ pc[r] = "redeem" => r \in served
    /\ pc[r] \in {"reopen", "fail", "done"} /\ held[r] > 0 =>
         r \in served \cup queued \cup doubt
    /\ held[r] > 0 => held[r] = Cost(r) /\ Allowed(price[r])
    /\ pc[r] \notin {"lookup", "done"} => Allowed(price[r])

RedeemedInv == status = "redeemed" => served # {}

LinkInv == TypeOK /\ ClaimHeldOnce /\ ChargesInv /\ RedeemedInv

\* The agent delivers at most once for one link, however many requests race
\* and however many times the link is reopened.
ServedOnce == \A r, q \in served : r = q

\* A link that can still be redeemed has never delivered: reopening gives the
\* caller another try only when the first one got nothing.
OpenMeansUnserved == status = "open" => served = {}

\* A redeemed link was delivered to the request that paid for it, and nothing
\* of that payment was or will be returned.
RedeemedMeansPaid ==
  status = "redeemed" =>
    \E r \in served : held[r] = Cost(r) /\ r \notin queued

\* When a request is over the owner is charged for it exactly when the agent
\* delivered, save for the refunds still in the outbox and the charges in doubt.
ChargedIffServed ==
  \A r \in Requests \ (queued \cup doubt) :
    pc[r] = "done" => (held[r] > 0 <=> r \in served)

\* One redeem never charges the owner more than the cap of the link and the
\* gas of a step, or the placeholder price and the gas when the agent was
\* listed without a price.
ChargeWithinCap ==
  \A r \in Requests :
    held[r] <= Gas + (IF price[r] = 0 THEN Fallback ELSE Cap)
=============================================================================
