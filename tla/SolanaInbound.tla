--------------------------- MODULE SolanaInbound ---------------------------
(***************************************************************************)
(* Payments into the gateway with a Solana transfer: a caller presents the *)
(* signature of a transfer that landed, with the challenge it answers, and *)
(* handleSolanaInboundPayment grants the request.  The chain does not mind *)
(* how often a signature is presented; a2a_solana_inbound_proofs makes it  *)
(* good for one request.  This module is one signature, the challenges it  *)
(* may carry and the requests that present it; a step is one database or   *)
(* chain query.                                                            *)
(***************************************************************************)
EXTENDS Integers, FiniteSets

CONSTANTS Requests, Challenges,
          Amounts,      \* what the transfer may move
          Quote,        \* the amount each challenge was issued for
          Need,         \* the price of each request now
          NoRow         \* the signature is not in the table; no second provider

Rows == [terms : Challenges, status : {"observed", "consumed"}]

ASSUME InboundAssumption ==
  /\ Amounts \subseteq Nat
  /\ Quote \in [Challenges -> Nat]
  /\ Need \in [Requests -> Nat]
  /\ NoRow \notin Rows

VARIABLES transfer,    \* on chain: absent, unfinal, final or failed
          amount,      \* what it moves to the gateway's account
          refs,        \* the challenges whose reference is among its accounts
          inWindow,    \* the challenges that were alive when it landed
          lapsed,      \* challenges past their expiresAt
          row,         \* of a2a_solana_inbound_proofs
          stage, shown, \* of each request: next call, challenge presented
          timedOut,    \* requests already answered 504 by the timeout
          unsure,      \* history: requests whose spending call lost its answer
          caught       \* history: requests answered 504 while that call was under way

inboundVars ==
  <<transfer, amount, refs, inWindow, lapsed, row, stage, shown, timedOut, unsure, caught>>
chain == <<transfer, amount, refs, inWindow, lapsed>>

InboundInit ==
  /\ transfer = "absent"
  /\ amount \in Amounts
  /\ refs \in SUBSET Challenges
  /\ inWindow = {}
  /\ lapsed = {}
  /\ row = NoRow
  /\ stage = [r \in Requests |-> "check"]
  /\ shown \in [Requests -> Challenges]
  /\ timedOut = {}
  /\ unsure = {} /\ caught = {}

Goto(r, step) == stage' = [stage EXCEPT ![r] = step]
Deny(r) == Goto(r, "denied")

----------------------------------------------------------------------------
(* The chain and the clock. *)

TransferLands ==
  /\ transfer = "absent"
  /\ transfer' = "unfinal"
  /\ inWindow' = Challenges \ lapsed
  /\ UNCHANGED <<amount, refs, lapsed, row, stage, shown, timedOut, unsure, caught>>

\* Final, final with an error, or dropped with its fork.
Finalize ==
  /\ transfer = "unfinal"
  /\ transfer' \in {"final", "failed", "absent"}
  /\ UNCHANGED <<amount, refs, inWindow, lapsed, row, stage, shown, timedOut, unsure, caught>>

Expire(c) ==
  /\ c \notin lapsed
  /\ lapsed' = lapsed \cup {c}
  /\ UNCHANGED <<transfer, amount, refs, inWindow, row, stage, shown, timedOut, unsure, caught>>

\* What a node may say of the transfer: the truth, an older truth, or nothing.
Views == {"unknown", "absent"}
           \cup (IF transfer = "absent" THEN {} ELSE {"unfinal"})
           \cup ({transfer} \cap {"final", "failed"})

----------------------------------------------------------------------------
(* P2 and P2b: the challenge is ours, alive, and covers this request.      *)
Covers(r) == Quote[shown[r]] >= Need[r]

Check(r) ==
  /\ stage[r] = "check"
  /\ IF shown[r] \notin lapsed /\ Covers(r) THEN Goto(r, "peek") ELSE Deny(r)
  /\ UNCHANGED <<chain, row, shown, timedOut, unsure, caught>>

\* P3: a verdict already stored for these terms skips the chain.
SameTerms(r) == row # NoRow /\ row.terms = shown[r]
Spent == row # NoRow /\ row.status = "consumed"

Peek(r) ==
  /\ stage[r] = "peek"
  /\ \/ Deny(r)                                   \* unreadable
     \/ row = NoRow /\ Goto(r, "probe")
     \/ /\ row # NoRow
        /\ IF SameTerms(r) /\ ~Spent THEN Goto(r, "consume") ELSE Deny(r)
  /\ UNCHANGED <<chain, row, shown, timedOut, unsure, caught>>

(***************************************************************************)
(* P4 and P5: one or two providers, each with a verdict on the transfer    *)
(* and on its binding to the challenge; the combined verdict is the one of *)
(* lower rank, and an absence that the other provider does not confirm is  *)
(* an unknown.                                                             *)
(***************************************************************************)
InboundPresence(view, c) ==
  CASE view = "final" -> IF amount >= Quote[c] THEN "finalized_ok" ELSE "terms_mismatch"
    [] view = "failed" -> "landed_failed"
    [] view = "unfinal" -> "not_finalized"
    [] OTHER -> view

PresenceRank == [s \in {"terms_mismatch", "landed_failed", "finalized_ok",
                        "not_finalized", "absent", "unknown"} |->
  CASE s \in {"terms_mismatch", "landed_failed"} -> 0
    [] s = "finalized_ok" -> 1
    [] s = "not_finalized" -> 2
    [] s = "absent" -> 3
    [] OTHER -> 4]

CombineInboundPresence(p, f) ==
  LET winner == IF PresenceRank[p] <= PresenceRank[f] THEN p ELSE f
  IN  IF winner = "absent" /\ {p, f} # {"absent"} THEN "unknown" ELSE winner

\* readInboundBinding; `partial` when the node did not resolve every account.
Binding(view, c, partial) ==
  CASE view \notin {"final", "failed"} -> "unknown"
    [] c \notin refs -> IF partial THEN "unknown" ELSE "reference_absent"
    [] c \in refs \ inWindow -> "outside_window"
    [] OTHER -> "bound"

BindingRank == [s \in {"reference_absent", "outside_window", "bound", "unknown"} |->
  CASE s = "reference_absent" -> 0
    [] s = "outside_window" -> 1
    [] s = "bound" -> 2
    [] OTHER -> 3]

CombineInboundBinding(p, f) == IF BindingRank[p] <= BindingRank[f] THEN p ELSE f

ProvenUnbound(presence, binding) == presence = "finalized_ok"
Proven(presence, binding) == presence = "finalized_ok" /\ binding = "bound"

\* The conclusions the nodes may lead to, of one provider (two = NoRow) or of both.
Verdicts(c) ==
  { LET p == InboundPresence(one, c)  b == Binding(one, c, partial)
    IN  IF two = NoRow THEN Proven(p, b)
        ELSE Proven(CombineInboundPresence(p, InboundPresence(two, c)),
                    CombineInboundBinding(b, Binding(two, c, FALSE)))
    : one \in Views, two \in Views \cup {NoRow}, partial \in BOOLEAN }

ProbeTransfer(r) ==
  /\ stage[r] = "probe"
  /\ \E proven \in Verdicts(shown[r]) : IF proven THEN Goto(r, "observe") ELSE Deny(r)
  /\ UNCHANGED <<chain, row, shown, timedOut, unsure, caught>>

(***************************************************************************)
(* P6: record_solana_inbound_observed stores the verdict under the key of  *)
(* the signature alone.  Its answer may be lost, and then access is denied.*)
(***************************************************************************)
Observe(r) ==
  /\ stage[r] = "observe"
  /\ \/ /\ row = NoRow
        /\ row' = [terms |-> shown[r], status |-> "observed"]
        /\ \E step \in {"consume", "denied"} : Goto(r, step)
     \/ /\ row # NoRow
        /\ UNCHANGED row
        /\ IF SameTerms(r) /\ ~Spent
             THEN \E step \in {"consume", "denied"} : Goto(r, step)
             ELSE Deny(r)
     \/ UNCHANGED row /\ Deny(r)
  /\ UNCHANGED <<chain, shown, timedOut, unsure, caught>>

\* P7: consume_solana_inbound_proof is not called once a 504 was sent.
AnsweredNever(r) == FALSE
Answered(r) == r \in timedOut

Consume(r) ==
  /\ stage[r] = "consume"
  /\ IF Answered(r) THEN Deny(r) ELSE Goto(r, "spend")
  /\ UNCHANGED <<chain, row, shown, timedOut, unsure, caught>>

\* It moves observed to consumed for one request; its answer may be lost.
ConsumableTwice(r) == row # NoRow /\ row.terms = shown[r]
Consumable(r) == SameTerms(r) /\ ~Spent

Spend(r) ==
  /\ stage[r] = "spend"
  /\ \/ /\ Consumable(r)
        /\ row' = [row EXCEPT !.status = "consumed"]
        /\ \/ Goto(r, "answer") /\ UNCHANGED unsure
           \/ Deny(r) /\ unsure' = unsure \cup {r}
     \/ Deny(r) /\ UNCHANGED <<row, unsure>>
  /\ UNCHANGED <<chain, shown, timedOut, caught>>

\* P9: the request is granted on that answer, though a 504 may have gone out meanwhile;
\* then the server runs no handler for it.
Grant(r) ==
  /\ stage[r] = "answer"
  /\ Goto(r, "granted")
  /\ UNCHANGED <<chain, row, shown, timedOut, unsure, caught>>

\* createTimeoutHandler answers 504 whatever the middleware is doing.
TimeOut(r) ==
  /\ stage[r] \notin {"granted", "denied"}
  /\ r \notin timedOut
  /\ timedOut' = timedOut \cup {r}
  /\ caught' = IF stage[r] \in {"spend", "answer"} THEN caught \cup {r} ELSE caught
  /\ UNCHANGED <<chain, row, stage, shown, unsure>>

InboundNext ==
  \/ TransferLands \/ Finalize
  \/ \E c \in Challenges : Expire(c)
  \/ \E r \in Requests :
       Check(r) \/ Peek(r) \/ ProbeTransfer(r) \/ Observe(r)
       \/ Consume(r) \/ Spend(r) \/ Grant(r) \/ TimeOut(r)

InboundSpec == InboundInit /\ [][InboundNext]_inboundVars

----------------------------------------------------------------------------
Granted == {r \in Requests : stage[r] = "granted"}

InboundTypeOK ==
  /\ transfer \in {"absent", "unfinal", "final", "failed"}
  /\ amount \in Amounts
  /\ refs \subseteq Challenges /\ inWindow \subseteq Challenges /\ lapsed \subseteq Challenges
  /\ row \in Rows \cup {NoRow}
  /\ stage \in [Requests -> {"check", "peek", "probe", "observe", "consume", "spend",
                            "answer", "granted", "denied"}]
  /\ shown \in [Requests -> Challenges]
  /\ timedOut \subseteq Requests /\ unsure \subseteq Requests /\ caught \subseteq Requests

\* One transfer buys one request, even when it carries the references of two
\* challenges and both are presented at once (the key of
\* a2a_solana_inbound_proofs and consume_solana_inbound_proof).
ServedOncePerTransfer == \A r, q \in Granted : r = q

\* A granted request was paid: the transfer is final, bound to the challenge it
\* showed, landed within its window, and moved what the request costs now, also
\* when the chain was asked for another request (P2b to P5, and the skip of P3).
GrantMeansPaid ==
  \A r \in Granted :
    /\ transfer = "final"
    /\ amount >= Need[r]
    /\ shown[r] \in refs \cap inWindow

\* A spent proof served a request nobody had answered 504, or the answer of the spending
\* call was lost (the reply.sent guard of P7).  The code does not keep this.
Winners == {r \in Requests : stage[r] \in {"answer", "granted"}}
SpentMeansServed == Spent => \E r \in Requests : r \in unsure \/ (r \in Winners \ timedOut)

\* What it keeps: a proof spent on a request answered 504 is one whose spending call was
\* under way when the 504 went out; a request answered before does not spend.
BurntOnlyInFlight ==
  Spent => \E r \in Requests : r \in unsure \/ (r \in Winners /\ (r \in timedOut => r \in caught))

----------------------------------------------------------------------------
(* Why: the inductive strengthening.                                       *)

\* The transfer is final, answers challenge c, landed within its window and moved
\* what c was issued for.  Nothing on the chain takes that back.
Pays(c) == transfer = "final" /\ amount >= Quote[c] /\ c \in refs \cap inWindow

\* The table and the requests about to write it hold only proven verdicts, also for a
\* request that skipped the chain.
VerdictsAreProven ==
  /\ row # NoRow => Pays(row.terms)
  /\ \A r \in Requests :
       /\ stage[r] = "observe" => Pays(shown[r])
       /\ stage[r] \in {"consume", "spend", "answer", "granted"} => SameTerms(r)
       /\ stage[r] \notin {"check", "denied"} => Covers(r)

\* Until the row is consumed nobody was served on it.
ServedFromRow ==
  /\ ~Spent => Winners = {} /\ unsure = {}
  /\ \A r, q \in Winners : r = q

\* A request in the spending call was not answered before it made that call.
CaughtInFlight ==
  \A r \in Requests : stage[r] \in {"spend", "answer"} /\ r \in timedOut => r \in caught

InboundInv ==
  InboundTypeOK /\ VerdictsAreProven /\ ServedFromRow /\ CaughtInFlight /\ BurntOnlyInFlight
=============================================================================
