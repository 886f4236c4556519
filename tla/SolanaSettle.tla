----------------------------- MODULE SolanaSettle -----------------------------
(***************************************************************************)
(* Payments to agents on Solana, one row of a2a_solana_settle_intents per  *)
(* intent: claimed -> signed -> confirmed, and back to claimed once the    *)
(* signed transaction can no longer land.  Concurrent calls of settle()    *)
(* share the rows and the chain; every await is a step of its own, and a   *)
(* process may die between two of them.                                    *)
(* All the intents pay the same amount to the same agent, so two that sign *)
(* under one blockhash make the same transaction: a signature is the       *)
(* height of its blockhash.                                                *)
(***************************************************************************)
EXTENDS Integers

CONSTANTS
    Calls,       \* calls of settle(): concurrent requests and later retries
    Intents,
    IntentOf,    \* the intentId of each call
    NoSig,       \* settle_signature IS NULL
    Validity,    \* blocks a blockhash lives for
    MaxHeight    \* the bound of the chain's height

ASSUME ChainAssumption ==
    /\ Validity \in Nat /\ MaxHeight \in Nat
    /\ NoSig \notin Nat
    /\ IntentOf \in [Calls -> Intents]

VARIABLES
    status,   \* of the row of each intent; "none" is no row
    sig,      \* settle_signature
    expired,  \* expired_signatures
    lease,    \* claimed_at is within the lease
    height,   \* of the chain
    sent,     \* of each intent, the transactions some node accepted
    landed,   \* those on chain that paid the agent
    failed,   \* those on chain with an error
    pc,       \* where each call is
    held,     \* the signature it works with
    stale,    \* history: signatures told absent to a probe that landed before the height
              \* was read, or unknown yet to the node that told
    trusted   \* history: calls that took the error of their transaction for a confirmation

rowVars == <<status, sig, expired, lease>>
chainVars == <<height, sent, landed, failed>>
historyVars == <<stale, trusted>>
vars == <<rowVars, chainVars, pc, held, historyVars>>

\* What a call tells its leg: success, SETTLE_FAILED ("not paid") or SETTLE_UNKNOWN.
Answers == {"paid", "failed", "unknown"}
Steps == {"claim", "sign", "record", "send", "confirm", "recover", "recordConfirmed",
          "reverify", "probe", "height", "reclaim"}

TypeOK ==
    /\ status \in [Intents -> {"none", "claimed", "signed", "confirmed"}]
    /\ sig \in [Intents -> Nat \cup {NoSig}]
    /\ expired \in [Intents -> SUBSET Nat]
    /\ lease \in [Intents -> BOOLEAN]
    /\ height \in Nat
    /\ sent \in [Intents -> SUBSET Nat] /\ landed \subseteq Nat /\ failed \subseteq Nat
    /\ pc \in [Calls -> Steps \cup Answers \cup {"dead"}]
    /\ held \in [Calls -> Nat \cup {NoSig}]
    /\ stale \subseteq Nat /\ trusted \subseteq Calls

Init ==
    /\ status = [i \in Intents |-> "none"]
    /\ sig = [i \in Intents |-> NoSig]
    /\ expired = [i \in Intents |-> {}]
    /\ lease = [i \in Intents |-> FALSE]
    /\ height = 0
    /\ sent = [i \in Intents |-> {}] /\ landed = {} /\ failed = {}
    /\ pc = [c \in Calls |-> "claim"]
    /\ held = [c \in Calls |-> NoSig]
    /\ stale = {} /\ trusted = {}

Goes(c, step) == pc' = [pc EXCEPT ![c] = step]
Working(c) == pc[c] \in Steps

-----------------------------------------------------------------------------
(* The chain and its RPC nodes.                                             *)

Alive(s) == height <= s + Validity

\* a call has been told that s is absent, and is about to read the height
BeingJudged(s) == \E c \in Calls : pc[c] = "height" /\ held[c] = s

Land(i, s) ==
    /\ s \in sent[i] \ (landed \cup failed)
    /\ Alive(s)
    /\ \/ /\ landed' = landed \cup {s} /\ UNCHANGED failed
          /\ stale' = IF BeingJudged(s) THEN stale \cup {s} ELSE stale
       \/ failed' = failed \cup {s} /\ UNCHANGED <<landed, stale>>
    /\ UNCHANGED <<rowVars, height, sent, pc, held, trusted>>

NewBlock ==
    /\ height < MaxHeight
    /\ height' = height + 1
    /\ UNCHANGED <<rowVars, sent, landed, failed, pc, held, historyVars>>

\* probeSettlementPresence: a node that does not answer, or cannot read the terms, is never
\* taken for an absence.  One that answers has searched its history, which may lag.
Presence(s) ==
    {"unknown", "absent"} \cup (IF s \in landed THEN {"landed_ok"} ELSE {})
                          \cup (IF s \in failed THEN {"landed_failed"} ELSE {})

-----------------------------------------------------------------------------
(* claim_solana_settle_intent: the only door to a broadcast.                *)

Claimable(i) == status[i] = "none" \/ (status[i] = "claimed" /\ ~lease[i])

Claim(c) ==
    LET i == IntentOf[c] IN
    /\ pc[c] = "claim"
    /\ \/ /\ Claimable(i)
          /\ status' = [status EXCEPT ![i] = "claimed"]
          /\ lease' = [lease EXCEPT ![i] = TRUE]
          /\ Goes(c, "sign") \/ Goes(c, "failed")
          /\ UNCHANGED held
       \/ /\ ~Claimable(i)
          /\ Goes(c, CASE status[i] = "claimed" -> "failed"
                       [] status[i] = "signed" -> "probe"
                       [] status[i] = "confirmed" -> "reverify")
          /\ held' = [held EXCEPT ![c] = sig[i]]
          /\ UNCHANGED <<status, lease>>
       \/ Goes(c, "failed") /\ UNCHANGED <<status, lease, held>>
    /\ UNCHANGED <<sig, expired, chainVars, historyVars>>

\* the lease of claimed_at, by the clock of Postgres
LeaseRunsOut(i) ==
    /\ status[i] = "claimed" /\ lease[i]
    /\ lease' = [lease EXCEPT ![i] = FALSE]
    /\ UNCHANGED <<status, sig, expired, chainVars, pc, held, historyVars>>

-----------------------------------------------------------------------------
(* signPersistBroadcast.                                                    *)

Sign(c) ==
    /\ pc[c] = "sign"
    /\ held' = [held EXCEPT ![c] = height]
    /\ Goes(c, "record")
    /\ UNCHANGED <<rowVars, chainVars, historyVars>>

CollidesNever(c) == FALSE
\* the unique index on settle_signature
Collides(c) == \E j \in Intents : sig[j] = held[c]

RecordableAlways(c) == TRUE
\* record_solana_settle_signed writes only over 'claimed'
Recordable(c) == status[IntentOf[c]] = "claimed"

\* A collision signs again, a bounded number of times; any other answer that does not
\* say the signature was written, the lost one included, stops before the broadcast.
RecordSigned(c) ==
    LET i == IntentOf[c] IN
    /\ pc[c] = "record"
    /\ \/ /\ Recordable(c) /\ ~Collides(c)
          /\ status' = [status EXCEPT ![i] = "signed"]
          /\ sig' = [sig EXCEPT ![i] = held[c]]
          /\ Goes(c, "send") \/ Goes(c, "failed")
       \/ /\ Recordable(c) /\ Collides(c)
          /\ Goes(c, "sign")
          /\ UNCHANGED <<status, sig>>
       \/ Goes(c, "failed") /\ UNCHANGED <<status, sig>>
    /\ UNCHANGED <<expired, lease, chainVars, held, historyVars>>

\* sendRawTransaction throws, too, when only its answer was lost
Send(c) ==
    /\ pc[c] = "send"
    /\ \/ /\ sent' = [sent EXCEPT ![IntentOf[c]] = @ \cup {held[c]}]
          /\ Goes(c, "confirm") \/ Goes(c, "recover")
       \/ UNCHANGED sent /\ Goes(c, "recover")
    /\ UNCHANGED <<rowVars, height, landed, failed, held, historyVars>>

ResolvesEarly(s) == Alive(s)
\* confirmTransaction resolves or throws; what it resolves to is not looked at
Resolves(s) == s \in landed \cup failed

Confirm(c) ==
    /\ pc[c] = "confirm"
    /\ \/ /\ Resolves(held[c]) /\ Goes(c, "recordConfirmed")
          /\ trusted' = IF held[c] \in failed THEN trusted \cup {c} ELSE trusted
       \/ Goes(c, "recover") /\ UNCHANGED trusted
    /\ UNCHANGED <<rowVars, chainVars, held, stale>>

\* recoverConfirmedSettle: asks the chain once, and never sends again
Recover(c) ==
    /\ pc[c] = "recover"
    /\ \E p \in Presence(held[c]) :
          Goes(c, CASE p = "landed_ok" -> "recordConfirmed"
                    [] p = "unknown" -> "unknown"
                    [] p \in {"absent", "landed_failed"} -> "failed")
    /\ UNCHANGED <<rowVars, chainVars, held, historyVars>>

\* record_solana_settle_confirmed: a failed write does not undo a payment
RecordConfirmed(c) ==
    LET i == IntentOf[c] IN
    /\ pc[c] = "recordConfirmed"
    /\ \/ /\ sig[i] = held[c] /\ status[i] \in {"signed", "confirmed"}
          /\ status' = [status EXCEPT ![i] = "confirmed"]
       \/ UNCHANGED status
    /\ Goes(c, "paid")
    /\ UNCHANGED <<sig, expired, lease, chainVars, held, historyVars>>

-----------------------------------------------------------------------------
(* settleAlreadyConfirmed and settleAlreadySigned.                          *)

Reverify(c) ==
    /\ pc[c] = "reverify"
    /\ \E p \in Presence(held[c]) :
          Goes(c, CASE p = "landed_ok" -> "paid"
                    [] p = "unknown" -> "unknown"
                    [] p \in {"absent", "landed_failed"} -> "failed")
    /\ UNCHANGED <<rowVars, chainVars, held, historyVars>>

Probe(c) ==
    /\ pc[c] = "probe"
    /\ \E p \in Presence(held[c]) :
          /\ Goes(c, CASE p = "landed_ok" -> "recordConfirmed"
                       [] p = "unknown" -> "unknown"
                       [] p \in {"absent", "landed_failed"} -> "height")
          /\ stale' = IF p = "absent" /\ held[c] \in landed THEN stale \cup {held[c]} ELSE stale
    /\ UNCHANGED <<rowVars, chainVars, held, trusted>>

ExpiredEarly(s) == height >= s + Validity
\* getBlockHeight() > last_valid_block_height
Expired(s) == height > s + Validity

\* a node may be behind: the height it tells can be too low, never too high
ReadHeight(c) ==
    /\ pc[c] = "height"
    /\ \/ Expired(held[c]) /\ Goes(c, "reclaim")
       \/ Goes(c, "unknown")
       \/ Goes(c, "failed")
    /\ UNCHANGED <<rowVars, chainVars, held, historyVars>>

\* reclaim_solana_settle_intent: archives the dead signature, and the call signs anew
Reclaim(c) ==
    LET i == IntentOf[c] IN
    /\ pc[c] = "reclaim"
    /\ \/ /\ status[i] = "signed" /\ sig[i] = held[c]
          /\ status' = [status EXCEPT ![i] = "claimed"]
          /\ expired' = [expired EXCEPT ![i] = @ \cup {sig[i]}]
          /\ sig' = [sig EXCEPT ![i] = NoSig]
          /\ lease' = [lease EXCEPT ![i] = TRUE]
          /\ Goes(c, "sign") \/ Goes(c, "failed")
       \/ Goes(c, "failed") /\ UNCHANGED rowVars
    /\ UNCHANGED <<chainVars, held, historyVars>>

Dies(c) ==
    /\ Working(c)
    /\ Goes(c, "dead")
    /\ UNCHANGED <<rowVars, chainVars, held, historyVars>>

-----------------------------------------------------------------------------
CallNext(c) ==
    \/ Claim(c) \/ Sign(c) \/ RecordSigned(c) \/ Send(c) \/ Confirm(c) \/ Recover(c)
    \/ RecordConfirmed(c) \/ Reverify(c) \/ Probe(c) \/ ReadHeight(c) \/ Reclaim(c)
    \/ Dies(c)

Next ==
    \/ NewBlock
    \/ \E i \in Intents : \E s \in sent[i] : Land(i, s)
    \/ \E i \in Intents : LeaseRunsOut(i)
    \/ \E c \in Calls : CallNext(c)

Spec == Init /\ [][Next]_vars

-----------------------------------------------------------------------------
(* Properties.                                                              *)

\* An intent is paid at most once, whoever retries, takes over a lease or signs again.
\* The code does not keep this: absence and height are two reads.
PaidOnce == \A i \in Intents : \A s, t \in landed \cap sent[i] : s = t

\* What it keeps: of two payments of an intent, one was told absent to a probe by a node
\* that lagged, or landed before that probe read the height.
PaidTwiceOnlyIfStale ==
    \A i \in Intents : \A s, t \in landed \cap sent[i] : s = t \/ s \in stale \/ t \in stale

\* One transfer on chain is not the payment of two intents (the partial unique index on
\* settle_signature), unless the row of the first was freed on a stale absence.
OneTransferEach ==
    \A i, j \in Intents : i # j => sent[i] \cap sent[j] \cap landed \subseteq stale

\* Invariant I2 of the migration: a row in claimed, for the first time or again, has
\* nothing that can still get on chain, and nothing there whose absence was not stale.
ClaimedMeansUnsent ==
    \A i \in Intents : status[i] = "claimed" =>
        \A s \in sent[i] : ~Alive(s) /\ (s \in landed => s \in stale)

\* A call that answers success shows a transfer of its own intent that is on chain.  The
\* code does not keep this: confirmTransaction returns the error of a failed transaction.
SuccessMeansPaid ==
    \A c \in Calls : pc[c] = "paid" => held[c] \in landed

\* What it keeps: a success without a transfer is one whose own confirmation was an error,
\* and the transfer shown was sent for the intent unless its absence was stale before.
FalseSuccessIsTrusted ==
    \A c \in Calls : pc[c] = "paid" =>
        \/ held[c] \in landed \cap (sent[IntentOf[c]] \cup stale)
        \/ c \in trusted

\* A call that asked the chain about what it sent, and answers "not paid", is right.  The
\* code does not keep this: what is absent can land as long as its blockhash lives.
FailureMeansUnpaid ==
    \A c \in Calls : pc[c] = "failed" /\ held[c] \in sent[IntentOf[c]] => held[c] \notin landed

-----------------------------------------------------------------------------
(* Why they hold.                                                           *)

\* every signature the ledger has, or archived, for an intent
Ledger(i) == expired[i] \cup {sig[i]}

SignedHasSig ==
    \A i \in Intents : sig[i] # NoSig <=> status[i] \in {"signed", "confirmed"}

\* persisted before it was broadcast; it lands only once
SentIsLedgered ==
    /\ \A i \in Intents : sent[i] \subseteq Ledger(i)
    /\ \A s \in landed : \E i \in Intents : s \in sent[i]
    /\ landed \cap failed = {}

ArchivedIsDead ==
    \A i \in Intents : \A s \in expired[i] : ~Alive(s) /\ (s \in landed => s \in stale)

SigIsUnique ==
    \A i, j \in Intents : sig[i] = sig[j] /\ sig[i] # NoSig => i = j

\* what a call works with comes from the ledger, except before it is written there
HeldIsLedgered ==
    \A c \in Calls :
        /\ pc[c] = "record" => held[c] \in Nat
        /\ pc[c] \in Steps \ {"claim", "sign", "record"} =>
              held[c] \in Nat \cap Ledger(IntentOf[c])

\* what a call was told cannot turn out otherwise, but for a stale absence
ProofsHold ==
    \A c \in Calls :
        /\ pc[c] \in {"height", "reclaim"} => (held[c] \in landed => held[c] \in stale)
        /\ pc[c] = "reclaim" => ~Alive(held[c])

ReportsAreTrue ==
    \A c \in Calls : pc[c] \in {"recordConfirmed", "paid"} =>
        \/ held[c] \in landed \cap (sent[IntentOf[c]] \cup stale)
        \/ c \in trusted

\* The invariant the proofs are by induction on.
IntentInv ==
    /\ TypeOK /\ SignedHasSig /\ SentIsLedgered /\ ArchivedIsDead /\ SigIsUnique
    /\ HeldIsLedgered /\ ProofsHold /\ ReportsAreTrue
=============================================================================
