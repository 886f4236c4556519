-------------------------- MODULE SolanaSettleProofs --------------------------
(***************************************************************************)
(* Proofs about SolanaSettle: for any number of intents and of calls, an   *)
(* intent is paid twice, or a transfer shown for two intents, only after a *)
(* probe was told absent what lands; and about SolanaInbound, the other    *)
(* direction, for any number of requests and challenges.                   *)
(***************************************************************************)
EXTENDS SolanaSettle, SolanaInbound, TLAPS

\* The initial state satisfies the invariant.
LEMMA InitInv == Init => IntentInv
BY ChainAssumption
DEF Init, IntentInv, TypeOK, SignedHasSig, SentIsLedgered, ArchivedIsDead, SigIsUnique,
    HeldIsLedgered, ProofsHold, ReportsAreTrue, Ledger, Alive, Steps, Answers

\* A signature the ledger has for an intent, and that is on chain, was sent for it.
LEMMA LandedIsOwn ==
  ASSUME IntentInv, NEW i \in Intents, NEW s \in landed, s \in Nat, s \in Ledger(i), s \notin stale
  PROVE  s \in sent[i] /\ s = sig[i]
<1>1. s = sig[i] /\ sig[i] # NoSig
  BY ChainAssumption DEF IntentInv, ArchivedIsDead, Ledger
<1>2. PICK j \in Intents : s \in sent[j]
  BY DEF IntentInv, SentIsLedgered
<1>3. s = sig[j]
  BY <1>2 DEF IntentInv, SentIsLedgered, ArchivedIsDead, Ledger
<1> QED
  BY <1>1, <1>2, <1>3 DEF IntentInv, SigIsUnique

\* A transaction lands while it is alive, so it is not an archived one.
LEMMA LandKeepsInv ==
  ASSUME IntentInv, NEW i \in Intents, NEW s \in sent[i], Land(i, s)
  PROVE  IntentInv'
<1> USE DEF IntentInv, TypeOK, Land, rowVars, chainVars, historyVars
<1>1. TypeOK'
  OBVIOUS
<1>2. SignedHasSig'
  BY DEF SignedHasSig
<1>3. SentIsLedgered'
  <2>1. /\ UNCHANGED <<sig, expired, sent>> /\ s \notin landed \cup failed
        /\ \/ landed' = landed \cup {s} /\ failed' = failed
           \/ landed' = landed /\ failed' = failed \cup {s}
    OBVIOUS
  <2>2. /\ \A j \in Intents : sent[j] \subseteq Ledger(j)
        /\ \A u \in landed : \E j \in Intents : u \in sent[j]
        /\ landed \cap failed = {}
    BY DEF SentIsLedgered
  <2>3. \A j \in Intents : (sent[j] \subseteq Ledger(j))'
    BY <2>1, <2>2 DEF Ledger
  <2>4. \A u \in landed' : \E j \in Intents : u \in sent'[j]
    <3>1. landed' \subseteq landed \cup {s} /\ sent' = sent
      BY <2>1
    <3> QED
      BY <2>2, <3>1
  <2>5. landed' \cap failed' = {}
    BY <2>1, <2>2
  <2> QED
    BY <2>3, <2>4, <2>5 DEF SentIsLedgered
<1>4. ArchivedIsDead'
  BY DEF ArchivedIsDead, Alive
<1>5. SigIsUnique'
  BY DEF SigIsUnique
<1>6. HeldIsLedgered'
  BY DEF HeldIsLedgered, Ledger
<1>7. ProofsHold'
  BY DEF ProofsHold, BeingJudged, Alive
<1>8. ReportsAreTrue'
  BY DEF ReportsAreTrue
<1> QED
  BY <1>1, <1>2, <1>3, <1>4, <1>5, <1>6, <1>7, <1>8

\* A dead signature stays dead.
LEMMA NewBlockKeepsInv ==
  ASSUME IntentInv, NewBlock
  PROVE  IntentInv'
<1> USE DEF IntentInv, TypeOK, NewBlock, rowVars, chainVars, historyVars
<1>1. TypeOK'
  OBVIOUS
<1>2. SignedHasSig'
  BY DEF SignedHasSig
<1>3. SentIsLedgered'
  BY DEF SentIsLedgered, Ledger
<1>4. ArchivedIsDead'
  BY ChainAssumption DEF ArchivedIsDead, Alive
<1>5. SigIsUnique'
  BY DEF SigIsUnique
<1>6. HeldIsLedgered'
  BY DEF HeldIsLedgered, Ledger
<1>7. ProofsHold'
  BY ChainAssumption DEF ProofsHold, Steps, Alive, HeldIsLedgered
<1>8. ReportsAreTrue'
  BY DEF ReportsAreTrue
<1> QED
  BY <1>1, <1>2, <1>3, <1>4, <1>5, <1>6, <1>7, <1>8

\* Only a row without a signature is claimed.
LEMMA ClaimKeepsInv ==
  ASSUME IntentInv, NEW c \in Calls, Claim(c)
  PROVE  IntentInv'
<1>0. IntentOf[c] \in Intents
  BY ChainAssumption
<1> USE DEF IntentInv, TypeOK, Claim, Goes, rowVars, chainVars, historyVars
<1>1. TypeOK'
  <2>1. \E step \in Steps \cup Answers : pc' = [pc EXCEPT ![c] = step]
    BY <1>0 DEF Claimable, Steps, Answers
  <2>2. /\ status' \in [Intents -> {"none", "claimed", "signed", "confirmed"}]
        /\ lease' \in [Intents -> BOOLEAN] /\ held' \in [Calls -> Nat \cup {NoSig}]
    BY <1>0
  <2>3. pc' \in [Calls -> Steps \cup Answers \cup {"dead"}]
    BY <2>1
  <2> QED
    BY <2>2, <2>3
<1>2. SignedHasSig'
  BY <1>0, ChainAssumption DEF SignedHasSig, Claimable
<1>3. SentIsLedgered'
  BY <1>0, ChainAssumption DEF SentIsLedgered, Ledger
<1>4. ArchivedIsDead'
  BY <1>0, ChainAssumption DEF ArchivedIsDead, Alive
<1>5. SigIsUnique'
  BY <1>0, ChainAssumption DEF SigIsUnique
<1>6. HeldIsLedgered'
  BY <1>0, ChainAssumption DEF HeldIsLedgered, Claimable, Ledger, Steps, SignedHasSig
<1>7. ProofsHold'
  BY <1>0, ChainAssumption DEF ProofsHold, Claimable, Alive
<1>8. ReportsAreTrue'
  BY <1>0, ChainAssumption DEF ReportsAreTrue, Claimable
<1> QED
  BY <1>1, <1>2, <1>3, <1>4, <1>5, <1>6, <1>7, <1>8

\* The lease says nothing about the chain.
LEMMA LeaseRunsOutKeepsInv ==
  ASSUME IntentInv, NEW i \in Intents, LeaseRunsOut(i)
  PROVE  IntentInv'
<1> USE DEF IntentInv, TypeOK, LeaseRunsOut, rowVars, chainVars, historyVars
<1>1. TypeOK'
  OBVIOUS
<1>2. SignedHasSig'
  BY DEF SignedHasSig
<1>3. SentIsLedgered'
  BY DEF SentIsLedgered, Ledger
<1>4. ArchivedIsDead'
  BY DEF ArchivedIsDead, Alive
<1>5. SigIsUnique'
  BY DEF SigIsUnique
<1>6. HeldIsLedgered'
  BY DEF HeldIsLedgered, Ledger
<1>7. ProofsHold'
  BY DEF ProofsHold, Alive
<1>8. ReportsAreTrue'
  BY DEF ReportsAreTrue
<1> QED
  BY <1>1, <1>2, <1>3, <1>4, <1>5, <1>6, <1>7, <1>8

\* A signature nobody has seen yet.
LEMMA SignKeepsInv ==
  ASSUME IntentInv, NEW c \in Calls, Sign(c)
  PROVE  IntentInv'
<1>0. IntentOf[c] \in Intents
  BY ChainAssumption
<1> USE DEF IntentInv, TypeOK, Sign, Goes, rowVars, chainVars, historyVars
<1>1. (SignedHasSig /\ SentIsLedgered /\ ArchivedIsDead /\ SigIsUnique)'
  BY DEF SignedHasSig, SentIsLedgered, ArchivedIsDead, SigIsUnique, Ledger, Alive
<1>2. TypeOK'
  BY <1>0 DEF Steps
<1>3. HeldIsLedgered'
  BY <1>0 DEF HeldIsLedgered, Ledger
<1>4. ProofsHold'
  BY <1>0 DEF ProofsHold, Alive
<1>5. ReportsAreTrue'
  BY <1>0 DEF ReportsAreTrue
<1> QED
  BY <1>1, <1>2, <1>3, <1>4, <1>5

\* The row had no signature, and no other row has this one.
LEMMA RecordSignedKeepsInv ==
  ASSUME IntentInv, NEW c \in Calls, RecordSigned(c)
  PROVE  IntentInv'
<1>0. IntentOf[c] \in Intents
  BY ChainAssumption
<1> USE DEF IntentInv, TypeOK, RecordSigned, Goes, rowVars, chainVars, historyVars
<1>1. TypeOK'
  BY <1>0, ChainAssumption DEF Steps, Answers
<1>2. SignedHasSig'
  BY <1>0, ChainAssumption DEF SignedHasSig, Recordable, Collides
<1>3. SentIsLedgered'
  BY <1>0, ChainAssumption DEF SentIsLedgered, Recordable, Ledger, SignedHasSig
<1>4. ArchivedIsDead'
  BY <1>0, ChainAssumption DEF ArchivedIsDead, Alive
<1>5. SigIsUnique'
  BY <1>0, ChainAssumption DEF SigIsUnique, Collides
<1>6. HeldIsLedgered'
  BY <1>0, ChainAssumption DEF HeldIsLedgered, Recordable, Ledger, Steps, SignedHasSig
<1>7. ProofsHold'
  BY <1>0, ChainAssumption DEF ProofsHold, Alive
<1>8. ReportsAreTrue'
  BY <1>0, ChainAssumption DEF ReportsAreTrue
<1> QED
  BY <1>1, <1>2, <1>3, <1>4, <1>5, <1>6, <1>7, <1>8

\* What is broadcast is in the ledger.
LEMMA SendKeepsInv ==
  ASSUME IntentInv, NEW c \in Calls, Send(c)
  PROVE  IntentInv'
<1>0. IntentOf[c] \in Intents
  BY ChainAssumption
<1> USE DEF IntentInv, TypeOK, Send, Goes, rowVars, chainVars, historyVars
<1>1. TypeOK'
  BY <1>0, ChainAssumption DEF Steps, HeldIsLedgered
<1>2. SignedHasSig'
  BY <1>0, ChainAssumption DEF SignedHasSig
<1>3. SentIsLedgered'
  BY <1>0, ChainAssumption DEF SentIsLedgered, Ledger, HeldIsLedgered, Steps
<1>4. ArchivedIsDead'
  BY <1>0, ChainAssumption DEF ArchivedIsDead, Alive
<1>5. SigIsUnique'
  BY <1>0, ChainAssumption DEF SigIsUnique
<1>6. HeldIsLedgered'
  BY <1>0, ChainAssumption DEF HeldIsLedgered, Ledger, Steps
<1>7. ProofsHold'
  BY <1>0, ChainAssumption DEF ProofsHold, Alive
<1>8. ReportsAreTrue'
  BY <1>0, ChainAssumption DEF ReportsAreTrue
<1> QED
  BY <1>1, <1>2, <1>3, <1>4, <1>5, <1>6, <1>7, <1>8

\* A transaction that is on chain is one of the intent it was signed for.
LEMMA ConfirmKeepsInv ==
  ASSUME IntentInv, NEW c \in Calls, Confirm(c)
  PROVE  IntentInv'
<1>0. IntentOf[c] \in Intents
  BY ChainAssumption
<1>a. held[c] \in landed => held[c] \in sent[IntentOf[c]] \cup stale
  BY <1>0, LandedIsOwn DEF IntentInv, HeldIsLedgered, Confirm, Steps
<1> USE DEF IntentInv, TypeOK, Confirm, Goes, rowVars, chainVars, historyVars
<1>1. (SignedHasSig /\ SentIsLedgered /\ ArchivedIsDead /\ SigIsUnique)'
  BY DEF SignedHasSig, SentIsLedgered, ArchivedIsDead, SigIsUnique, Ledger, Alive
<1>2. TypeOK'
  BY <1>0 DEF Steps
<1>3. HeldIsLedgered'
  BY <1>0 DEF HeldIsLedgered, Ledger, Steps
<1>4. ProofsHold'
  BY <1>0 DEF ProofsHold, Alive
<1>5. ReportsAreTrue'
  BY <1>0, <1>a DEF ReportsAreTrue, Resolves
<1> QED
  BY <1>1, <1>2, <1>3, <1>4, <1>5

\* The same, asked after an error.
LEMMA RecoverKeepsInv ==
  ASSUME IntentInv, NEW c \in Calls, Recover(c)
  PROVE  IntentInv'
<1>0. IntentOf[c] \in Intents
  BY ChainAssumption
<1>a. held[c] \in landed => held[c] \in sent[IntentOf[c]] \cup stale
  BY <1>0, LandedIsOwn DEF IntentInv, HeldIsLedgered, Recover, Steps
<1> USE DEF IntentInv, TypeOK, Recover, Goes, rowVars, chainVars, historyVars
<1>1. (SignedHasSig /\ SentIsLedgered /\ ArchivedIsDead /\ SigIsUnique)'
  BY DEF SignedHasSig, SentIsLedgered, ArchivedIsDead, SigIsUnique, Ledger, Alive
<1>2. TypeOK'
  BY <1>0 DEF Presence, Steps, Answers
<1>3. HeldIsLedgered'
  BY <1>0 DEF HeldIsLedgered, Ledger, Steps
<1>4. ProofsHold'
  BY <1>0 DEF ProofsHold, Presence, Alive
<1>5. ReportsAreTrue'
  BY <1>0, <1>a DEF ReportsAreTrue, Presence
<1> QED
  BY <1>1, <1>2, <1>3, <1>4, <1>5

\* Confirming keeps the signature.
LEMMA RecordConfirmedKeepsInv ==
  ASSUME IntentInv, NEW c \in Calls, RecordConfirmed(c)
  PROVE  IntentInv'
<1>0. IntentOf[c] \in Intents
  BY ChainAssumption
<1> USE DEF IntentInv, TypeOK, RecordConfirmed, Goes, rowVars, chainVars, historyVars
<1>1. TypeOK'
  BY <1>0 DEF Answers
<1>2. SignedHasSig'
  BY <1>0 DEF SignedHasSig
<1>3. SentIsLedgered'
  BY <1>0 DEF SentIsLedgered, Ledger
<1>4. ArchivedIsDead'
  BY <1>0 DEF ArchivedIsDead, Alive
<1>5. SigIsUnique'
  BY <1>0 DEF SigIsUnique
<1>6. HeldIsLedgered'
  BY <1>0 DEF HeldIsLedgered, Ledger, Steps
<1>7. ProofsHold'
  BY <1>0 DEF ProofsHold, Alive
<1>8. ReportsAreTrue'
  BY <1>0 DEF ReportsAreTrue
<1> QED
  BY <1>1, <1>2, <1>3, <1>4, <1>5, <1>6, <1>7, <1>8

\* A confirmed row is asked again.
LEMMA ReverifyKeepsInv ==
  ASSUME IntentInv, NEW c \in Calls, Reverify(c)
  PROVE  IntentInv'
<1>0. IntentOf[c] \in Intents
  BY ChainAssumption
<1>a. held[c] \in landed => held[c] \in sent[IntentOf[c]] \cup stale
  BY <1>0, LandedIsOwn DEF IntentInv, HeldIsLedgered, Reverify, Steps
<1> USE DEF IntentInv, TypeOK, Reverify, Goes, rowVars, chainVars, historyVars
<1>1. (SignedHasSig /\ SentIsLedgered /\ ArchivedIsDead /\ SigIsUnique)'
  BY DEF SignedHasSig, SentIsLedgered, ArchivedIsDead, SigIsUnique, Ledger, Alive
<1>2. TypeOK'
  BY <1>0 DEF Presence, Answers
<1>3. HeldIsLedgered'
  BY <1>0 DEF HeldIsLedgered, Ledger, Steps
<1>4. ProofsHold'
  BY <1>0 DEF ProofsHold, Presence, Alive
<1>5. ReportsAreTrue'
  BY <1>0, <1>a DEF ReportsAreTrue, Presence
<1> QED
  BY <1>1, <1>2, <1>3, <1>4, <1>5

\* The probe proves that the signature is not on chain.
LEMMA ProbeKeepsInv ==
  ASSUME IntentInv, NEW c \in Calls, Probe(c)
  PROVE  IntentInv'
<1>0. IntentOf[c] \in Intents
  BY ChainAssumption
<1>a. held[c] \in landed => held[c] \in sent[IntentOf[c]] \cup stale
  BY <1>0, LandedIsOwn DEF IntentInv, HeldIsLedgered, Probe, Steps
<1> USE DEF IntentInv, TypeOK, Probe, Goes, rowVars, chainVars, historyVars
<1>1. (SignedHasSig /\ SentIsLedgered /\ ArchivedIsDead /\ SigIsUnique)'
  BY DEF SignedHasSig, SentIsLedgered, ArchivedIsDead, SigIsUnique, Ledger, Alive
<1>2. TypeOK'
  BY <1>0 DEF Presence, Steps, Answers
<1>3. HeldIsLedgered'
  BY <1>0 DEF HeldIsLedgered, Ledger, Steps
<1>4. ProofsHold'
  BY <1>0 DEF ProofsHold, Presence, Alive, SentIsLedgered
<1>5. ReportsAreTrue'
  BY <1>0, <1>a DEF ReportsAreTrue, Presence
<1> QED
  BY <1>1, <1>2, <1>3, <1>4, <1>5

\* The height proves that it never will be.
LEMMA ReadHeightKeepsInv ==
  ASSUME IntentInv, NEW c \in Calls, ReadHeight(c)
  PROVE  IntentInv'
<1>0. IntentOf[c] \in Intents
  BY ChainAssumption
<1> USE DEF IntentInv, TypeOK, ReadHeight, Goes, rowVars, chainVars, historyVars
<1>1. (SignedHasSig /\ SentIsLedgered /\ ArchivedIsDead /\ SigIsUnique)'
  BY DEF SignedHasSig, SentIsLedgered, ArchivedIsDead, SigIsUnique, Ledger, Alive
<1>2. TypeOK'
  BY <1>0 DEF Steps, Answers
<1>3. HeldIsLedgered'
  BY <1>0 DEF HeldIsLedgered, Ledger, Steps
<1>4. ProofsHold'
  BY <1>0, ChainAssumption DEF ProofsHold, Expired, Steps, Alive, HeldIsLedgered
<1>5. ReportsAreTrue'
  BY <1>0 DEF ReportsAreTrue
<1> QED
  BY <1>1, <1>2, <1>3, <1>4, <1>5

\* What is archived is dead and not on chain.
LEMMA ReclaimKeepsInv ==
  ASSUME IntentInv, NEW c \in Calls, Reclaim(c)
  PROVE  IntentInv'
<1>0. IntentOf[c] \in Intents
  BY ChainAssumption
<1> USE DEF IntentInv, TypeOK, Reclaim, Goes, rowVars, chainVars, historyVars
<1>1. TypeOK'
  <2>1. sig[IntentOf[c]] = held[c] => sig[IntentOf[c]] \in Nat
    BY <1>0 DEF HeldIsLedgered, Steps
  <2>2. UNCHANGED expired \/ expired' \in [Intents -> SUBSET Nat]
    BY <1>0, <2>1
  <2> QED
    BY <1>0, <2>2 DEF Steps, Answers
<1>2. SignedHasSig'
  BY <1>0, ChainAssumption DEF SignedHasSig
<1>3. SentIsLedgered'
  BY <1>0, ChainAssumption DEF SentIsLedgered, Ledger
<1>4. ArchivedIsDead'
  BY <1>0, ChainAssumption DEF ArchivedIsDead, Alive, ProofsHold
<1>5. SigIsUnique'
  BY <1>0, ChainAssumption DEF SigIsUnique
<1>6. HeldIsLedgered'
  BY <1>0, ChainAssumption DEF HeldIsLedgered, Ledger, Steps
<1>7. ProofsHold'
  BY <1>0, ChainAssumption DEF ProofsHold, Alive
<1>8. ReportsAreTrue'
  BY <1>0, ChainAssumption DEF ReportsAreTrue
<1> QED
  BY <1>1, <1>2, <1>3, <1>4, <1>5, <1>6, <1>7, <1>8

\* A dead call does nothing.
LEMMA DiesKeepsInv ==
  ASSUME IntentInv, NEW c \in Calls, Dies(c)
  PROVE  IntentInv'
<1>0. IntentOf[c] \in Intents
  BY ChainAssumption
<1> USE DEF IntentInv, TypeOK, Dies, Goes, rowVars, chainVars, historyVars
<1>1. (SignedHasSig /\ SentIsLedgered /\ ArchivedIsDead /\ SigIsUnique)'
  BY DEF SignedHasSig, SentIsLedgered, ArchivedIsDead, SigIsUnique, Ledger, Alive
<1>2. TypeOK'
  BY <1>0
<1>3. HeldIsLedgered'
  BY <1>0 DEF HeldIsLedgered, Ledger, Steps
<1>4. ProofsHold'
  BY <1>0 DEF ProofsHold, Alive
<1>5. ReportsAreTrue'
  BY <1>0 DEF ReportsAreTrue
<1> QED
  BY <1>1, <1>2, <1>3, <1>4, <1>5

\* Every step of the specification keeps the invariant.
LEMMA StepKeepsInv ==
  IntentInv /\ [Next]_vars => IntentInv'
<1> SUFFICES ASSUME IntentInv, [Next]_vars PROVE IntentInv'
  OBVIOUS
<1>1. CASE UNCHANGED vars
  BY <1>1 DEF IntentInv, TypeOK, SignedHasSig, SentIsLedgered, ArchivedIsDead, SigIsUnique,
     HeldIsLedgered, ProofsHold, ReportsAreTrue, Ledger, Alive, vars, rowVars, chainVars, historyVars
<1>2. CASE NewBlock
  BY <1>2, NewBlockKeepsInv
<1>3. ASSUME NEW i \in Intents, NEW s \in sent[i], Land(i, s) PROVE IntentInv'
  BY <1>3, LandKeepsInv
<1>4. ASSUME NEW i \in Intents, LeaseRunsOut(i) PROVE IntentInv'
  BY <1>4, LeaseRunsOutKeepsInv
<1>5. ASSUME NEW c \in Calls, CallNext(c) PROVE IntentInv'
  BY <1>5, ClaimKeepsInv, SignKeepsInv, RecordSignedKeepsInv, SendKeepsInv, ConfirmKeepsInv,
     RecoverKeepsInv, RecordConfirmedKeepsInv, ReverifyKeepsInv, ProbeKeepsInv,
     ReadHeightKeepsInv, ReclaimKeepsInv, DiesKeepsInv DEF CallNext
<1> QED
  BY <1>1, <1>2, <1>3, <1>4, <1>5 DEF Next

\* The invariant holds in every reachable state.
THEOREM LedgerInvariant == Spec => []IntentInv
<1>1. Init => IntentInv
  BY InitInv
<1>2. IntentInv /\ [Next]_vars => IntentInv'
  BY StepKeepsInv
<1> QED
  BY <1>1, <1>2, PTL DEF Spec

\* PaidTwiceOnlyIfStale, for any number of calls, retries and expired signatures: no intent
\* is paid twice but behind a probe that was told a stale absence.
THEOREM IntentIsPaidOnce == Spec => []PaidTwiceOnlyIfStale
<1>1. ASSUME IntentInv PROVE PaidTwiceOnlyIfStale
  BY <1>1 DEF IntentInv, SentIsLedgered, ArchivedIsDead, Ledger, PaidTwiceOnlyIfStale
<1> QED
  BY <1>1, LedgerInvariant, PTL

\* One transfer is the payment of two intents only if the first was freed on a stale absence.
THEOREM TransferIsOwned == Spec => []OneTransferEach
<1>1. ASSUME IntentInv PROVE OneTransferEach
  BY <1>1, ChainAssumption
  DEF IntentInv, TypeOK, SentIsLedgered, ArchivedIsDead, SigIsUnique, Ledger, OneTransferEach
<1> QED
  BY <1>1, LedgerInvariant, PTL

\* A success without a transfer on chain is one whose confirmation was an error.
THEOREM SuccessIsPaid == Spec => []FalseSuccessIsTrusted
<1>1. ASSUME IntentInv PROVE FalseSuccessIsTrusted
  BY <1>1 DEF IntentInv, ReportsAreTrue, FalseSuccessIsTrusted
<1> QED
  BY <1>1, LedgerInvariant, PTL

\* Invariant I2: behind a claimed row nothing can get on chain any more, and nothing is there
\* but what a probe was told absent.
THEOREM ClaimedIsUnsent == Spec => []ClaimedMeansUnsent
<1>1. ASSUME IntentInv PROVE ClaimedMeansUnsent
  BY <1>1, ChainAssumption
  DEF IntentInv, TypeOK, SignedHasSig, SentIsLedgered, ArchivedIsDead, Ledger, ClaimedMeansUnsent
<1> QED
  BY <1>1, LedgerInvariant, PTL

-----------------------------------------------------------------------------
(* The inbound direction: SolanaInbound, for any number of requests and of  *)
(* challenges, any quotes and prices.                                       *)

InboundSteps ==
  {"check", "peek", "probe", "observe", "consume", "spend", "answer", "granted", "denied"}

\* What is concluded from one provider, or from two.
Conclusion(c, one, two, partial) ==
  LET p == InboundPresence(one, c)  b == Binding(one, c, partial)
  IN  IF two = NoRow THEN Proven(p, b)
      ELSE Proven(CombineInboundPresence(p, InboundPresence(two, c)),
                  CombineInboundBinding(b, Binding(two, c, FALSE)))

LEMMA VerdictIsConcluded ==
  ASSUME NEW c \in Challenges, NEW proven \in Verdicts(c)
  PROVE  /\ proven \in BOOLEAN
         /\ \E one \in Views, two \in Views \cup {NoRow}, partial \in BOOLEAN :
              proven = Conclusion(c, one, two, partial)
<1>1. Verdicts(c) =
        {Conclusion(c, one, two, partial) :
           one \in Views, two \in Views \cup {NoRow}, partial \in BOOLEAN}
  BY DEF Verdicts, Conclusion
<1>2. PICK one \in Views, two \in Views \cup {NoRow}, partial \in BOOLEAN :
        proven = Conclusion(c, one, two, partial)
  BY <1>1
<1>3. Conclusion(c, one, two, partial) \in BOOLEAN
  BY DEF Conclusion, Proven
<1>. QED
  BY <1>2, <1>3, Zenon

\* Whatever one or two nodes answer, and however stale, a verdict that counts as proof is
\* one the chain bears out.
LEMMA VerdictIsTrue ==
  ASSUME NEW c \in Challenges, TRUE \in Verdicts(c)
  PROVE  Pays(c)
<1>0. PICK one \in Views, two \in Views \cup {NoRow}, partial \in BOOLEAN :
        TRUE = Conclusion(c, one, two, partial)
  BY VerdictIsConcluded
<1>1. IF two = NoRow THEN Proven(InboundPresence(one, c), Binding(one, c, partial))
      ELSE Proven(
             CombineInboundPresence(InboundPresence(one, c), InboundPresence(two, c)),
             CombineInboundBinding(Binding(one, c, partial), Binding(two, c, FALSE)))
  BY <1>0 DEF Conclusion
<1>2. ASSUME NEW view \in Views, InboundPresence(view, c) = "finalized_ok"
      PROVE  transfer = "final" /\ amount >= Quote[c]
  BY <1>2 DEF Views, InboundPresence
<1>3. ASSUME NEW view, NEW partly, Binding(view, c, partly) = "bound"
      PROVE  c \in refs \cap inWindow
  BY <1>3 DEF Binding
<1>4. CASE two = NoRow
  BY <1>1, <1>2, <1>3, <1>4 DEF Proven, Pays
<1>5. CASE two # NoRow
  <2>1. /\ CombineInboundPresence(InboundPresence(one, c), InboundPresence(two, c))
              = "finalized_ok"
        /\ CombineInboundBinding(Binding(one, c, partial), Binding(two, c, FALSE)) = "bound"
    BY <1>1, <1>5 DEF Proven
  <2>2. \/ InboundPresence(one, c) = "finalized_ok"
        \/ InboundPresence(two, c) = "finalized_ok"
    BY <2>1 DEF CombineInboundPresence
  <2>3. \/ Binding(one, c, partial) = "bound"
        \/ Binding(two, c, FALSE) = "bound"
    BY <2>1 DEF CombineInboundBinding
  <2>. QED
    BY <1>2, <1>3, <1>5, <2>2, <2>3 DEF Pays
<1>. QED
  BY <1>4, <1>5

\* What a step of one request may do to the others' share of the invariant: nothing.
InboundStep(r, step) ==
  /\ stage' = [stage EXCEPT ![r] = step]
  /\ UNCHANGED <<transfer, amount, refs, inWindow, lapsed, shown, timedOut>>

\* A request that moves on, with the row as it is.
LEMMA InboundGoes ==
  ASSUME InboundInv, NEW r \in Requests, NEW step \in InboundSteps \ {"answer", "granted"},
         InboundStep(r, step), UNCHANGED <<row, unsure, caught>>,
         stage[r] \notin {"answer", "granted", "denied"},
         step = "observe" => Pays(shown[r]),
         step \in {"consume", "spend"} => SameTerms(r),
         step = "spend" => r \notin timedOut,
         step \notin {"check", "denied"} => Covers(r)
  PROVE  InboundInv'
<1>. USE DEF InboundInv, InboundTypeOK, InboundStep, InboundSteps
<1>1. InboundTypeOK'
  OBVIOUS
<1>2. \A q \in Requests : stage'[q] = IF q = r THEN step ELSE stage[q]
  OBVIOUS
<1>3. VerdictsAreProven'
  BY <1>2 DEF VerdictsAreProven, Pays, SameTerms, Covers
<1>4. Winners' = Winners
  BY <1>2 DEF Winners
<1>5. ServedFromRow'
  BY <1>4 DEF ServedFromRow, Spent
<1>6. BurntOnlyInFlight'
  BY <1>4 DEF BurntOnlyInFlight, Spent
<1>7. CaughtInFlight'
  BY <1>2 DEF CaughtInFlight
<1>. QED
  BY <1>1, <1>3, <1>5, <1>6, <1>7

LEMMA InboundObserve ==
  ASSUME InboundInv, NEW r \in Requests, Observe(r)
  PROVE  InboundInv'
<1>. USE DEF Observe, Goto, Deny, chain
<1>0. Pays(shown[r]) /\ Covers(r)
  BY DEF InboundInv, VerdictsAreProven
<1>1. CASE row = NoRow /\ row' # row
  <2>. USE InboundAssumption DEF InboundInv, InboundTypeOK, Rows
  <2>1. PICK step \in {"consume", "denied"} : stage' = [stage EXCEPT ![r] = step]
    BY <1>1
  <2>2. row' = [terms |-> shown[r], status |-> "observed"] /\ row' # NoRow
    BY <1>1
  <2>3. \A q \in Requests : stage'[q] = IF q = r THEN step ELSE stage[q]
    BY <2>1
  <2>4. InboundTypeOK'
    BY <2>1, <2>2
  <2>5. VerdictsAreProven'
    BY <1>0, <1>1, <2>2, <2>3
       DEF VerdictsAreProven, Pays, SameTerms, Covers
  <2>6. Winners' = Winners
    BY <2>3 DEF Winners
  <2>7. ~Spent /\ ~Spent'
    BY <1>1, <2>2 DEF Spent
  <2>8. CaughtInFlight'
    BY <2>3 DEF CaughtInFlight
  <2>. QED
    BY <2>4, <2>5, <2>6, <2>7, <2>8 DEF ServedFromRow, BurntOnlyInFlight
<1>2. CASE row' = row
  <2>1. \E step \in {"consume", "denied"} :
           InboundStep(r, step) /\ (step = "consume" => SameTerms(r))
    <3>1. CASE row = NoRow
      <4>1. [terms |-> shown[r], status |-> "observed"] # NoRow
        BY InboundAssumption DEF InboundInv, InboundTypeOK, Rows
      <4>2. InboundStep(r, "denied")
        BY <1>2, <3>1, <4>1 DEF InboundStep
      <4>. QED
        BY <4>2
    <3>2. CASE row # NoRow
      BY <1>2, <3>2 DEF InboundStep
    <3>. QED
      BY <3>1, <3>2
  <2>. QED
    BY <1>0, <1>2, <2>1, InboundGoes DEF InboundSteps
<1>. QED
  BY <1>1, <1>2

\* The spending call is made for a request that was not answered yet.
LEMMA InboundConsume ==
  ASSUME InboundInv, NEW r \in Requests, Consume(r)
  PROVE  InboundInv'
<1>1. SameTerms(r) /\ Covers(r)
  BY DEF Consume, InboundInv, VerdictsAreProven
<1>2. PICK step \in {"spend", "denied"} :
        InboundStep(r, step) /\ (step = "spend" => r \notin timedOut)
  BY DEF Consume, Answered, Goto, Deny, chain, InboundStep
<1>. QED
  BY <1>1, <1>2, InboundGoes DEF Consume, InboundSteps

\* The row goes to one request: the next one finds it consumed.
LEMMA InboundSpend ==
  ASSUME InboundInv, NEW r \in Requests, Spend(r)
  PROVE  InboundInv'
<1>. USE DEF Spend, Goto, Deny, chain
<1>1. CASE InboundStep(r, "denied") /\ UNCHANGED <<row, unsure>>
  BY <1>1, InboundGoes DEF InboundSteps
<1>2. CASE /\ Consumable(r)
           /\ row' = [row EXCEPT !.status = "consumed"]
           /\ \/ InboundStep(r, "answer") /\ UNCHANGED unsure
              \/ InboundStep(r, "denied") /\ unsure' = unsure \cup {r}
  <2>. USE InboundAssumption DEF InboundInv, InboundTypeOK, Rows, InboundStep
  <2>1. /\ row \in Rows /\ row # NoRow /\ row.terms = shown[r] /\ ~Spent
        /\ r \in timedOut => r \in caught
    BY <1>2 DEF Consumable, SameTerms, CaughtInFlight
  <2>2. Winners = {} /\ unsure = {}
    BY <2>1 DEF ServedFromRow
  <2>3. /\ row' = [terms |-> row.terms, status |-> "consumed"] /\ row' # NoRow
        /\ row'.terms = row.terms /\ Spent'
    BY <1>2, <2>1 DEF Spent
  <2>4. PICK step \in {"answer", "denied"} :
           /\ stage' = [stage EXCEPT ![r] = step]
           /\ \A q \in Requests : stage'[q] = IF q = r THEN step ELSE stage[q]
           /\ step = "denied" => r \in unsure'
    BY <1>2
  <2>5. InboundTypeOK'
    <3>1. row' \in Rows
      BY <2>1, <2>3
    <3>2. unsure' \subseteq Requests
      BY <1>2
    <3>. QED
      BY <2>4, <3>1, <3>2
  <2>6. VerdictsAreProven'
    BY <1>2, <2>1, <2>3, <2>4
       DEF VerdictsAreProven, Pays, SameTerms, Covers
  <2>7. Winners' \subseteq {r} /\ (step = "answer" => r \in Winners')
    BY <2>2, <2>4 DEF Winners
  <2>8. UNCHANGED <<timedOut, caught>>
    BY <1>2
  <2>9. BurntOnlyInFlight'
    BY <2>1, <2>4, <2>7, <2>8 DEF BurntOnlyInFlight
  <2>10. ServedFromRow'
    BY <2>3, <2>7 DEF ServedFromRow
  <2>11. CaughtInFlight'
    BY <2>1, <2>4, <2>8 DEF CaughtInFlight
  <2>. QED
    BY <2>5, <2>6, <2>9, <2>10, <2>11
<1>. QED
  BY <1>1, <1>2 DEF InboundStep

\* Granting moves nothing but the request that spent the proof.
LEMMA InboundGrant ==
  ASSUME InboundInv, NEW r \in Requests, Grant(r)
  PROVE  InboundInv'
<1>. USE DEF InboundInv, Grant, Goto, chain
<1>1. InboundTypeOK'
  BY DEF InboundTypeOK
<1>2. \A q \in Requests : stage'[q] = IF q = r THEN "granted" ELSE stage[q]
  BY DEF InboundTypeOK
<1>3. VerdictsAreProven'
  BY <1>2 DEF VerdictsAreProven, Pays, SameTerms, Covers
<1>4. Winners' = Winners
  BY <1>2 DEF Winners
<1>5. ServedFromRow' /\ BurntOnlyInFlight'
  BY <1>4 DEF ServedFromRow, BurntOnlyInFlight, Spent
<1>6. CaughtInFlight'
  BY <1>2 DEF CaughtInFlight
<1>. QED
  BY <1>1, <1>3, <1>5, <1>6

\* The chain and the clock: a final transfer stays final, and the requests do not move.
LEMMA InboundChain ==
  ASSUME InboundInv,
         TransferLands \/ Finalize \/ \E c \in Challenges : Expire(c)
  PROVE  InboundInv'
<1>. USE DEF InboundInv, TransferLands, Finalize, Expire
<1>1. UNCHANGED <<amount, refs, row, stage, shown, timedOut, unsure, caught>>
  OBVIOUS
<1>2. transfer = "final" => UNCHANGED <<transfer, inWindow>>
  OBVIOUS
<1>3. InboundTypeOK'
  BY DEF InboundTypeOK
<1>4. \A c : Pays(c) => Pays(c)'
  BY <1>1, <1>2 DEF Pays
<1>5. VerdictsAreProven'
  BY <1>1, <1>4 DEF VerdictsAreProven, SameTerms, Covers
<1>6. ServedFromRow' /\ BurntOnlyInFlight' /\ CaughtInFlight'
  BY <1>1 DEF ServedFromRow, BurntOnlyInFlight, CaughtInFlight, Spent, Winners
<1>. QED
  BY <1>3, <1>5, <1>6

LEMMA InboundTimeOut ==
  ASSUME InboundInv, NEW r \in Requests, TimeOut(r)
  PROVE  InboundInv'
<1>. USE DEF InboundInv, TimeOut, chain
<1>1. InboundTypeOK'
  BY DEF InboundTypeOK
<1>2. VerdictsAreProven' /\ ServedFromRow'
  BY DEF VerdictsAreProven, ServedFromRow, Spent, Winners, SameTerms, Covers, Pays
<1>3. CaughtInFlight'
  BY DEF CaughtInFlight, InboundTypeOK
<1>4. BurntOnlyInFlight'
  <2>1. \A q \in Winners : (q \in timedOut => q \in caught)
                            => (q \in timedOut' => q \in caught')
    BY DEF Winners
  <2>. QED
    BY <2>1 DEF BurntOnlyInFlight, Spent, Winners
<1>. QED
  BY <1>1, <1>2, <1>3, <1>4

LEMMA InboundNextKeepsInv == InboundInv /\ [InboundNext]_inboundVars => InboundInv'
<1>. SUFFICES ASSUME InboundInv, [InboundNext]_inboundVars
              PROVE  InboundInv'
  OBVIOUS
<1>1. CASE UNCHANGED inboundVars
  BY <1>1 DEF inboundVars, InboundInv, InboundTypeOK, VerdictsAreProven,
              ServedFromRow, BurntOnlyInFlight, CaughtInFlight,
              Spent, Winners, SameTerms, Covers, Pays
<1>2. ASSUME NEW r \in Requests, Check(r)
      PROVE  InboundInv'
  <2>1. PICK step \in {"peek", "denied"} :
           InboundStep(r, step) /\ (step = "peek" => Covers(r))
    BY <1>2 DEF Check, Goto, Deny, chain, InboundStep
  <2>. QED
    BY <1>2, <2>1, InboundGoes DEF Check, InboundSteps
<1>3. ASSUME NEW r \in Requests, Peek(r)
      PROVE  InboundInv'
  <2>1. PICK step \in {"probe", "consume", "denied"} :
           InboundStep(r, step) /\ (step = "consume" => SameTerms(r))
    BY <1>3 DEF Peek, Goto, Deny, chain, InboundStep
  <2>2. Covers(r)
    BY <1>3 DEF Peek, InboundInv, VerdictsAreProven
  <2>. QED
    BY <1>3, <2>1, <2>2, InboundGoes DEF Peek, InboundSteps
<1>4. ASSUME NEW r \in Requests, ProbeTransfer(r)
      PROVE  InboundInv'
  <2>1. PICK proven \in Verdicts(shown[r]) :
           IF proven THEN Goto(r, "observe") ELSE Deny(r)
    BY <1>4 DEF ProbeTransfer
  <2>2. shown[r] \in Challenges /\ Covers(r)
    BY <1>4 DEF ProbeTransfer, InboundInv, InboundTypeOK, VerdictsAreProven
  <2>3. proven \in BOOLEAN
    BY <2>2, VerdictIsConcluded
  <2>4. proven => Pays(shown[r])
    BY <2>1, <2>2, <2>3, VerdictIsTrue
  <2>5. InboundStep(r, IF proven THEN "observe" ELSE "denied")
    BY <1>4, <2>1 DEF ProbeTransfer, Goto, Deny, chain, InboundStep
  <2>. QED
    BY <1>4, <2>2, <2>4, <2>5, InboundGoes DEF ProbeTransfer, InboundSteps
<1>. QED
  BY <1>1, <1>2, <1>3, <1>4, InboundObserve, InboundConsume, InboundSpend, InboundGrant,
     InboundChain, InboundTimeOut
     DEF InboundNext

LEMMA InboundInitInv == InboundInit => InboundInv
BY InboundAssumption
   DEF InboundInit, InboundInv, InboundTypeOK,
       VerdictsAreProven, ServedFromRow, CaughtInFlight,
       BurntOnlyInFlight, Spent, Winners

\* In every reachable state the table of proofs, and every request about to write it, holds
\* only what the chain bears out, and at most one request was served from it.
THEOREM InboundInvariant == InboundSpec => []InboundInv
<1>1. InboundInit => InboundInv
  BY InboundInitInv
<1>2. InboundInv /\ [InboundNext]_inboundVars => InboundInv'
  BY InboundNextKeepsInv
<1>. QED
  BY <1>1, <1>2, PTL DEF InboundSpec

\* One inbound transfer is good for one request, whichever of its challenges are shown.
THEOREM InboundServedOnce == InboundSpec => []ServedOncePerTransfer
<1>1. InboundInv => ServedOncePerTransfer
  BY DEF InboundInv, ServedFromRow, ServedOncePerTransfer, Granted, Winners
<1>. QED
  BY <1>1, InboundInvariant, PTL

\* Whoever is served showed a challenge that the final transfer paid, at today's price.
THEOREM InboundGrantIsPaid == InboundSpec => []GrantMeansPaid
<1>1. InboundInv => GrantMeansPaid
  <2>. SUFFICES ASSUME InboundInv, NEW r \in Granted
                PROVE  transfer = "final" /\ amount >= Need[r] /\ shown[r] \in refs \cap inWindow
    BY DEF GrantMeansPaid
  <2>1. r \in Requests /\ stage[r] = "granted"
    BY DEF Granted
  <2>2. Pays(shown[r]) /\ Quote[shown[r]] >= Need[r]
    BY <2>1 DEF InboundInv, VerdictsAreProven, SameTerms, Covers
  <2>3. amount \in Nat /\ Quote[shown[r]] \in Nat /\ Need[r] \in Nat
    BY <2>1, InboundAssumption DEF InboundInv, InboundTypeOK
  <2>. QED
    BY <2>2, <2>3 DEF Pays
<1>. QED
  BY <1>1, InboundInvariant, PTL

\* A proof is spent on a request answered 504 only when that answer went out while the
\* spending call was under way.
THEOREM InboundSpentServes == InboundSpec => []BurntOnlyInFlight
<1>1. InboundInv => BurntOnlyInFlight
  BY DEF InboundInv
<1>. QED
  BY <1>1, InboundInvariant, PTL
=============================================================================
