----------------------------- MODULE BudgetLedger -----------------------------
(***************************************************************************)
(* The prepaid budget of one agent key on one chain: deposits, debits and  *)
(* refunds, with the key's daily limit, the total of each delegation or    *)
(* key-session under it, and the spend policies per destination.  Every    *)
(* operation is one Postgres function holding the key's row lock, so it is *)
(* one step; a refused debit aborts and changes nothing.  What interleaves *)
(* is time: a refund may arrive long after its debit (a session closed the *)
(* next day, the outbox), through the key alone or through the child.      *)
(***************************************************************************)
EXTENDS Integers, FiniteSets, Functions

CONSTANTS
    Payments,     \* debits a caller may make
    Amount,       \* the price of each
    Children,     \* delegations and key-sessions of the key
    Master,       \* paid by the key itself
    Payer,        \* who makes each payment: a child or Master
    Destinations, \* "<registry>/<slug>"
    Goal,         \* where each payment goes
    Deposits,     \* verified on-chain deposits
    DepositOf,    \* the amount of each
    DailyLimit,   \* daily_limit_usd
    ChildMax,     \* max_total_amount or max_budget_usd
    Cap,          \* max_usd of a spend policy
    Window,       \* window_secs of a rolling policy, in ticks
    Day,          \* 24 hours, in ticks
    Horizon       \* bound on the clock

ASSUME SetsAssumption ==
    /\ IsFiniteSet(Payments) /\ Master \notin Children
    /\ Payer \in [Payments -> Children \cup {Master}]
    /\ Goal \in [Payments -> Destinations]
ASSUME AmountsAssumption ==
    /\ Amount \in [Payments -> Nat \ {0}]
    /\ DepositOf \in [Deposits -> Nat]
    /\ DailyLimit \in Nat /\ ChildMax \in Nat /\ Cap \in Nat
    /\ Window \in Nat \ {0} /\ Day \in Nat \ {0} /\ Horizon \in Nat

VARIABLES
    now,         \* the clock
    active,      \* a2a_agent_keys.is_active
    budget,      \* its balance on this chain
    dailySpent,  \* daily_spent_usd
    resetDay,    \* the day whose end daily_reset_at is
    spent,       \* total_spent or spent_usd of each child
    open,        \* children neither revoked nor expired
    policy,      \* per destination: "none", "total" or "rolling"
    seen,        \* a2a_key_deposits
    debited,     \* payments whose debit committed
    back,        \* what each payment's refund returned; 0 before it
    debitRow,    \* when its row of a2a_key_dest_spend_ledger was written, or Never
    refundRow,   \* when its negative row was written, or Never
    day,         \* the day of each debit
    today,       \* debits of the current day less their refunds
    carried,     \* refunds, in the current day, of debits of earlier days
    net          \* net spending of each child

keyVars == <<active, budget, dailySpent, resetDay>>
rowVars == <<debitRow, refundRow>>
historyVars == <<day, today, carried, net>>
vars == <<now, keyVars, spent, open, policy, seen, debited, back, rowVars, historyVars>>

Never == -1

TypeOK ==
    /\ now \in Nat /\ active \in BOOLEAN
    /\ budget \in Nat /\ dailySpent \in Nat /\ resetDay \in Int
    /\ spent \in [Children -> Nat] /\ open \subseteq Children
    /\ policy \in [Destinations -> {"none", "total", "rolling"}]
    /\ seen \subseteq Deposits /\ debited \subseteq Payments
    /\ back \in [Payments -> Nat]
    /\ debitRow \in [Payments -> Nat \cup {Never}]
    /\ refundRow \in [Payments -> Nat \cup {Never}]
    /\ day \in [Payments -> Nat]
    /\ today \in Int /\ carried \in Nat /\ net \in [Children -> Int]

Init ==
    /\ now = 0 /\ active = TRUE /\ budget = 0 /\ dailySpent = 0 /\ resetDay = -1
    /\ spent = [c \in Children |-> 0] /\ open = Children
    /\ policy \in [Destinations -> {"none", "total", "rolling"}]
    /\ seen = {} /\ debited = {} /\ back = [p \in Payments |-> 0]
    /\ debitRow = [p \in Payments |-> Never]
    /\ refundRow = [p \in Payments |-> Never]
    /\ day = [p \in Payments |-> 0]
    /\ today = 0 /\ carried = 0 /\ net = [c \in Children |-> 0]

-----------------------------------------------------------------------------
(* register_a2a_key_deposit.                                                *)

\* UNIQUE (chain_id, tx_hash)
Uncredited(x) == x \notin seen

Deposit(x) ==
    /\ active
    /\ Uncredited(x)
    /\ seen' = seen \cup {x}
    /\ budget' = budget + DepositOf[x]
    /\ UNCHANGED <<now, active, dailySpent, resetDay, spent, open, policy, debited, back,
                   rowVars, historyVars>>

-----------------------------------------------------------------------------
(* The lazy daily reset of increment_a2a_key_spend: daily_reset_at always    *)
(* ends a day counted from the key's creation.                               *)

Today == now \div Day
ResetDue == resetDay < Today
\* advanced by 24 hours until it is not in the past
AdvancedOnce == IF ResetDue THEN resetDay + 1 ELSE resetDay
Advanced == IF ResetDue THEN Today ELSE resetDay
SpentToday == IF ResetDue THEN 0 ELSE dailySpent

(* The policy's accumulator: SUM(amount_usd) over the ledger's rows.        *)

InWindow(d, t) == t # Never /\ (policy[d] = "rolling" => t >= now - Window)

To(d) == {p \in Payments : Goal[p] = d}
Accumulated(d) ==
    SumFunctionOnSet(Amount, {p \in To(d) : InWindow(d, debitRow[p])})
    - SumFunctionOnSet(back, {p \in To(d) : InWindow(d, refundRow[p])})

UnderCapSoFar(p) == policy[Goal[p]] # "none" => Accumulated(Goal[p]) <= Cap
UnderCap(p) == policy[Goal[p]] # "none" => Accumulated(Goal[p]) + Amount[p] <= Cap

-----------------------------------------------------------------------------
(* debit_delegation_and_parent, debit_session_and_parent: the child's       *)
(* counter; debit_with_dest_policy: the cap; increment_a2a_key_spend.       *)

ChildAllowsSpent(p) == Payer[p] \in open
ChildAllows(p) ==
    Payer[p] # Master => Payer[p] \in open /\ spent[Payer[p]] + Amount[p] <= ChildMax

\* a function of the children, moved by a at the payer of p; nothing for the key itself
Moved(f, p, a) == [c \in Children |-> IF c = Payer[p] THEN f[c] + a ELSE f[c]]

Debit(p) ==
    /\ p \notin debited
    /\ active
    /\ ChildAllows(p)
    /\ UnderCap(p)
    /\ SpentToday + Amount[p] <= DailyLimit
    /\ Amount[p] <= budget
    /\ budget' = budget - Amount[p]
    /\ dailySpent' = SpentToday + Amount[p]
    /\ resetDay' = Advanced
    /\ spent' = Moved(spent, p, Amount[p])
    /\ debitRow' = [debitRow EXCEPT ![p] = IF policy[Goal[p]] = "none" THEN Never ELSE now]
    /\ debited' = debited \cup {p}
    /\ day' = [day EXCEPT ![p] = Today]
    /\ today' = today + Amount[p]
    /\ net' = Moved(net, p, Amount[p])
    /\ UNCHANGED <<now, active, open, policy, seen, back, refundRow, carried>>

-----------------------------------------------------------------------------
(* refund_delegation_and_parent, refund_session_and_parent,                 *)
(* refund_with_dest_policy, refund_a2a_key_spend.  The caller returns what  *)
(* was debited or less, once per idem_key.                                  *)

\* refund_idem_claim
ClaimedAlways(p) == TRUE
Claimed(p) == back[p] = 0

\* GREATEST(x, 0)
Clamped(x) == IF x < 0 THEN 0 ELSE x

\* through: the child's counter goes down too (creditDelegation, creditSession), or the
\* key alone is credited (credit, creditWithDest: the outbox)
ChildReturn(p, a, through) ==
    spent' = IF through
             THEN [c \in Children |-> IF c = Payer[p] THEN Clamped(spent[c] - a) ELSE spent[c]]
             ELSE spent

Refund(p, a, through) ==
    /\ p \in debited
    /\ Claimed(p)
    /\ budget' = budget + a
    /\ dailySpent' = Clamped(dailySpent - a)
    /\ ChildReturn(p, a, through)
    /\ back' = [back EXCEPT ![p] = a]
    /\ refundRow' = [refundRow EXCEPT ![p] = IF policy[Goal[p]] = "none" THEN Never ELSE now]
    /\ IF day[p] = Today THEN today' = today - a /\ UNCHANGED carried
                           ELSE carried' = carried + a /\ UNCHANGED today
    /\ net' = Moved(net, p, -a)
    /\ UNCHANGED <<now, active, resetDay, open, policy, seen, debited, debitRow, day>>

-----------------------------------------------------------------------------
(* Owners and time.                                                         *)

\* spendPolicyService.set and .delete
SetPolicy(d, w) ==
    /\ policy[d] # w
    /\ policy' = [policy EXCEPT ![d] = w]
    /\ UNCHANGED <<now, keyVars, spent, open, seen, debited, back, rowVars, historyVars>>

\* revoked_at, expires_at
CloseChild(c) ==
    /\ c \in open
    /\ open' = open \ {c}
    /\ UNCHANGED <<now, keyVars, spent, policy, seen, debited, back, rowVars, historyVars>>

Deactivate ==
    /\ active /\ active' = FALSE
    /\ UNCHANGED <<now, budget, dailySpent, resetDay, spent, open, policy, seen, debited, back,
                   rowVars, historyVars>>

Tick ==
    /\ now < Horizon
    /\ now' = now + 1
    /\ IF Today' = Today THEN UNCHANGED <<today, carried>> ELSE today' = 0 /\ carried' = 0
    /\ UNCHANGED <<keyVars, spent, open, policy, seen, debited, back, rowVars, day, net>>

Next ==
    \/ \E x \in Deposits : Deposit(x)
    \/ \E p \in Payments : Debit(p)
    \/ \E p \in Payments, through \in BOOLEAN : \E a \in 1..Amount[p] : Refund(p, a, through)
    \/ \E d \in Destinations, w \in {"none", "total", "rolling"} : SetPolicy(d, w)
    \/ \E c \in Children : CloseChild(c)
    \/ Deactivate
    \/ Tick

Spec == Init /\ [][Next]_vars

-----------------------------------------------------------------------------
(* What the ledger promises.                                                *)

\* Every deposit counts once, every refund at most once: the balance is what was
\* deposited less what was spent and not returned.
Kept == [p \in Payments |-> Amount[p] - back[p]]
BooksBalance == budget = SumFunctionOnSet(DepositOf, seen) - SumFunctionOnSet(Kept, debited)

\* The refund of an earlier day's debit lowers today's counter, so what a key spends in
\* one window is bounded by the limit and those refunds, and by nothing less.
DailyLimitUpToRefunds == dailySpent <= DailyLimit /\ today <= DailyLimit + carried

\* A delegation or session never spends past its total, whichever way its refunds
\* come back: its counter is never below what it really spent.
ChildSpendsWithinMax == \A c \in Children : net[c] <= spent[c] /\ spent[c] <= ChildMax

\* What went to a destination and counts under its policy, and what was returned of
\* debits the policy does not see (made before it, or older than its window).
Counts(d, p) == Goal[p] = d /\ InWindow(d, debitRow[p])
Outstanding(d) == SumFunctionOnSet(Kept, {p \in Payments : Counts(d, p)})
Overhang(d) ==
    SumFunctionOnSet(back, {p \in To(d) : ~Counts(d, p) /\ InWindow(d, refundRow[p])})

\* A refund row outlives its debit's row, or offsets a debit that has none: each debit
\* leaves a destination within its cap plus those refunds.
DebitsRespectTheCap ==
    [][\A p \in Payments : debited' = debited \cup {p} /\ debited' # debited
          /\ policy[Goal[p]] # "none"
       => Outstanding(Goal[p])' <= Cap + Overhang(Goal[p])']_vars

\* The inductive invariant of DailyLimitUpToRefunds and ChildSpendsWithinMax.
BudgetInv ==
    /\ TypeOK
    /\ DailyLimitUpToRefunds
    /\ resetDay <= Today /\ (IF ResetDue THEN today <= 0 ELSE today <= dailySpent + carried)
    /\ ChildSpendsWithinMax
    /\ \A p \in Payments : back[p] <= Amount[p]

\* With it, that of BooksBalance and DebitsRespectTheCap: nothing is returned, and no row
\* written, of a payment not debited.
MoneyInv ==
    /\ BudgetInv
    /\ IsFiniteSet(seen)
    /\ BooksBalance
    /\ \A p \in Payments : p \notin debited => back[p] = 0 /\ debitRow[p] = Never
                                                        /\ refundRow[p] = Never
=============================================================================
