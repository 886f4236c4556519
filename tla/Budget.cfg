SPECIFICATION Spec
CONSTANTS
    p1 = p1
    p2 = p2
    p3 = p3
    c1 = c1
    d1 = d1
    x1 = x1
    Master = Master
    Payments <- MCPayments
    Amount <- MCAmount
    Children <- MCChildren
    Payer <- MCPayer
    Destinations <- MCDestinations
    Goal <- MCGoal
    Deposits <- MCDeposits
    DepositOf <- MCDepositOf
    DailyLimit = 3
    ChildMax = 2
    Cap = 3
    Window = 1
    Day = 1
    Horizon = 2
INVARIANTS
    DailyLimitUpToRefunds
    ChildSpendsWithinMax
    BooksBalance
PROPERTIES
    DebitsRespectTheCap
CHECK_DEADLOCK FALSE
