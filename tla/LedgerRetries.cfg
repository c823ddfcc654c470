SPECIFICATION Spec
CONSTANTS
    checking = checking
    card = card
    salary = salary
    food = food
    k1 = k1
    k2 = k2
    t1 = t1
    Null = Null
    AssetAccounts = {checking}
    LiabilityAccounts = {card}
    Equity = equity
    IncomeCategories = {salary}
    ExpenseCategories = {food}
    TxIds = {t1, t2, t3}
    Keys = {k1, k2}
    LongKeys = {}
    Dates = {1}
    Cents = {1, 2}
    Requests = {r1, r2}
    Commands <- RetryCommands
    OpenAtStart = {checking, card}
    Changing = {checking, salary}
    IdsPerCommand = 1
SYMMETRY BothSymmetries
INVARIANTS LedgerInv OnePostingPerKey AnswersHold EvidenceAgrees
PROPERTIES NoNewUseOfArchived AtMostOnceSpec
