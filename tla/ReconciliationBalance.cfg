SPECIFICATION Spec
CONSTANTS
    checking = checking
    card = card
    salary = salary
    food = food
    k1 = k1
    Null = Null
    AssetAccounts = {checking}
    LiabilityAccounts = {card}
    Equity = equity
    IncomeCategories = {salary}
    ExpenseCategories = {food}
    TxIds = {t1, t2}
    Keys = {k1}
    LongKeys = {}
    Dates = {1}
    Cents = {1, 2}
    Reconcilable = {checking, card}
    LongIds = {FALSE}
    Ids = {i1, i2}
    Callers = {p1, p2}
    Observed <- TransferBalances
    Commands <- ExpenseCommands
    OpenAtStart = {checking, card, food}
    Changing = {}
SYMMETRY Symmetry
PROPERTIES BalanceMatches
