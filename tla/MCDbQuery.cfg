CONSTANTS
    Callers = {c1, c2}
    Statements <- TheStatements
    Conns = 1
    Replies <- TheReplies
    Numbers = {0, 7}
    Columns = {price, stock}
    price = price
    stock = stock
    yes = yes
    null = null
    Vals = {yes, null}
    Null = null
    EmptyText = empty
SPECIFICATION FairSpec
INVARIANTS TypeOK ConnectionsReturned AnswerFaithful
PROPERTY CallReturns
