CONSTANTS
    alpha = alpha
    beta = beta
    price = price
    now = now
    Main = Main
    Sub = Sub
    Q1 = Q1
    Q2 = Q2
    Web = Web
    Gone = Gone
    Null = Null
    Unset = Unset
    NoName = NoName
    Templates <- TheTemplates
    Names = {price, now}
    Values = {alpha, beta}
    Programs <- ThePrograms
    Metas <- TheMetas
    MaxRequests = 2
SPECIFICATION Spec
INVARIANTS TypeOK InValuesKept OutIsLatest OutAnswersSQL
PROPERTY ScriptSpec
