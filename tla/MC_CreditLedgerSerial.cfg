CONSTANTS
    Users = {u1, u2}
    Advices = {a1, a2}
    Analyses = {x1}
    TopUps = {t1, t2}
    Keys = {k1}
    NoKey = NoKey
    AdviceCost = 1
    AnalysisCost = 3
    TopUpAmount = 2
SPECIFICATION SerialSpec
SYMMETRY Symmetry
PROPERTIES IsAnAccount
