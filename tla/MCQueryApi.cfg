SPECIFICATION FairSpec
CONSTANTS
    u1 = u1
    u2 = u2
    q1 = q1
    q2 = q2
    Slots = {q1, q2}
    Names = {u1, u2}
    Miners = {u1}
    Nobody = Nobody
    Families <- AllFamilies
    MaxCached = 2
    MaxTip = 2
    CreditRange = 2
INVARIANTS TypeOK AnswersFit
PROPERTIES Answered
