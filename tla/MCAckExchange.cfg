SPECIFICATION Spec
CONSTANTS
    Headers <- OneOfEach
    BitmapsOf <- EndsOf
INVARIANTS
    KindReadBack
    TuplesReadBack
    TuplesReadExceptFourth
    RuleFromAck
