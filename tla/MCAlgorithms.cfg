SPECIFICATION Spec
CHECK_DEADLOCK FALSE
INVARIANTS GrammarExact QuantExact HeaderWalkExact LayoutIndependent ConfigFaithful SettingsAgree DrawIsPossible EncodeExact StreamEqualsBlocking 
