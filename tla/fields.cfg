SPECIFICATION Spec
CONSTANT Lines <- MCDecimal
INVARIANTS
  TypeOK
  Understood
  Refused
CHECK_DEADLOCK FALSE
