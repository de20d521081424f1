\* Any caller: step may be called again after an error.
SPECIFICATION Spec
CONSTANTS
  Keys = {k1, k2}
  NoKey = NoKey
  Messages <- MCMessages
INVARIANTS
  TypeOK
  AnswerIsBound
  GrantIsBound
  MatOnce
PROPERTIES
  ChainIsFixed
  VerdictIsLast
  ImplementsAuthentication
