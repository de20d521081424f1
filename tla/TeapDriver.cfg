\* Any caller: step may be called again after an error or a verdict.
SPECIFICATION DriverSpec
CONSTANTS
  Keys = {k1, k2}
  NoKey = NoKey
  Messages <- MCMessages
  HandshakeRounds = 2
  Phase2Rounds = 3
  MaxCount = 4
  MaxPieces = 2
INVARIANTS
  GrantIsConfirmed
PROPERTIES
  NoGrantAfterVerdict
  AnswersUseUpTheSession
