SPECIFICATION FullSpec
CONSTANTS
  Keys = {k1, k2}
  NoKey = NoKey
  Messages <- MCMessages
  HandshakeRounds = 2
  Phase2Rounds = 5
  MaxCount = 7
  MaxPieces = 2
INVARIANTS
  ResultIsEarned
  BothEndsAgree
PROPERTIES
  ImplementsAuthentication
  SessionCompletes
