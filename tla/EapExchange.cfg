SPECIFICATION ExchangeSpec
CONSTANTS
  Octet <- MCOctet
  MaxTotal = 5
  MaxFragments = 3
  Fragments <- MCFragments
  FromServer <- MCFromServer
  FromClient <- MCFromClient
  MaxFragment = 2
  ServerChunk = 2
  HandshakeMessages = 3
  RoundLimits <- MCRoundLimits
  MaxLosses = 3
  MaxInFlight = 4
INVARIANT
  NoFalseAlarm
PROPERTIES
  FlightsGoOutWhole
  CarriesConversation
\* The exchange ends when the server has the last flight, or the client stops.
CHECK_DEADLOCK FALSE
