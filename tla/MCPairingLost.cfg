SPECIFICATION PairingSpec
CONSTANTS
  MaxSaves = 4
PROPERTIES
  ChatKeptUntilReplaced
\* Once MaxSaves is reached and a chat is paired nothing more happens.
CHECK_DEADLOCK FALSE
