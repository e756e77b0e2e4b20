SPECIFICATION PairingSpec
CONSTANTS
  MaxSaves = 4
INVARIANTS
  ChatBelongsToBot
\* Once MaxSaves is reached and a chat is paired nothing more happens.
CHECK_DEADLOCK FALSE
