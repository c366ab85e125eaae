SPECIFICATION Spec
CONSTANTS
  Letters = {"a", "n", "0"}
  Words <- MCWords
  Separators <- MCSeparators
  Blanks = {" ", "HIGH"}
  Strings <- MCStrings
  MaxElements = 4
  Anything <- MCAnything
  MaxChars = 6
  NULL = NULL
  Types <- MCTypes
  TextWords <- MCTextWords
  Names <- MCNames
  Priorities = {4}
  MaxWords = 3
  OPTIONS_BUFSIZE = 29
  EXTEND = 2
  FieldSize = 7
  Numbers <- MCNumbers
  RequestLists <- MCRequestLists
  SendValues <- MCSendValues
  PeerOptions <- MCPeerOptions
  MaxPut = 4
INVARIANTS
  TokensExact
  BlockFits
  NothingLeaks
  ReadAsMeant
  OptionsReadBack
CHECK_DEADLOCK FALSE
