\* Two connections of three messages, a data channel of two, two URLs.
SPECIFICATION MCSpec
CONSTANTS
  URLBuffer = 1
  DataBuffer = 2
  MaxURLs = 2
  MaxConns = 2
  MaxMessages = 3
INVARIANTS
  NoURLForgotten
PROPERTIES
  MessagesInOrder
  ShutdownEndsLoop
  URLIsTakenUp
  SilentConnectionIsLeft
  ReaderIsReleased
