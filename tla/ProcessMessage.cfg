SPECIFICATION CallSpec
CONSTANTS
  MaxId = 31
  Others = {"b", "?"}
  None = None
  BadKey = BadKey
  Chars <- AllChars
  Nul = "NUL"
  Space = " "
  White <- white
  Invisible <- invisible
  Alnum <- AllAlnum
  Latin <- AllLatin
  Cyrillic <- AllCyrillic
  NFC <- Compose
  ToLower <- InLowerCase
  LeetLatin <- leetMapLatin
  LeetCyrillic <- leetMapCyrillic
  Homoglyph <- homoglyphMap
  ForbiddenWords <- forbiddenWords
  Threshold <- FORBIDDEN_WORD_THRESHOLD
  Texts <- AllTexts
  Unreadable <- SomeUnreadable
  Throwing <- SomeThrowing
  Incoming <- Messages
INVARIANTS
  CallTypeOK
  NothingUndone
  SeenThrough
  RoundTrip
  DropsAsPromised
  AnswersAsPromised
PROPERTIES
  ImplementsVerdict
  Returns
  CountsDown
CHECK_DEADLOCK FALSE
