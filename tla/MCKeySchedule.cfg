CONSTANTS
  Uses <- KeyScheduleUses
  Byte <- MCByte
  Xor <- MCXor
  SBox <- MCSBox
  Rcon <- MCRcon
  WordLen = 2
  Sizes <- MCSizes
  DeepSize = 4
  NewWords = 2
  Sm4Rk0 <- MCSm4Rk0
SPECIFICATION Spec
INVARIANTS KsTypeOK ReportExact KsTriedExact LiveScheduleOnce FillIsNoKey EndTellsDump
