SPECIFICATION Spec
CONSTANTS
  Bare <- MCBare
  Plain <- MCPlain
  Base64 <- MCBase64
  ConsoleMethods <- MCConsole
  PinoMethods <- MCPino
  WinstonMethods <- MCWinston
  SyncFunctions <- MCSync
  SyncNames <- MCSyncNames
  SensitiveMethods <- MCSensitive
  SensitivePaths = {"~/.ssh"}
  WeakAlgorithms = {"md5"}
  SafeEncodings = {"hex"}
  Pools <- MCScopes
  Sensitivities = {"conservative"}
CHECK_DEADLOCK FALSE
INVARIANT NoUnrelatedDigest
