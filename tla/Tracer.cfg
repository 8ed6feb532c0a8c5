SPECIFICATION Spec
CONSTANTS
  Bare <- MCBare
  Plain <- MCPlain
  Base64 <- MCBase64
  ConsoleMethods <- MCConsole
  PinoMethods <- MCPino
  WinstonMethods <- MCWinston
  SyncFunctions <- MCSync
  SyncNames <- MCSyncNames
  SensitiveMethods <- MCSensitive
  SensitivePaths = {"~/.ssh"}
  WeakAlgorithms = {"md5"}
  SafeEncodings = {"hex"}
  Pools <- MCPools
  Sensitivities = {"conservative","aggressive"}
CHECK_DEADLOCK FALSE
INVARIANTS Sound Complete AliasesAreTrue
