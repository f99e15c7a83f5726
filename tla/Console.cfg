SPECIFICATION Spec
CONSTANTS
    Letters = {"s"}
    BufferSizes <- MCBufferSizes
    UserLen = 3
    CommandLen = 7
    NameLen = 2
    ValueLen = 2
    MaxArgv = 3
    EnvUser <- MCEnvUser
    EnvError <- MCEnvError
    AppOf <- MCAppOf
    ExitCode <- MCExitCode
    OtherChars = {"u", "0", "e"}
    CommandChars = {"s", "SP", "CARET"}
    MaxBytes = 7
    MaxAgain = 2
    MaxNodes = 3
    MaxCommands = 2
INVARIANTS TypeOK Decoded LineEdited Tokenized LastExitCode
PROPERTY EnvIsMap
CHECK_DEADLOCK FALSE
