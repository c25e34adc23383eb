SPECIFICATION MCSpec
CONSTANTS
    zero = zero
    one = one
    short = short
    other = other
    long = long
    Bytes <- MCBytes
    Zero = zero
    Contexts <- MCContexts
    LongContexts <- MCLongContexts
    SignatureBytes = 2
    MaxLen = 3
    Garbage = Garbage
    Machines = {"sign", "encode", "random"}
    Encoders = {1}
    Callers = {1, 2}
    CodeLength = 5
    Winternitz = 4
    LimbBase = 3
    MessageLimbs = 4
    MaxBytes = 3
    MaxChunk = 2
    MaxInterrupts = 2
    EINTR = 4
    EIO = 5
    EBADF = 9
INVARIANTS SignsTheMessage OpensWhole EncodesByRank FilledOrStopped
PROPERTIES WritesItsBuffer EventuallyFilled
CHECK_DEADLOCK FALSE
