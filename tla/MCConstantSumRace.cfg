SPECIFICATION MCSpec
CONSTANTS
    zero = zero
    one = one
    short = short
    other = other
    long = long
    Bytes <- MCBytes
    Zero = zero
    Contexts <- MCContexts
    LongContexts <- MCLongContexts
    SignatureBytes = 2
    MaxLen = 3
    Garbage = Garbage
    Machines = {"encode"}
    Encoders = {1, 2}
    Callers = {1, 2}
    CodeLength = 2
    Winternitz = 3
    LimbBase = 3
    MessageLimbs = 1
    MaxBytes = 3
    MaxChunk = 2
    MaxInterrupts = 2
    EINTR = 4
    EIO = 5
    EBADF = 9
INVARIANT DigitFound
CHECK_DEADLOCK FALSE
