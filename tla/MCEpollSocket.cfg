SPECIFICATION FairSpec
CONSTANTS
    Size = 5
    Byte = {x}
    NULL = NULL
    Sender = {t1, t2, h}
    Handler = {h}
    Checked = {t1, t2, h}
    Worker = Worker
    Free = Free
    MaxBody = 1
    Frame <- MCFrame
    KernelSize = 2
    ReadSize = 1
    InputMax = 2
INVARIANTS Consistent
PROPERTIES SendingUnlessSplit InputReadWhenQuiet
