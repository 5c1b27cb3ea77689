SPECIFICATION FairSpec
CONSTANTS
    Size = 5
    Byte = {x}
    NULL = NULL
    Sender = {t, h}
    Handler = {h}
    Checked = {t, h}
    Worker = Worker
    Free = Free
    MaxBody = 1
    Frame <- MCFrame
    KernelSize = 2
    ReadSize = 1
    InputMax = 1
PROPERTY
    Sending
