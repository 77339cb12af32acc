SPECIFICATION Spec
CONSTANTS
    Requests = {r1}
    Former = {r1}
    Links = {l1, l2}
    Calls = {c1, c2}
    None = none
    Unread = unread
    Empty = empty
    Forms <- TypedForms
    Megabyte = 1024
    MinSize = 1
    MaxMegabytes = 20
    MaxSafe = 50000
    PolicyBounds <- Bounds
    MaxFaults = 1
PROPERTY MessageKept
CHECK_DEADLOCK FALSE
