CONSTANTS
    Pids = {p1, p2}
    NoPid = NoPid
    Polled = {varp}
    Unpolled = {}
    Cap = 2
    MaxEvents = 4
    Layouts = {{"watch"}}
SPECIFICATION Spec
INVARIANT AppliedOnce
