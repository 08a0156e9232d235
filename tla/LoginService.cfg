\* Two logins for a queue of one, and a page, with every loss.
CONSTANTS
    Login = {l1, l2}
    Page = {p1}
    MaxLoginSlots = 1
    Losses = {"lock", "curl"}
SPECIFICATION FairSpec
INVARIANTS
    RequestsOK
PROPERTIES
    ImplementsRequestReply LoginsServed
\* The server stops in the end.
CHECK_DEADLOCK FALSE
