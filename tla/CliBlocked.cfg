SPECIFICATION FairForwardSpec
CONSTANTS
    c1 = c1
    h1 = h1
    Other = Other
    Nobody = Nobody
    Callers = {c1}
    Conns = {h1}
    Kinds = {"shell", "pull", "push", "install", "screencap", "reboot"}
    Credentials <- ThreeCredentials
    Size = 2
PROPERTIES CancelUnblocks
CHECK_DEADLOCK FALSE
