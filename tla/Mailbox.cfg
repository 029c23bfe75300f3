SPECIFICATION FairSpec
CONSTANTS
    recv = recv
    tcpip = tcpip
    boot = boot
    m1 = m1
    m2 = m2
    NoMsg = NoMsg
    Threads = {recv, tcpip, boot}
    Msgs = {m1, m2}
    Size = 2
    Uses <- RealUses
INVARIANT CountsAgree
PROPERTIES IsFifo NobodyForgotten
