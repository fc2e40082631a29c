SPECIFICATION FairSpec
CONSTANTS
    A = A  B = B  alice = alice  bob = bob  phone = phone  tablet = tablet  laptop = laptop  e1 = e1  e2 = e2
    Relay = {A, B}
    Account = {alice, bob}
    Device = {phone, tablet, laptop}
    Active = {phone, tablet, laptop}
    Envelope = {e1, e2}
    Call = {c1, c2, c3}
    Poll = {p1, p2}
    Client = Client  Nobody = Nobody  None = None
    MaxSends = 1
    MaxFaults = 1
    Home <- MCHome
    Owner <- MCOwner
    To <- MCTo
    Known <- MCKnown
    PEER_RELAYS <- MCPeers
INVARIANTS TypeOK AckedAtHome NoStray AtMostOnce ReceiptsTooLate
PROPERTIES MailboxSpec SendAnswered
CHECK_DEADLOCK FALSE
