SPECIFICATION FairSpec
CONSTANTS
    p1 = p1
    p2 = p2
    home = home
    NoDetails = NoDetails
    Peers <- TwoPeers
    Details <- OneAddress
    MaxDecisions = 2
    MaxMessages = 1
INVARIANTS
    TypeOK
    OnlyByConsent
PROPERTY VisibleListed
