\* Streams of up to three messages; a BBS with two users and two messages.
SPECIFICATION ContentsSpec
CONSTANTS
    a1 = a1
    b1 = b1
    A = A
    B = B
    None = None
    Users = {a1, b1}
    BaseCall <- MCBaseCall
    Topics = {"ALL"}
    Secret <- MCSecret
    Challenges <- MCChallenges
    Responses <- MCResponses
    Typists <- MCTypists
    MaxAttempts = 2
    MaxBodyLen = 1
    Limits = {1}
    MaxPosts = 2
    MaxLost = 1
    Framings = {"kiss", "raw", "unproto", "reply", "pcap", "text"}
    PieceLen = 4
    Chunks = {1, 6}
    Losses = {1, 3}
    Backlog = 2
    MaxSent = 3
INVARIANTS ContentsTypeOK ShowsReadable UnreadIsNew SysopEarned Faithful Resync ReplyReadable
PROPERTIES OnlyOwnersKill
CHECK_DEADLOCK FALSE
