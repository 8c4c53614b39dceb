CONSTANTS
    Threads = {s1, s2}
    Frames  <- MC_Frames
    MaxPage <- MC_MaxPage
    MaxLsn  <- MC_MaxLsn
    NoFrame = NoFrame
    NoPage  = NoPage

SPECIFICATION Spec

INVARIANT TypeOK
INVARIANT FrameTableConsistent
INVARIANT NoLostUpdate

PROPERTY PinnedFrameStable
