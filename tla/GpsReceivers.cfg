\* A port keeps the sentences of two epochs; of each receiver one sentence is lost.
CONSTANTS
    MaxUnread = 4
    MaxLost = 1
SPECIFICATION FairSpec
INVARIANT NoFurtherApart
INVARIANT OnlyBacklogAges
PROPERTY HeadingResumes
