\* The longest payload does not fit the decoder; an answer fits its buffer just so.
CONSTANTS
    crc <- calculate
    Frames <- FourFrames
    RandomBytes <- RandomOnes
    Message <- Ok
    BlockSize = 4
    frame_buffer_size = 14
    Client_Tx_Buffer_Size = 24
SPECIFICATION Spec
INVARIANT StaysInBuffers
INVARIANT FramesIntact
INVARIANT OnlyCutLoses
