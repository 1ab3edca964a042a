CONSTANTS
    MaxMpdu = 14
    Datagrams <- MC_Broadcast
    LenFields <- MC_LenFields
    PduLens <- MC_PduLens
SPECIFICATION Spec
INVARIANTS
    NoMtuOverflow
