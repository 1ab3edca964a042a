CONSTANTS
    MaxMpdu = 14
    Datagrams <- MC_Malformed
    LenFields <- MC_LenFields
    PduLens <- MC_PduLens
SPECIFICATION Spec
INVARIANTS
    DeliveredNpduIsReceived
