CONSTANTS
    MaxMpdu = 14
    Datagrams <- MC_WellFormed
    LenFields <- MC_LenFields
    PduLens <- MC_PduLens
SPECIFICATION Spec
INVARIANTS
    TypeOK
    DeliveredNpduIsReceived
PROPERTIES
    SentNpduDelivered
