\* Two devices, two offers: one prekey rotation, and one OTP that both offers
\* may name.
CONSTANTS
    Device = {a, b}
    Garbled = Garbled
    MaxOffers = 2
    MaxSpk = 2
    MaxOtp = 1
SYMMETRY Symmetry
SPECIFICATION Spec
INVARIANTS
    TypeOK
    AcceptAuthentic
    ConfirmedAgree
    OtpUsedOnce
    AnsweredOnce
    GenuineAccepted
PROPERTIES
    RefusalKeepsOtps
    ImplementsAgreement
\* Every offer may have been made, answered and confirmed.
CHECK_DEADLOCK FALSE
