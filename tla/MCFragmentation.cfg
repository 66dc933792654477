SPECIFICATION Spec
CONSTANTS
    Headers <- AllHeaders
    Sizes <- AllSizes
    MaxHoles <- HolesAllowed
    Leftovers <- SomeInts
INVARIANTS
    FragmentsFit
    FragmentsRecognised
    RuleRecognised
    PacketRestored
    LengthIsPacketSize
