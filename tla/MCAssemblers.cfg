SPECIFICATION Spec
CONSTANTS
    VertexTexts <- AllVertexTexts
    FragmentTexts <- AllFragmentTexts
    LinkerTexts <- AllLinkerTexts
    VertexLimit = 2
    FragmentLimit = 4
    LinkerLimit = 3
    None = None
CHECK_DEADLOCK FALSE
INVARIANTS
    VertexSourcesNamed
    VertexModifiersKept
    VertexAddressesNamed
    VertexWritesNamed
    VertexReassembles
    BatchesRunTheirOwn
    OperandsNamed
    FragmentReassembles
    LinkerReassembles
