\* Callers of the 3D context with up to two programs.  Registers, targets
\* and units are few, the limits are where they are in the code.
CONSTANTS
  None = None
  VectorSize = 2
  VertexRegisters = 6
  FragmentRegisters = 2
  Attributes = 2
  Targets = 3
  Textures = 2
  Cases <- AllCases
SPECIFICATION Spec
INVARIANTS
  ValuesReachRegisters
  CullsWanted
  BuffersBound
CHECK_DEADLOCK FALSE
