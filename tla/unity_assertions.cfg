CONSTANTS
  ByteBits = 2
  Numbers <- MCNumbers
  Deltas = {0, 1, 255, 32768, 65535}
  Raw <- MCRaw
  MaxLength = 2
  Chars = {1, 2}
  Format <- MCFormat
  Huge = 32
  Precision = 4
  Finite <- MCFinite
  Printed <- MCPrinted
SPECIFICATION Spec
INVARIANT NumberVerdicts
 
INVARIANT ArrayVerdicts
INVARIANT MemoryVerdicts
INVARIANT StringVerdicts
INVARIANT FloatVerdicts
INVARIANT FloatReadsBack
