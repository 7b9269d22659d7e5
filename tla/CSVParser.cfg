SPECIFICATION Spec
CONSTANTS
  MaxText = 5
  MaxChunk = 5
INVARIANTS
  ChunkingInvisible
