SPECIFICATION Spec
CONSTANTS
  ChunkSize = 2
  MaxChunks = 5
  Entropies <- BandEdges
INVARIANTS
  RegionsDisjoint
  RunsMerged
  ExactWithoutGaps
