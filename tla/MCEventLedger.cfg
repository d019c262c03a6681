SPECIFICATION Spec
CONSTANTS
  w1 = w1
  w2 = w2
  Worker = {w1, w2}
  Body <- Bodies
  Batch <- Batches
SYMMETRY WorkerSymmetry
INVARIANTS
  LedgerMatchesFeed
  HistoryIsLinear
  AcceptedMeansAsked
PROPERTY
  ImplementsExactlyOnce
