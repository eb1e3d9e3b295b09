SPECIFICATION FairCertReload
CONSTANTS
  p1 = p1
  p2 = p2
  Pair <- Pairs
  Broken = Broken
  NoPair = NoPair
  MaxWrites = 4
INVARIANT QuietServesDisk
PROPERTY NewPairServed
