SPECIFICATION FairSpec
CONSTANTS
  Mutators = {m1, m2}
  MaxVersion = 3
  MaxStarts = 2
INVARIANTS NoLostSave CloseFlushes CorruptPreserved
PROPERTIES ImplementsDurableStore SaveReachesDisk
