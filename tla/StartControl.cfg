SPECIFICATION FairSpec
CONSTANTS
  CON = {c1}
  Nobody = none
INVARIANT TypeOK
INVARIANT AuthWatched
PROPERTY ReaderFreed
