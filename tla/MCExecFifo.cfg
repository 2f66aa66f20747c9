\* Three starters, any of which may be killed.
CONSTANTS
  Starters = {s1, s2, s3}
  CanCrash = TRUE
SPECIFICATION FairSpec
INVARIANTS
    AtMostOneStart
    SuccessMeansReleased
    ByteIsCounted

    
