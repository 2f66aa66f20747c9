\* Every configuration, crashes and failures anywhere.
CONSTANTS
  MaxMounts = 2
  Configs <- MCConfigs
SPECIFICATION FairSpec
INVARIANTS
    TypeOK
    SavedBeforeRun
    HooksBeforeJail
    StrictAlternation
    CgroupIsKnown
    OutcomeIsTrue
PROPERTIES
    StateDirOutlivesInit
    CreateEnds
