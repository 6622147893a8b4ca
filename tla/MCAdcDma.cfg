CONSTANTS
    Channels <- MCChannels
    Scan <- MCScan
    NoSample = NoSample
SPECIFICATION FairSpec
INVARIANTS
    TypeOK
    OneOwner
    NoErrorBranch
    PrintsOneScan
    NoWriteBehindOwner
PROPERTY BothGroupsScanned
