\* Any two of three children, one drop, one act of the other member.
SPECIFICATION FairSpec
CONSTANTS
    Children = {"publisher", "viewer", "channel"}
    MaxStarts = 2
    MaxDrops = 1
    MaxActs = 1
INVARIANTS
    OneJoin
    UpMeansJoined
    ShownAgree
PROPERTY
    StartsSettle
CHECK_DEADLOCK FALSE
