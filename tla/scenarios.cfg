\* ASB-02, ASB-03 and ASB-04 with one crash and one file from another run.
CONSTANTS
    MaxCrashes = 1
    MaxSwaps = 1
SPECIFICATION FairSpec
INVARIANTS
    EffectIsRecordedFirst
    HarmfulRunIsNotSealed
    SealedBundleIsWhole
PROPERTIES
    GenuineRunIsSealed
