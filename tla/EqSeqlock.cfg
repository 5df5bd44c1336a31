SPECIFICATION FairSpec
CONSTANTS
    Bands = 3
    Word <- Words
    Curves <- ThreeCurves
    MaxPublish = 3
INVARIANTS InstalledWhole
PROPERTIES NeverOlder Installs
