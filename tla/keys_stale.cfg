SPECIFICATION FairSpec
CONSTANTS
    Instances = {v1, v2}
    Plans <- ApiOnly
    MaxKey = 2
PROPERTIES
    RotatedKeysAccepted
