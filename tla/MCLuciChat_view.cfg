CONSTANTS
    Ranks <- TwoRanks
    Bodies = {x}
    MaxSends = 2
    MaxReloads = 1
    MaxCrashes = 1
    NoText = NoText
SPECIFICATION FairSpec
INVARIANTS TypeOK ListInOrder
PROPERTIES SentIsShown EveryMessageListed ComposerComesBack
