CONSTANTS
    Ranks <- TwoRanks
    Bodies = {x}
    MaxSends = 1
    MaxReloads = 0
    MaxCrashes = 1
    NoText = NoText
SPECIFICATION Spec
INVARIANTS NoMisleadingFailure
