SPECIFICATION Spec
CONSTANTS
    k1 = k1
    Keys <- OneKey
    Generations <- MCGenerations
    Counts <- MCCounts
    MaxPresses = 1
    MaxSyncs = 1
    MaxCuts = 1
    MaxFaults = 1
PROPERTY NoCheckpointInPlay
