\* Three sampled keys, ranges of 1..3 keys (2 by default), no write faults:
\* the only torn dump.ghc is the one a crash inside HOPPER.GHOST.SAVE leaves.
CONSTANTS
    Keys = {k1, k2, k3}
    Caps = {1, 2, 3}
    DefaultCap = 2
    NoFile = NoFile
    WriteFaults = FALSE
SPECIFICATION Spec
PROPERTY RestartRecovers
