\* Witnesses, burials, proof files and prices, honest and pieced together.
SPECIFICATION Spec
CHECK_DEADLOCK FALSE
CONSTANTS
    Levels = 3
    Slot <- KeySlot
    Threshold = 3
    SetSize = 5
    DevBps = 200
    MaxLag = 600
    FutureTolerance = 600
    Sets <- SmallSets
    Batches <- SmallBatches
    BlockSizes = {1, 2, 3, 4, 5}
    MaxHeaders = 2
    Depths = {1, 2, 3}
    MaxSteps = 3
    Honest <- HonestThree
    Lies <- LyingPair
    MaxLies = 3
    Reporters <- Bonded
    Assertions <- BothSides
INVARIANT WitnessesAreExact EvidenceIsOfTheChain LineageEvidence PricesResistLiars
