SPECIFICATION FairSpec
CONSTANT Programs <- ShortEpoch
INVARIANT OnlyInEpochs
