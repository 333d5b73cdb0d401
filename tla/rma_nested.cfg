SPECIFICATION FairSpec
CONSTANT Programs <- TwoLatches
PROPERTY Termination
