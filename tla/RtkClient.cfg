\* The number of silent periods of the code.
CONSTANT Silences = 4
SPECIFICATION FairSpec
PROPERTY CorrectionsResume
