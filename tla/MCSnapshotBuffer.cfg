CONSTANTS
    Words = 3
    MaxGen = 4
SPECIFICATION FairSpec
INVARIANTS ViewIntactUntilPublish ViewIsNeverStale
PROPERTIES LiveAgentPulses DeadAgentGoesDark
