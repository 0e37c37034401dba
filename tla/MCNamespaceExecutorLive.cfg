\* One job against a client that restarts and a tunnel that drops.
SPECIFICATION FairSpec
CONSTANTS
    Jobs = {j1}
    MaxRestarts = 2
PROPERTY JobEnds
