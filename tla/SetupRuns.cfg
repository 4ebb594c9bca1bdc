SPECIFICATION Spec
CONSTANTS
    Drifts <- MCDrifts
    Machines <- MCMachines
    MaxKills = 2
INVARIANTS RerunCompletes ShimComesBack
