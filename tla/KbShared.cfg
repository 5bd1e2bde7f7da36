\* The deployment's two replicas.
SPECIFICATION KbSpec
CONSTANTS
    Writers = {r1, r2}
    Templates = {k1}
    Kb = {k1}
    Missing = Missing
INVARIANTS
    NoSharedWriteRaces
