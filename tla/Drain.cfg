\* close or shutdown, with a long or a short timeout.
CONSTANTS
    Conns = {c1, c2}
SPECIFICATION DrainFairSpec
INVARIANTS DrainReports SweepMissesNone
PROPERTIES VerbReturns
