\* A timeout shorter than CLOSE_GRACE.
CONSTANTS
    Conns = {c1, c2}
SPECIFICATION DrainSpec
INVARIANTS StragglersReported
