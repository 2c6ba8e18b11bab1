CONSTANTS
    n1 = n1
    n2 = n2
    Callers = {g1, g2}
    Nonces = {n1, n2}
    Envelopes <- MCEnvelopes
    TimestampSkew = 2
    NonceWindow = 5
    MaxPause = 1
    MaxTime = 9
SPECIFICATION Spec
INVARIANTS TypeOK AtMostOnce
