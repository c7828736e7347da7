SPECIFICATION Spec
CONSTANTS
    c1 = c1  c2 = c2  t1 = t1   w1 = w1  w2 = w2  h1 = h1  h2 = h2
    m1 = m1  m2 = m2  big = big  None = None
    Conn = {c1, c2}
    Token = {t1}
    Prefix = {w1}
    Channel = {h1, h2}
    Payload = {m1, m2, big}
    TooLarge = {big}
SYMMETRY Symmetry
INVARIANTS Fifo InOrder Accounted
