SPECIFICATION Spec
CONSTANTS
    p1 = p1  p2 = p2
    Peers = {p1, p2}
PROPERTIES OnlyClearedUnblocked
