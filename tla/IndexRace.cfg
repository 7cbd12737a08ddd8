SPECIFICATION IndexSpec
CONSTANTS
    Writers = {w1, w2}
INVARIANTS IndexIsWhole
