CONSTANTS
    USER_QTY = 3
    FREQ_QTY = 9
    FREQ_26M = 3
    FREQ_52M = 4
    QosUsers = {q1, q2}
    USER_QOS = 1
SYMMETRY Symm
SPECIFICATION AppSpec
INVARIANTS ClockServesAll PllMatches QosLeast
