SPECIFICATION Spec
CONSTANTS
    Members = {m1, m2, m3}
    ListenerIds = {l1, l2}
    MaxVersion = 2
    MaxResets = 2
SYMMETRY MCSymmetry
INVARIANT TypeOK
INVARIANT InitialListenersSeeTheSnapshot
INVARIANT InitialListenersMissNobody
INVARIANT InitialListSignalMeansMembersKnown
