CONSTANTS
    Judgments = {j1, j2, j3}
    Questions = {j3}
    Sessions = {"s1", "s2"}
    SessionOf <- MCSessionOf
    None = None
SYMMETRY MCSymmetry
SPECIFICATION Spec
INVARIANTS Reachable OneSurface OwnAnswer
PROPERTIES AnswerFinal
