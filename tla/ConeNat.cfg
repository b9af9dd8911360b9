SPECIFICATION Spec
CONSTANTS
    Lan = {l1, l2}
    Remote = {r1, r2}
    SrcPort <- MCSrcPort
    PortSize = 4
INVARIANTS TypeOK Unambiguous ExpectationsBacked ExpectedOnce
PROPERTIES BoundWhileExpected
