SPECIFICATION Spec
CONSTANTS
  Projects = {P, Q}
  None = None
  Apps = {a1}
  MaxSwitch = 2
INVARIANTS AppIsWhereChecksLook
PROPERTY CallsEnd
