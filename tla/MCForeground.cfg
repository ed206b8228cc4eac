SPECIFICATION Spec
CONSTANTS
  Groups = {g1, g2}
  Evaluations = {e1, e2}
  Branches = {b1, b2}
  Direct = {"run", "capture", "fg", "wait"}
  Callbacks = {"run", "capture", "fg"}
  None = None
  Settled = Settled
  MaxEvents = 2
  Mixed = FALSE
SYMMETRY Symmetry
INVARIANTS TypeOK   NothingLost
PROPERTY AttachedIsKept
