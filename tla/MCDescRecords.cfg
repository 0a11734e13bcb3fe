CONSTANTS
  MaxRec = 4
  Buffer = {b1, b2}
  Unbound = Unbound
  Garbage = Garbage
  Increment = 2
  Practices = {}
SPECIFICATION Spec
SYMMETRY Symmetry
INVARIANT TypeOK
PROPERTY ImplementsBindings
