SPECIFICATION Spec
CONSTANTS
    Holders = {h1, h2, h3, h4}
    Resources = {r1, r2, r3}
SYMMETRY HolderSymmetry
INVARIANTS
    OneOwner
    DestroysOnlyItsOwn
PROPERTY
    ImplementsOwnership
