CONSTANT Workers = {w1, w2}
SPECIFICATION Spec
SYMMETRY Symmetry
INVARIANTS TypeOK TeardownStoresNothing
PROPERTIES PoisonedByAuthOnly OneFailureRepairs
