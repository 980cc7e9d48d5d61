SPECIFICATION Spec
CONSTANT Builds <- Two
INVARIANTS Delivered BuildRight
PROPERTIES Recovers
