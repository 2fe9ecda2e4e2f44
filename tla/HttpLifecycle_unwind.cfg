SPECIFICATION Spec
CONSTANT RequestInUnwind = TRUE
INVARIANT NoCircularWait
