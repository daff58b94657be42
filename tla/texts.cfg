SPECIFICATION Spec
CHECK_DEADLOCK FALSE
INVARIANTS ExpressionsKept SchemasSound StreamsDecoded BodiesExact
