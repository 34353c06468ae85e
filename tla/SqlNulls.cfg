SPECIFICATION Spec
INVARIANT
  NullsAsPostgres
