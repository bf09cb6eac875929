SPECIFICATION Spec
CONSTANTS
  Args <- SomeArgs
  Lines <- SomeLines
  MaxFailures = 1
  NULL = NULL
INVARIANTS TypeOK InLine NothingLost RoundTrip PlainTokens
PROPERTY Advances
