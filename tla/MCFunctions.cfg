SPECIFICATION Spec
CONSTANTS
  DBs = {d1, d2}
  Schemas = {"public", "app"}
  MaxArity = 2
  Registrations = 2
  Half = 8
  None = None
SYMMETRY Interchangeable
INVARIANTS TypeOK RightOverload NoStaleImplementation KnownCallsAreRouted DispatcherIsPrivate ResultIsExact CallbackFailuresAre38000
CHECK_DEADLOCK FALSE
