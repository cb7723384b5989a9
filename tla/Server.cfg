SPECIFICATION Spec
CONSTANTS
  Uri = {u1, u2}
  Method <- MCMethod
  Supported <- MCSupported
  MaxMessages = 3
  PipeSize = 1
INVARIANTS TypeOK EachRequestAnsweredOnce ShownWhatIsOpen
PROPERTIES ServeReturns AnswersArrive
CHECK_DEADLOCK FALSE
