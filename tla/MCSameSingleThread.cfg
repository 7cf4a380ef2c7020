CONSTANTS
  t1 = t1
  t2 = t2
  t3 = t3
  c1 = c1
  c2 = c2
  NoTicket = NoTicket
  Tickets <- MCTickets
  Closers <- MCClosers
  FnResults <- MCFnResults
SPECIFICATION FairSpec
INVARIANTS
  TypeOK
  TakenIsServed
  ReplyIsOwn
PROPERTIES
  QuietAfterClose
  ErrorIsLast
  CallsReturn
  CloseReturns
  ImplementsService
CHECK_DEADLOCK FALSE
