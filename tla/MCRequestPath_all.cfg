\* Every stage, terminal and hop of a request, with ext-auth failing open or closed.
CONSTANTS
  main = main
  plain = plain
  fb1 = fb1
  fb2 = fb2
  mirror = mirror
  Routes <- MCRoutes
  Table <- MCTable
  Overrides = {0}
  NoRoute = NoRoute
SPECIFICATION Spec
INVARIANTS RecordedOnce ReservationSettledOnce MeteredOnce DialIsAuthorized ResendIsGated
PROPERTY Terminates
