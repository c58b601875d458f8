CONSTANTS
  w1 = w1
  w2 = w2
  w3 = w3
  w4 = w4
  r1 = r1
  x1 = x1
  e1 = e1
  e2 = e2
  pay = pay
  api1 = api1
  api2 = api2
  None = None
  Webhooks = {w1, w2, w3, w4}
  Reviews = {r1}
  Workers = {x1}
  home <- MCHome
  eventOf <- MCEvent
  paymentOf <- MCPayment
SPECIFICATION ApiFairSpec
INVARIANTS
  IngestedOnce
  OneCasePerProcess
PROPERTIES
  AnsweredUnlessCircular
  RequestIsAnswered
  IntakeIsAtomic
CONSTRAINT DeliveredTwice
CHECK_DEADLOCK FALSE
