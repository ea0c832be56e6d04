CONSTANTS
  t1 = t1  t2 = t2  t3 = t3  r1 = r1  r2 = r2
  Threads <- ThreadsMC
  Requests <- RequestsMC
  Method <- MethodMC
SPECIFICATION FairSpec
INVARIANTS
  TypeOK
  ExclusiveExecution
  AtMostOnce
  ReplayConsistent
  InProgressOwned
PROPERTIES
  ImplementsIdempotency
  RequestsSettle
