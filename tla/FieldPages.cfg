SPECIFICATION MCSpec
CONSTANTS
  Positions = {0, 1}
  BaseRoutes = 1
  Notes = {0, 1}
  MaxLoads = 2
  MaxId = 2
  MaxFlights = 1
  Vehicles = 2
  Gone = 2
  TooLong = {2}
  CacheSize = 1
  MaxDraws = 2
  DriverStops = {"s1", "s2"}
  FileKinds = {"good", "large", "huge", "bad", "other"}
  MaxUploads = 2
  MobileStops <- MCMobileStops
  MaxWrites = 2
  MaxImports = 1
  Requests = {1, 2}
  Retries = 1
  TokenLife = 3
  Margin = 2
  BodyTime = 1
  MaxTime = 3
  Clients = {"c1"}
  Slots = {1, 2}
  NoClient = "nobody"
  RateMax = 2
  Threshold = 1
  MaxDay = 2
  MaxIssues = 3
INVARIANTS
  AttemptsAreSound
  SentMeansDelivered
  MapShowsRoutes
  DeliveryIsSound
  IssuesAreSound
PROPERTIES
  ExportMatchesView
  DoneStaysDone
CONSTRAINTS
  ResultsBound
  FeedbackBound
CHECK_DEADLOCK FALSE
