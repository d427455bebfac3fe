\* Two recording threads and one scraped registry, peers that do what they like.
SPECIFICATION FairSpec
CONSTANTS
  Pollers = {p1, p2}
  Server = server
  Calls <- SomeCalls
  MaxCalls = 2
  expose_serial = FALSE
  MAX_REQUEST_LINE = 2
  MAX_HEADER_LINE = 2
  MAX_HEADERS = 2
  ResponseLength = 2
INVARIANTS TypeOK Occupancy FiguresAgree
PROPERTIES ImplementsRegistry EveryScrapeEnds
\* serve ends when it cannot listen, and the recording calls are bounded.
CHECK_DEADLOCK FALSE
