\* Two calls around several lives of the ticket; their reports interleave.
CONSTANTS
  Caller = {c1, c2}
  NoTicket = NoTicket
  TicketLife = 4
  Margin = 2
  HttpTimeout = 1
  Threshold = 2
  Cooldown = 1
  MaxFailures = 3
  MaxTime = 6
SPECIFICATION ClientSpec
INVARIANTS
  ClientTypeOK
  TicketOutlivesRequest
  TicketPresentAfterEnsure
PROPERTY BreakerRecovers
