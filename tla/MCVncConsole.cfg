\* Two connections race for the only slot of a VM; tickets of two VMs expire.
CONSTANTS
  Vm = {v1, v2}
  Conn = {c1, c2}
  NoVm = NoVm
  Cap = 1
  TicketTTL = 1
  MaxTime = 1
SPECIFICATION VncSpec
INVARIANTS
  VncTypeOK
  CounterIsGuards
  ConsoleNeedsTicket
PROPERTIES
  ImplementsSlotPool
  AcquireIsLockFree
