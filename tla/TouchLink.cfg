CONSTANTS
  Interactive = interactive
  Hints = {hint}
  Clients = {client}
  ClientOps = {"S", "M"}
  Backlog = 1
  MaxCrash = 1
SPECIFICATION FairSpec
INVARIANTS UartPowered TouchAlive Agreement ModeKept
PROPERTIES Responsive Wakes
