SPECIFICATION Spec
CONSTANTS
  owner = owner
  guest = guest
  read = read
  write = write
  play = play
  good = good
  bad = bad
  Callers <- MCCallers
  Ids = {1, 2, 3, 4}
  Tools <- MCTools
  Args <- MCArgs
  Exempt <- MCExempt
  Remote <- MCRemote
  Bad <- MCBad
  Scope <- MCScope
  Acting <- MCActing
  Requests <- MCRequests
  Offered <- MCOffered
  MaxToolSteps = 2
  MaxBacklog = 0
INVARIANT HandshakeFirst
