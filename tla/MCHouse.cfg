SPECIFICATION HouseSpec
CONSTANTS
  owner = owner
  guest = guest
  read = read
  write = write
  play = play
  good = good
  bad = bad
  Callers <- MCCallers
  Ids = {1, 2, 3, 4}
  Tools <- MCTools
  Args <- MCArgs
  Exempt <- MCExempt
  Remote <- MCRemote
  Bad <- MCBad
  Scope <- MCScope
  Acting <- MCActing
  Requests <- MCRequests
  Offered <- MCOffered
  MaxToolSteps = 2
  MaxBacklog = 0
  Echo = {echo}
  Note = {note}
  MaxSaid = 3
  MaxBoot = 1
  MaxMiss = 1
  v1 = v1
  v2 = v2
  v3 = v3
  photo = photo
  mother = mother
  Absent = Absent
  NoRow = NoRow
  Path = {path}
  Version = {v1, v2, v3}
  Thin = {v3}
  Hinted = {v2}
  Private = {}
  Capture = {photo}
  Person = {mother}
  Mentions <- MCMentions
  Illustrates <- MCIllustrates
  MaxEdits = 2
  MaxFailures = 1
  Alert = {leak}
  Level = {filter}
  Month = {month}
  Question = {question}
  MaxNight = 1
  MaxAmiss = 2
CHECK_DEADLOCK FALSE
INVARIANTS
  GateHolds
  VoiceInv
  LibraryInv
  DutiesInv
PROPERTIES
  KillStopsActing
  CallsEnd
  HouseKeepsUp
