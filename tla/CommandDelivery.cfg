SPECIFICATION NudgeSpec
CONSTANTS
  plain = plain
  docker = docker
  update = update
  r1 = r1
  r2 = r2
  Cmds <- MCPair
  Live <- MCLive
  Updates <- MCUpdates
  Reqs <- MCReqs
  MaxFaults = 2
INVARIANTS TypeOK AtMostOnce SentIsAccountedFor
PROPERTIES KeepsContract CommandsComplete NudgeIsNotLost
