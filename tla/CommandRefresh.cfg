SPECIFICATION FairSpec
CONSTANTS
  plain = plain
  docker = docker
  update = update
  r1 = r1
  r2 = r2
  Cmds <- MCTwo
  Live <- MCLive
  Updates <- MCNone
  Reqs <- MCReqs
  MaxFaults = 0
PROPERTY LeftForNextCycle
