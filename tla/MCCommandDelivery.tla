------------------------- MODULE MCCommandDelivery -------------------------
EXTENDS CommandDelivery
CONSTANTS plain, docker, update, r1, r2
MCTwo == {plain, docker}
MCPair == {docker, update}
MCNone == {}
MCLive == {docker}
MCUpdates == {update}
MCReqs == {r1, r2}
=============================================================================
