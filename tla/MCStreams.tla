------------------------------ MODULE MCStreams ------------------------------
EXTENDS MCStreamableSession
(***************************************************************************)
(* Two deployments, each with its own constants; a behaviour is one of     *)
(* them.  StreamableSession itself is the single process whose client      *)
(* loses connections; Fleet is the pair of replicas on which a session     *)
(* also ends, expires and restarts.                                        *)
(***************************************************************************)
CONSTANT FleetNode
VARIABLES deployment, fAlive, fTouching, fLog, fStream, fPending, fChecked, fQueue, fBus,
          fConn, fPushed, fReplies, fCur, fLast, fGot

Fleet == INSTANCE StreamableSession WITH
    Node <- FleetNode, Delivery <- "pubsub", MaxPush <- 1, MaxReply <- 1, MaxCount <- 1,
    BufferLimit <- 1, Allowed <- Lifecycle,
    alive <- fAlive, touching <- fTouching, log <- fLog, stream <- fStream,
    pending <- fPending, checked <- fChecked, queue <- fQueue, bus <- fBus, conn <- fConn,
    pushed <- fPushed, replies <- fReplies, cur <- fCur, last <- fLast, got <- fGot

fleet == <<fAlive, fTouching, fLog, fStream, fPending, fChecked, fQueue, fBus, fConn, fPushed,
           fReplies, fCur, fLast, fGot>>
MCInit == deployment \in {"single", "fleet"} /\ Init /\ Fleet!Init
MCNext ==
    /\ UNCHANGED deployment
    /\ \/ deployment = "single" /\ Next /\ UNCHANGED fleet
       \/ deployment = "fleet" /\ Fleet!Next /\ UNCHANGED vars
Spec ==
    /\ MCInit /\ [][MCNext]_<<deployment, vars, fleet>>
    /\ deployment = "single" => Fairness
    /\ deployment = "fleet" => Fleet!Fairness

\* StreamsEnd of the two replicas ("DELETE with Mcp-Session-Id: terminate session",
\* ADR-023).
FleetStreamsEnd == Fleet!StreamsEnd
=============================================================================
