--------------------------- MODULE MCRouteExecutor ---------------------------
(* One drone that may receive, any number of times and in any order, the   *)
(* commands of two missions and of two revisions of the first one.         *)
EXTENDS RouteExecutor

Flying(kind, command, mission, revision, route) ==
  Broadcast(kind, command, mission, revision, {1},
            [d \in Drones |-> IF route = 0 THEN NoOrder
                              ELSE [id |-> route, legs |-> 2]])

EmptyRoute(command, mission, revision, route) ==
  Broadcast("EXECUTE", command, mission, revision, {1},
            [d \in Drones |-> [id |-> route, legs |-> 0]])

MCCommands ==
  {Flying("EXECUTE", 1, 1, 1, 1),        \* a mission of two targets
   Flying("EXECUTE", 2, 1, 2, 1),        \* its route kept by a revision
   Flying("EXECUTE", 3, 1, 3, 2),        \* its route changed by a revision
   Flying("EXECUTE", 4, 1, 4, 0),        \* its route removed by a revision
   Flying("LOW_BATTERY_RTH", 5, 2, 1, 3),
   Flying("CANCEL", 6, 1, 3, 0),
   Flying("TAKEOFF", 7, 1, 3, 0),
   EmptyRoute(8, 2, 2, 4)}
=============================================================================
