---------------------------- MODULE RouteControl ----------------------------
(***************************************************************************)
(* Which route there is, which is being recorded and which is running:     *)
(* global_utils, which the menu, the alerts and the conditional routes     *)
(* call on the game thread and the server's commands on the socket thread. *)
(* The socket thread looks at the vectors first, acts on what it saw       *)
(* later, and starts a route after it has cleared the enable flags; the    *)
(* game thread may do anything in between.  Of a route only its length     *)
(* counts here; PacketReplay says how a packet route is replayed.          *)
(***************************************************************************)
EXTENDS Naturals, FiniteSets

CONSTANT MaxSize  \* bound: elements of a vector

ASSUME MaxSizeAssumption == MaxSize \in Nat \ {0}

Replayable == {"waypoints", "packets"}
Vectors == Replayable \cup {"fill"}

VARIABLES
  size,       \* the sizes of the three vectors
  recording,  \* the vectors whose record flag is set
  enabled,    \* the routes whose enable flag is set
  socket,     \* what the socket thread is about to do, and the routes it saw
  orphans,    \* history: running routes whose vector was emptied under them
  overtaken   \* history: a route was started while the socket thread, which had
              \* stopped all, had yet to start the one it saw

vars == <<size, recording, enabled, socket, orphans, overtaken>>

Idle == [op |-> "none", saw |-> {}]

Init ==
  /\ size = [v \in Vectors |-> 0]
  /\ recording = {}
  /\ enabled = {}
  /\ socket = Idle
  /\ orphans = {}
  /\ overtaken = FALSE

(* Mutant of Loaded: a fill route counts as a route of its own. *)
LoadedWithFill == {r \in Vectors : size[r] > 0}

Loaded == {r \in Replayable : size[r] > 0}
Nothing == [v \in Vectors |-> 0]

(* A route that goes on running is an orphan once it has lost its vector.  *)
Orphaned ==
  orphans' = {r \in enabled \cap enabled' : r \in orphans \/ size'[r] = 0}

-----------------------------------------------------------------------------
(* global_utils, on the routes that were seen to be loaded.                *)

(* Mutant of Disabled: the case said to be impossible is left out.         *)
DisabledButFor(saw) == IF Cardinality(saw) > 1 THEN enabled ELSE enabled \ saw

(* global_utils::disable *)
Disabled(saw) == IF Cardinality(saw) > 1 THEN {} ELSE enabled \ saw

(* waypoints::enable, packets::enable; the latter may refuse the player's  *)
(* vehicle, or that he has none.                                           *)
Startable(saw, sizes) ==
  LET able == {r \in saw : sizes[r] >= 2}
  IN IF "packets" \in saw THEN {able, {}} ELSE {able}

(* global_utils::enable, when more than one kind of route was seen: all    *)
(* are dropped and what runs is left running.                              *)
DropsAll ==
  /\ size' = [size EXCEPT !["waypoints"] = 0, !["packets"] = 0]
  /\ UNCHANGED enabled
  /\ Orphaned

(* Otherwise what runs is stopped; a packet route has no fill route.       *)
DropsFill(saw) == size' = [size EXCEPT !["fill"] = IF "packets" \in saw THEN 0 ELSE @]

(* Mutant of GlobalEnable: what is running is not stopped. *)
EnableToo(saw) ==
  /\ DropsFill(saw)
  /\ \E started \in Startable(saw, size) : enabled' = enabled \cup started
  /\ orphans' = {}
  /\ overtaken' = (socket.op = "start")

(* The whole of it, on the game thread.                                    *)
GlobalEnable(saw) ==
  \/ Cardinality(saw) > 1 /\ DropsAll /\ UNCHANGED overtaken
  \/ /\ Cardinality(saw) <= 1
     /\ DropsFill(saw)
     /\ enabled' \in Startable(saw, size)
     /\ orphans' = {}
     /\ overtaken' = (socket.op = "start")

Others(v) ==
  CASE v = "waypoints" -> {"packets"}
    [] v = "packets" -> {"waypoints", "fill"}
    [] v = "fill" -> {}

AnyOther(v) == \E o \in Others(v) : size[o] > 0

-----------------------------------------------------------------------------
(* The game thread.                                                        *)

(* Mutant of Record: what is being recorded is not looked at. *)
RecordAlso(v) ==
  /\ recording' = recording \cup {v}
  /\ enabled' = IF enabled = {} THEN {} ELSE Disabled(Loaded)
  /\ size' = IF AnyOther(v) THEN Nothing ELSE size
  /\ Orphaned
  /\ UNCHANGED <<socket, overtaken>>

(* global_utils::record *)
Record(v) ==
  /\ IF recording # {}
       THEN recording' = {} /\ UNCHANGED <<enabled, size>>
       ELSE /\ recording' = {v}
            /\ enabled' = IF enabled = {} THEN {} ELSE Disabled(Loaded)
            /\ size' = IF AnyOther(v) THEN Nothing ELSE size
  /\ Orphaned
  /\ UNCHANGED <<socket, overtaken>>

(* waypoints::add_waypoint, from the button or while recording.            *)
AddWaypoint(v) ==
  /\ v = "waypoints" \/ v \in recording
  /\ size[v] < MaxSize
  /\ IF AnyOther("waypoints")
       THEN recording' = {} /\ size' = [Nothing EXCEPT ![v] = 1]
       ELSE UNCHANGED recording /\ size' = [size EXCEPT ![v] = @ + 1]
  /\ UNCHANGED <<enabled, socket, overtaken>>
  /\ Orphaned

(* A packet or an RPC is recorded: nothing else is looked at.              *)
RecordPacket ==
  /\ "packets" \in recording
  /\ size["packets"] < MaxSize
  /\ size' = [size EXCEPT !["packets"] = @ + 1]
  /\ UNCHANGED <<recording, enabled, socket, overtaken>>
  /\ Orphaned

Clear(r) ==
  /\ size' = [size EXCEPT ![r] = 0]
  /\ UNCHANGED <<recording, enabled, socket, overtaken>>
  /\ Orphaned

(* What create_route_config has saved, one kind of route, or a file that   *)
(* does not hold what load_route_config knows.                             *)
Files ==
  {Nothing} \cup
  {[Nothing EXCEPT !["packets"] = n] : n \in 1 .. MaxSize} \cup
  {[Nothing EXCEPT !["waypoints"] = n, !["fill"] = m] :
     n \in 1 .. MaxSize, m \in {0, MaxSize}}

(* load_route_config *)
Load ==
  /\ enabled' = Disabled(Loaded)
  /\ size' \in Files
  /\ UNCHANGED <<recording, socket, overtaken>>
  /\ Orphaned

(* A route has been run to its end; the end of a packet route that has     *)
(* lost its vector is its beginning.                                       *)
RouteEnds ==
  \/ "packets" \in enabled
  \/ "waypoints" \in enabled /\ size["waypoints"] >= 2

(* A conditional route is loaded, which stops the one that has ended, and  *)
(* enabled,                                                                *)
ChangeRoute ==
  /\ RouteEnds
  /\ size' \in Files
  /\ enabled' \in Startable({r \in Replayable : size'[r] > 0}, size')
  /\ orphans' = {}
  /\ overtaken' = (socket.op = "start")
  /\ UNCHANGED <<recording, socket>>

(* or cannot be loaded, and what is there is enabled again.                *)
ChangeRouteFails ==
  /\ RouteEnds
  /\ GlobalEnable(Loaded)
  /\ UNCHANGED <<recording, socket>>

(* The fill route finds the player on foot, or a thread of the packet      *)
(* replay has failed to move him.                                          *)
GivesUp(r) ==
  /\ r \in enabled
  /\ r = "waypoints" => size[r] >= 2
  /\ enabled' = enabled \ {r}
  /\ UNCHANGED <<size, recording, socket, overtaken>>
  /\ Orphaned

MenuEnable ==
  /\ enabled = {}
  /\ GlobalEnable(Loaded)
  /\ UNCHANGED <<recording, socket>>

(* The button, or an alert. *)
MenuDisable ==
  /\ enabled # {}
  /\ enabled' = Disabled(Loaded)
  /\ UNCHANGED <<size, recording, socket, overtaken>>
  /\ Orphaned

-----------------------------------------------------------------------------
(* The socket thread.                                                      *)
SocketLooks(op) ==
  /\ socket = Idle
  /\ socket' = [op |-> op, saw |-> Loaded]
  /\ UNCHANGED <<size, recording, enabled, orphans, overtaken>>

SocketDropsAll ==
  /\ socket.op = "enable" /\ Cardinality(socket.saw) > 1
  /\ DropsAll
  /\ socket' = Idle
  /\ UNCHANGED <<recording, overtaken>>

SocketStops ==
  /\ socket.op = "enable" /\ Cardinality(socket.saw) <= 1
  /\ DropsFill(socket.saw)
  /\ enabled' = {}
  /\ orphans' = {}
  /\ overtaken' = FALSE
  /\ socket' = [socket EXCEPT !.op = "start"]
  /\ UNCHANGED recording

SocketStarts ==
  /\ socket.op = "start"
  /\ \E started \in Startable(socket.saw, size) : enabled' = enabled \cup started
  /\ socket' = Idle
  /\ UNCHANGED <<size, recording, orphans, overtaken>>

SocketDisables ==
  /\ socket.op = "disable"
  /\ enabled' = Disabled(socket.saw)
  /\ socket' = Idle
  /\ UNCHANGED <<size, recording, overtaken>>
  /\ Orphaned

Next ==
  \/ \E v \in Vectors : Record(v)
  \/ \E v \in {"waypoints", "fill"} : AddWaypoint(v)
  \/ RecordPacket
  \/ \E r \in Replayable : Clear(r) \/ GivesUp(r)
  \/ Load \/ ChangeRoute \/ ChangeRouteFails
  \/ MenuEnable \/ MenuDisable
  \/ \E op \in {"enable", "disable"} : SocketLooks(op)
  \/ SocketDropsAll \/ SocketStops \/ SocketStarts \/ SocketDisables

Spec == Init /\ [][Next]_vars

-----------------------------------------------------------------------------
(* Properties.                                                             *)

(* Type invariant. *)
TypeOK ==
  /\ size \in [Vectors -> 0 .. MaxSize]
  /\ recording \subseteq Vectors
  /\ enabled \subseteq Replayable
  /\ socket \in [op : {"none", "enable", "start", "disable"}, saw : SUBSET Replayable]
  /\ orphans \subseteq enabled
  /\ overtaken \in BOOLEAN

(* Two routes never run together, whoever starts them: global_utils::enable *)
(* stops all before it starts one.  The exception is the route that the     *)
(* game thread starts while the socket thread is between the two.           *)
RunsOneRoute == Cardinality(enabled) <= 1 \/ overtaken

(* Two things are never recorded together. *)
RecordsOneRoute == Cardinality(recording) <= 1

(* Whenever the button or an alert calls global_utils::disable, all that it *)
(* leaves running is a route whose vector was emptied while it ran.         *)
ButtonStops == Disabled(Loaded) \subseteq orphans

(* The comments on global_utils call two kinds of routes at a time         *)
(* impossible: recording packets goes on while a waypoint is added.        *)
OneRouteKind == Cardinality(Loaded) <= 1
=============================================================================
