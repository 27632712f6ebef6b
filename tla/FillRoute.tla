------------------------------ MODULE FillRoute ------------------------------
(***************************************************************************)
(* Following a waypoint route: waypoints::tick on the game thread, which   *)
(* drives the normal route round and round and, every FillLoops rounds,    *)
(* the fill route once; fill_thread, which takes on fuel while the driving *)
(* is paused; the menu, the change of route at the end of a round, and the *)
(* server's enable and disable commands on the socket thread.              *)
(*                                                                         *)
(* Whether the player is near a waypoint, steers himself or sits in a      *)
(* vehicle is a choice.  No packet route is loaded: RouteControl has both. *)
(* A fill route that is not to be used (use_fill_route) is an empty one.   *)
(***************************************************************************)
EXTENDS Naturals

CONSTANTS
  Filler,       \* bound: fill threads alive at a time
  FillLoops,    \* vars.waypoints.fill_routes_loops_count
  FillIndex,    \* vars.waypoints.fill_waypoint_index, from 1
  LoopMod,      \* m_route_loops is a uint8_t: 256 in the code
  MaxWay,       \* bound: elements of the normal route
  MaxSize,      \* bound: elements of the fill route, and of any
  MaxCommands   \* bound: commands of the server

ASSUME FillAssumption ==
  /\ LoopMod \in Nat \ {0} /\ FillLoops \in 0 .. LoopMod - 1
  /\ FillIndex \in Nat /\ FillIndex >= 2
  /\ MaxWay \in Nat \ {0} /\ MaxSize \in Nat /\ MaxWay <= MaxSize /\ MaxCommands \in Nat

VARIABLES
  way,           \* size of vars.waypoints.waypoints_vector
  fill,          \* size of vars.waypoints.fill_waypoints_vector
  active,        \* m_active_waypoint, from 0
  enable,        \* vars.waypoints.enable
  fill_active,   \* m_fill_route_active
  paused,        \* m_paused
  loops,         \* m_route_loops
  in_vehicle,    \* vars.local_vehicle # nullptr, as of the last frame
  locked,        \* m_ped_locked: the game has been told where to go
  tick,          \* where the game thread is in waypoints::tick
  filler,        \* the fill threads
  socket,        \* where the socket thread is in enable or disable
  commands,      \* commands the server has sent
  disturbed,     \* history: a vector was emptied or replaced under the route or
                 \* read past its end, or the route started in the middle of a tick
  raced,         \* history: a tick locked the player for a route stopped meanwhile
  stale_resume   \* history: a thread of an earlier run ended the pause of this one

sizes == <<way, fill>>
run == <<active, enable, fill_active, paused, loops>>
lock == <<locked, raced>>
remote == <<socket, commands>>
vars == <<sizes, run, in_vehicle, lock, tick, filler, remote, disturbed, stale_resume>>

NoThread == [phase |-> "none", current |-> FALSE]
Live(t) == filler[t].phase # "none"
Current(t) == Live(t) /\ filler[t].current
Running == tick # "crashed"
Idle == tick = "idle"

Init ==
  /\ way = 0 /\ fill = 0
  /\ active = 0 /\ enable = FALSE /\ fill_active = FALSE /\ paused = FALSE /\ loops = 0
  /\ in_vehicle = FALSE /\ locked = FALSE
  /\ tick = "idle" /\ socket = "idle" /\ commands = 0
  /\ filler = [t \in Filler |-> NoThread]
  /\ disturbed = FALSE /\ raced = FALSE /\ stale_resume = FALSE

-----------------------------------------------------------------------------
(* What the handlers have in common.                                       *)

(* ++m_active_waypoint; MaxSize + 1 is past every route. *)
Succ(i) == IF i > MaxSize THEN i ELSE i + 1

(* Mutant of OneMoreLoop: a wider counter. *)
OneMoreWithoutWrap == loops + 1

(* ++m_route_loops *)
OneMoreLoop == (loops + 1) % LoopMod

Unlock == locked' = FALSE /\ raced' = FALSE
Lock == locked' = TRUE /\ raced' = ~enable

(* Mutants of Rewind: the fill route goes on, or what pauses it is ended. *)
RewindNormalOnly ==
  /\ active' = 0 /\ enable' = FALSE
  /\ UNCHANGED <<fill_active, paused>>
RewindAndResume ==
  /\ active' = 0 /\ enable' = FALSE /\ fill_active' = FALSE /\ paused' = FALSE

(* waypoints::disable up to the loops                                      *)
Rewind ==
  /\ active' = 0 /\ enable' = FALSE /\ fill_active' = FALSE
  /\ UNCHANGED paused

(* Mutant of Disable: the player is left where the game drives him. *)
DisableLocked == Rewind /\ loops' = 0 /\ UNCHANGED lock

(* and all of it. *)
Disable == Rewind /\ loops' = 0 /\ Unlock

(* global_utils::disable, on the game thread *)
GlobalDisable ==
  IF way = 0 THEN UNCHANGED <<run, lock>> ELSE Disable

(* waypoints::enable: the threads of earlier runs are not stopped.         *)
Starts(n) ==
  IF n < 2 THEN UNCHANGED <<active, paused, filler, stale_resume>> ELSE
    /\ active' = 0 /\ paused' = FALSE /\ stale_resume' = FALSE
    /\ filler' = [t \in Filler |-> [filler[t] EXCEPT !.current = FALSE]]

(* global_utils::enable, on the game thread, for n waypoints *)
GlobalEnable(n) == enable' = (n >= 2) /\ Starts(n) /\ Unlock

(* A vector was emptied or replaced; a run that was stopped first does not *)
(* mind.                                                                   *)
Disturbs == disturbed' = (disturbed \/ enable \/ fill_active)

(* Files that hold waypoints, or none that this module knows.              *)
Files == {<<0, 0>>} \cup ((1 .. MaxWay) \X (0 .. MaxSize))

-----------------------------------------------------------------------------
(* The menu and the alerts, between two ticks.                             *)
MenuEnable ==
  /\ Idle /\ ~enable
  /\ GlobalEnable(way)
  /\ UNCHANGED <<sizes, fill_active, loops, in_vehicle, tick, remote, disturbed>>

(* The button, an alert, or the start of a recording. *)
Stop ==
  /\ Idle /\ way > 0
  /\ Disable
  /\ disturbed' = FALSE
  /\ UNCHANGED <<sizes, in_vehicle, tick, filler, remote, stale_resume>>

(* add_waypoint, from the button or the record flags *)
AddWaypoint ==
  /\ Idle
  /\ \/ way < MaxWay /\ way' = way + 1 /\ UNCHANGED fill
     \/ fill < MaxSize /\ fill' = fill + 1 /\ UNCHANGED way
  /\ UNCHANGED <<run, in_vehicle, lock, tick, filler, remote, disturbed, stale_resume>>

(* CLEAR WAYPOINTS *)
Clear ==
  /\ Idle /\ way > 0
  /\ way' = 0
  /\ Disturbs
  /\ UNCHANGED <<fill, run, in_vehicle, lock, tick, filler, remote, stale_resume>>

(* configs::load_route_config *)
Load ==
  /\ Idle
  /\ \E f \in Files : way' = f[1] /\ fill' = f[2]
  /\ GlobalDisable
  /\ IF way = 0 THEN Disturbs ELSE disturbed' = FALSE
  /\ UNCHANGED <<in_vehicle, tick, filler, remote, stale_resume>>

-----------------------------------------------------------------------------
(* The game thread.  waypoints::tick: where the player sits is looked at   *)
(* once a frame, and so is the enable flag.                                *)
TickBegins ==
  /\ Idle
  /\ in_vehicle' \in BOOLEAN
  /\ tick' = IF enable THEN "system" ELSE "idle"
  /\ UNCHANGED <<sizes, run, lock, filler, remote, disturbed, stale_resume>>

(* walk_drive_system returns early,                                        *)
Waits ==
  /\ tick = "system" /\ (way < 2 \/ paused)
  /\ tick' = "idle"
  /\ UNCHANGED <<sizes, run, in_vehicle, lock, filler, remote, disturbed, stale_resume>>

ShouldStartFill == fill > 0 /\ in_vehicle /\ loops >= FillLoops /\ active = 0

(* or starts the fill route if it is due,                                  *)
StartsFillIfDue ==
  /\ tick = "system" /\ way >= 2 /\ ~paused
  /\ fill_active' = (fill_active \/ ShouldStartFill)
  /\ loops' = IF ShouldStartFill THEN 0 ELSE loops
  /\ UNCHANGED <<sizes, active, enable, paused, in_vehicle, filler, remote, disturbed, stale_resume>>

(* and gives way to a player who steers,                                   *)
PlayerSteers ==
  /\ StartsFillIfDue
  /\ IF locked THEN Unlock ELSE UNCHANGED lock
  /\ tick' = "idle"

(* or goes on along the one route or the other.                            *)
Drives ==
  /\ StartsFillIfDue
  /\ tick' = IF fill_active' THEN "fill" ELSE "normal"
  /\ UNCHANGED lock

(* Both read the waypoint unchecked and may have reached it.               *)
Ahead(reached) == IF reached THEN Succ(active) ELSE active
AtEnd(n) == \E reached \in BOOLEAN : Ahead(reached) = n
ReadOf(n) == disturbed' = (disturbed \/ active >= n)

DrivesTo(next) ==
  /\ active' = next
  /\ Lock
  /\ tick' = "idle"

NormalDrives(reached) ==
  /\ tick = "normal" /\ Ahead(reached) # way
  /\ ReadOf(way)
  /\ DrivesTo(Ahead(reached))
  /\ UNCHANGED <<sizes, enable, fill_active, paused, loops, in_vehicle, filler, remote, stale_resume>>

(* The end of a round: the route stays,                                    *)
RoundEnds ==
  /\ tick = "normal" /\ AtEnd(way)
  /\ active' = 0
  /\ loops' = OneMoreLoop
  /\ ReadOf(way)
  /\ tick' = "idle"
  /\ UNCHANGED <<sizes, enable, fill_active, paused, in_vehicle, lock, filler, remote, stale_resume>>

(* or a conditional route is loaded, which stops this one, and enabled,    *)
RouteChanges ==
  /\ tick = "normal" /\ AtEnd(way) /\ enable
  /\ \E f \in Files : way' = f[1] /\ fill' = f[2]
  /\ fill_active' = FALSE /\ active' = 0 /\ loops' = 1 % LoopMod
  /\ enable' = (way' >= 2)
  /\ IF way' >= 2
       THEN /\ paused' = FALSE /\ stale_resume' = FALSE
            /\ filler' = [t \in Filler |-> [filler[t] EXCEPT !.current = FALSE]]
       ELSE UNCHANGED <<paused, filler, stale_resume>>
  /\ Unlock
  /\ disturbed' = FALSE
  /\ tick' = "idle"
  /\ UNCHANGED <<in_vehicle, remote>>

(* or cannot be loaded, and this one is enabled again.                     *)
RouteChangeFails ==
  /\ tick = "normal" /\ AtEnd(way) /\ enable
  /\ GlobalEnable(way)
  /\ loops' = OneMoreLoop
  /\ ReadOf(way)
  /\ tick' = "idle"
  /\ UNCHANGED <<sizes, fill_active, in_vehicle, remote>>

(* The fill route is for vehicles only.                                    *)
FillOnFoot ==
  /\ tick = "fill" /\ ~in_vehicle
  /\ Disable
  /\ tick' = "idle"
  /\ UNCHANGED <<sizes, in_vehicle, filler, remote, disturbed, stale_resume>>

(* Mutant of FillRouteEnds: the normal route is not gone back to. *)
FillRouteStartsOver ==
  /\ tick = "fill" /\ in_vehicle /\ AtEnd(fill)
  /\ active' = 0
  /\ ReadOf(fill)
  /\ tick' = "idle"
  /\ UNCHANGED <<sizes, fill_active, enable, paused, loops, in_vehicle, lock, filler, remote, stale_resume>>

FillRouteEnds ==
  /\ tick = "fill" /\ in_vehicle /\ AtEnd(fill)
  /\ active' = 0 /\ fill_active' = FALSE
  /\ ReadOf(fill)
  /\ tick' = "idle"
  /\ UNCHANGED <<sizes, enable, paused, loops, in_vehicle, lock, filler, remote, stale_resume>>

FillDrives(reached) ==
  /\ tick = "fill" /\ in_vehicle
  /\ Ahead(reached) # fill /\ Ahead(reached) + 1 # FillIndex
  /\ ReadOf(fill)
  /\ DrivesTo(Ahead(reached))
  /\ UNCHANGED <<sizes, enable, fill_active, paused, loops, in_vehicle, filler, remote, stale_resume>>

(* The waypoint to take on fuel at: a thread is started, and the index is  *)
(* moved on without a look at the size.                                    *)
FillStops(t, reached) ==
  /\ tick = "fill" /\ in_vehicle /\ ~Live(t)
  /\ Ahead(reached) # fill /\ Ahead(reached) + 1 = FillIndex
  /\ ReadOf(fill)
  /\ DrivesTo(Succ(Ahead(reached)))
  /\ filler' = [filler EXCEPT ![t] = [phase |-> "stop", current |-> TRUE]]
  /\ paused' = TRUE
  /\ UNCHANGED <<sizes, enable, fill_active, loops, in_vehicle, remote, stale_resume>>

(* What lies past the end of a vector need not be readable.                *)
ReadFails ==
  /\ \/ tick = "normal" /\ active >= way
     \/ tick = "fill" /\ in_vehicle /\ active >= fill
  /\ tick' = "crashed"
  /\ UNCHANGED <<sizes, run, in_vehicle, lock, filler, remote, disturbed, stale_resume>>

-----------------------------------------------------------------------------
(* fill_thread.  It waits for the vehicle to stop, lets go of the player,  *)
VehicleStops(t) ==
  /\ Running /\ filler[t].phase = "stop" /\ in_vehicle
  /\ Unlock
  /\ filler' = [filler EXCEPT ![t].phase = "fuel"]
  /\ UNCHANGED <<sizes, run, in_vehicle, tick, remote, disturbed, stale_resume>>

(* which it looks at through vars.local_vehicle again and again,           *)
NoVehicle(t) ==
  /\ Running /\ filler[t].phase = "stop" /\ ~in_vehicle
  /\ tick' = "crashed"
  /\ UNCHANGED <<sizes, run, in_vehicle, lock, filler, remote, disturbed, stale_resume>>

Intrudes(t) == ~filler[t].current /\ \E u \in Filler : Current(u)

(* Mutant of Resumes: nothing is resumed once the route has been stopped. *)
ResumesRoute(t) ==
  /\ Running /\ filler[t].phase = "fuel"
  /\ paused' = (paused /\ ~enable)
  /\ stale_resume' = (stale_resume \/ Intrudes(t))
  /\ filler' = [filler EXCEPT ![t] = NoThread]
  /\ UNCHANGED <<sizes, active, enable, fill_active, loops, in_vehicle, lock, tick, remote, disturbed>>

(* switches the engine off and on, takes on fuel, and resumes whatever is  *)
(* paused by then.                                                         *)
Resumes(t) ==
  /\ Running /\ filler[t].phase = "fuel"
  /\ paused' = FALSE
  /\ stale_resume' = (stale_resume \/ Intrudes(t))
  /\ filler' = [filler EXCEPT ![t] = NoThread]
  /\ UNCHANGED <<sizes, active, enable, fill_active, loops, in_vehicle, lock, tick, remote, disturbed>>

-----------------------------------------------------------------------------
(* The socket thread.  enable and disable act on the vectors they saw.     *)
Command(op) ==
  /\ Running /\ socket = "idle" /\ commands < MaxCommands
  /\ op = "disable" => way > 0
  /\ socket' = IF op = "enable" /\ way = 0 THEN "stop" ELSE op
  /\ commands' = commands + 1
  /\ UNCHANGED <<sizes, run, in_vehicle, lock, tick, filler, disturbed, stale_resume>>

(* global_utils::enable stops the route, even when it saw none to start,   *)
SocketStops ==
  /\ Running /\ socket \in {"enable", "stop"}
  /\ enable' = FALSE
  /\ Unlock
  /\ socket' = IF socket = "enable" THEN "start" ELSE "idle"
  /\ UNCHANGED <<sizes, active, fill_active, paused, loops, in_vehicle, tick, filler, commands, disturbed, stale_resume>>

(* and starts it again.                                                    *)
SocketStarts ==
  /\ Running /\ socket = "start"
  /\ enable' = (enable \/ way >= 2)
  /\ Starts(way)
  /\ socket' = "idle"
  /\ disturbed' = (disturbed \/ ~Idle)
  /\ UNCHANGED <<sizes, fill_active, loops, in_vehicle, lock, tick, commands>>

SocketRewinds ==
  /\ Running /\ socket = "disable"
  /\ Rewind
  /\ socket' = "unlock"
  /\ UNCHANGED <<sizes, loops, in_vehicle, lock, tick, filler, commands, disturbed, stale_resume>>

SocketUnlocks ==
  /\ Running /\ socket = "unlock"
  /\ loops' = 0
  /\ Unlock
  /\ socket' = "idle"
  /\ UNCHANGED <<sizes, active, enable, fill_active, paused, in_vehicle, tick, filler, commands, disturbed, stale_resume>>

-----------------------------------------------------------------------------
FillArrives ==
  \/ FillRouteEnds
  \/ FillDrives(TRUE)
  \/ \E t \in Filler : FillStops(t, TRUE)

Tick ==
  \/ TickBegins \/ Waits \/ PlayerSteers \/ Drives
  \/ \E reached \in BOOLEAN :
       NormalDrives(reached) \/ FillDrives(reached) \/ \E t \in Filler : FillStops(t, reached)
  \/ RoundEnds \/ RouteChanges \/ RouteChangeFails
  \/ FillOnFoot \/ FillRouteEnds \/ ReadFails

Menu == MenuEnable \/ Stop \/ AddWaypoint \/ Clear \/ Load
FillThread(t) == VehicleStops(t) \/ NoVehicle(t) \/ Resumes(t)
Socket ==
  \/ \E op \in {"enable", "disable"} : Command(op)
  \/ SocketStops \/ SocketStarts \/ SocketRewinds \/ SocketUnlocks

Next == Tick \/ Menu \/ Socket \/ \E t \in Filler : FillThread(t)

Spec == Init /\ [][Next]_vars

(* The game calls the tick every frame, and a vehicle that is no longer    *)
(* driven comes to rest.  A player lets go of the keys in the end, and a   *)
(* vehicle that is driven towards a waypoint gets there.                   *)
FairSpec ==
  /\ Spec
  /\ WF_vars(Tick) /\ SF_vars(Drives) /\ SF_vars(FillArrives)
  /\ \A t \in Filler : WF_vars(FillThread(t))

-----------------------------------------------------------------------------
(* Properties.                                                             *)

(* Type invariant. *)
TypeOK ==
  /\ way \in 0 .. MaxWay /\ fill \in 0 .. MaxSize
  /\ active \in 0 .. MaxSize + 1
  /\ loops \in 0 .. LoopMod - 1
  /\ enable \in BOOLEAN /\ fill_active \in BOOLEAN /\ paused \in BOOLEAN
  /\ in_vehicle \in BOOLEAN /\ locked \in BOOLEAN
  /\ tick \in {"idle", "system", "normal", "fill", "crashed"}
  /\ filler \in [Filler -> [phase : {"none", "stop", "fuel"}, current : BOOLEAN]]
  /\ socket \in {"idle", "enable", "disable", "stop", "start", "unlock"}
  /\ commands \in 0 .. MaxCommands
  /\ disturbed \in BOOLEAN /\ raced \in BOOLEAN /\ stale_resume \in BOOLEAN

(* While a thread that the present run has started takes on fuel, with the *)
(* engine off, the driving is paused, unless a thread of an earlier run    *)
(* has ended the pause.                                                    *)
FillingIsPaused == \A t \in Filler : Current(t) => paused \/ stale_resume

(* The tick reads waypoints within the vector of the route it follows,     *)
(* unless that was emptied or replaced under it, or the server started the *)
(* route in the middle of a tick, or the waypoint to take on fuel at is    *)
(* the last one, after which the index is moved on unchecked.              *)
ReadsInBounds ==
  /\ tick = "normal" => active < way \/ disturbed
  /\ tick = "fill" => active < fill \/ disturbed \/ fill = FillIndex

(* A route that has been stopped, by whatever path, has let go of the      *)
(* player; a tick under way when the server stopped it may lock him again. *)
LockReleased == locked => enable \/ raced \/ socket = "unlock"

(* The driving is paused for a time only, whatever becomes of the run that *)
(* has been paused: the thread that resumes it survives every stop.        *)
PauseEnds == []<>(~paused \/ ~Running)

(* A fill route that is followed comes to its end and gives the normal     *)
(* route its turn.                                                         *)
FillEnds == []<>(~fill_active \/ ~enable \/ way < 2 \/ disturbed \/ ~Running)
=============================================================================
