---------------------------- MODULE PacketReplay ----------------------------
(***************************************************************************)
(* The replay of a recorded packet route: packets::tick on the game        *)
(* thread, the handlers of received RPCs, the menu, the detached threads   *)
(* that get the player into and out of a vehicle, and the enable and       *)
(* disable commands that the socket thread runs.  Nothing is locked.       *)
(*                                                                         *)
(* The game thread runs one callback at a time, so the menu and the RPC    *)
(* handlers act only between ticks; a tick is split where it calls out or  *)
(* where another thread's write to the state it tests can fall in between. *)
(* packets::disable on another thread is split at its last write.  The id  *)
(* of the current vehicle and all positions are data: a comparison of      *)
(* distances is a choice.  No waypoint route is loaded.                    *)
(***************************************************************************)
EXTENDS Naturals, Sequences, SequencesExt

CONSTANTS
  Worker,       \* bound: detached threads alive at a time
  Routes,       \* the packet routes that config files hold
  RecordKinds,  \* the kinds of packet the player records
  MaxLen,       \* bound: a recording that long is not added to
  MaxIndex,     \* bound: stands for every index past all routes
  Window,       \* max_steps of search_for_packet, 30 in the code
  KeyWindow,    \* the same for an enter key near an interior, 15
  PlayerActs,   \* whether the player gets into and out of vehicles unasked
  MenuActs,     \* whether the player uses the menu while a route runs
  Remote        \* whether the server sends its enable and disable commands

OnFoot == {"foot", "key"}
Received == {"freeze", "interior", "remove", "put"}
Packets == OnFoot \cup {"car"}
Rpcs == Received \cup {"sent"}
Kinds == Packets \cup Rpcs

ASSUME ReplayAssumption ==
  /\ Routes \subseteq Seq(Kinds)
  /\ RecordKinds \subseteq Kinds
  /\ MaxLen \in Nat /\ MaxIndex \in Nat /\ MaxLen < MaxIndex
  /\ \A r \in Routes : Len(r) < MaxIndex
  /\ Window \in Nat /\ KeyWindow \in Nat
  /\ PlayerActs \in BOOLEAN /\ MenuActs \in BOOLEAN /\ Remote \in BOOLEAN

VARIABLES
  vec,              \* vars.packets.packets_vector
  active,           \* m_active_packet, from 0
  enable,           \* vars.packets.enable
  record,           \* vars.packets.record_packets
  in_vehicle,       \* vars.local_vehicle # nullptr
  enter_car,        \* m_enter_car_active
  exit_car,         \* m_exit_car_active
  first_start,      \* m_first_start
  wait_put,         \* m_wait_to_put_in_vehicle
  change_interior,  \* m_change_interior_active
  tick,             \* where the game thread is in packets::tick
  worker,           \* the detached threads
  socket,           \* where the socket thread is in enable or disable
  disturbed,        \* history: the vector changed under the running replay, or it
                    \* was started in the middle of a tick
  overrun,          \* history: who was the first to read past the end of vec
  stale_clear       \* history: a thread of an earlier replay cleared a flag

flags == <<enter_car, exit_car, first_start, wait_put, change_interior>>
route == <<vec, record, disturbed>>
run == <<active, enable>>
history == <<overrun, stale_clear>>
vars == <<route, run, in_vehicle, flags, tick, worker, socket, history>>

-----------------------------------------------------------------------------
Jobs == {"enter", "exit"}
None == [job |-> "none", phase |-> "none", current |-> FALSE]
Live(w) == worker[w].job # "none"

(* std::terminate or an access violation ends every thread. *)
Running == tick # "crashed"
Idle == Running /\ tick = "idle"

Init ==
  /\ vec = <<>> /\ active = 0 /\ enable = FALSE /\ record = FALSE
  /\ in_vehicle = FALSE
  /\ enter_car = FALSE /\ exit_car = FALSE /\ first_start = TRUE
  /\ wait_put = FALSE /\ change_interior = FALSE
  /\ tick = "idle" /\ socket = "idle"
  /\ worker = [w \in Worker |-> None]
  /\ disturbed = FALSE /\ overrun = "none" /\ stale_clear = FALSE

-----------------------------------------------------------------------------
(* packets_vector[i], unchecked: past the end it is whatever lies there.   *)
At(v, i) == IF i < Len(v) THEN {v[i + 1]} ELSE Kinds \cup {"junk"}
Overrun(reader) == overrun' = IF overrun = "none" THEN reader ELSE overrun
ReadBy(reader, v, i) ==
  IF i < Len(v) THEN UNCHANGED overrun ELSE Overrun(reader)

Smaller(m, n) == IF m < n THEN m ELSE n

(* ++m_active_packet *)
Succ(i) == Smaller(i + 1, MaxIndex)

(* search_for_packet, both ways: an element of one of the kinds ks within  *)
(* `steps` of i, or at i itself.                                           *)
Near(v, ks, i, steps) ==
  LET n == Len(v)
  IN \E k \in 0 .. Smaller(steps, n) :
       \/ v[((i + k) % n) + 1] \in ks
       \/ v[((i + n - k) % n) + 1] \in ks

(* How far from i on, round the end, the elements of the kinds ks are.     *)
StepsTo(v, ks, i) ==
  {k \in 0 .. Len(v) : v[((i + k) % Len(v)) + 1] \in ks}

Least(S) == CHOOSE m \in S : \A n \in S : m <= n

(* Mutant of NextOf: the index does not come round the end. *)
NextStraightOn(v, ks, i) == i + Least(StepsTo(v, ks, i))

(* search_for_next_packet_of_type: the first one.                          *)
NextOf(v, ks, i) == (i + Least(StepsTo(v, ks, i))) % Len(v)

-----------------------------------------------------------------------------
(* packets_utils::reset.  The threads that are still alive now belong to   *)
(* an earlier replay.                                                      *)
ResetFlags ==
  /\ enter_car' = FALSE /\ exit_car' = FALSE /\ first_start' = TRUE
  /\ wait_put' = FALSE /\ change_interior' = FALSE

Outdated(ws) ==
  [w \in Worker |->
    IF ws[w].current THEN [ws[w] EXCEPT !.current = FALSE] ELSE ws[w]]

Reset == ResetFlags /\ worker' = Outdated(worker)

(* packets::disable *)
Disable == Reset /\ active' = 0 /\ enable' = FALSE

(* global_utils::disable, which only stops a route that has packets.       *)
GlobalDisable ==
  IF vec = <<>> THEN UNCHANGED <<run, flags, worker>> ELSE Disable

(* send_alert_to_user: alarm, message and log entry, then disable.         *)
Alert == GlobalDisable

(* packets::enable looks at the kind of packets_vector[m_active_packet],   *)
(* wherever the last replay left that; of an RPC it reads a packet id that *)
(* was never written.                                                      *)
Mismatch == IF in_vehicle THEN OnFoot ELSE {"car"}
Startable == IF in_vehicle THEN {"car"} ELSE OnFoot

(* Mutant of TooShort: only an empty route is refused. *)
IsEmpty(v) == v = <<>>

TooShort(v) == Len(v) < 2

Refuses(v, i) == TooShort(v) \/ \E e \in At(v, i) : e \notin Startable
Accepts(v, i) == ~TooShort(v) /\ \E e \in At(v, i) : e \notin Mismatch

(* 0, or the packet closest to the player that suits him.                  *)
StartPoints(v) == {0} \cup {i \in 0 .. Len(v) - 1 : v[i + 1] \in Startable}

(* global_utils::enable: it ends a running replay without a reset.         *)
GlobalEnable(reader) ==
  /\ IF TooShort(vec) THEN UNCHANGED overrun ELSE ReadBy(reader, vec, active)
  /\ UNCHANGED <<vec, record, stale_clear>>
  /\ \/ /\ Refuses(vec, active)
        /\ enable' = FALSE
        /\ UNCHANGED <<active, flags, worker, disturbed>>
     \/ /\ Accepts(vec, active)
        /\ Reset
        /\ enable' = TRUE
        /\ active' \in StartPoints(vec)
        /\ disturbed' = (tick # "idle")

-----------------------------------------------------------------------------
(* packets::tick, up to its early returns.                                 *)
TickDead ==
  /\ Idle /\ (enable \/ record)
  /\ Alert
  /\ UNCHANGED <<route, in_vehicle, tick, socket, history>>

AtEnd == enable /\ active = Len(vec)

(* Mutant of TickBegins: the end of the route is not looked for. *)
TickBeginsAnywhere ==
  /\ Idle /\ (enable \/ record)
  /\ tick' = "received"
  /\ UNCHANGED <<route, run, in_vehicle, flags, worker, socket, history>>

TickBegins ==
  /\ Idle /\ (enable \/ record) /\ ~AtEnd
  /\ tick' = "received"
  /\ UNCHANGED <<route, run, in_vehicle, flags, worker, socket, history>>

(* increment_route_loops_and_check keeps the route, *)
KeepRoute ==
  /\ Idle /\ AtEnd
  /\ active' = 0
  /\ UNCHANGED <<route, enable, in_vehicle, flags, tick, worker, socket, history>>

(* or loads another one, which stops the replay, and starts that,          *)
ChangeRoute ==
  /\ Idle /\ AtEnd
  /\ vec' \in Routes
  /\ active' = 0
  /\ \/ Refuses(vec', 0) /\ enable' = FALSE
     \/ Accepts(vec', 0) /\ enable' = TRUE
  /\ IF vec = <<>> /\ ~enable' THEN UNCHANGED <<flags, worker>> ELSE Reset
  /\ disturbed' = FALSE
  /\ UNCHANGED <<record, in_vehicle, tick, socket, history>>

(* or fails to load it, has stopped nothing, and starts the old one again  *)
(* from where it is: past its end.                                         *)
ChangeRouteFails ==
  /\ Idle /\ AtEnd
  /\ ReadBy("enable", vec, active)
  /\ active' = 0
  /\ \/ Refuses(vec, active) /\ enable' = FALSE /\ UNCHANGED <<flags, worker>>
     \/ Accepts(vec, active) /\ enable' = TRUE /\ Reset
  /\ UNCHANGED <<route, in_vehicle, tick, socket, stale_clear>>

-----------------------------------------------------------------------------
(* The body of a tick.  In(from) holds when the game thread is there.      *)
In(from) == Running /\ tick = from

Returns == tick' = "finish"

(* handle_recorded_received_rpc *)
HandleRecordedReceivedRpc ==
  /\ In("received")
  /\ tick' = "sent"
  /\ \/ /\ ~enable
        /\ UNCHANGED <<active, wait_put, overrun>>
     \/ /\ enable
        /\ ReadBy("tick", vec, active)
        /\ \E e \in At(vec, active) :
             IF e \in Received
               THEN active' = Succ(active) /\ wait_put' = (wait_put \/ e = "put")
               ELSE UNCHANGED <<active, wait_put>>
  /\ UNCHANGED <<route, enable, in_vehicle, enter_car, exit_car, first_start,
                 change_interior, worker, socket, stale_clear>>

(* The player is recorded: a new element, or none because he was too far   *)
(* from where he had been or is getting into a vehicle.                    *)
Recording(kinds) ==
  \/ UNCHANGED <<vec, disturbed>>
  \/ /\ Len(vec) < MaxLen
     /\ \E e \in kinds \cap RecordKinds : vec' = Append(vec, e)
     /\ disturbed' = (disturbed \/ enable)

(* send_recorded_rpc; the RPC passes the hook that records sent RPCs.      *)
SendRecordedRpc ==
  /\ In("sent")
  /\ \/ /\ ~enable
        /\ tick' = "handler"
        /\ UNCHANGED <<vec, disturbed, overrun>>
     \/ /\ enable
        /\ ReadBy("tick", vec, active)
        /\ \E e \in At(vec, active) :
             IF e = "sent"
               THEN /\ tick' = "sent_advance"
                    /\ IF record THEN Recording({"sent"}) ELSE UNCHANGED <<vec, disturbed>>
               ELSE tick' = "handler" /\ UNCHANGED <<vec, disturbed>>
  /\ UNCHANGED <<record, run, in_vehicle, flags, worker, socket, stale_clear>>

(* ++m_active_packet, of whatever another thread has made of it since.     *)
AdvanceAt(from, to) ==
  /\ In(from)
  /\ active' = Succ(active)
  /\ tick' = to
  /\ UNCHANGED <<route, enable, in_vehicle, flags, worker, socket, history>>

(* Mutant of Advance: an RPC that was sent stays the active element. *)
AdvancePacketsOnly ==
  \/ /\ In("sent_advance")
     /\ tick' = "handler"
     /\ UNCHANGED <<route, run, in_vehicle, flags, worker, socket, history>>
  \/ AdvanceAt("advance", "finish")

Advance == AdvanceAt("sent_advance", "handler") \/ AdvanceAt("advance", "finish")

(* handle_on_foot_packet and handle_in_car_packet while recording.         *)
RecordPacket ==
  /\ In("handler") /\ record
  /\ Recording(IF in_vehicle THEN {"car"} ELSE OnFoot)
  /\ Returns
  /\ UNCHANGED <<record, run, in_vehicle, flags, worker, socket, history>>

HandlerDisabled ==
  /\ In("handler") /\ ~record /\ ~enable
  /\ Returns
  /\ UNCHANGED <<route, run, in_vehicle, flags, worker, socket, history>>

(* The handler has the element e of the running route before it.           *)
Handles(e) ==
  /\ In("handler") /\ ~record /\ enable
  /\ e \in At(vec, active)
  /\ ReadBy("tick", vec, active)
  /\ UNCHANGED <<route, in_vehicle, socket, stale_clear>>

HandlesOnFoot(e) == ~in_vehicle /\ Handles(e)
HandlesInCar(e) == in_vehicle /\ Handles(e)

Start(w, job) ==
  /\ ~Live(w)
  /\ worker' = [worker EXCEPT ![w] =
                  [job |-> job, phase |-> "request", current |-> TRUE]]

(* Nothing is sent: not a packet, or a thread is still moving the player,  *)
(* or the server has yet to put him in a vehicle or to move him inside.    *)
HoldsBack(e) ==
  \/ e \notin Packets
  \/ ~in_vehicle /\ exit_car
  \/ ~in_vehicle /\ e = "car" /\ (enter_car \/ wait_put)
  \/ ~in_vehicle /\ e = "foot" /\ change_interior
  \/ in_vehicle /\ enter_car
  \/ in_vehicle /\ e \in OnFoot /\ exit_car

HandlerWaits ==
  /\ \E e \in Kinds \cup {"junk"} : Handles(e) /\ HoldsBack(e)
  /\ Returns
  /\ UNCHANGED <<run, flags, worker>>

(* enter_closest_vehicle: there is none, *)
NoVehicle ==
  /\ HandlesOnFoot("car") /\ ~HoldsBack("car")
  /\ Disable
  /\ Returns

(* Mutant of EnterClosestVehicle: a thread that is at work is not looked for. *)
EnterVehicleAgain ==
  /\ HandlesOnFoot("car") /\ ~wait_put
  /\ \E w \in Worker : Start(w, "enter")
  /\ enter_car' = TRUE
  /\ Returns
  /\ UNCHANGED <<run, exit_car, first_start, wait_put, change_interior>>

(* or a thread gets the player into it.                                    *)
EnterClosestVehicle ==
  /\ HandlesOnFoot("car") /\ ~HoldsBack("car")
  /\ \E w \in Worker : Start(w, "enter")
  /\ enter_car' = TRUE
  /\ Returns
  /\ UNCHANGED <<run, exit_car, first_start, wait_put, change_interior>>

(* Mutant of ExitCurrentVehicle: a thread on its way in is not looked for. *)
ExitVehicleAlways ==
  /\ \E e \in OnFoot : HandlesInCar(e)
  /\ ~exit_car
  /\ \E w \in Worker : Start(w, "exit")
  /\ exit_car' = TRUE
  /\ Returns
  /\ UNCHANGED <<run, enter_car, first_start, wait_put, change_interior>>

ExitCurrentVehicle ==
  /\ \E e \in OnFoot : HandlesInCar(e) /\ ~HoldsBack(e)
  /\ \E w \in Worker : Start(w, "exit")
  /\ exit_car' = TRUE
  /\ Returns
  /\ UNCHANGED <<run, enter_car, first_start, wait_put, change_interior>>

(* The enter key where an interior is near: this and the following foot    *)
(* packets depend on the server's SetPlayerInterior.                       *)
KeyAtInterior ==
  /\ HandlesOnFoot("key") /\ ~HoldsBack("key")
  /\ active < Len(vec) => Near(vec, {"interior"}, active, KeyWindow)
  /\ change_interior' = TRUE
  /\ tick' = "advance"
  /\ UNCHANGED <<run, enter_car, exit_car, first_start, wait_put, worker>>

(* A packet the player can replay: e on foot or in a vehicle as he is.     *)
Replays(e) ==
  /\ Handles(e) /\ ~HoldsBack(e)
  /\ e \in Startable
  /\ e = "key" /\ active < Len(vec) => ~Near(vec, {"interior"}, active, KeyWindow)

(* He is close, or the distance is that of two neighbours of the recording, *)
(* or it is the first packet.                                              *)
ReplayPacket ==
  /\ \E e \in Packets : Replays(e)
  /\ first_start' \in {first_start, FALSE}
  /\ tick' = "advance"
  /\ UNCHANGED <<run, enter_car, exit_car, wait_put, change_interior, worker>>

(* He is not: somebody has moved him.                                      *)
Teleported ==
  /\ \E e \in Packets : Replays(e)
  /\ ~first_start
  /\ Alert
  /\ Returns

TickEnds ==
  /\ In("finish")
  /\ first_start' = FALSE
  /\ tick' = "idle"
  /\ UNCHANGED <<route, run, in_vehicle, enter_car, exit_car, wait_put,
                 change_interior, worker, socket, history>>

-----------------------------------------------------------------------------
(* handle_received_rpc: what the server does to the player.                *)
WhileReplaying == Idle /\ enable /\ ~record

(* is_admin_rpc_permited: the route has such an RPC nearby, or one at the  *)
(* player's position; the second search begins after the active element.   *)
Permitted(k) ==
  IF vec = <<>> THEN {FALSE}
  ELSE IF active < Len(vec) /\ Near(vec, {k}, active, Window) THEN {TRUE}
  ELSE IF active + 1 < Len(vec) /\ k \notin ToSet(vec) THEN {FALSE}
  ELSE BOOLEAN

AsksPermission(k) ==
  IF vec = <<>> \/ active + 1 < Len(vec)
     \/ (active < Len(vec) /\ Near(vec, {k}, active, Window))
    THEN UNCHANGED overrun ELSE Overrun("rpc")

(* Mutant of JumpToNext: the search keeps to its usual window. *)
JumpToNear(ks) ==
  \/ /\ active < Len(vec) => ~Near(vec, ks, active, Window)
     /\ tick' = "crashed"
     /\ UNCHANGED active
  \/ /\ active < Len(vec) /\ Near(vec, ks, active, Window)
     /\ active' = NextOf(vec, ks, active)
     /\ UNCHANGED tick

(* search_for_next_packet_of_type and .value(), which terminates if there  *)
(* is no such packet; from past the end it never comes round.              *)
JumpToNext(ks) ==
  \/ /\ active < Len(vec) => ToSet(vec) \cap ks = {}
     /\ tick' = "crashed"
     /\ UNCHANGED active
  \/ /\ IF active < Len(vec)
          THEN ToSet(vec) \cap ks # {} /\ active' = NextOf(vec, ks, active)
          ELSE vec # <<>> /\ active' \in active .. MaxIndex
     /\ UNCHANGED tick

ReceiveFreeze ==
  /\ WhileReplaying
  /\ AsksPermission("freeze")
  /\ \E permitted \in Permitted("freeze") :
       IF permitted THEN UNCHANGED <<run, flags, worker>> ELSE Alert
  /\ UNCHANGED <<route, in_vehicle, tick, socket, stale_clear>>

ReceiveVehicleRemove ==
  /\ WhileReplaying /\ in_vehicle
  /\ \/ /\ FALSE \in Permitted("remove")
        /\ AsksPermission("remove")
        /\ Alert
        /\ UNCHANGED tick
     \/ /\ TRUE \in Permitted("remove")
        /\ AsksPermission("remove")
        /\ JumpToNext(OnFoot)
        /\ UNCHANGED <<enable, flags, worker>>
  /\ UNCHANGED <<route, in_vehicle, socket, stale_clear>>

ReceivePutInVehicle ==
  /\ WhileReplaying
  /\ wait_put' = FALSE
  /\ IF vec = <<>> THEN UNCHANGED overrun ELSE ReadBy("rpc", vec, active)
  /\ JumpToNext({"car"})
  /\ UNCHANGED <<route, enable, in_vehicle, enter_car, exit_car, first_start,
                 change_interior, worker, socket, stale_clear>>

ReceiveInterior ==
  /\ WhileReplaying
  /\ change_interior' = FALSE
  /\ UNCHANGED <<route, run, in_vehicle, enter_car, exit_car, first_start,
                 wait_put, tick, worker, socket, history>>

(* The player is moved upwards, shown a captcha, or spoken to: an alert.   *)
ReceiveSlap ==
  /\ Idle /\ Alert
  /\ UNCHANGED <<route, in_vehicle, tick, socket, history>>

(* record_sent_rpc and record_received_rpc *)
RecordRpc ==
  /\ Idle /\ record
  /\ Recording(Rpcs)
  /\ UNCHANGED <<record, run, in_vehicle, flags, tick, worker, socket, history>>

-----------------------------------------------------------------------------
(* The menu.                                                               *)
MenuOpen == Idle /\ (MenuActs \/ ~enable)

MenuEnable ==
  /\ Idle /\ ~enable
  /\ GlobalEnable("enable")
  /\ UNCHANGED <<in_vehicle, tick, socket>>

MenuDisable ==
  /\ Idle /\ enable
  /\ GlobalDisable
  /\ UNCHANGED <<route, in_vehicle, tick, socket, history>>

(* global_utils::record *)
MenuRecord ==
  /\ MenuOpen
  /\ record' = ~record
  /\ IF enable /\ ~record THEN GlobalDisable ELSE UNCHANGED <<run, flags, worker>>
  /\ UNCHANGED <<vec, disturbed, in_vehicle, tick, socket, history>>

MenuClear ==
  /\ MenuOpen
  /\ vec' = <<>>
  /\ disturbed' = enable
  /\ UNCHANGED <<record, run, in_vehicle, flags, tick, worker, socket, history>>

(* Mutant of MenuLoad: the route is replaced under the replay. *)
LoadWithoutStop ==
  /\ MenuOpen
  /\ vec' \in Routes
  /\ UNCHANGED <<run, flags, worker, disturbed, record, in_vehicle, tick, socket, history>>

(* load_route_config; with nothing to disable a replay stays enabled.      *)
MenuLoad ==
  /\ MenuOpen
  /\ GlobalDisable
  /\ vec' \in Routes
  /\ disturbed' = enable'
  /\ UNCHANGED <<record, in_vehicle, tick, socket, history>>

-----------------------------------------------------------------------------
(* The detached threads.                                                   *)
IsIn(w, phase) == Running /\ Live(w) /\ worker[w].phase = phase

GoesTo(w, phase) == worker' = [worker EXCEPT ![w].phase = phase]

Ends(w) == worker' = [worker EXCEPT ![w] = None]

Elsewhere == UNCHANGED <<route, in_vehicle, tick, socket, overrun>>

(* enter_vehicle, or exit_vehicle, has asked the game.                     *)
WorkerAsks(w) ==
  /\ IsIn(w, "request")
  /\ GoesTo(w, "wait")
  /\ Elsewhere /\ UNCHANGED <<run, flags, stale_clear>>

(* Mutant of WorkerResets: the flags are left alone. *)
WorkerRewinds(w) ==
  /\ GoesTo(w, "disable")
  /\ active' = 0
  /\ Elsewhere /\ UNCHANGED <<enable, flags, stale_clear>>

(* packets::disable on this thread, but for its last write.                *)
WorkerResets(w) ==
  /\ ResetFlags
  /\ worker' = [Outdated(worker) EXCEPT ![w].phase = "disable"]
  /\ active' = 0
  /\ Elsewhere /\ UNCHANGED <<enable, stale_clear>>

Moved(w) == in_vehicle = (worker[w].job = "enter")

(* The vehicle is gone, at the first attempt or a later one.               *)
WorkerFails(w) ==
  /\ \/ IsIn(w, "request")
     \/ IsIn(w, "wait") /\ ~Moved(w) /\ enable
  /\ worker[w].job = "enter"
  /\ WorkerResets(w)

(* Ten seconds have passed. *)
WorkerTimesOut(w) ==
  /\ IsIn(w, "wait") /\ ~Moved(w) /\ enable
  /\ WorkerResets(w)

WorkerDisables(w) ==
  /\ IsIn(w, "disable")
  /\ enable' = FALSE
  /\ Ends(w)
  /\ Elsewhere /\ UNCHANGED <<active, flags, stale_clear>>

WorkerSeesMove(w) ==
  /\ IsIn(w, "wait") /\ (Moved(w) \/ ~enable)
  /\ GoesTo(w, "settle")
  /\ Elsewhere /\ UNCHANGED <<run, flags, stale_clear>>

(* Mutant of WorkerSettles: the flag is left set. *)
WorkerForgets(w) ==
  /\ IsIn(w, "settle")
  /\ Ends(w)
  /\ Elsewhere /\ UNCHANGED <<run, flags, stale_clear>>

(* The flag is cleared, whichever thread it stands for by now.             *)
WorkerSettles(w) ==
  LET entering == worker[w].job = "enter"
  IN /\ IsIn(w, "settle")
     /\ enter_car' = (enter_car /\ ~entering)
     /\ exit_car' = (exit_car /\ entering)
     /\ stale_clear' = (stale_clear \/ (~worker[w].current
                          /\ IF entering THEN enter_car ELSE exit_car))
     /\ Ends(w)
     /\ Elsewhere /\ UNCHANGED <<run, first_start, wait_put, change_interior>>

WorkerStep(w) ==
  \/ WorkerAsks(w) \/ WorkerFails(w) \/ WorkerTimesOut(w) \/ WorkerDisables(w)
  \/ WorkerSeesMove(w) \/ WorkerSettles(w)

-----------------------------------------------------------------------------
(* command_enable and command_disable on the socket thread.                *)
SocketGoes(from, to) ==
  /\ Running /\ socket = from
  /\ socket' = to
  /\ UNCHANGED <<in_vehicle, tick>>

SocketEnables ==
  /\ Remote
  /\ SocketGoes("idle", "enable")
  /\ enable' = FALSE
  /\ UNCHANGED <<route, active, flags, worker, history>>

SocketEnabled ==
  /\ SocketGoes("enable", "idle")
  /\ GlobalEnable("socket")

SocketResets ==
  /\ Remote /\ vec # <<>>
  /\ SocketGoes("idle", "disable")
  /\ Reset
  /\ active' = 0
  /\ UNCHANGED <<route, enable, history>>

SocketDisabled ==
  /\ SocketGoes("disable", "idle")
  /\ enable' = FALSE
  /\ UNCHANGED <<route, active, flags, worker, history>>

SocketThread == SocketEnables \/ SocketEnabled \/ SocketResets \/ SocketDisabled

-----------------------------------------------------------------------------
(* The game: waypoints::tick looks before every packets::tick whether the  *)
(* player is in a vehicle.  He gets in or out because a thread asked for   *)
(* it, or unasked: by himself or by the server.                            *)
Asked(job) ==
  \E w \in Worker : worker[w].job = job /\ worker[w].phase \in {"wait", "settle"}

GetsIn ==
  /\ Idle /\ ~in_vehicle
  /\ PlayerActs \/ Asked("enter")
  /\ in_vehicle' = TRUE
  /\ UNCHANGED <<route, run, flags, tick, worker, socket, history>>

GetsOut ==
  /\ Idle /\ in_vehicle
  /\ PlayerActs \/ Asked("exit")
  /\ in_vehicle' = FALSE
  /\ UNCHANGED <<route, run, flags, tick, worker, socket, history>>

(* A read past the end leaves the memory of the process.                   *)
Faults ==
  /\ Running /\ active >= Len(vec)
  /\ \/ enable /\ tick \in {"received", "sent", "handler"}
     \/ enable /\ tick = "idle" /\ vec # <<>>
     \/ ~enable /\ tick = "idle" /\ ~TooShort(vec)
     \/ socket = "enable" /\ ~TooShort(vec)
  /\ Overrun("fault")
  /\ tick' = "crashed"
  /\ UNCHANGED <<route, run, in_vehicle, flags, worker, socket, stale_clear>>

-----------------------------------------------------------------------------
Tick ==
  \/ TickDead \/ TickBegins \/ KeepRoute \/ ChangeRoute \/ ChangeRouteFails
  \/ HandleRecordedReceivedRpc \/ SendRecordedRpc \/ Advance
  \/ RecordPacket \/ HandlerDisabled \/ HandlerWaits \/ NoVehicle
  \/ EnterClosestVehicle \/ ExitCurrentVehicle
  \/ KeyAtInterior \/ ReplayPacket \/ Teleported \/ TickEnds

ReceivedRpc ==
  \/ ReceiveFreeze \/ ReceiveVehicleRemove \/ ReceivePutInVehicle
  \/ ReceiveInterior \/ ReceiveSlap \/ RecordRpc

Menu == MenuEnable \/ MenuDisable \/ MenuRecord \/ MenuClear \/ MenuLoad

Crashed == ~Running /\ UNCHANGED vars

Next ==
  \/ Tick \/ ReceivedRpc \/ Menu \/ SocketThread
  \/ \E w \in Worker : WorkerStep(w)
  \/ GetsIn \/ GetsOut \/ Faults \/ Crashed

Fairness ==
  /\ WF_vars(Tick)
  /\ \A w \in Worker : WF_vars(WorkerStep(w))

Spec == Init /\ [][Next]_vars

FairSpec == Spec /\ Fairness

-----------------------------------------------------------------------------
(* Properties.                                                             *)

WorkerStates == {None} \cup
  [job : Jobs, phase : {"request", "wait", "settle", "disable"}, current : BOOLEAN]

(* Type invariant. *)
TypeOK ==
  /\ vec \in Seq(Kinds)
  /\ active \in 0 .. MaxIndex
  /\ enable \in BOOLEAN /\ record \in BOOLEAN /\ in_vehicle \in BOOLEAN
  /\ enter_car \in BOOLEAN /\ exit_car \in BOOLEAN /\ first_start \in BOOLEAN
  /\ wait_put \in BOOLEAN /\ change_interior \in BOOLEAN
  /\ tick \in {"idle", "received", "sent", "sent_advance", "handler", "advance",
               "finish", "crashed"}
  /\ worker \in [Worker -> WorkerStates]
  /\ socket \in {"idle", "enable", "disable"}
  /\ disturbed \in BOOLEAN /\ stale_clear \in BOOLEAN
  /\ overrun \in {"none", "tick", "rpc", "enable", "socket", "fault"}

(* The player is never made to enter and to leave a vehicle at a time.     *)
EnterExitExclusive == ~(enter_car /\ exit_car)

CurrentWorkers(job) == {w \in Worker : worker[w].job = job /\ worker[w].current}

(* A flag that holds the replay back always has a thread of this replay    *)
(* that will clear it: resets by three threads, threads that outlive their *)
(* replay and failures leave no flag set for good.                         *)
FlagHasThread ==
  /\ enter_car => CurrentWorkers("enter") # {}
  /\ exit_car => CurrentWorkers("exit") # {}

(* One replay has one thread at work, unless a thread left over from an    *)
(* earlier replay has cleared the flag that keeps a second one out.        *)
OneThreadPerReplay ==
  \A v, w \in Worker :
    v # w /\ worker[v].current /\ worker[w].current => stale_clear

(* Only what changes the route under a running replay makes it run on a    *)
(* route that packets::enable would have refused as too short.             *)
RunningHasRoute == enable => Len(vec) >= 2 \/ disturbed

(* The process ends by itself only because the server removed the vehicle, *)
(* or put the player into one, and the route has nothing to go on with, or *)
(* because something has read past the end of the route.                   *)
CrashHasCause ==
  tick = "crashed" =>
    overrun # "none" \/ ToSet(vec) \cap OnFoot = {} \/ "car" \notin ToSet(vec)

(* A tick reads within the route unless the route ends in an RPC, whose    *)
(* handler goes on to look at the next element, or was changed under the   *)
(* replay, or the server enabled it in the middle of a tick, or something  *)
(* else had read past its end before.                                      *)
TickInBounds ==
  [][ overrun = "none" /\ overrun' = "tick"
        => disturbed \/ Last(vec) \in Rpcs ]_vars

(* A thread that gets the player in or out comes to an end and lets the    *)
(* replay go on.                                                           *)
FlagsClear ==
  /\ []<>(~enter_car \/ ~Running)
  /\ []<>(~exit_car \/ ~Running)

(* The replay gets past every element, or stops, unless it waits for the   *)
(* server, is recording, or has lost its route or its place in it.         *)
Excused ==
  wait_put \/ change_interior \/ record \/ disturbed \/ overrun # "none" \/ ~Running

MovesOn == []<>(~enable \/ Excused) \/ []<><<active' # active>>_active
=============================================================================
