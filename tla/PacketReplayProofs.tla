------------------------- MODULE PacketReplayProofs -------------------------
(***************************************************************************)
(* The threads of PacketReplay, the route under a running replay and its   *)
(* place in it, for any number of threads, any routes, and whatever the    *)
(* menu, the server and the player do.                                     *)
(*                                                                         *)
(* The flags and the threads are written together by few actions.  Every   *)
(* other action leaves them alone or, where it disables the replay, clears *)
(* both flags and makes the threads outdated; so the argument is one about *)
(* the two actions that start a thread and the six that are a thread's.    *)
(* The place in the route is the other way round: nearly every action may  *)
(* move it, and what keeps it is that each read is tested against the end. *)
(***************************************************************************)
EXTENDS PacketReplay, WellFoundedInduction, TLAPS

threads == <<enter_car, exit_car, worker>>

ThreadsTyped ==
  /\ worker \in [Worker -> WorkerStates]
  /\ enter_car \in BOOLEAN /\ exit_car \in BOOLEAN /\ stale_clear \in BOOLEAN

(* A thread that is disabling the replay was outdated by its own reset.    *)
DisablersOutdated ==
  \A w \in Worker : worker[w].phase = "disable" => ~worker[w].current

(* As long as no thread has cleared a flag that was not its own, a thread  *)
(* of the running replay has its flag set, and is the only one.            *)
FlagsTrue ==
  ~stale_clear =>
    /\ \A w \in Worker : worker[w].current =>
         /\ worker[w].job = "enter" => enter_car
         /\ worker[w].job = "exit" => exit_car
    /\ \A v, w \in Worker : worker[v].current /\ worker[w].current => v = w

ThreadsInv ==
  /\ ThreadsTyped
  /\ EnterExitExclusive
  /\ FlagHasThread
  /\ DisablersOutdated
  /\ FlagsTrue

-----------------------------------------------------------------------------
(* What the other actions do to the threads: nothing, or the end of the    *)
(* replay.                                                                 *)
Untouched == UNCHANGED <<threads, stale_clear>>

Outdates ==
  /\ ~enter_car' /\ ~exit_car'
  /\ enter_car' \in BOOLEAN /\ exit_car' \in BOOLEAN
  /\ worker' = Outdated(worker)
  /\ UNCHANGED stale_clear

(* A tick, but for the two actions that start a thread, leaves the threads *)
(* alone or outdates them.                                                 *)
LEMMA TickFootprint ==
  ASSUME Tick, ~EnterClosestVehicle, ~ExitCurrentVehicle
  PROVE  Untouched \/ Outdates
<1> USE DEF Untouched, Outdates, threads, flags, history, run, route
<1>1. CASE TickDead
  BY <1>1 DEF TickDead, Alert, GlobalDisable, Disable, Reset, ResetFlags
<1>2. CASE TickBegins \/ KeepRoute
  BY <1>2 DEF TickBegins, KeepRoute
<1>3. CASE ChangeRoute
  BY <1>3 DEF ChangeRoute, Reset, ResetFlags
<1>4. CASE ChangeRouteFails
  BY <1>4 DEF ChangeRouteFails, Reset, ResetFlags
<1>5. CASE HandleRecordedReceivedRpc \/ SendRecordedRpc \/ Advance
  BY <1>5 DEF HandleRecordedReceivedRpc, SendRecordedRpc, Advance, AdvanceAt
<1>6. CASE RecordPacket \/ HandlerDisabled \/ HandlerWaits
  BY <1>6 DEF RecordPacket, HandlerDisabled, HandlerWaits, Handles
<1>7. CASE NoVehicle
  BY <1>7 DEF NoVehicle, HandlesOnFoot, Handles, Disable, Reset, ResetFlags
<1>8. CASE KeyAtInterior \/ ReplayPacket
  BY <1>8 DEF KeyAtInterior, ReplayPacket, Replays, HandlesOnFoot, Handles
<1>9. CASE Teleported
  BY <1>9 DEF Teleported, Replays, Handles, Alert, GlobalDisable, Disable,
              Reset, ResetFlags
<1>10. CASE TickEnds
  BY <1>10 DEF TickEnds
<1> QED
  BY <1>1, <1>2, <1>3, <1>4, <1>5, <1>6, <1>7, <1>8, <1>9, <1>10 DEF Tick

(* So do the handlers of RPCs, the menu, the socket thread and the game.   *)
LEMMA OthersFootprint ==
  ASSUME \/ ReceivedRpc \/ Menu \/ SocketThread
         \/ GetsIn \/ GetsOut \/ Faults \/ Crashed \/ UNCHANGED vars
  PROVE  Untouched \/ Outdates
<1> USE DEF Untouched, Outdates, threads, flags, history, run, route
<1>1. CASE ReceiveFreeze
  BY <1>1 DEF ReceiveFreeze, Alert, GlobalDisable, Disable, Reset, ResetFlags
<1>2. CASE ReceiveVehicleRemove
  BY <1>2 DEF ReceiveVehicleRemove, Alert, GlobalDisable, Disable, Reset, ResetFlags
<1>3. CASE ReceivePutInVehicle \/ ReceiveInterior \/ RecordRpc
  BY <1>3 DEF ReceivePutInVehicle, ReceiveInterior, RecordRpc
<1>4. CASE ReceiveSlap
  BY <1>4 DEF ReceiveSlap, Alert, GlobalDisable, Disable, Reset, ResetFlags
<1>5. CASE MenuEnable
  BY <1>5 DEF MenuEnable, GlobalEnable, Reset, ResetFlags
<1>6. CASE MenuDisable
  BY <1>6 DEF MenuDisable, GlobalDisable, Disable, Reset, ResetFlags
<1>7. CASE MenuRecord
  BY <1>7 DEF MenuRecord, GlobalDisable, Disable, Reset, ResetFlags
<1>8. CASE MenuClear
  BY <1>8 DEF MenuClear
<1>9. CASE MenuLoad
  BY <1>9 DEF MenuLoad, GlobalDisable, Disable, Reset, ResetFlags
<1>10. CASE SocketEnables \/ SocketDisabled
  BY <1>10 DEF SocketEnables, SocketDisabled, SocketGoes
<1>11. CASE SocketEnabled
  BY <1>11 DEF SocketEnabled, SocketGoes, GlobalEnable, Reset, ResetFlags
<1>12. CASE SocketResets
  BY <1>12 DEF SocketResets, SocketGoes, Reset, ResetFlags
<1>13. CASE GetsIn \/ GetsOut \/ Faults \/ Crashed \/ UNCHANGED vars
  BY <1>13 DEF GetsIn, GetsOut, Faults, Crashed, vars
<1> QED
  BY <1>1, <1>2, <1>3, <1>4, <1>5, <1>6, <1>7, <1>8, <1>9, <1>10, <1>11, <1>12,
     <1>13 DEF ReceivedRpc, Menu, SocketThread

-----------------------------------------------------------------------------
(* One more outdated thread changes nothing of what the invariant says.    *)
LiveStates ==
  [job : Jobs, phase : {"request", "wait", "settle", "disable"}, current : BOOLEAN]

LEMMA OutdatedLive ==
  ASSUME NEW s \in LiveStates
  PROVE  /\ [s EXCEPT !.current = FALSE] \in LiveStates
         /\ [s EXCEPT !.current = FALSE].job = s.job
         /\ [s EXCEPT !.current = FALSE].phase = s.phase
         /\ [s EXCEPT !.current = FALSE].current = FALSE
  BY DEF LiveStates

LEMMA OutdatedTyped ==
  ASSUME worker \in [Worker -> WorkerStates]
  PROVE  /\ Outdated(worker) \in [Worker -> WorkerStates]
         /\ \A w \in Worker : /\ Outdated(worker)[w].job = worker[w].job
                              /\ Outdated(worker)[w].phase = worker[w].phase
                              /\ Outdated(worker)[w].current = FALSE
<1>1. ASSUME NEW w \in Worker
      PROVE  /\ Outdated(worker)[w] \in WorkerStates
             /\ Outdated(worker)[w].job = worker[w].job
             /\ Outdated(worker)[w].phase = worker[w].phase
             /\ Outdated(worker)[w].current = FALSE
  <2>1. CASE worker[w] = None
    BY <2>1 DEF Outdated, None, WorkerStates
  <2>2. CASE worker[w] \in LiveStates /\ worker[w].current
    BY <2>2, OutdatedLive DEF Outdated, WorkerStates, LiveStates
  <2>3. CASE worker[w] \in LiveStates /\ ~worker[w].current
    BY <2>3 DEF Outdated, WorkerStates, LiveStates
  <2> QED
    BY <2>1, <2>2, <2>3 DEF WorkerStates, LiveStates
<1> QED
  BY <1>1 DEF Outdated

LEMMA UntouchedKeeps ==
  ASSUME ThreadsInv, Untouched
  PROVE  ThreadsInv'
  BY DEF ThreadsInv, Untouched, threads, ThreadsTyped, EnterExitExclusive,
         FlagHasThread, CurrentWorkers, DisablersOutdated, FlagsTrue

LEMMA OutdatesKeeps ==
  ASSUME ThreadsInv, Outdates
  PROVE  ThreadsInv'
  BY OutdatedTyped
     DEF ThreadsInv, Outdates, ThreadsTyped, EnterExitExclusive,
         FlagHasThread, CurrentWorkers, DisablersOutdated, FlagsTrue

(* A thread that starts finds neither flag set, so there is no other of    *)
(* this replay.                                                            *)
LEMMA StartKeeps ==
  ASSUME ThreadsInv,
         NEW w \in Worker, NEW job \in Jobs, Start(w, job),
         ~enter_car, ~exit_car,
         enter_car' = (job = "enter"), exit_car' = (job = "exit"),
         UNCHANGED stale_clear
  PROVE  ThreadsInv'
<1> DEFINE fresh == [job |-> job, phase |-> "request", current |-> TRUE]
<1>1. /\ worker' = [worker EXCEPT ![w] = fresh]
      /\ worker[w].job = "none"
  BY DEF Start, Live
<1>2. fresh \in WorkerStates /\ fresh.current /\ fresh.job = job
      /\ fresh.phase = "request"
  BY DEF WorkerStates
<1> HIDE DEF fresh
<1>3. ThreadsTyped'
  BY <1>1, <1>2 DEF ThreadsInv, ThreadsTyped
<1>4. worker'[w] = fresh /\ \A v \in Worker : v # w => worker'[v] = worker[v]
  BY <1>1 DEF ThreadsInv, ThreadsTyped
<1>5. EnterExitExclusive' /\ FlagHasThread'
  BY <1>2, <1>4 DEF EnterExitExclusive, FlagHasThread, CurrentWorkers, Jobs
<1>6. DisablersOutdated'
  BY <1>2, <1>4 DEF ThreadsInv, DisablersOutdated
<1>7. \A v \in Worker : worker[v].current => worker[v].job \in Jobs
  BY DEF ThreadsInv, ThreadsTyped, WorkerStates, None
<1>8. ~stale_clear => \A v \in Worker : ~worker[v].current
  BY <1>7 DEF ThreadsInv, FlagsTrue, Jobs
<1>9. FlagsTrue'
  BY <1>2, <1>4, <1>8 DEF FlagsTrue, Jobs
<1> QED
  BY <1>3, <1>5, <1>6, <1>9 DEF ThreadsInv

LEMMA EnterKeeps ==
  ASSUME ThreadsInv, EnterClosestVehicle
  PROVE  ThreadsInv'
<1>1. PICK w \in Worker : Start(w, "enter")
  BY DEF EnterClosestVehicle
<1>2. ~enter_car /\ ~exit_car
  BY DEF EnterClosestVehicle, HoldsBack, HandlesOnFoot
<1>2a. enter_car'
  BY DEF EnterClosestVehicle
<1>3. UNCHANGED <<exit_car, stale_clear>>
  BY DEF EnterClosestVehicle, HandlesOnFoot, Handles
<1> QED
  BY <1>1, <1>2, <1>2a, <1>3, StartKeeps DEF Jobs, ThreadsInv, ThreadsTyped, EnterClosestVehicle

LEMMA ExitKeeps ==
  ASSUME ThreadsInv, ExitCurrentVehicle
  PROVE  ThreadsInv'
<1>1. PICK w \in Worker : Start(w, "exit")
  BY DEF ExitCurrentVehicle
<1>2. /\ ~enter_car /\ ~exit_car
      /\ UNCHANGED <<enter_car, stale_clear>>
  BY DEF ExitCurrentVehicle, HoldsBack, HandlesInCar, Handles, OnFoot
<1> QED
  BY <1>1, <1>2, StartKeeps DEF Jobs, ThreadsInv, ThreadsTyped, ExitCurrentVehicle

-----------------------------------------------------------------------------
(* The steps of a thread.                                                  *)

LEMMA GoesToKeeps ==
  ASSUME ThreadsInv, NEW w \in Worker, Live(w),
         NEW phase \in {"wait", "settle"}, GoesTo(w, phase),
         UNCHANGED <<enter_car, exit_car, stale_clear>>
  PROVE  ThreadsInv'
<1>1. worker[w] \in LiveStates
  BY DEF ThreadsInv, ThreadsTyped, WorkerStates, LiveStates, Live, None
<1>2. /\ worker' \in [Worker -> WorkerStates]
      /\ worker'[w].phase = phase
      /\ \A v \in Worker : /\ worker'[v].job = worker[v].job
                           /\ worker'[v].current = worker[v].current
                           /\ v # w => worker'[v].phase = worker[v].phase
  BY <1>1 DEF GoesTo, ThreadsInv, ThreadsTyped, WorkerStates, LiveStates
<1> QED
  BY <1>2 DEF ThreadsInv, ThreadsTyped, EnterExitExclusive, FlagHasThread,
              CurrentWorkers, DisablersOutdated, FlagsTrue

LEMMA ResetsKeeps ==
  ASSUME ThreadsInv, NEW w \in Worker, Live(w), WorkerResets(w)
  PROVE  ThreadsInv'
<1>1. Outdated(worker)[w] \in LiveStates
  <2>1. worker[w] \in LiveStates
    BY DEF ThreadsInv, ThreadsTyped, WorkerStates, LiveStates, Live, None
  <2> QED
    BY <2>1, OutdatedLive DEF Outdated
<1>2. /\ worker' \in [Worker -> WorkerStates]
      /\ \A v \in Worker : ~worker'[v].current
  BY <1>1, OutdatedTyped
     DEF WorkerResets, ThreadsInv, ThreadsTyped, WorkerStates, LiveStates
<1>3. ~enter_car' /\ ~exit_car' /\ UNCHANGED stale_clear
  BY DEF WorkerResets, ResetFlags
<1>4. enter_car' \in BOOLEAN /\ exit_car' \in BOOLEAN
  BY DEF WorkerResets, ResetFlags
<1> QED
  BY <1>2, <1>3, <1>4
     DEF ThreadsInv, ThreadsTyped, EnterExitExclusive, FlagHasThread,
         CurrentWorkers, DisablersOutdated, FlagsTrue

LEMMA EndsTyped ==
  ASSUME ThreadsInv, NEW w \in Worker, Ends(w)
  PROVE  /\ worker' \in [Worker -> WorkerStates]
         /\ ~worker'[w].current
         /\ worker'[w].phase = "none"
         /\ \A v \in Worker : v # w => worker'[v] = worker[v]
  BY DEF Ends, None, ThreadsInv, ThreadsTyped, WorkerStates

(* The thread that disables has no flag to clear any more.                 *)
LEMMA DisablesKeeps ==
  ASSUME ThreadsInv, NEW w \in Worker, WorkerDisables(w)
  PROVE  ThreadsInv'
<1>1. ~worker[w].current
  BY DEF WorkerDisables, IsIn, ThreadsInv, DisablersOutdated
<1>2. Ends(w) /\ UNCHANGED <<enter_car, exit_car, stale_clear>>
  BY DEF WorkerDisables, flags
<1> QED
  BY <1>1, <1>2, EndsTyped
     DEF ThreadsInv, ThreadsTyped, EnterExitExclusive, FlagHasThread,
         CurrentWorkers, DisablersOutdated, FlagsTrue

(* The thread that settles clears the flag of its kind: its own, or one    *)
(* that a later replay has set, which stale_clear then records.            *)
LEMMA SettlesKeeps ==
  ASSUME ThreadsInv, NEW w \in Worker, WorkerSettles(w)
  PROVE  ThreadsInv'
<1>1. /\ worker' \in [Worker -> WorkerStates]
      /\ ~worker'[w].current
      /\ worker'[w].phase = "none"
      /\ \A v \in Worker : v # w => worker'[v] = worker[v]
  BY EndsTyped DEF WorkerSettles
<1>2. worker[w].job \in Jobs /\ worker[w].current \in BOOLEAN
  BY DEF WorkerSettles, IsIn, Live, ThreadsInv, ThreadsTyped, WorkerStates, None
<1>3. ThreadsTyped' /\ DisablersOutdated'
  BY <1>1, <1>2 DEF WorkerSettles, ThreadsInv, ThreadsTyped, DisablersOutdated
<1>4. CASE worker[w].job = "enter"
  <2>1. /\ enter_car' = FALSE /\ exit_car' = exit_car
        /\ stale_clear' = (stale_clear \/ (~worker[w].current /\ enter_car))
    BY <1>4 DEF WorkerSettles, ThreadsInv, ThreadsTyped
  <2>2. EnterExitExclusive' /\ FlagHasThread'
    BY <2>1, <1>1, <1>4
       DEF ThreadsInv, EnterExitExclusive, FlagHasThread, CurrentWorkers
  <2>3. FlagsTrue'
    BY <2>1, <1>1, <1>2, <1>4 DEF ThreadsInv, ThreadsTyped, FlagsTrue
  <2> QED
    BY <1>3, <2>2, <2>3 DEF ThreadsInv
<1>5. CASE worker[w].job = "exit"
  <2>1. /\ exit_car' = FALSE /\ enter_car' = enter_car
        /\ stale_clear' = (stale_clear \/ (~worker[w].current /\ exit_car))
    BY <1>5 DEF WorkerSettles, ThreadsInv, ThreadsTyped
  <2>2. EnterExitExclusive' /\ FlagHasThread'
    BY <2>1, <1>1, <1>5
       DEF ThreadsInv, EnterExitExclusive, FlagHasThread, CurrentWorkers
  <2>3. FlagsTrue'
    BY <2>1, <1>1, <1>2, <1>5 DEF ThreadsInv, ThreadsTyped, FlagsTrue
  <2> QED
    BY <1>3, <2>2, <2>3 DEF ThreadsInv
<1> QED
  BY <1>2, <1>4, <1>5 DEF Jobs

LEMMA WorkerKeeps ==
  ASSUME ThreadsInv, NEW w \in Worker, WorkerStep(w)
  PROVE  ThreadsInv'
<1>1. CASE WorkerAsks(w)
  BY <1>1, GoesToKeeps DEF WorkerAsks, IsIn, flags
<1>2. CASE WorkerFails(w) \/ WorkerTimesOut(w)
  BY <1>2, ResetsKeeps DEF WorkerFails, WorkerTimesOut, IsIn
<1>3. CASE WorkerDisables(w)
  BY <1>3, DisablesKeeps
<1>4. CASE WorkerSeesMove(w)
  BY <1>4, GoesToKeeps DEF WorkerSeesMove, IsIn, flags
<1>5. CASE WorkerSettles(w)
  BY <1>5, SettlesKeeps
<1> QED
  BY <1>1, <1>2, <1>3, <1>4, <1>5 DEF WorkerStep

-----------------------------------------------------------------------------
LEMMA ThreadsInitially ==
  ASSUME Init
  PROVE  ThreadsInv
  BY DEF Init, ThreadsInv, ThreadsTyped, EnterExitExclusive, FlagHasThread,
         CurrentWorkers, DisablersOutdated, FlagsTrue, WorkerStates, None

LEMMA ThreadsStep ==
  ASSUME ThreadsInv, [Next]_vars
  PROVE  ThreadsInv'
<1>1. CASE EnterClosestVehicle
  BY <1>1, EnterKeeps
<1>2. CASE ExitCurrentVehicle
  BY <1>2, ExitKeeps
<1>3. CASE Tick /\ ~EnterClosestVehicle /\ ~ExitCurrentVehicle
  BY <1>3, TickFootprint, UntouchedKeeps, OutdatesKeeps
<1>4. CASE \E w \in Worker : WorkerStep(w)
  BY <1>4, WorkerKeeps
<1>5. CASE \/ ReceivedRpc \/ Menu \/ SocketThread
           \/ GetsIn \/ GetsOut \/ Faults \/ Crashed \/ UNCHANGED vars
  BY <1>5, OthersFootprint, UntouchedKeeps, OutdatesKeeps
<1> QED
  BY <1>1, <1>2, <1>3, <1>4, <1>5 DEF Next

LEMMA ThreadsAlways == Spec => []ThreadsInv
<1>1. Init => ThreadsInv
  BY ThreadsInitially
<1>2. ThreadsInv /\ [Next]_vars => ThreadsInv'
  BY ThreadsStep
<1> QED
  BY <1>1, <1>2, PTL DEF Spec

(* The player is never made to enter and to leave a vehicle at a time:     *)
(* each handler starts its thread only if neither flag is set.             *)
THEOREM EnterOrExit == Spec => []EnterExitExclusive
<1>1. ThreadsInv => EnterExitExclusive
  BY DEF ThreadsInv
<1> QED
  BY <1>1, ThreadsAlways, PTL

(* A flag that holds the replay back has a thread of this replay behind it *)
(* that will clear it, however many threads reset and outlive replays.     *)
THEOREM FlagsHaveThreads == Spec => []FlagHasThread
<1>1. ThreadsInv => FlagHasThread
  BY DEF ThreadsInv
<1> QED
  BY <1>1, ThreadsAlways, PTL

(* A replay has two threads at work only after a thread of an earlier one  *)
(* has cleared its flag: the flag does keep a second thread out otherwise. *)
THEOREM OneThread == Spec => []OneThreadPerReplay
<1>1. ThreadsInv => OneThreadPerReplay
  BY DEF ThreadsInv, ThreadsTyped, FlagsTrue, OneThreadPerReplay
<1> QED
  BY <1>1, ThreadsAlways, PTL
-----------------------------------------------------------------------------
(* The route under a running replay.  Actions either start a replay, after *)
(* the test of the length, or write the vector and say so in `disturbed`,  *)
(* or leave the vector alone and start nothing.                            *)
RouteTyped ==
  /\ vec \in Seq(Kinds)
  /\ enable \in BOOLEAN /\ record \in BOOLEAN /\ disturbed \in BOOLEAN

RouteInv == RouteTyped /\ RunningHasRoute

StartsNothing ==
  /\ UNCHANGED <<vec, disturbed>>
  /\ record' \in BOOLEAN
  /\ enable' = enable \/ enable' = FALSE

LEMMA StartsNothingKeepsRoute ==
  ASSUME RouteInv, StartsNothing
  PROVE  RouteInv'
<1>1. RouteTyped'
  BY DEF RouteInv, RouteTyped, StartsNothing
<1>2. RunningHasRoute'
  <2>1. CASE enable' = enable
    BY <2>1 DEF RouteInv, RunningHasRoute, StartsNothing
  <2>2. CASE enable' = FALSE
    BY <2>2 DEF RunningHasRoute
  <2> QED BY <2>1, <2>2 DEF StartsNothing
<1> QED BY <1>1, <1>2 DEF RouteInv

(* A recording grows, under a running replay too. *)
LEMMA RecordingKeepsRoute ==
  ASSUME RouteInv, NEW kinds, Recording(kinds), UNCHANGED <<enable, record>>
  PROVE  RouteInv'
<1>1. CASE UNCHANGED <<vec, disturbed>>
  BY <1>1 DEF RouteInv, RouteTyped, RunningHasRoute
<1>2. CASE ~UNCHANGED <<vec, disturbed>>
  <2>1. PICK e \in kinds \cap RecordKinds : vec' = Append(vec, e)
    BY <1>2 DEF Recording
  <2>2. vec' \in Seq(Kinds)
    BY <2>1, ReplayAssumption DEF RouteInv, RouteTyped
  <2>3. disturbed' = (disturbed \/ enable)
    BY <1>2 DEF Recording
  <2> QED BY <2>2, <2>3 DEF RouteInv, RouteTyped, RunningHasRoute
<1> QED BY <1>1, <1>2

(* global_utils::enable starts a route only after the test of its length.  *)
LEMMA EnableKeepsRoute ==
  ASSUME RouteInv, NEW reader, GlobalEnable(reader)
  PROVE  RouteInv'
<1>1. UNCHANGED <<vec, record>>
  BY DEF GlobalEnable
<1>2. CASE enable' = FALSE /\ UNCHANGED disturbed
  BY <1>1, <1>2 DEF RouteInv, RouteTyped, RunningHasRoute
<1>3. CASE Accepts(vec, active) /\ enable' = TRUE /\ disturbed' = (tick # "idle")
  <2>1. Len(vec) >= 2
    BY <1>3 DEF Accepts, TooShort, RouteInv, RouteTyped
  <2> QED BY <1>1, <1>3, <2>1 DEF RouteInv, RouteTyped, RunningHasRoute
<1> QED BY <1>2, <1>3 DEF GlobalEnable

(* So do the changes of route at the end of one.                           *)
LEMMA ChangeKeepsRoute ==
  ASSUME RouteInv, ChangeRoute \/ ChangeRouteFails
  PROVE  RouteInv'
<1>1. CASE ChangeRoute
  <2>1. vec' \in Seq(Kinds)
    BY <1>1, ReplayAssumption DEF ChangeRoute
  <2>2. enable' = FALSE \/ (enable' = TRUE /\ Len(vec') >= 2)
    BY <1>1, <2>1 DEF ChangeRoute, Accepts, TooShort
  <2>3. record' = record /\ disturbed' = FALSE
    BY <1>1 DEF ChangeRoute
  <2> QED BY <2>1, <2>2, <2>3 DEF RouteInv, RouteTyped, RunningHasRoute
<1>2. CASE ChangeRouteFails
  <2>1. UNCHANGED <<vec, record, disturbed>>
    BY <1>2 DEF ChangeRouteFails, route
  <2>2. enable' = FALSE \/ (enable' = TRUE /\ Len(vec) >= 2)
    BY <1>2 DEF ChangeRouteFails, Accepts, TooShort, RouteInv, RouteTyped
  <2> QED BY <2>1, <2>2 DEF RouteInv, RouteTyped, RunningHasRoute
<1> QED BY <1>1, <1>2

LEMMA TickKeepsRoute ==
  ASSUME RouteInv, Tick
  PROVE  RouteInv'
<1>1. CASE ChangeRoute \/ ChangeRouteFails
  BY <1>1, ChangeKeepsRoute
<1>2. CASE SendRecordedRpc
  <2>1. UNCHANGED <<enable, record>>
    BY <1>2 DEF SendRecordedRpc, run
  <2>2. Recording({"sent"})
    BY <1>2 DEF SendRecordedRpc, Recording
  <2> QED BY <2>1, <2>2, RecordingKeepsRoute
<1>3. CASE RecordPacket
  <2>1. UNCHANGED <<enable, record>>
    BY <1>3 DEF RecordPacket, run
  <2>2. Recording(IF in_vehicle THEN {"car"} ELSE OnFoot)
    BY <1>3 DEF RecordPacket
  <2> QED BY <2>1, <2>2, RecordingKeepsRoute
<1>4. ASSUME TickDead \/ TickBegins \/ KeepRoute \/ HandleRecordedReceivedRpc \/ Advance
      PROVE  StartsNothing
  BY <1>4 DEF TickDead, TickBegins, KeepRoute, HandleRecordedReceivedRpc, Advance, AdvanceAt,
              Alert, GlobalDisable, Disable, route, run, StartsNothing, RouteInv, RouteTyped
<1>5. ASSUME HandlerDisabled \/ HandlerWaits \/ NoVehicle \/ EnterClosestVehicle
             \/ ExitCurrentVehicle
      PROVE  StartsNothing
  BY <1>5 DEF HandlerDisabled, HandlerWaits, NoVehicle, EnterClosestVehicle, ExitCurrentVehicle,
              HandlesOnFoot, HandlesInCar, Handles, Disable, route, run, StartsNothing,
              RouteInv, RouteTyped
<1>6. ASSUME KeyAtInterior \/ ReplayPacket \/ Teleported \/ TickEnds
      PROVE  StartsNothing
  BY <1>6 DEF KeyAtInterior, ReplayPacket, Teleported, TickEnds, HandlesOnFoot, Replays, Handles,
              Alert, GlobalDisable, Disable, route, run, StartsNothing, RouteInv, RouteTyped
<1> QED BY <1>1, <1>2, <1>3, <1>4, <1>5, <1>6, StartsNothingKeepsRoute DEF Tick

LEMMA MenuKeepsRoute ==
  ASSUME RouteInv, Menu
  PROVE  RouteInv'
<1>1. CASE MenuEnable
  BY <1>1, EnableKeepsRoute DEF MenuEnable
<1>2. ASSUME MenuDisable \/ MenuRecord
      PROVE  StartsNothing
  BY <1>2 DEF MenuDisable, MenuRecord, GlobalDisable, Disable, route, run, StartsNothing,
              RouteInv, RouteTyped
<1>3. CASE MenuClear
  BY <1>3 DEF MenuClear, run, RouteInv, RouteTyped, RunningHasRoute
<1>4. CASE MenuLoad
  <2>1. vec' \in Seq(Kinds) /\ record' = record /\ disturbed' = enable'
    BY <1>4, ReplayAssumption DEF MenuLoad
  <2>2. enable' \in BOOLEAN
    BY <1>4 DEF MenuLoad, GlobalDisable, Disable, run, RouteInv, RouteTyped
  <2> QED BY <2>1, <2>2 DEF RouteInv, RouteTyped, RunningHasRoute
<1> QED BY <1>1, <1>2, <1>3, <1>4, StartsNothingKeepsRoute DEF Menu

LEMMA RouteStep ==
  ASSUME RouteInv, [Next]_vars
  PROVE  RouteInv'
<1>1. CASE ReceivedRpc
  <2>1. CASE RecordRpc
    <3>1. UNCHANGED <<enable, record>>
      BY <2>1 DEF RecordRpc, run
    <3> QED BY <2>1, <3>1, RecordingKeepsRoute DEF RecordRpc
  <2>2. ASSUME ReceiveFreeze \/ ReceiveVehicleRemove \/ ReceivePutInVehicle
               \/ ReceiveInterior \/ ReceiveSlap
        PROVE  StartsNothing
    BY <2>2 DEF ReceiveFreeze, ReceiveVehicleRemove, ReceivePutInVehicle, ReceiveInterior,
                ReceiveSlap, Alert, GlobalDisable, Disable, route, run, StartsNothing,
                RouteInv, RouteTyped
  <2> QED BY <1>1, <2>1, <2>2, StartsNothingKeepsRoute DEF ReceivedRpc
<1>2. CASE SocketThread
  <2>1. CASE SocketEnabled
    BY <2>1, EnableKeepsRoute DEF SocketEnabled
  <2>2. ASSUME SocketEnables \/ SocketResets \/ SocketDisabled
        PROVE  StartsNothing
    BY <2>2 DEF SocketEnables, SocketResets, SocketDisabled, route, StartsNothing,
                RouteInv, RouteTyped
  <2> QED BY <1>2, <2>1, <2>2, StartsNothingKeepsRoute DEF SocketThread
<1>3. ASSUME NEW w \in Worker, WorkerStep(w)
      PROVE  StartsNothing
  BY <1>3 DEF WorkerStep, WorkerAsks, WorkerFails, WorkerTimesOut, WorkerDisables,
              WorkerSeesMove, WorkerSettles, WorkerResets, Elsewhere, route, run,
              StartsNothing, RouteInv, RouteTyped
<1>4. ASSUME GetsIn \/ GetsOut \/ Faults \/ Crashed \/ UNCHANGED vars
      PROVE  StartsNothing
  BY <1>4 DEF GetsIn, GetsOut, Faults, Crashed, vars, route, run, StartsNothing,
              RouteInv, RouteTyped
<1> QED
  BY <1>1, <1>2, <1>3, <1>4, TickKeepsRoute, MenuKeepsRoute, StartsNothingKeepsRoute DEF Next

LEMMA RouteInitially ==
  ASSUME Init
  PROVE  RouteInv
<1>1. RouteTyped
  <2>1. vec = <<>> /\ enable = FALSE /\ record = FALSE /\ disturbed = FALSE
    BY DEF Init
  <2>2. vec \in Seq(Kinds)
    BY <2>1
  <2> QED BY <2>1, <2>2, Zenon DEF RouteTyped
<1>2. RunningHasRoute
  BY DEF Init, RunningHasRoute
<1> QED BY <1>1, <1>2 DEF RouteInv

(* A replay runs on a route that packets::enable would start, whoever      *)
(* records, loads, enables or disables in between, unless the vector was   *)
(* written under it or it was started in the middle of a tick              *)
(* (packets.cpp:8, global_utils.hpp:182).                                  *)
THEOREM RunsOnRoute == Spec => []RunningHasRoute
<1>1. Init => RouteInv
  BY RouteInitially
<1>2. RouteInv => RunningHasRoute
  BY DEF RouteInv
<1> QED BY <1>1, <1>2, RouteStep, PTL DEF Spec

-----------------------------------------------------------------------------
(* The searches of packets_utils.hpp.                                      *)

LEMMA LeastIsLeast ==
  ASSUME NEW S \in SUBSET Nat, S # {}
  PROVE  Least(S) \in S /\ \A n \in S : Least(S) <= n
<1>1. PICK m \in S : \A n \in S : <<n, m>> \notin OpToRel(<, Nat)
  BY WFMin, NatLessThanWellFounded, Zenon
<1>2. ASSUME NEW n \in S
      PROVE  m <= n
  <2>1. ~(n < m)
    BY <1>1, Zenon DEF OpToRel
  <2> QED BY <2>1
<1> QED BY <1>2, Zenon DEF Least

(* Going round the end, at most n steps lead from anywhere to anywhere.    *)
LEMMA ComesRound ==
  ASSUME NEW n \in Nat \ {0}, NEW i \in 0 .. n - 1, NEW j \in 0 .. n - 1
  PROVE  \E k \in 0 .. n : (i + k) % n = j
<1>1. CASE i <= j
  <2>1. j - i \in 0 .. n /\ (i + (j - i)) % n = j
    BY <1>1, SMT
  <2> QED BY <2>1
<1>2. CASE j < i
  <2>1. n + j - i \in 0 .. n /\ i + (n + j - i) = n + j
    BY <1>2, SMT
  <2>2. (n + j) % n = j
    BY SMT
  <2> QED BY <2>1, <2>2
<1> QED BY <1>1, <1>2

(* search_for_next_packet_of_type: if the route has such an element, the   *)
(* search from anywhere within it ends at one.                             *)
LEMMA NextOfFinds ==
  ASSUME NEW v \in Seq(Kinds), NEW ks, ToSet(v) \cap ks # {},
         NEW i \in 0 .. Len(v) - 1
  PROVE  /\ NextOf(v, ks, i) \in 0 .. Len(v) - 1
         /\ v[NextOf(v, ks, i) + 1] \in ks
<1>1. PICK p \in 1 .. Len(v) : v[p] \in ks
  BY DEF ToSet
<1>2. Len(v) \in Nat \ {0} /\ p - 1 \in 0 .. Len(v) - 1
  BY <1>1
<1>3. PICK k \in 0 .. Len(v) : (i + k) % Len(v) = p - 1
  BY <1>2, ComesRound
<1>4. k \in StepsTo(v, ks, i) /\ StepsTo(v, ks, i) \in SUBSET Nat
  <2>1. v[((i + k) % Len(v)) + 1] \in ks
    BY <1>1, <1>3
  <2> QED BY <2>1 DEF StepsTo
<1>5. Least(StepsTo(v, ks, i)) \in StepsTo(v, ks, i)
  BY <1>4, LeastIsLeast
<1>6. PICK l \in 0 .. Len(v) : l = Least(StepsTo(v, ks, i)) /\ v[((i + l) % Len(v)) + 1] \in ks
  BY <1>5 DEF StepsTo
<1>7. (i + l) % Len(v) \in 0 .. Len(v) - 1
  BY <1>2
<1> QED BY <1>6, <1>7 DEF NextOf

LEMMA SuccTyped ==
  ASSUME NEW i \in 0 .. MaxIndex
  PROVE  /\ Succ(i) \in 0 .. MaxIndex
         /\ i < MaxIndex => Succ(i) = i + 1
  BY ReplayAssumption DEF Succ, Smaller

(* packets::enable starts within the route.                                *)
LEMMA StartsWithin ==
  ASSUME NEW v \in Seq(Kinds), Len(v) >= 2
  PROVE  StartPoints(v) \subseteq 0 .. Len(v) - 1
  BY DEF StartPoints

-----------------------------------------------------------------------------
(* The types.  RouteInv and ThreadsInv type the route and the threads; the *)
(* small flags are typed by what each action writes into them, and the     *)
(* index by the bounds of the route and of the searches.                   *)
PlaceTyped == active \in 0 .. MaxIndex /\ Len(vec) < MaxIndex

FlagsTyped ==
  /\ in_vehicle \in BOOLEAN /\ first_start \in BOOLEAN
  /\ wait_put \in BOOLEAN /\ change_interior \in BOOLEAN
  /\ tick \in {"idle", "received", "sent", "sent_advance", "handler", "advance",
               "finish", "crashed"}
  /\ socket \in {"idle", "enable", "disable"}
  /\ overrun \in {"none", "tick", "rpc", "enable", "socket", "fault"}

LEMMA TickKeepsFlags ==
  ASSUME FlagsTyped, Tick
  PROVE  FlagsTyped'
<1> USE DEF FlagsTyped, flags, history, run, route, Overrun, ReadBy, Returns
<1>1. CASE TickDead
  BY <1>1 DEF TickDead, Alert, GlobalDisable, Disable, Reset, ResetFlags
<1>2. CASE TickBegins \/ KeepRoute
  BY <1>2 DEF TickBegins, KeepRoute
<1>3. CASE ChangeRoute
  BY <1>3 DEF ChangeRoute, Reset, ResetFlags
<1>4. CASE ChangeRouteFails
  BY <1>4 DEF ChangeRouteFails, Reset, ResetFlags
<1>5. CASE HandleRecordedReceivedRpc
  BY <1>5 DEF HandleRecordedReceivedRpc
<1>5a. CASE SendRecordedRpc
  BY <1>5a DEF SendRecordedRpc
<1>5b. CASE Advance
  BY <1>5b DEF Advance, AdvanceAt
<1>6. CASE RecordPacket \/ HandlerDisabled
  BY <1>6 DEF RecordPacket, HandlerDisabled
<1>6a. CASE HandlerWaits
  BY <1>6a DEF HandlerWaits, Handles
<1>6b. CASE EnterClosestVehicle
  BY <1>6b DEF EnterClosestVehicle, HandlesOnFoot, Handles
<1>6c. CASE ExitCurrentVehicle
  BY <1>6c DEF ExitCurrentVehicle, HandlesInCar, Handles
<1>7. CASE NoVehicle
  BY <1>7 DEF NoVehicle, HandlesOnFoot, Handles, Disable, Reset, ResetFlags
<1>8. CASE KeyAtInterior
  BY <1>8 DEF KeyAtInterior, HandlesOnFoot, Handles
<1>8a. CASE ReplayPacket
  BY <1>8a DEF ReplayPacket, Replays, Handles
<1>9. CASE Teleported
  BY <1>9 DEF Teleported, Replays, Handles, Alert, GlobalDisable, Disable,
              Reset, ResetFlags
<1>10. CASE TickEnds
  BY <1>10 DEF TickEnds
<1> QED
  BY <1>1, <1>2, <1>3, <1>4, <1>5, <1>5a, <1>5b, <1>6, <1>6a, <1>6b, <1>6c, <1>7,
     <1>8, <1>8a, <1>9, <1>10 DEF Tick

LEMMA OthersKeepFlags ==
  ASSUME FlagsTyped,
         \/ ReceivedRpc \/ Menu \/ SocketThread \/ \E w \in Worker : WorkerStep(w)
         \/ GetsIn \/ GetsOut \/ Faults \/ Crashed \/ UNCHANGED vars
  PROVE  FlagsTyped'
<1> USE DEF FlagsTyped, flags, history, run, route, Overrun, ReadBy
<1>1. CASE ReceiveFreeze
  BY <1>1 DEF ReceiveFreeze, AsksPermission, Alert, GlobalDisable, Disable, Reset, ResetFlags
<1>2. CASE ReceiveVehicleRemove
  BY <1>2 DEF ReceiveVehicleRemove, AsksPermission, JumpToNext, Alert, GlobalDisable,
              Disable, Reset, ResetFlags
<1>3. CASE ReceivePutInVehicle
  BY <1>3 DEF ReceivePutInVehicle, JumpToNext
<1>3a. CASE ReceiveInterior \/ RecordRpc
  BY <1>3a DEF ReceiveInterior, RecordRpc
<1>4. CASE ReceiveSlap
  BY <1>4 DEF ReceiveSlap, Alert, GlobalDisable, Disable, Reset, ResetFlags
<1>5. CASE MenuEnable
  BY <1>5 DEF MenuEnable, GlobalEnable, Reset, ResetFlags
<1>6. CASE MenuDisable
  BY <1>6 DEF MenuDisable, GlobalDisable, Disable, Reset, ResetFlags
<1>7. CASE MenuRecord
  BY <1>7 DEF MenuRecord, GlobalDisable, Disable, Reset, ResetFlags
<1>8. CASE MenuClear
  BY <1>8 DEF MenuClear
<1>9. CASE MenuLoad
  BY <1>9 DEF MenuLoad, GlobalDisable, Disable, Reset, ResetFlags
<1>10. CASE SocketEnables \/ SocketDisabled
  BY <1>10 DEF SocketEnables, SocketDisabled, SocketGoes
<1>11. CASE SocketEnabled
  BY <1>11 DEF SocketEnabled, SocketGoes, GlobalEnable, Reset, ResetFlags
<1>12. CASE SocketResets
  BY <1>12 DEF SocketResets, SocketGoes, Reset, ResetFlags
<1>13. CASE GetsIn \/ GetsOut \/ Faults
  <2>1. CASE GetsIn \/ GetsOut
    BY <2>1 DEF GetsIn, GetsOut
  <2>2. CASE Faults
    BY <2>2 DEF Faults
  <2> QED BY <1>13, <2>1, <2>2
<1>13a. CASE Crashed \/ UNCHANGED vars
  BY <1>13a DEF Crashed, vars
<1>14. ASSUME NEW w \in Worker, WorkerStep(w)
       PROVE  FlagsTyped'
  <2>1. CASE WorkerAsks(w) \/ WorkerDisables(w) \/ WorkerSeesMove(w)
    BY <2>1 DEF WorkerAsks, WorkerDisables, WorkerSeesMove, Elsewhere
  <2>2. CASE WorkerFails(w) \/ WorkerTimesOut(w)
    BY <2>2 DEF WorkerFails, WorkerTimesOut, WorkerResets, ResetFlags, Elsewhere
  <2>3. CASE WorkerSettles(w)
    BY <2>3 DEF WorkerSettles, Elsewhere
  <2> QED BY <1>14, <2>1, <2>2, <2>3 DEF WorkerStep
<1> QED
  BY <1>1, <1>2, <1>3, <1>3a, <1>4, <1>5, <1>6, <1>7, <1>8, <1>9, <1>10, <1>11, <1>12,
     <1>13, <1>13a, <1>14 DEF ReceivedRpc, Menu, SocketThread

-----------------------------------------------------------------------------
(* Most actions leave the route and the index alone, or rewind the index.  *)
StaysPut == UNCHANGED vec /\ active' \in {active, 0}

LEMMA StaysPutKeepsPlace ==
  ASSUME PlaceTyped, StaysPut
  PROVE  PlaceTyped'
  BY ReplayAssumption DEF PlaceTyped, StaysPut

LEMMA RecordingKeepsPlace ==
  ASSUME RouteInv, PlaceTyped, NEW kinds, Recording(kinds), UNCHANGED active
  PROVE  PlaceTyped'
<1>1. CASE UNCHANGED <<vec, disturbed>>
  BY <1>1 DEF PlaceTyped
<1>2. CASE ~UNCHANGED <<vec, disturbed>>
  <2>1. Len(vec) < MaxLen
    BY <1>2 DEF Recording
  <2>2. PICK e \in kinds \cap RecordKinds : vec' = Append(vec, e)
    BY <1>2 DEF Recording
  <2>3. Len(vec') = Len(vec) + 1 /\ Len(vec) \in Nat
    BY <2>2 DEF RouteInv, RouteTyped
  <2> QED BY <2>1, <2>3, ReplayAssumption DEF PlaceTyped
<1> QED BY <1>1, <1>2

LEMMA EnableKeepsPlace ==
  ASSUME RouteInv, PlaceTyped, NEW reader, GlobalEnable(reader)
  PROVE  PlaceTyped'
<1>1. CASE UNCHANGED <<vec, active>>
  BY <1>1 DEF PlaceTyped
<1>2. CASE Accepts(vec, active) /\ active' \in StartPoints(vec) /\ UNCHANGED vec
  <2>1. vec \in Seq(Kinds) /\ Len(vec) >= 2
    BY <1>2 DEF Accepts, TooShort, RouteInv, RouteTyped
  <2> QED BY <1>2, <2>1, StartsWithin, ReplayAssumption DEF PlaceTyped
<1> QED BY <1>1, <1>2 DEF GlobalEnable

LEMMA JumpKeepsPlace ==
  ASSUME RouteInv, PlaceTyped, NEW ks, JumpToNext(ks), UNCHANGED vec
  PROVE  PlaceTyped'
<1>1. CASE UNCHANGED active
  BY <1>1 DEF PlaceTyped
<1>2. CASE active < Len(vec) /\ ToSet(vec) \cap ks # {} /\ active' = NextOf(vec, ks, active)
  <2>1. vec \in Seq(Kinds) /\ active \in 0 .. Len(vec) - 1
    BY <1>2 DEF RouteInv, RouteTyped, PlaceTyped
  <2>2. active' \in 0 .. Len(vec) - 1
    BY <1>2, <2>1, NextOfFinds
  <2> QED BY <2>1, <2>2, ReplayAssumption DEF PlaceTyped
<1>3. CASE active' \in active .. MaxIndex
  BY <1>3, ReplayAssumption DEF PlaceTyped
<1> QED BY <1>1, <1>2, <1>3 DEF JumpToNext

LEMMA PlaceStep ==
  ASSUME RouteInv, PlaceTyped, [Next]_vars
  PROVE  PlaceTyped'
<1> USE DEF flags, history, run, route
<1>1. ASSUME TickDead \/ TickBegins \/ KeepRoute \/ ChangeRouteFails
      PROVE  StaysPut
  BY <1>1 DEF StaysPut, TickDead, TickBegins, KeepRoute, ChangeRouteFails, Alert,
              GlobalDisable, Disable
<1>2. CASE ChangeRoute
  BY <1>2, ReplayAssumption DEF ChangeRoute, PlaceTyped
<1>3. CASE HandleRecordedReceivedRpc
  <2>1. UNCHANGED vec /\ (UNCHANGED active \/ active' = Succ(active))
    BY <1>3 DEF HandleRecordedReceivedRpc
  <2> QED BY <2>1, SuccTyped DEF PlaceTyped
<1>4. CASE Advance
  <2>1. UNCHANGED vec /\ active' = Succ(active)
    BY <1>4 DEF Advance, AdvanceAt
  <2> QED BY <2>1, SuccTyped DEF PlaceTyped
<1>5. CASE SendRecordedRpc
  <2>1. Recording({"sent"}) /\ UNCHANGED active
    BY <1>5 DEF SendRecordedRpc, Recording
  <2> QED BY <2>1, RecordingKeepsPlace
<1>6. CASE RecordPacket
  <2>1. Recording(IF in_vehicle THEN {"car"} ELSE OnFoot) /\ UNCHANGED active
    BY <1>6 DEF RecordPacket
  <2> QED BY <2>1, RecordingKeepsPlace
<1>7. ASSUME HandlerDisabled \/ HandlerWaits \/ NoVehicle \/ EnterClosestVehicle
             \/ ExitCurrentVehicle
      PROVE  StaysPut
  BY <1>7 DEF StaysPut, HandlerDisabled, HandlerWaits, NoVehicle, EnterClosestVehicle,
              ExitCurrentVehicle, HandlesOnFoot, HandlesInCar, Handles, Disable
<1>8. ASSUME KeyAtInterior \/ ReplayPacket \/ Teleported \/ TickEnds
      PROVE  StaysPut
  BY <1>8 DEF StaysPut, KeyAtInterior, ReplayPacket, Teleported, TickEnds, HandlesOnFoot,
              Replays, Handles, Alert, GlobalDisable, Disable
<1>9. ASSUME ReceiveFreeze \/ ReceiveInterior \/ ReceiveSlap
      PROVE  StaysPut
  BY <1>9 DEF StaysPut, ReceiveFreeze, ReceiveInterior, ReceiveSlap, Alert, GlobalDisable,
              Disable
<1>10. CASE ReceiveVehicleRemove
  <2>1. UNCHANGED vec /\ (Alert \/ JumpToNext(OnFoot))
    BY <1>10 DEF ReceiveVehicleRemove
  <2>2. CASE Alert
    BY <2>1, <2>2, StaysPutKeepsPlace DEF StaysPut, Alert, GlobalDisable, Disable
  <2> QED BY <2>1, <2>2, JumpKeepsPlace
<1>11. CASE ReceivePutInVehicle
  <2>1. UNCHANGED vec /\ JumpToNext({"car"})
    BY <1>11 DEF ReceivePutInVehicle
  <2> QED BY <2>1, JumpKeepsPlace
<1>12. CASE RecordRpc
  BY <1>12, RecordingKeepsPlace DEF RecordRpc
<1>13. CASE MenuEnable \/ SocketEnabled
  BY <1>13, EnableKeepsPlace DEF MenuEnable, SocketEnabled
<1>14. ASSUME MenuDisable \/ MenuRecord
       PROVE  StaysPut
  BY <1>14 DEF StaysPut, MenuDisable, MenuRecord, GlobalDisable, Disable
<1>15. CASE MenuClear
  <2>1. vec' = <<>> /\ UNCHANGED active
    BY <1>15 DEF MenuClear
  <2>2. MaxIndex \in Nat /\ 0 < MaxIndex
    BY ReplayAssumption
  <2> QED BY <2>1, <2>2 DEF PlaceTyped
<1>16. CASE MenuLoad
  <2>1. vec' \in Routes /\ active' \in {active, 0}
    BY <1>16 DEF MenuLoad, GlobalDisable, Disable
  <2> QED BY <2>1, ReplayAssumption DEF PlaceTyped
<1>17. ASSUME SocketEnables \/ SocketResets \/ SocketDisabled
       PROVE  StaysPut
  BY <1>17 DEF StaysPut, SocketEnables, SocketResets, SocketDisabled
<1>18. ASSUME NEW w \in Worker, WorkerStep(w)
       PROVE  StaysPut
  BY <1>18 DEF StaysPut, WorkerStep, WorkerAsks, WorkerFails, WorkerTimesOut, WorkerDisables,
               WorkerSeesMove, WorkerSettles, WorkerResets, Elsewhere
<1>19. ASSUME GetsIn \/ GetsOut \/ Faults \/ Crashed \/ UNCHANGED vars
       PROVE  StaysPut
  BY <1>19 DEF StaysPut, GetsIn, GetsOut, Faults, Crashed, vars
<1> QED
  BY <1>1, <1>2, <1>3, <1>4, <1>5, <1>6, <1>7, <1>8, <1>9, <1>10, <1>11, <1>12, <1>13,
     <1>14, <1>15, <1>16, <1>17, <1>18, <1>19, StaysPutKeepsPlace
     DEF Next, Tick, ReceivedRpc, Menu, SocketThread

TypesInv == ThreadsInv /\ RouteInv /\ PlaceTyped /\ FlagsTyped

LEMMA TypesInitially ==
  ASSUME Init
  PROVE  TypesInv
<1>1. PlaceTyped
  BY ReplayAssumption DEF Init, PlaceTyped
<1>2. FlagsTyped
  BY DEF Init, FlagsTyped
<1> QED BY <1>1, <1>2, ThreadsInitially, RouteInitially DEF TypesInv

LEMMA TypesStep ==
  ASSUME TypesInv, [Next]_vars
  PROVE  TypesInv'
<1>1. FlagsTyped'
  BY TickKeepsFlags, OthersKeepFlags DEF TypesInv, Next
<1> QED BY <1>1, ThreadsStep, RouteStep, PlaceStep DEF TypesInv

(* Every variable of the replay has its type; in particular                *)
(* m_active_packet, which five call sites increment, rewind or jump with,  *)
(* stays an index that the bound stands for (packets.cpp:31,               *)
(* packets_utils.hpp:102).                                                 *)
THEOREM TypeCorrect == Spec => []TypeOK
<1>1. TypesInv => TypeOK
  BY DEF TypesInv, ThreadsInv, ThreadsTyped, RouteInv, RouteTyped, PlaceTyped, FlagsTyped, TypeOK
<1> QED BY <1>1, TypesInitially, TypesStep, PTL DEF Spec

-----------------------------------------------------------------------------
(* The end of the process.  Only two handlers and a fault bring it about.  *)
Survives == tick' # "crashed"

LEMMA TickSurvives ==
  ASSUME Tick
  PROVE  Survives
<1> USE DEF Survives, Idle, Running, In, Returns
<1>1. CASE TickDead \/ TickBegins \/ KeepRoute \/ ChangeRoute \/ ChangeRouteFails
  BY <1>1 DEF TickDead, TickBegins, KeepRoute, ChangeRoute, ChangeRouteFails
<1>2. CASE HandleRecordedReceivedRpc \/ SendRecordedRpc \/ Advance
  BY <1>2 DEF HandleRecordedReceivedRpc, SendRecordedRpc, Advance, AdvanceAt
<1>3. CASE RecordPacket \/ HandlerDisabled \/ HandlerWaits \/ NoVehicle
  BY <1>3 DEF RecordPacket, HandlerDisabled, HandlerWaits, NoVehicle
<1>4. CASE EnterClosestVehicle \/ ExitCurrentVehicle
  BY <1>4 DEF EnterClosestVehicle, ExitCurrentVehicle
<1>5. CASE KeyAtInterior \/ ReplayPacket \/ Teleported \/ TickEnds
  BY <1>5 DEF KeyAtInterior, ReplayPacket, Teleported, TickEnds
<1> QED BY <1>1, <1>2, <1>3, <1>4, <1>5 DEF Tick

LEMMA OthersSurvive ==
  ASSUME \/ ReceivedRpc /\ ~ReceiveVehicleRemove /\ ~ReceivePutInVehicle
         \/ Menu \/ SocketThread \/ \E w \in Worker : WorkerStep(w)
         \/ GetsIn \/ GetsOut
  PROVE  Survives
<1> USE DEF Survives, Idle, Running, WhileReplaying
<1>1. CASE ReceiveFreeze \/ ReceiveInterior \/ ReceiveSlap \/ RecordRpc
  BY <1>1 DEF ReceiveFreeze, ReceiveInterior, ReceiveSlap, RecordRpc
<1>2. CASE Menu
  BY <1>2 DEF Menu, MenuOpen, MenuEnable, MenuDisable, MenuRecord, MenuClear, MenuLoad
<1>3. CASE SocketThread
  BY <1>3 DEF SocketThread, SocketEnables, SocketEnabled, SocketResets, SocketDisabled,
              SocketGoes
<1>4. ASSUME NEW w \in Worker, WorkerStep(w)
      PROVE  Survives
  BY <1>4 DEF WorkerStep, WorkerAsks, WorkerFails, WorkerTimesOut, WorkerDisables,
              WorkerSeesMove, WorkerSettles, WorkerResets, Elsewhere, IsIn
<1>5. CASE GetsIn \/ GetsOut
  BY <1>5 DEF GetsIn, GetsOut
<1> QED BY <1>1, <1>2, <1>3, <1>4, <1>5 DEF ReceivedRpc

(* A handler that finds no element to go on with has a route without one,  *)
(* or has been looking past its end.                                       *)
LEMMA JumpHasCause ==
  ASSUME RouteInv, PlaceTyped, NEW ks, JumpToNext(ks), tick' = "crashed", tick # "crashed"
  PROVE  ToSet(vec) \cap ks = {} \/ active >= Len(vec)
  BY DEF JumpToNext, RouteInv, RouteTyped, PlaceTyped

LEMMA CrashStep ==
  ASSUME TypesInv, CrashHasCause, [Next]_vars
  PROVE  CrashHasCause'
<1> USE DEF TypesInv, FlagsTyped
<1>1. CASE Survives
  BY <1>1 DEF Survives, CrashHasCause
<1>2. CASE ReceiveVehicleRemove
  <2> SUFFICES ASSUME ~Survives
               PROVE  overrun' # "none" \/ ToSet(vec) \cap OnFoot = {}
    BY <1>1, <1>2 DEF CrashHasCause, ReceiveVehicleRemove, route
  <2>1. tick # "crashed"
    BY <1>2 DEF ReceiveVehicleRemove, WhileReplaying, Idle, Running
  <2>2. TRUE \in Permitted("remove") /\ AsksPermission("remove") /\ JumpToNext(OnFoot)
    BY <1>2, <2>1 DEF ReceiveVehicleRemove, Survives
  <2>3. vec # <<>>
    BY <2>2 DEF Permitted
  <2>4. ASSUME active >= Len(vec)
        PROVE  overrun' # "none"
    <3>1. ~(active + 1 < Len(vec)) /\ ~(active < Len(vec))
      BY <2>4 DEF RouteInv, RouteTyped, PlaceTyped
    <3>2. Overrun("rpc")
      BY <2>2, <2>3, <3>1 DEF AsksPermission
    <3> QED BY <3>2 DEF Overrun
  <2> QED BY <2>1, <2>2, <2>4, JumpHasCause DEF Survives
<1>3. CASE ReceivePutInVehicle
  <2> SUFFICES ASSUME ~Survives
               PROVE  overrun' # "none" \/ "car" \notin ToSet(vec)
    BY <1>1, <1>3 DEF CrashHasCause, ReceivePutInVehicle, route
  <2>1. tick # "crashed"
    BY <1>3 DEF ReceivePutInVehicle, WhileReplaying, Idle, Running
  <2>2. JumpToNext({"car"})
    BY <1>3 DEF ReceivePutInVehicle
  <2>3. CASE vec = <<>>
    BY <2>3 DEF ToSet
  <2>4. ASSUME vec # <<>>, active >= Len(vec)
        PROVE  overrun' # "none"
    <3>1. ~(active < Len(vec))
      BY <2>4 DEF RouteInv, RouteTyped, PlaceTyped
    <3>2. Overrun("rpc")
      BY <1>3, <2>4, <3>1 DEF ReceivePutInVehicle, ReadBy
    <3> QED BY <3>2 DEF Overrun
  <2> QED BY <2>1, <2>2, <2>3, <2>4, JumpHasCause DEF Survives
<1>4. CASE Faults
  BY <1>4 DEF Faults, Overrun, CrashHasCause
<1>5. CASE Crashed \/ UNCHANGED vars
  BY <1>5 DEF Crashed, vars, route, history, CrashHasCause
<1> QED
  BY <1>1, <1>2, <1>3, <1>4, <1>5, TickSurvives, OthersSurvive DEF Next, ReceivedRpc

(* The process ends by itself only because .value() met a route with       *)
(* nothing to go on with, or because something read past the end of the    *)
(* route: no other order of ticks, RPCs, menu clicks and commands ends it. *)
THEOREM CrashesForAReason == Spec => []CrashHasCause
<1>1. Init => TypesInv /\ CrashHasCause
  <2>1. Init => CrashHasCause
    BY DEF Init, CrashHasCause
  <2> QED BY <2>1, TypesInitially
<1>2. (TypesInv /\ CrashHasCause) /\ [Next]_vars => (TypesInv /\ CrashHasCause)'
  BY TypesStep, CrashStep
<1> QED BY <1>1, <1>2, PTL DEF Spec

-----------------------------------------------------------------------------
(* The place of the running replay in its route.  While nobody has written *)
(* the route under it, started it in the middle of a tick or read past the *)
(* end, what the next part of the tick reads is there; only after an RPC   *)
(* that ends the route has the handler nothing left to look at.            *)
Sound == enable /\ ~disturbed /\ overrun = "none"

Ahead == active < Len(vec) \/ Last(vec) \in Rpcs

InRoute ==
  /\ active <= Len(vec)
  /\ tick \in {"received", "sent_advance", "advance"} => active < Len(vec)
  /\ tick \in {"sent", "handler"} => Ahead
  /\ tick = "sent_advance" => active + 1 < Len(vec) \/ Last(vec) \in Rpcs

PositionInv == Sound => InRoute

(* Most actions leave such a replay where it is, rewind it, end the tick,  *)
(* or end or disturb it.                                                   *)
Harmless ==
  \/ ~Sound'
  \/ /\ UNCHANGED vec /\ Sound
     /\ active' \in {active, 0}
     /\ tick' = tick \/ tick' \in {"idle", "finish", "crashed"}

LEMMA SoundHasRoute ==
  ASSUME RouteInv, Sound
  PROVE  Len(vec) \in Nat /\ Len(vec) >= 2
  BY DEF RouteInv, RouteTyped, RunningHasRoute, Sound

LEMMA HarmlessKeeps ==
  ASSUME RouteInv, PlaceTyped, PositionInv, Harmless
  PROVE  PositionInv'
<1> SUFFICES ASSUME Sound' PROVE InRoute'
  BY DEF PositionInv
<1>1. Sound /\ UNCHANGED vec /\ InRoute
  BY DEF Harmless, PositionInv
<1>2. Len(vec) \in Nat /\ Len(vec) >= 2 /\ active \in Nat
  BY <1>1, SoundHasRoute DEF PlaceTyped
<1>3. active' \in {active, 0} /\ (tick' = tick \/ tick' \in {"idle", "finish", "crashed"})
  BY DEF Harmless
<1>4. CASE active' = active
  BY <1>1, <1>2, <1>3, <1>4 DEF InRoute, Ahead
<1>5. CASE active' = 0
  BY <1>1, <1>2, <1>3, <1>5 DEF InRoute, Ahead
<1> QED BY <1>3, <1>4, <1>5

(* A read past the end spoils the replay, one within it changes nothing.   *)
LEMMA ReadsWithin ==
  ASSUME NEW reader \in {"tick", "rpc", "enable", "socket"}, Sound',
         ReadBy(reader, vec, active)
  PROVE  active < Len(vec) /\ UNCHANGED overrun
  BY DEF Sound, ReadBy, Overrun

LEMMA LastOf ==
  ASSUME RouteInv, PlaceTyped, NEW e \in At(vec, active), active < Len(vec), e \in Rpcs
  PROVE  active + 1 < Len(vec) \/ Last(vec) \in Rpcs
<1>1. e = vec[active + 1] /\ Len(vec) \in Nat /\ active \in Nat
  BY DEF At, RouteInv, RouteTyped, PlaceTyped
<1>2. CASE active + 1 = Len(vec)
  BY <1>1, <1>2 DEF Last
<1> QED BY <1>1, <1>2

LEMMA ReceivedKeepsPosition ==
  ASSUME TypesInv, PositionInv, HandleRecordedReceivedRpc
  PROVE  PositionInv'
<1> USE DEF TypesInv
<1> SUFFICES ASSUME Sound' PROVE InRoute'
  BY DEF PositionInv
<1>1. enable /\ UNCHANGED <<vec, disturbed>> /\ tick' = "sent"
  BY DEF HandleRecordedReceivedRpc, Sound, route
<1>2. ReadBy("tick", vec, active)
  BY <1>1 DEF HandleRecordedReceivedRpc
<1>3. active < Len(vec) /\ active \in Nat /\ Len(vec) \in Nat /\ active < MaxIndex
  BY <1>2, ReadsWithin, ReplayAssumption DEF PlaceTyped, RouteInv, RouteTyped
<1>4. PICK e \in At(vec, active) :
        IF e \in Received
          THEN active' = Succ(active) /\ wait_put' = (wait_put \/ e = "put")
          ELSE UNCHANGED <<active, wait_put>>
  BY <1>1 DEF HandleRecordedReceivedRpc
<1>5. CASE e \in Received
  <2>1. active' = active + 1
    BY <1>3, <1>4, <1>5, SuccTyped DEF PlaceTyped
  <2>2. active + 1 < Len(vec) \/ Last(vec) \in Rpcs
    BY <1>3, <1>5, LastOf DEF Rpcs
  <2> QED BY <1>1, <1>3, <2>1, <2>2 DEF InRoute, Ahead
<1>6. CASE e \notin Received
  BY <1>1, <1>3, <1>4, <1>6 DEF InRoute, Ahead
<1> QED BY <1>5, <1>6

LEMMA SentKeepsPosition ==
  ASSUME TypesInv, PositionInv, SendRecordedRpc
  PROVE  PositionInv'
<1> USE DEF TypesInv
<1> SUFFICES ASSUME Sound' PROVE InRoute'
  BY DEF PositionInv
<1>1. enable /\ ReadBy("tick", vec, active) /\ UNCHANGED active
  BY DEF SendRecordedRpc, Sound, run
<1>2. active < Len(vec) /\ active \in Nat /\ Len(vec) \in Nat
  BY <1>1, ReadsWithin DEF PlaceTyped, RouteInv, RouteTyped
<1>3. UNCHANGED vec
  BY <1>1 DEF SendRecordedRpc, Recording, Sound
<1>4. CASE tick' = "handler"
  BY <1>1, <1>2, <1>3, <1>4 DEF InRoute, Ahead
<1>5. CASE tick' = "sent_advance"
  <2>1. PICK e \in At(vec, active) : e = "sent"
    BY <1>1, <1>5 DEF SendRecordedRpc
  <2>2. active + 1 < Len(vec) \/ Last(vec) \in Rpcs
    BY <1>2, <2>1, LastOf DEF Rpcs
  <2> QED BY <1>1, <1>2, <1>3, <1>5, <2>2 DEF InRoute
<1> QED BY <1>1, <1>4, <1>5 DEF SendRecordedRpc

LEMMA AdvanceKeepsPosition ==
  ASSUME TypesInv, PositionInv, Advance
  PROVE  PositionInv'
<1> USE DEF TypesInv
<1> SUFFICES ASSUME Sound' PROVE InRoute'
  BY DEF PositionInv
<1>1. Sound /\ UNCHANGED vec /\ active' = Succ(active)
  <2>1. UNCHANGED <<vec, disturbed, enable, overrun>> /\ active' = Succ(active)
    BY DEF Advance, AdvanceAt, route, history
  <2> QED BY <2>1, Zenon DEF Sound
<1>2. InRoute /\ Len(vec) \in Nat /\ active \in Nat /\ MaxIndex \in Nat /\ Len(vec) < MaxIndex
  BY <1>1, SoundHasRoute, ReplayAssumption DEF PositionInv, PlaceTyped
<1>3. CASE In("sent_advance") /\ tick' = "handler"
  <2>1. active < Len(vec) /\ (active + 1 < Len(vec) \/ Last(vec) \in Rpcs)
    BY <1>2, <1>3 DEF InRoute, In
  <2>2. active' = active + 1
    BY <1>1, <1>2, <2>1, SuccTyped DEF PlaceTyped
  <2> QED BY <1>1, <1>2, <1>3, <2>1, <2>2 DEF InRoute, Ahead
<1>4. CASE In("advance") /\ tick' = "finish"
  <2>1. active < Len(vec)
    BY <1>2, <1>4 DEF InRoute, In
  <2>2. active' = active + 1
    BY <1>1, <1>2, <2>1, SuccTyped DEF PlaceTyped
  <2> QED BY <1>1, <1>2, <1>4, <2>1, <2>2 DEF InRoute
<1> QED BY <1>3, <1>4 DEF Advance, AdvanceAt

(* A handler that replays a packet has read it. *)
LEMMA HandlersKeepPosition ==
  ASSUME TypesInv, PositionInv, KeyAtInterior \/ ReplayPacket
  PROVE  PositionInv'
<1> USE DEF TypesInv
<1> SUFFICES ASSUME Sound' PROVE InRoute'
  BY DEF PositionInv
<1>1. ReadBy("tick", vec, active) /\ UNCHANGED <<vec, active>> /\ tick' = "advance"
  BY DEF KeyAtInterior, ReplayPacket, Replays, HandlesOnFoot, Handles, route, run
<1>2. active < Len(vec) /\ active \in Nat /\ Len(vec) \in Nat
  BY <1>1, ReadsWithin DEF PlaceTyped, RouteInv, RouteTyped
<1> QED BY <1>1, <1>2 DEF InRoute

LEMMA BeginsKeepsPosition ==
  ASSUME TypesInv, PositionInv, TickBegins
  PROVE  PositionInv'
<1> USE DEF TypesInv
<1> SUFFICES ASSUME Sound' PROVE InRoute'
  BY DEF PositionInv
<1>1. Sound /\ UNCHANGED <<vec, active>> /\ tick' = "received" /\ active # Len(vec)
  BY DEF TickBegins, AtEnd, Sound, route, run, history
<1>2. active <= Len(vec) /\ active \in Nat /\ Len(vec) \in Nat
  BY <1>1, SoundHasRoute DEF PositionInv, InRoute, PlaceTyped
<1> QED BY <1>1, <1>2 DEF InRoute

(* A replay starts within the route, and between two ticks if it is to     *)
(* count as undisturbed.                                                   *)
LEMMA EnableKeepsPosition ==
  ASSUME TypesInv, PositionInv, NEW reader, GlobalEnable(reader), UNCHANGED tick
  PROVE  PositionInv'
<1> USE DEF TypesInv
<1> SUFFICES ASSUME Sound' PROVE InRoute'
  BY DEF PositionInv
<1>1. Accepts(vec, active) /\ active' \in StartPoints(vec) /\ UNCHANGED vec /\ tick' = "idle"
  BY DEF GlobalEnable, Sound
<1>2. vec \in Seq(Kinds) /\ Len(vec) >= 2
  BY <1>1 DEF Accepts, TooShort, RouteInv, RouteTyped
<1>3. active' \in 0 .. Len(vec) - 1
  BY <1>1, <1>2, StartsWithin
<1> QED BY <1>1, <1>2, <1>3 DEF InRoute

LEMMA ChangeKeepsPosition ==
  ASSUME TypesInv, PositionInv, ChangeRoute \/ ChangeRouteFails
  PROVE  PositionInv'
<1> USE DEF TypesInv
<1>1. CASE ChangeRoute
  <2>1. active' = 0 /\ tick' = "idle" /\ vec' \in Seq(Kinds)
    BY <1>1, ReplayAssumption DEF ChangeRoute, Idle
  <2> QED BY <2>1 DEF PositionInv, InRoute
<1>2. CASE ChangeRouteFails
  <2>1. ~(active < Len(vec))
    BY <1>2 DEF ChangeRouteFails, AtEnd, RouteInv, RouteTyped
  <2>2. Overrun("enable")
    BY <1>2, <2>1 DEF ChangeRouteFails, ReadBy
  <2> QED BY <2>2 DEF Overrun, PositionInv, Sound
<1> QED BY <1>1, <1>2

(* The RPC handlers that look for the next element find one within the     *)
(* route or look past its end.                                             *)
LEMMA JumpKeepsPosition ==
  ASSUME TypesInv, PositionInv, Idle, NEW ks, JumpToNext(ks), UNCHANGED vec,
         Sound' => Sound /\ active < Len(vec)
  PROVE  PositionInv'
<1> USE DEF TypesInv
<1> SUFFICES ASSUME Sound' PROVE InRoute'
  BY DEF PositionInv
<1>1. Sound /\ active \in 0 .. Len(vec) - 1 /\ vec \in Seq(Kinds)
  BY DEF PlaceTyped, RouteInv, RouteTyped
<1>2. tick' \in {"idle", "crashed"}
  BY DEF JumpToNext, Idle
<1>3. active' = active \/ (ToSet(vec) \cap ks # {} /\ active' = NextOf(vec, ks, active))
  BY <1>1 DEF JumpToNext
<1>4. active' \in 0 .. Len(vec) - 1
  BY <1>1, <1>3, NextOfFinds
<1> QED BY <1>1, <1>2, <1>4 DEF InRoute

LEMMA RemoveKeepsPosition ==
  ASSUME TypesInv, PositionInv, ReceiveVehicleRemove
  PROVE  PositionInv'
<1> USE DEF TypesInv
<1>1. UNCHANGED <<vec, disturbed>> /\ Idle /\ enable /\ AsksPermission("remove")
  BY DEF ReceiveVehicleRemove, WhileReplaying, route
<1>2. CASE Alert /\ UNCHANGED tick
  <2>1. CASE vec = <<>>
    BY <1>1, <1>2, <2>1, HarmlessKeeps
       DEF Harmless, Sound, Alert, GlobalDisable, AsksPermission, run
  <2>2. CASE vec # <<>>
    BY <1>1, <1>2, <2>2, HarmlessKeeps DEF Harmless, Sound, Alert, GlobalDisable, Disable
  <2> QED BY <2>1, <2>2
<1>3. CASE TRUE \in Permitted("remove") /\ JumpToNext(OnFoot)
  <2>1. vec # <<>>
    BY <1>3 DEF Permitted
  <2>2. ASSUME Sound'
        PROVE  Sound /\ active < Len(vec)
    <3>1. Sound
      BY <1>1, <2>2 DEF Sound, AsksPermission, Overrun
    <3>2. active + 1 < Len(vec) \/ active < Len(vec)
      BY <1>1, <2>1, <2>2 DEF AsksPermission, Overrun, Sound
    <3> QED BY <3>1, <3>2 DEF PlaceTyped, RouteInv, RouteTyped
  <2> QED BY <1>1, <1>3, <2>2, JumpKeepsPosition
<1> QED BY <1>2, <1>3 DEF ReceiveVehicleRemove

LEMMA PutKeepsPosition ==
  ASSUME TypesInv, PositionInv, ReceivePutInVehicle
  PROVE  PositionInv'
<1> USE DEF TypesInv
<1>1. UNCHANGED <<vec, disturbed>> /\ Idle /\ enable /\ JumpToNext({"car"})
  BY DEF ReceivePutInVehicle, WhileReplaying, route
<1>2. ASSUME Sound'
      PROVE  Sound /\ active < Len(vec)
  <2>1. Sound
    BY <1>1, <1>2 DEF Sound, ReceivePutInVehicle, ReadBy, Overrun
  <2>2. Len(vec) >= 2 /\ Len(vec) \in Nat
    BY <2>1, SoundHasRoute
  <2>3. ReadBy("rpc", vec, active)
    BY <2>2 DEF ReceivePutInVehicle
  <2> QED BY <1>2, <2>1, <2>3, ReadsWithin
<1> QED BY <1>1, <1>2, JumpKeepsPosition

LEMMA TickKeepsPosition ==
  ASSUME TypesInv, PositionInv, Tick
  PROVE  PositionInv'
<1> USE DEF TypesInv
<1>1. CASE \/ HandleRecordedReceivedRpc \/ SendRecordedRpc \/ Advance
           \/ KeyAtInterior \/ ReplayPacket \/ TickBegins
           \/ ChangeRoute \/ ChangeRouteFails
  BY <1>1, ReceivedKeepsPosition, SentKeepsPosition, AdvanceKeepsPosition,
     HandlersKeepPosition, BeginsKeepsPosition, ChangeKeepsPosition
<1>2. ASSUME TickDead, Sound'
      PROVE  Harmless
  BY <1>2 DEF TickDead, Alert, GlobalDisable, Disable, Harmless, Sound, route, run, history
<1>3. ASSUME KeepRoute, Sound'
      PROVE  Harmless
  BY <1>3 DEF KeepRoute, Harmless, Sound, route, history
<1>4. ASSUME RecordPacket, Sound'
      PROVE  Harmless
  BY <1>4 DEF RecordPacket, Recording, Returns, Harmless, Sound, run, history
<1>5. ASSUME HandlerDisabled, Sound'
      PROVE  Harmless
  BY <1>5 DEF HandlerDisabled, Harmless, Sound, run
<1>6. ASSUME HandlerWaits \/ EnterClosestVehicle \/ ExitCurrentVehicle \/ NoVehicle \/ Teleported,
             Sound'
      PROVE  Harmless
  <2>1. /\ UNCHANGED <<vec, disturbed>> /\ ReadBy("tick", vec, active)
        /\ UNCHANGED <<active, enable>> \/ enable' = FALSE
        /\ tick' = "finish"
    BY <1>6 DEF HandlerWaits, EnterClosestVehicle, ExitCurrentVehicle, NoVehicle, Teleported,
                Replays, HandlesOnFoot, HandlesInCar, Handles, Returns, Alert, GlobalDisable,
                Disable, route, run
  <2> QED BY <1>6, <2>1, ReadsWithin DEF Harmless, Sound
<1>7. ASSUME TickEnds, Sound'
      PROVE  Harmless
  BY <1>7 DEF TickEnds, Harmless, Sound, route, run, history
<1> QED
  BY <1>1, <1>2, <1>3, <1>4, <1>5, <1>6, <1>7, HarmlessKeeps DEF Tick, Harmless

LEMMA OthersKeepPosition ==
  ASSUME TypesInv, PositionInv,
         \/ ReceivedRpc \/ Menu \/ SocketThread \/ \E w \in Worker : WorkerStep(w)
         \/ GetsIn \/ GetsOut \/ Faults \/ Crashed \/ UNCHANGED vars
  PROVE  PositionInv'
<1> USE DEF TypesInv
<1>1. CASE ReceiveVehicleRemove \/ ReceivePutInVehicle
  BY <1>1, RemoveKeepsPosition, PutKeepsPosition
<1>2. CASE MenuEnable \/ SocketEnabled
  BY <1>2, EnableKeepsPosition DEF MenuEnable, SocketEnabled, SocketGoes
<1>3. ASSUME ReceiveFreeze, Sound'
      PROVE  Harmless
  BY <1>3 DEF ReceiveFreeze, AsksPermission, Overrun, Alert, GlobalDisable, Disable, Harmless,
              Sound, route, run
<1>4. ASSUME ReceiveInterior \/ ReceiveSlap, Sound'
      PROVE  Harmless
  BY <1>4 DEF ReceiveInterior, ReceiveSlap, Alert, GlobalDisable, Disable, Harmless, Sound,
              route, run, history
<1>5. ASSUME RecordRpc, Sound'
      PROVE  Harmless
  BY <1>5 DEF RecordRpc, Recording, Harmless, Sound, run, history
<1>6. ASSUME MenuDisable \/ MenuRecord, Sound'
      PROVE  Harmless
  BY <1>6 DEF MenuDisable, MenuRecord, GlobalDisable, Disable, Harmless, Sound, route, run,
              history
<1>7. ASSUME MenuClear \/ MenuLoad
      PROVE  ~Sound'
  BY <1>7 DEF MenuClear, MenuLoad, Sound, run
<1>8. ASSUME SocketEnables \/ SocketResets \/ SocketDisabled, Sound'
      PROVE  Harmless
  BY <1>8 DEF SocketEnables, SocketResets, SocketDisabled, SocketGoes, Harmless, Sound, route,
              history
<1>9. ASSUME NEW w \in Worker, WorkerStep(w), Sound'
      PROVE  Harmless
  BY <1>9 DEF WorkerStep, WorkerAsks, WorkerFails, WorkerTimesOut, WorkerDisables,
              WorkerSeesMove, WorkerSettles, WorkerResets, Elsewhere, Harmless, Sound, route, run
<1>10. ASSUME GetsIn \/ GetsOut \/ Faults \/ Crashed \/ UNCHANGED vars, Sound'
       PROVE  Harmless
  BY <1>10 DEF GetsIn, GetsOut, Faults, Overrun, Crashed, vars, Harmless, Sound, route, run,
               history
<1> QED
  BY <1>1, <1>2, <1>3, <1>4, <1>5, <1>6, <1>7, <1>8, <1>9, <1>10, HarmlessKeeps
     DEF ReceivedRpc, Menu, SocketThread, Harmless

(* The step of a tick that is the first to read past the end.              *)
FirstRead == overrun = "none" /\ overrun' = "tick"

LEMMA ReadsAreTheTick ==
  ASSUME [Next]_vars, FirstRead
  PROVE  /\ enable /\ tick \in {"received", "sent", "handler"}
         /\ ReadBy("tick", vec, active)
<1> USE DEF FirstRead, flags, history, run, route
<1>1. CASE HandleRecordedReceivedRpc \/ SendRecordedRpc
  BY <1>1 DEF HandleRecordedReceivedRpc, SendRecordedRpc, In
<1>2. CASE HandlerWaits \/ EnterClosestVehicle \/ ExitCurrentVehicle \/ NoVehicle \/ Teleported
  BY <1>2 DEF HandlerWaits, EnterClosestVehicle, ExitCurrentVehicle, NoVehicle, Teleported,
              Replays, HandlesOnFoot, HandlesInCar, Handles, In
<1>3. CASE KeyAtInterior \/ ReplayPacket
  BY <1>3 DEF KeyAtInterior, ReplayPacket, Replays, HandlesOnFoot, Handles, In
<1>4. ~(TickDead \/ TickBegins \/ KeepRoute \/ ChangeRoute \/ Advance \/ RecordPacket
        \/ HandlerDisabled \/ TickEnds)
  BY DEF TickDead, TickBegins, KeepRoute, ChangeRoute, Advance, AdvanceAt, RecordPacket,
         HandlerDisabled, TickEnds
<1>5. ~(ChangeRouteFails \/ ReceiveFreeze \/ ReceiveVehicleRemove \/ ReceivePutInVehicle
        \/ MenuEnable \/ SocketEnabled \/ Faults)
  BY DEF ChangeRouteFails, ReceiveFreeze, ReceiveVehicleRemove, ReceivePutInVehicle,
         MenuEnable, SocketEnabled, Faults, GlobalEnable, AsksPermission, ReadBy, Overrun
<1>6. ~(ReceiveInterior \/ ReceiveSlap \/ RecordRpc \/ MenuDisable \/ MenuRecord \/ MenuClear
        \/ MenuLoad \/ SocketEnables \/ SocketResets \/ SocketDisabled)
  BY DEF ReceiveInterior, ReceiveSlap, RecordRpc, MenuDisable, MenuRecord, MenuClear, MenuLoad,
         SocketEnables, SocketResets, SocketDisabled
<1>7. ASSUME NEW w \in Worker
      PROVE  ~WorkerStep(w)
  BY DEF WorkerStep, WorkerAsks, WorkerFails, WorkerTimesOut, WorkerDisables,
         WorkerSeesMove, WorkerSettles, WorkerResets, Elsewhere
<1>8. ~(GetsIn \/ GetsOut \/ Crashed \/ UNCHANGED vars)
  BY DEF GetsIn, GetsOut, Crashed, vars
<1> QED
  BY <1>1, <1>2, <1>3, <1>4, <1>5, <1>6, <1>7, <1>8
     DEF Next, Tick, ReceivedRpc, Menu, SocketThread

(* A tick is never the first to read past the end of packets_vector,       *)
(* unless the route ends in an RPC, was written under the replay or was    *)
(* started in the middle of the tick: the one test for the end, at the     *)
(* start of a tick, is enough for its three reads, although four other     *)
(* parties move m_active_packet between them.                              *)
THEOREM TickReadsInRoute == Spec => TickInBounds
<1> DEFINE Inv == TypesInv /\ PositionInv
<1>1. Init => Inv
  <2>1. Init => PositionInv
    BY DEF Init, PositionInv, Sound
  <2> QED BY <2>1, TypesInitially
<1>2. Inv /\ [Next]_vars => Inv'
  BY TypesStep, TickKeepsPosition, OthersKeepPosition DEF Next
<1>3. Inv /\ [Next]_vars => [FirstRead => disturbed \/ Last(vec) \in Rpcs]_vars
  <2> SUFFICES ASSUME Inv, [Next]_vars, FirstRead, ~disturbed
               PROVE  Last(vec) \in Rpcs
    OBVIOUS
  <2>1. /\ enable /\ tick \in {"received", "sent", "handler"}
        /\ ReadBy("tick", vec, active)
    BY ReadsAreTheTick
  <2>2. InRoute /\ ~(active < Len(vec))
    BY <2>1 DEF PositionInv, Sound, FirstRead, ReadBy
  <2> QED BY <2>1, <2>2 DEF InRoute, Ahead
<1> HIDE DEF Inv
<1>4. [][FirstRead => disturbed \/ Last(vec) \in Rpcs]_vars <=> TickInBounds
  BY PTL DEF TickInBounds, FirstRead
<1> QED BY <1>1, <1>2, <1>3, <1>4, PTL DEF Spec
====
