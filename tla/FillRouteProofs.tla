--------------------------- MODULE FillRouteProofs ---------------------------
(***************************************************************************)
(* Proofs about FillRoute, for routes of any length, any number of fill    *)
(* threads, any loop count and any number of commands.                     *)
(***************************************************************************)
EXTENDS FillRoute, TLAPS

FillerType == [Filler -> [phase : {"none", "stop", "fuel"}, current : BOOLEAN]]

Unlocked == locked' = FALSE /\ raced' = FALSE

-----------------------------------------------------------------------------
(* Types.  First what starts and stops a route.                            *)

LEMMA Sizes == TypeOK => way \in Nat /\ fill \in Nat /\ active \in Nat /\ loops \in Nat
BY FillAssumption DEF TypeOK

LEMMA StartsTypes ==
  ASSUME TypeOK, NEW n \in Nat, Starts(n)
  PROVE  /\ active' \in 0 .. MaxSize + 1
         /\ paused' \in BOOLEAN /\ stale_resume' \in BOOLEAN
         /\ filler' \in FillerType
<1>1. CASE n < 2
  BY <1>1 DEF Starts, TypeOK, FillerType
<1>2. CASE ~(n < 2)
  <2>1. /\ active' = 0 /\ paused' = FALSE /\ stale_resume' = FALSE
        /\ filler' = [t \in Filler |-> [filler[t] EXCEPT !.current = FALSE]]
    BY <1>2 DEF Starts
  <2>2. filler' \in FillerType
    BY <2>1 DEF TypeOK, FillerType
  <2>3. active' \in 0 .. MaxSize + 1
    BY <2>1, FillAssumption
  <2> QED BY <2>1, <2>2, <2>3
<1> QED BY <1>1, <1>2

LEMMA EnableTypes ==
  ASSUME TypeOK, NEW n \in Nat, GlobalEnable(n)
  PROVE  /\ active' \in 0 .. MaxSize + 1
         /\ paused' \in BOOLEAN /\ stale_resume' \in BOOLEAN
         /\ filler' \in FillerType
         /\ enable' \in BOOLEAN /\ Unlocked
<1>1. (n >= 2) \in BOOLEAN
  OBVIOUS
<1>2. enable' = (n >= 2) /\ Unlocked
  BY DEF GlobalEnable, Unlock, Unlocked
<1>3. enable' \in BOOLEAN
  BY <1>1, <1>2
<1> QED BY <1>2, <1>3, StartsTypes DEF GlobalEnable

LEMMA RewindTypes ==
  ASSUME TypeOK, Rewind
  PROVE  /\ active' \in 0 .. MaxSize + 1
         /\ enable' \in BOOLEAN /\ fill_active' \in BOOLEAN /\ paused' \in BOOLEAN
<1>1. active' = 0 /\ enable' = FALSE /\ fill_active' = FALSE /\ paused' = paused
  BY DEF Rewind
<1>2. active' \in 0 .. MaxSize + 1
  BY <1>1, FillAssumption
<1> QED BY <1>1, <1>2 DEF TypeOK

RunTypes ==
  /\ active' \in 0 .. MaxSize + 1
  /\ loops' \in 0 .. LoopMod - 1
  /\ enable' \in BOOLEAN /\ fill_active' \in BOOLEAN /\ paused' \in BOOLEAN
  /\ locked' \in BOOLEAN /\ raced' \in BOOLEAN

LEMMA DisableTypes == ASSUME TypeOK, Disable PROVE RunTypes
<1>1. loops' = 0 /\ locked' = FALSE /\ raced' = FALSE
  BY DEF Disable, Unlock
<1>2. loops' \in 0 .. LoopMod - 1
  BY <1>1, FillAssumption
<1> QED BY <1>1, <1>2, RewindTypes DEF Disable, RunTypes

(* The menu.                                                               *)
LEMMA MenuTypes == TypeOK /\ Menu => TypeOK'
<1> SUFFICES ASSUME TypeOK, Menu PROVE TypeOK'
  OBVIOUS
<1>1. CASE MenuEnable
  <2>1. way \in Nat
    BY Sizes
  <2>2. /\ active' \in 0 .. MaxSize + 1
        /\ paused' \in BOOLEAN /\ stale_resume' \in BOOLEAN
        /\ filler' \in FillerType
        /\ enable' \in BOOLEAN /\ Unlocked
    BY <1>1, <2>1, EnableTypes DEF MenuEnable
  <2> QED BY <1>1, <2>2 DEF MenuEnable, TypeOK, Unlocked, sizes, remote, FillerType
<1>2. CASE Stop
  <2>1. RunTypes
    BY <1>2, DisableTypes DEF Stop
  <2> QED BY <1>2, <2>1 DEF Stop, RunTypes, TypeOK, sizes, remote
<1>3. CASE AddWaypoint
  BY <1>3, FillAssumption DEF AddWaypoint, TypeOK, run, lock, remote
<1>4. CASE Clear
  <2>1. way' \in 0 .. MaxWay
    BY <1>4, FillAssumption DEF Clear
  <2>2. disturbed' \in BOOLEAN
    BY <1>4 DEF Clear, Disturbs
  <2> QED BY <1>4, <2>1, <2>2 DEF Clear, TypeOK, run, lock, remote
<1>5. CASE Load
  <2>1. way' \in 0 .. MaxWay /\ fill' \in 0 .. MaxSize
    BY <1>5, FillAssumption DEF Load, Files
  <2>2. CASE way = 0
    <3>1. disturbed' \in BOOLEAN
      BY <1>5, <2>2 DEF Load, Disturbs
    <3> QED BY <1>5, <2>1, <2>2, <3>1 DEF Load, GlobalDisable, TypeOK, run, lock, remote
  <2>3. CASE way # 0
    <3>1. RunTypes /\ disturbed' = FALSE
      BY <1>5, <2>3, DisableTypes DEF Load, GlobalDisable
    <3> QED BY <1>5, <2>1, <3>1 DEF Load, RunTypes, TypeOK, remote
  <2> QED BY <2>2, <2>3
<1> QED BY <1>1, <1>2, <1>3, <1>4, <1>5 DEF Menu

(* The tick.                                                               *)
LEMMA AheadTypes ==
  ASSUME TypeOK, NEW reached \in BOOLEAN
  PROVE  Ahead(reached) \in 0 .. MaxSize + 1 /\ Succ(Ahead(reached)) \in 0 .. MaxSize + 1
BY FillAssumption DEF TypeOK, Ahead, Succ

LEMMA LoopTypes == ASSUME TypeOK PROVE OneMoreLoop \in 0 .. LoopMod - 1
BY FillAssumption DEF TypeOK, OneMoreLoop

LEMMA ReadTypes ==
  ASSUME TypeOK, NEW n \in Nat, ReadOf(n)
  PROVE  disturbed' \in BOOLEAN
BY DEF ReadOf

LEMMA FillDueTypes ==
  ASSUME TypeOK, StartsFillIfDue
  PROVE  fill_active' \in BOOLEAN /\ loops' \in 0 .. LoopMod - 1
<1>1. fill_active' \in BOOLEAN
  BY DEF StartsFillIfDue
<1>2. loops' \in 0 .. LoopMod - 1
  BY FillAssumption DEF StartsFillIfDue, TypeOK
<1> QED BY <1>1, <1>2

LEMMA DrivesTypes ==
  ASSUME TypeOK, NEW next \in 0 .. MaxSize + 1, DrivesTo(next)
  PROVE  /\ active' \in 0 .. MaxSize + 1
         /\ locked' \in BOOLEAN /\ raced' \in BOOLEAN /\ tick' = "idle"
<1>1. locked' = TRUE /\ raced' = ~enable /\ tick' = "idle"
  BY DEF DrivesTo, Lock
<1>2. active' \in 0 .. MaxSize + 1
  BY DEF DrivesTo
<1> QED BY <1>1, <1>2

LEMMA NormalTypes ==
  ASSUME TypeOK,
         \/ \E reached \in BOOLEAN : NormalDrives(reached)
         \/ RoundEnds \/ RouteChanges \/ RouteChangeFails
  PROVE  TypeOK'
<1>1. ASSUME NEW reached \in BOOLEAN, NormalDrives(reached) PROVE TypeOK'
  <2>1. disturbed' \in BOOLEAN
    BY <1>1, Sizes, ReadTypes DEF NormalDrives
  <2>2. /\ active' \in 0 .. MaxSize + 1
        /\ locked' \in BOOLEAN /\ raced' \in BOOLEAN /\ tick' = "idle"
    BY <1>1, AheadTypes, DrivesTypes DEF NormalDrives
  <2> QED BY <1>1, <2>1, <2>2 DEF NormalDrives, TypeOK, sizes, remote
<1>2. CASE RoundEnds
  <2>1. disturbed' \in BOOLEAN
    BY <1>2, Sizes, ReadTypes DEF RoundEnds
  <2>2. active' \in 0 .. MaxSize + 1 /\ loops' \in 0 .. LoopMod - 1
    BY <1>2, LoopTypes, FillAssumption DEF RoundEnds
  <2> QED BY <1>2, <2>1, <2>2 DEF RoundEnds, TypeOK, sizes, lock, remote
<1>3. CASE RouteChanges
  <2>1. way' \in 0 .. MaxWay /\ fill' \in 0 .. MaxSize /\ way' \in Nat
    BY <1>3, FillAssumption DEF RouteChanges, Files
  <2>2. (way' >= 2) \in BOOLEAN
    OBVIOUS
  <2>3. /\ fill_active' = FALSE /\ enable' \in BOOLEAN
        /\ locked' = FALSE /\ raced' = FALSE /\ disturbed' = FALSE
    BY <1>3, <2>2 DEF RouteChanges, Unlock
  <2>4. active' \in 0 .. MaxSize + 1 /\ loops' \in 0 .. LoopMod - 1
    BY <1>3, FillAssumption DEF RouteChanges
  <2>5. paused' \in BOOLEAN /\ stale_resume' \in BOOLEAN /\ filler' \in FillerType
    <3>1. CASE way' >= 2
      <4>1. /\ paused' = FALSE /\ stale_resume' = FALSE
            /\ filler' = [t \in Filler |-> [filler[t] EXCEPT !.current = FALSE]]
        BY <1>3, <3>1 DEF RouteChanges
      <4> QED BY <4>1 DEF TypeOK, FillerType
    <3>2. CASE ~(way' >= 2)
      BY <1>3, <3>2 DEF RouteChanges, TypeOK, FillerType
    <3> QED BY <3>1, <3>2
  <2> QED BY <1>3, <2>1, <2>3, <2>4, <2>5 DEF RouteChanges, TypeOK, remote, FillerType
<1>4. CASE RouteChangeFails
  <2>1. /\ active' \in 0 .. MaxSize + 1
        /\ paused' \in BOOLEAN /\ stale_resume' \in BOOLEAN
        /\ filler' \in FillerType
        /\ enable' \in BOOLEAN /\ Unlocked
    BY <1>4, Sizes, EnableTypes DEF RouteChangeFails
  <2>2. disturbed' \in BOOLEAN
    BY <1>4, Sizes, ReadTypes DEF RouteChangeFails
  <2>3. loops' \in 0 .. LoopMod - 1
    BY <1>4, LoopTypes DEF RouteChangeFails
  <2> QED BY <1>4, <2>1, <2>2, <2>3 DEF RouteChangeFails, TypeOK, Unlocked, sizes, remote, FillerType
<1> QED BY <1>1, <1>2, <1>3, <1>4

LEMMA FillTypes ==
  ASSUME TypeOK,
         \/ FillOnFoot \/ FillRouteEnds
         \/ \E reached \in BOOLEAN :
              FillDrives(reached) \/ \E t \in Filler : FillStops(t, reached)
  PROVE  TypeOK'
<1>1. CASE FillOnFoot
  <2>1. RunTypes
    BY <1>1, DisableTypes DEF FillOnFoot
  <2> QED BY <1>1, <2>1 DEF FillOnFoot, RunTypes, TypeOK, sizes, remote
<1>2. CASE FillRouteEnds
  <2>1. disturbed' \in BOOLEAN
    BY <1>2, Sizes, ReadTypes DEF FillRouteEnds
  <2>2. active' \in 0 .. MaxSize + 1
    BY <1>2, FillAssumption DEF FillRouteEnds
  <2> QED BY <1>2, <2>1, <2>2 DEF FillRouteEnds, TypeOK, sizes, lock, remote
<1>3. ASSUME NEW reached \in BOOLEAN, FillDrives(reached) PROVE TypeOK'
  <2>1. disturbed' \in BOOLEAN
    BY <1>3, Sizes, ReadTypes DEF FillDrives
  <2>2. /\ active' \in 0 .. MaxSize + 1
        /\ locked' \in BOOLEAN /\ raced' \in BOOLEAN /\ tick' = "idle"
    BY <1>3, AheadTypes, DrivesTypes DEF FillDrives
  <2> QED BY <1>3, <2>1, <2>2 DEF FillDrives, TypeOK, sizes, remote
<1>4. ASSUME NEW reached \in BOOLEAN, NEW t \in Filler, FillStops(t, reached) PROVE TypeOK'
  <2>1. disturbed' \in BOOLEAN
    BY <1>4, Sizes, ReadTypes DEF FillStops
  <2>2. /\ active' \in 0 .. MaxSize + 1
        /\ locked' \in BOOLEAN /\ raced' \in BOOLEAN /\ tick' = "idle"
    BY <1>4, AheadTypes, DrivesTypes DEF FillStops
  <2>3. filler' \in FillerType
    BY <1>4 DEF FillStops, TypeOK, FillerType
  <2> QED BY <1>4, <2>1, <2>2, <2>3 DEF FillStops, TypeOK, sizes, remote, FillerType
<1> QED BY <1>1, <1>2, <1>3, <1>4

LEMMA TickTypes == TypeOK /\ Tick => TypeOK'
<1> SUFFICES ASSUME TypeOK, Tick PROVE TypeOK'
  OBVIOUS
<1>1. CASE TickBegins
  BY <1>1 DEF TickBegins, TypeOK, sizes, run, lock, remote
<1>2. CASE Waits
  BY <1>2 DEF Waits, TypeOK, sizes, run, lock, remote
<1>3. CASE PlayerSteers \/ Drives
  <2>1. fill_active' \in BOOLEAN /\ loops' \in 0 .. LoopMod - 1
    BY <1>3, FillDueTypes DEF PlayerSteers, Drives
  <2>2. locked' \in BOOLEAN /\ raced' \in BOOLEAN
    BY <1>3 DEF PlayerSteers, Drives, Unlock, lock, TypeOK
  <2>3. tick' \in {"idle", "normal", "fill"}
    BY <1>3 DEF PlayerSteers, Drives
  <2> QED BY <1>3, <2>1, <2>2, <2>3 DEF PlayerSteers, Drives, StartsFillIfDue, TypeOK, sizes, remote
<1>4. CASE ReadFails
  BY <1>4 DEF ReadFails, TypeOK, sizes, run, lock, remote
<1> QED BY <1>1, <1>2, <1>3, <1>4, NormalTypes, FillTypes DEF Tick

(* The other threads.                                                      *)
LEMMA ThreadTypes ==
  ASSUME TypeOK, NEW t \in Filler, FillThread(t)
  PROVE  TypeOK'
<1>1. CASE VehicleStops(t)
  BY <1>1 DEF VehicleStops, Unlock, TypeOK, sizes, run, remote
<1>2. CASE NoVehicle(t)
  BY <1>2 DEF NoVehicle, TypeOK, sizes, run, lock, remote
<1>3. CASE Resumes(t)
  <2>1. stale_resume' \in BOOLEAN /\ paused' = FALSE
    BY <1>3 DEF Resumes
  <2>2. filler' \in FillerType
    BY <1>3 DEF Resumes, NoThread, TypeOK, FillerType
  <2> QED BY <1>3, <2>1, <2>2 DEF Resumes, TypeOK, sizes, lock, remote, FillerType
<1> QED BY <1>1, <1>2, <1>3 DEF FillThread

LEMMA SocketTypes == TypeOK /\ Socket => TypeOK'
<1> SUFFICES ASSUME TypeOK, Socket PROVE TypeOK'
  OBVIOUS
<1>1. ASSUME NEW op \in {"enable", "disable"}, Command(op) PROVE TypeOK'
  BY <1>1, FillAssumption DEF Command, TypeOK, sizes, run, lock
<1>2. CASE SocketStops
  BY <1>2 DEF SocketStops, Unlock, TypeOK, sizes
<1>3. CASE SocketStarts
  <2>1. /\ active' \in 0 .. MaxSize + 1
        /\ paused' \in BOOLEAN /\ stale_resume' \in BOOLEAN
        /\ filler' \in FillerType
    BY <1>3, Sizes, StartsTypes DEF SocketStarts
  <2>2. enable' \in BOOLEAN /\ disturbed' \in BOOLEAN
    BY <1>3 DEF SocketStarts
  <2> QED BY <1>3, <2>1, <2>2 DEF SocketStarts, TypeOK, sizes, lock, FillerType
<1>4. CASE SocketRewinds
  <2>1. /\ active' \in 0 .. MaxSize + 1
        /\ enable' \in BOOLEAN /\ fill_active' \in BOOLEAN /\ paused' \in BOOLEAN
    BY <1>4, RewindTypes DEF SocketRewinds
  <2> QED BY <1>4, <2>1 DEF SocketRewinds, TypeOK, sizes, lock
<1>5. CASE SocketUnlocks
  <2>1. loops' \in 0 .. LoopMod - 1
    BY <1>5, FillAssumption DEF SocketUnlocks
  <2> QED BY <1>5, <2>1 DEF SocketUnlocks, Unlock, TypeOK, sizes
<1> QED BY <1>1, <1>2, <1>3, <1>4, <1>5 DEF Socket

LEMMA StepTypes == TypeOK /\ [Next]_vars => TypeOK'
<1>1. TypeOK /\ UNCHANGED vars => TypeOK'
  BY DEF vars, TypeOK, sizes, run, lock, remote
<1> QED BY <1>1, MenuTypes, TickTypes, ThreadTypes, SocketTypes DEF Next

LEMMA InitTypes == Init => TypeOK
<1> SUFFICES ASSUME Init PROVE TypeOK
  OBVIOUS
<1>1. /\ 0 \in 0 .. MaxWay /\ 0 \in 0 .. MaxSize /\ 0 \in 0 .. MaxSize + 1
      /\ 0 \in 0 .. LoopMod - 1 /\ 0 \in 0 .. MaxCommands
  BY FillAssumption
<1>2. filler \in [Filler -> [phase : {"none", "stop", "fuel"}, current : BOOLEAN]]
  BY DEF Init, NoThread
<1> QED BY <1>1, <1>2 DEF Init, TypeOK

(* The indices stay within their bounds and m_route_loops within its width, *)
(* whatever the threads do to the index of the one that is running.        *)
THEOREM TypeCorrect == Spec => []TypeOK
BY InitTypes, StepTypes, PTL DEF Spec

-----------------------------------------------------------------------------
(* The lock.  Whatever clears the enable flag lets go of the player, or is *)
(* the first half of a command whose second half does.                     *)

LEMMA LockStep == LockReleased /\ [Next]_vars => LockReleased'
<1> SUFFICES ASSUME LockReleased, [Next]_vars PROVE LockReleased'
  OBVIOUS
<1> USE DEF LockReleased
<1>1. ASSUME Unlocked PROVE LockReleased'
  BY <1>1 DEF Unlocked
<1>2. ASSUME UNCHANGED <<lock, enable>>, UNCHANGED socket \/ socket # "unlock"
      PROVE  LockReleased'
  BY <1>2 DEF lock
<1>3. ASSUME raced' = ~enable, UNCHANGED <<enable, socket>> PROVE LockReleased'
  BY <1>3
<1>4. Tick => LockReleased'
  <2>1. ASSUME StartsFillIfDue, Unlock \/ UNCHANGED lock PROVE LockReleased'
    BY <2>1, <1>1, <1>2 DEF StartsFillIfDue, Unlock, Unlocked, remote
  <2>2. ASSUME NEW reached, NormalDrives(reached) \/ FillDrives(reached) PROVE LockReleased'
    BY <2>2, <1>3 DEF NormalDrives, FillDrives, DrivesTo, Lock, remote
  <2>3. ASSUME NEW reached, NEW t, FillStops(t, reached) PROVE LockReleased'
    BY <2>3, <1>3 DEF FillStops, DrivesTo, Lock, remote
  <2>4. RouteChanges \/ RouteChangeFails \/ FillOnFoot => LockReleased'
    BY <1>1 DEF RouteChanges, RouteChangeFails, FillOnFoot, GlobalEnable, Disable, Unlock, Unlocked
  <2>5. TickBegins \/ Waits \/ RoundEnds \/ FillRouteEnds \/ ReadFails => LockReleased'
    BY <1>2 DEF TickBegins, Waits, RoundEnds, FillRouteEnds, ReadFails, run, remote
  <2> QED BY <2>1, <2>2, <2>3, <2>4, <2>5 DEF Tick, PlayerSteers, Drives
<1>5. Menu => LockReleased'
  <2>1. MenuEnable \/ Stop => LockReleased'
    BY <1>1 DEF MenuEnable, Stop, GlobalEnable, Disable, Unlock, Unlocked
  <2>2. AddWaypoint \/ Clear => LockReleased'
    BY <1>2 DEF AddWaypoint, Clear, run, remote
  <2>3. Load => LockReleased'
    <3>1. ASSUME Load, way = 0 PROVE LockReleased'
      BY <3>1, <1>2 DEF Load, GlobalDisable, run, remote
    <3>2. ASSUME Load, way # 0 PROVE LockReleased'
      BY <3>2, <1>1 DEF Load, GlobalDisable, Disable, Unlock, Unlocked
    <3> QED BY <3>1, <3>2
  <2> QED BY <2>1, <2>2, <2>3 DEF Menu
<1>6. Socket => LockReleased'
  <2>1. ASSUME NEW op, Command(op) PROVE LockReleased'
    BY <2>1, <1>2 DEF Command, run
  <2>2. SocketStops \/ SocketUnlocks => LockReleased'
    BY <1>1 DEF SocketStops, SocketUnlocks, Unlock, Unlocked
  <2>3. ASSUME SocketStarts PROVE LockReleased'
    <3>1. enable' = (enable \/ way >= 2) /\ socket = "start" /\ UNCHANGED <<locked, raced>>
      BY <2>3 DEF SocketStarts, lock
    <3>2. enable => enable'
      BY <3>1
    <3> QED BY <3>1, <3>2
  <2>4. SocketRewinds => LockReleased'
    BY DEF SocketRewinds
  <2> QED BY <2>1, <2>2, <2>3, <2>4 DEF Socket
<1>7. ASSUME NEW t \in Filler, FillThread(t) PROVE LockReleased'
  BY <1>7, <1>1, <1>2 DEF FillThread, VehicleStops, NoVehicle, Resumes, Unlock, Unlocked, run, remote
<1>8. CASE UNCHANGED vars
  BY <1>8, <1>2 DEF vars, run, remote
<1> QED BY <1>4, <1>5, <1>6, <1>7, <1>8 DEF Next

(* A stopped route has let go of the player, unless a tick was under way   *)
(* when the server stopped it.                                             *)
THEOREM LockIsReleased == Spec => []LockReleased
<1>1. Init => LockReleased
  BY DEF Init, LockReleased
<1> QED BY <1>1, LockStep, PTL DEF Spec

-----------------------------------------------------------------------------
(* The pause.  That a thread of the present run finds it kept is not       *)
(* inductive: another thread of that run could end it, and the tick could  *)
(* start one, were it not that there is one at most, and none as long as   *)
(* the tick drives.                                                        *)

PauseInv ==
  \/ stale_resume
  \/ /\ \A t \in Filler : Current(t) => paused
     /\ \A t, u \in Filler : Current(t) /\ Current(u) => t = u
     /\ tick \in {"normal", "fill"} => \A t \in Filler : ~Current(t)

LEMMA PauseStep == TypeOK /\ PauseInv /\ [Next]_vars => PauseInv'
<1> SUFFICES ASSUME TypeOK, PauseInv, [Next]_vars PROVE PauseInv'
  OBVIOUS
<1> USE DEF PauseInv, Current, Live
<1>1. ASSUME UNCHANGED <<filler, paused, stale_resume>>,
             tick' \in {"normal", "fill"} => tick \in {"normal", "fill"}
      PROVE  PauseInv'
  BY <1>1
<1>2. ASSUME NEW n, Starts(n),
             tick' \in {"normal", "fill"} => tick \in {"normal", "fill"}
      PROVE  PauseInv'
  <2>1. CASE n < 2
    BY <1>2, <2>1, <1>1 DEF Starts
  <2>2. CASE ~(n < 2)
    <3>1. \A t \in Filler : filler'[t].current = FALSE
      BY <1>2, <2>2 DEF Starts, TypeOK
    <3> QED BY <3>1
  <2> QED BY <2>1, <2>2
<1>3. Tick => PauseInv'
  <2>1. TickBegins \/ Waits \/ PlayerSteers \/ ReadFails => PauseInv'
    BY <1>1 DEF TickBegins, Waits, PlayerSteers, StartsFillIfDue, ReadFails, run
  <2>2. Drives => PauseInv'
    BY DEF Drives, StartsFillIfDue
  <2>3. ASSUME NEW reached, NormalDrives(reached) \/ FillDrives(reached) PROVE PauseInv'
    BY <2>3, <1>1 DEF NormalDrives, FillDrives, DrivesTo
  <2>4. ASSUME NEW reached, NEW t \in Filler, FillStops(t, reached) PROVE PauseInv'
    <3>1. /\ filler' = [filler EXCEPT ![t] = [phase |-> "stop", current |-> TRUE]]
          /\ paused' = TRUE /\ tick' = "idle" /\ tick = "fill" /\ UNCHANGED stale_resume
      BY <2>4 DEF FillStops, DrivesTo
    <3> QED BY <3>1 DEF TypeOK
  <2>5. RoundEnds \/ FillOnFoot \/ FillRouteEnds => PauseInv'
    BY <1>1 DEF RoundEnds, FillOnFoot, FillRouteEnds, Disable, Rewind
  <2>6. RouteChanges => PauseInv'
    <3>1. ASSUME RouteChanges, way' >= 2 PROVE PauseInv'
      <4>1. \A t \in Filler : filler'[t].current = FALSE
        BY <3>1 DEF RouteChanges, TypeOK
      <4> QED BY <4>1
    <3>2. ASSUME RouteChanges, ~(way' >= 2) PROVE PauseInv'
      BY <3>2, <1>1 DEF RouteChanges
    <3> QED BY <3>1, <3>2
  <2>7. RouteChangeFails => PauseInv'
    BY <1>2 DEF RouteChangeFails, GlobalEnable
  <2> QED BY <2>1, <2>2, <2>3, <2>4, <2>5, <2>6, <2>7 DEF Tick
<1>4. Menu => PauseInv'
  <2>1. MenuEnable => PauseInv'
    BY <1>2 DEF MenuEnable, GlobalEnable
  <2>2. Stop \/ AddWaypoint \/ Clear => PauseInv'
    BY <1>1 DEF Stop, AddWaypoint, Clear, Disable, Rewind, run
  <2>3. Load => PauseInv'
    <3>1. Load => UNCHANGED <<filler, paused, stale_resume, tick>>
      BY DEF Load, GlobalDisable, Disable, Rewind, run
    <3> QED BY <3>1, <1>1
  <2> QED BY <2>1, <2>2, <2>3 DEF Menu
<1>5. Socket => PauseInv'
  <2>1. ASSUME NEW op, Command(op) PROVE PauseInv'
    BY <2>1, <1>1 DEF Command, run
  <2>2. SocketStops \/ SocketRewinds \/ SocketUnlocks => PauseInv'
    BY <1>1 DEF SocketStops, SocketRewinds, SocketUnlocks, Rewind
  <2>3. SocketStarts => PauseInv'
    BY <1>2 DEF SocketStarts
  <2> QED BY <2>1, <2>2, <2>3 DEF Socket
<1>6. ASSUME NEW t \in Filler, FillThread(t) PROVE PauseInv'
  <2>1. CASE VehicleStops(t)
    <3>1. \A u \in Filler : Current(u)' = Current(u)
      BY <2>1 DEF VehicleStops, TypeOK
    <3> QED BY <2>1, <3>1 DEF VehicleStops, run
  <2>2. CASE NoVehicle(t)
    BY <2>2, <1>1 DEF NoVehicle, run
  <2>3. CASE Resumes(t)
    <3>1. \A u \in Filler : Current(u)' = (Current(u) /\ u # t)
      BY <2>3 DEF Resumes, NoThread, TypeOK
    <3>2. CASE Intrudes(t)
      BY <2>3, <3>2 DEF Resumes
    <3>3. CASE ~Intrudes(t)
      <4>1. Current(t) \/ \A u \in Filler : ~Current(u)
        BY <2>3, <3>3 DEF Intrudes, Resumes
      <4>2. stale_resume' = stale_resume /\ tick' = tick
        BY <2>3, <3>3 DEF Resumes, TypeOK, Intrudes
      <4> QED BY <3>1, <4>1, <4>2
    <3> QED BY <3>2, <3>3
  <2> QED BY <1>6, <2>1, <2>2, <2>3 DEF FillThread
<1>7. CASE UNCHANGED vars
  BY <1>7, <1>1 DEF vars, run
<1> QED BY <1>3, <1>4, <1>5, <1>6, <1>7 DEF Next

(* The driving is paused for as long as a thread of the present run takes  *)
(* on fuel, unless a thread of an earlier run has resumed it.              *)
THEOREM FillingPaused == Spec => []FillingIsPaused
<1>1. Init => PauseInv
  BY DEF Init, PauseInv, Current, Live, NoThread
<1>2. PauseInv => FillingIsPaused
  BY DEF PauseInv, FillingIsPaused
<1> QED BY <1>1, <1>2, InitTypes, StepTypes, PauseStep, PTL DEF Spec

-----------------------------------------------------------------------------
(* The reads.  Each tick reads one vector at the present index, and trusts *)
(* what every earlier step left it.                                        *)

(* The route that is followed, or that the tick has looked at, is the      *)
(* normal one unless the fill route is active.                             *)
NormalIndex ==
  (enable \/ tick = "system") /\ ~fill_active => active < way \/ active = 0

WithinFill == fill > 0 /\ (active < fill \/ (active = fill /\ fill = FillIndex))

ReadsInv ==
  \/ disturbed
  \/ /\ NormalIndex
     /\ fill_active => WithinFill
     /\ tick = "normal" => ~fill_active /\ active < way
     /\ tick = "fill" => WithinFill /\ (fill_active \/ ~enable)

LEMMA UndisturbedRead ==
  ASSUME NEW n, ReadOf(n), disturbed' = FALSE
  PROVE  ~disturbed /\ ~(active >= n)
BY DEF ReadOf

LEMMA ReadsStep == TypeOK /\ ReadsInv /\ [Next]_vars => ReadsInv'
<1> SUFFICES ASSUME TypeOK, ReadsInv, [Next]_vars, disturbed' = FALSE PROVE ReadsInv'
  BY StepTypes DEF TypeOK, ReadsInv
<1>0. way \in Nat /\ fill \in Nat /\ active \in Nat
  BY Sizes
<1> USE DEF ReadsInv, NormalIndex, WithinFill
<1>1. ASSUME UNCHANGED <<sizes, active, fill_active, disturbed>>, enable' => enable,
             tick' \in {"idle", "crashed"} \/ tick' = tick
      PROVE  ReadsInv'
  BY <1>1 DEF sizes
<1>2. ASSUME active' = 0, fill_active' = FALSE, tick' = "idle" PROVE ReadsInv'
  BY <1>2
<1>3. Menu => ReadsInv'
  <2>1. MenuEnable => ReadsInv'
    <3>1. ASSUME MenuEnable, way < 2 PROVE ReadsInv'
      <4>1. UNCHANGED active /\ enable' = (way >= 2)
        BY <3>1 DEF MenuEnable, GlobalEnable, Starts
      <4>2. (way >= 2) = FALSE
        BY <3>1, <1>0
      <4>3. ~enable'
        BY <4>1, <4>2
      <4> QED BY <3>1, <4>1, <4>3, <1>1 DEF MenuEnable
    <3>2. ASSUME MenuEnable, ~(way < 2) PROVE ReadsInv'
      <4>1. active' = 0 /\ tick' = "idle" /\ UNCHANGED <<sizes, fill_active, disturbed>>
        BY <3>2 DEF MenuEnable, GlobalEnable, Starts, Idle
      <4> QED BY <4>1 DEF sizes
    <3> QED BY <3>1, <3>2
  <2>2. Stop => ReadsInv'
    BY <1>2 DEF Stop, Disable, Rewind, Idle
  <2>3. ASSUME AddWaypoint PROVE ReadsInv'
    <3>1. UNCHANGED <<active, enable, fill_active, tick, disturbed>> /\ tick = "idle"
      BY <2>3 DEF AddWaypoint, run, Idle
    <3>2. /\ active < way \/ active = 0 => active < way' \/ active = 0
          /\ WithinFill => WithinFill'
      BY <2>3, <3>1, <1>0 DEF AddWaypoint
    <3> QED BY <3>1, <3>2
  <2>4. ASSUME Clear PROVE ReadsInv'
    <3>1. ~enable /\ ~fill_active /\ ~disturbed
      BY <2>4 DEF Clear, Disturbs, TypeOK
    <3> QED BY <2>4, <3>1 DEF Clear, run, Idle
  <2>5. ASSUME Load, way = 0 PROVE ReadsInv'
    <3>1. ~enable /\ ~fill_active /\ ~disturbed
      BY <2>5 DEF Load, Disturbs, TypeOK
    <3> QED BY <2>5, <3>1 DEF Load, GlobalDisable, run, Idle
  <2>6. ASSUME Load, way # 0 PROVE ReadsInv'
    BY <2>6, <1>2 DEF Load, GlobalDisable, Disable, Rewind, Idle
  <2> QED BY <2>1, <2>2, <2>3, <2>4, <2>5, <2>6 DEF Menu
<1>4. Tick => ReadsInv'
  <2>1. TickBegins => ReadsInv'
    BY DEF TickBegins, Idle, sizes, run
  <2>2. Waits \/ ReadFails => ReadsInv'
    BY <1>1 DEF Waits, ReadFails, run
  <2>3. ASSUME StartsFillIfDue PROVE fill_active' => WithinFill'
    <3>1. fill_active' = (fill_active \/ ShouldStartFill) /\ UNCHANGED <<fill, active>>
      BY <2>3 DEF StartsFillIfDue, sizes
    <3>2. ShouldStartFill => WithinFill
      BY <1>0 DEF ShouldStartFill
    <3>3. WithinFill => WithinFill'
      BY <3>1
    <3>4. ~disturbed
      BY <2>3 DEF StartsFillIfDue
    <3>5. fill_active => WithinFill
      BY <3>4
    <3> HIDE DEF WithinFill
    <3> QED BY <3>1, <3>2, <3>3, <3>5
  <2>4. ASSUME PlayerSteers \/ Drives PROVE ReadsInv'
    <3>1. /\ UNCHANGED <<fill, way, active, enable, disturbed>> /\ tick = "system"
          /\ StartsFillIfDue /\ way >= 2 /\ tick' # "system"
          /\ tick' = "normal" => ~fill_active'
          /\ tick' = "fill" => fill_active'
          /\ fill_active => fill_active'
      BY <2>4 DEF PlayerSteers, Drives, StartsFillIfDue, sizes
    <3>2. ~fill_active' => active < way \/ active = 0
      BY <3>1
    <3>3. active = 0 => active < way
      BY <3>1, <1>0
    <3> QED BY <3>1, <3>2, <3>3, <2>3
  <2>5. ASSUME NEW reached \in BOOLEAN, NormalDrives(reached) PROVE ReadsInv'
    <3>1. ~disturbed
      BY <2>5, UndisturbedRead DEF NormalDrives
    <3>2. active < way /\ ~fill_active
      BY <2>5, <3>1 DEF NormalDrives
    <3>3. active' < way
      BY <2>5, <3>2, <1>0, FillAssumption DEF NormalDrives, DrivesTo, Ahead, Succ, TypeOK
    <3>4. UNCHANGED <<way, fill, fill_active>> /\ tick' = "idle"
      BY <2>5 DEF NormalDrives, DrivesTo, sizes
    <3> QED BY <3>2, <3>3, <3>4
  <2>6. ASSUME NEW reached \in BOOLEAN, FillDrives(reached) PROVE ReadsInv'
    <3>0. ~disturbed /\ ~(active >= fill)
      BY <2>6, UndisturbedRead DEF FillDrives
    <3>1. active < fill /\ fill > 0 /\ (fill_active \/ ~enable)
      BY <2>6, <3>0, <1>0 DEF FillDrives
    <3>2. active' < fill
      BY <2>6, <3>1, <1>0, FillAssumption DEF FillDrives, DrivesTo, Ahead, Succ, TypeOK
    <3>3. UNCHANGED <<way, fill, fill_active, enable>> /\ tick' = "idle"
      BY <2>6 DEF FillDrives, DrivesTo, sizes
    <3> QED BY <3>1, <3>2, <3>3
  <2>7. ASSUME NEW reached \in BOOLEAN, NEW t \in Filler, FillStops(t, reached) PROVE ReadsInv'
    <3>0. ~disturbed /\ ~(active >= fill)
      BY <2>7, UndisturbedRead DEF FillStops
    <3>1. active < fill /\ fill > 0 /\ (fill_active \/ ~enable)
      BY <2>7, <3>0, <1>0 DEF FillStops
    <3>2. active' < fill \/ (active' = fill /\ fill = FillIndex)
      BY <2>7, <3>1, <1>0, FillAssumption DEF FillStops, DrivesTo, Ahead, Succ, TypeOK
    <3>3. UNCHANGED <<way, fill, fill_active, enable>> /\ tick' = "idle"
      BY <2>7 DEF FillStops, DrivesTo, sizes
    <3> QED BY <3>1, <3>2, <3>3
  <2>8. ASSUME RoundEnds PROVE ReadsInv'
    <3>1. ~disturbed
      BY <2>8, UndisturbedRead DEF RoundEnds
    <3>2. UNCHANGED <<way, fill, fill_active>> /\ active' = 0 /\ tick' = "idle" /\ tick = "normal"
      BY <2>8 DEF RoundEnds, sizes
    <3> QED BY <3>1, <3>2
  <2>9. RouteChanges => ReadsInv'
    BY <1>2 DEF RouteChanges
  <2>10. ASSUME RouteChangeFails PROVE ReadsInv'
    <3>1. /\ UNCHANGED <<way, fill, fill_active>> /\ tick' = "idle" /\ tick = "normal"
          /\ enable' = (way >= 2) /\ Starts(way) /\ ~disturbed
      BY <2>10 DEF RouteChangeFails, GlobalEnable, sizes, ReadOf, TypeOK
    <3>2. active' = 0 \/ (active' = active /\ active < way)
      BY <3>1 DEF Starts
    <3> QED BY <3>1, <3>2
  <2>11. FillOnFoot => ReadsInv'
    BY <1>2 DEF FillOnFoot, Disable, Rewind
  <2>12. FillRouteEnds => ReadsInv'
    BY <1>2 DEF FillRouteEnds
  <2> QED BY <2>1, <2>2, <2>4, <2>5, <2>6, <2>7, <2>8, <2>9, <2>10, <2>11, <2>12 DEF Tick
<1>5. Socket => ReadsInv'
  <2>1. ASSUME NEW op, Command(op) PROVE ReadsInv'
    BY <2>1, <1>1 DEF Command, run
  <2>2. SocketStops \/ SocketUnlocks => ReadsInv'
    BY <1>1 DEF SocketStops, SocketUnlocks
  <2>3. ASSUME SocketStarts PROVE ReadsInv'
    <3>1. /\ tick = "idle" /\ ~disturbed /\ UNCHANGED <<way, fill, fill_active, tick>>
          /\ enable' = (enable \/ way >= 2) /\ Starts(way)
      BY <2>3 DEF SocketStarts, sizes, Idle, TypeOK
    <3>2. CASE way < 2
      <4>1. (way >= 2) = FALSE /\ UNCHANGED active
        BY <3>1, <3>2, <1>0 DEF Starts
      <4>2. enable' => enable
        BY <3>1, <4>1
      <4> QED BY <3>1, <4>1, <4>2
    <3>3. CASE ~(way < 2)
      <4>1. active' = 0
        BY <3>1, <3>3 DEF Starts
      <4> QED BY <3>1, <4>1, <1>0
    <3> QED BY <3>2, <3>3
  <2>4. ASSUME SocketRewinds PROVE ReadsInv'
    <3>1. /\ active' = 0 /\ ~enable' /\ ~fill_active' /\ ~disturbed
          /\ UNCHANGED <<way, fill, tick>>
      BY <2>4 DEF SocketRewinds, Rewind, sizes, TypeOK
    <3>2. (tick = "normal" => 0 < way) /\ (tick = "fill" => 0 < fill)
      BY <3>1, <1>0
    <3> QED BY <3>1, <3>2
  <2> QED BY <2>1, <2>2, <2>3, <2>4 DEF Socket
<1>6. ASSUME NEW t \in Filler, FillThread(t) PROVE ReadsInv'
  BY <1>6, <1>1 DEF FillThread, VehicleStops, NoVehicle, Resumes, run
<1>7. CASE UNCHANGED vars
  BY <1>7, <1>1 DEF vars, run
<1> QED BY <1>3, <1>4, <1>5, <1>6, <1>7 DEF Next

(* The tick reads within the vector it follows, unless that was changed    *)
(* under it or fuel is taken on at the last waypoint.                      *)
THEOREM ReadsAreInBounds == Spec => []ReadsInBounds
<1>1. Init => ReadsInv
  BY DEF Init, ReadsInv, NormalIndex
<1>2. ReadsInv => ReadsInBounds
  BY DEF ReadsInv, WithinFill, ReadsInBounds
<1> QED BY <1>1, <1>2, InitTypes, StepTypes, ReadsStep, PTL DEF Spec
=============================================================================
