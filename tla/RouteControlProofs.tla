------------------------- MODULE RouteControlProofs -------------------------
(***************************************************************************)
(* Proofs about RouteControl, for vectors of any size.  How many routes or *)
(* recordings there are at most is said without cardinalities first.       *)
(***************************************************************************)
EXTENDS RouteControl, FiniteSetTheorems, TLAPS

AtMostOne(S) == \A r, s \in S : r = s

RoutesTyped ==
  /\ size \in [Vectors -> Nat]
  /\ recording \subseteq Vectors
  /\ enabled \subseteq Replayable
  /\ socket \in [op : {"none", "enable", "start", "disable"}, saw : SUBSET Replayable]

(* A running route that is not an orphan still has its vector. *)
Provided == \A r \in enabled : size[r] > 0 \/ r \in orphans

(* Between its two steps the socket thread has a single route to start,    *)
(* and nothing runs that the game thread has not started.                  *)
OneToStart ==
  socket.op = "start" =>
    /\ AtMostOne(socket.saw)
    /\ enabled = {} \/ overtaken

RouteInv ==
  /\ RoutesTyped
  /\ AtMostOne(recording)
  /\ AtMostOne(enabled) \/ overtaken
  /\ Provided
  /\ OneToStart

-----------------------------------------------------------------------------
(* Cardinalities.                                                          *)

LEMMA FewRoutes ==
  /\ IsFiniteSet(Vectors)
  /\ \A S \in SUBSET Vectors : IsFiniteSet(S)
<1>1. IsFiniteSet({"waypoints"})
  BY FS_Singleton
<1>2. IsFiniteSet({"waypoints"} \cup {"packets"})
  BY <1>1, FS_AddElement
<1>3. IsFiniteSet({"waypoints"} \cup {"packets"} \cup {"fill"})
  BY <1>2, FS_AddElement
<1>4. IsFiniteSet(Vectors)
  BY <1>3, Vectors = {"waypoints"} \cup {"packets"} \cup {"fill"} DEF Vectors, Replayable
<1> QED BY <1>4, FS_Subset

LEMMA AtMostOneCounts ==
  ASSUME NEW S \in SUBSET Vectors
  PROVE  AtMostOne(S) <=> Cardinality(S) <= 1
<1>1. IsFiniteSet(S)
  BY FewRoutes
<1>2. CASE S = {}
  BY <1>2, FS_EmptySet DEF AtMostOne
<1>3. CASE S # {}
  <2>1. PICK r \in S : TRUE
    BY <1>3
  <2>2. IsFiniteSet({r}) /\ Cardinality({r}) = 1
    BY FS_Singleton
  <2>3. AtMostOne(S) => Cardinality(S) <= 1
    <3>1. ASSUME AtMostOne(S) PROVE S = {r}
      BY <2>1, <3>1 DEF AtMostOne
    <3> QED BY <3>1, <2>2
  <2>4. Cardinality(S) <= 1 => AtMostOne(S)
    <3>1. ASSUME Cardinality(S) <= 1 PROVE {r} = S
      <4>1. Cardinality(S) \in Nat /\ Cardinality({r}) <= Cardinality(S)
        BY <1>1, <2>1, FS_Subset, FS_CardinalityType, {r} \subseteq S
      <4>2. Cardinality({r}) = Cardinality(S)
        BY <4>1, <3>1, <2>2
      <4> QED BY <4>2, <1>1, <2>1, FS_Subset, {r} \subseteq S
    <3> QED BY <3>1 DEF AtMostOne
  <2> QED BY <2>3, <2>4
<1> QED BY <1>2, <1>3

-----------------------------------------------------------------------------
(* The operations of global_utils.                                         *)

LEMMA StartsOne ==
  ASSUME RoutesTyped, NEW saw \in SUBSET Replayable, AtMostOne(saw),
         NEW sizes \in [Vectors -> Nat], NEW started \in Startable(saw, sizes)
  PROVE  /\ started \subseteq Replayable
         /\ AtMostOne(started)
         /\ \A r \in started : sizes[r] > 0
BY DEF Startable, AtMostOne, Replayable, Vectors

LEMMA DisablesSome ==
  ASSUME NEW saw
  PROVE  Disabled(saw) \subseteq enabled
BY DEF Disabled

(* What every step has to keep of the running routes.                      *)
Kept ==
  /\ enabled' \subseteq Replayable
  /\ socket' \in [op : {"none", "enable", "start", "disable"}, saw : SUBSET Replayable]
  /\ AtMostOne(enabled)' \/ overtaken'
  /\ Provided'
  /\ OneToStart'

(* What stops or empties routes, and starts none.                          *)
Lessens ==
  /\ enabled' \subseteq enabled
  /\ size' \in [Vectors -> Nat]
  /\ Orphaned
  /\ socket' \in {socket, Idle}
  /\ UNCHANGED overtaken

LEMMA LessensRoutes ==
  ASSUME RouteInv, Lessens
  PROVE  Kept
<1> USE DEF RouteInv, Lessens
<1>1. Provided'
  BY DEF Orphaned, RoutesTyped, Vectors, Replayable, Provided
<1>2. OneToStart'
  BY DEF OneToStart, Idle, AtMostOne
<1>3. AtMostOne(enabled)' \/ overtaken'
  BY DEF AtMostOne
<1> QED BY <1>1, <1>2, <1>3 DEF Kept, RoutesTyped, Idle

(* What starts a route anew on the game thread.                            *)
StartsAfresh(saw, sizes) ==
  /\ size' \in [Vectors -> Nat]
  /\ \A r \in Replayable : size'[r] = sizes[r]
  /\ enabled' \in Startable(saw, sizes)
  /\ orphans' = {}
  /\ overtaken' = (socket.op = "start")
  /\ UNCHANGED socket

LEMMA StartsAfreshRoutes ==
  ASSUME RouteInv, NEW saw \in SUBSET Replayable, AtMostOne(saw),
         NEW sizes \in [Vectors -> Nat], StartsAfresh(saw, sizes)
  PROVE  Kept
<1> USE DEF StartsAfresh
<1>1. /\ enabled' \subseteq Replayable
      /\ AtMostOne(enabled')
      /\ \A r \in enabled' : sizes[r] > 0
  BY StartsOne DEF RouteInv
<1>2. Provided'
  BY <1>1 DEF Provided
<1>3. OneToStart'
  BY DEF OneToStart, RouteInv
<1>4. AtMostOne(enabled)'
  BY <1>1 DEF AtMostOne
<1> QED BY <1>1, <1>2, <1>3, <1>4 DEF Kept, RouteInv, RoutesTyped

LEMMA LoadedTyped ==
  ASSUME RoutesTyped
  PROVE  /\ Loaded \in SUBSET Replayable
         /\ Cardinality(Loaded) <= 1 => AtMostOne(Loaded)
<1>1. Loaded \in SUBSET Replayable /\ Loaded \in SUBSET Vectors
  BY DEF Loaded, Vectors
<1> QED BY <1>1, AtMostOneCounts

(* global_utils::enable on the game thread drops all or starts one.        *)
LEMMA EnableRoutes ==
  ASSUME RouteInv, GlobalEnable(Loaded), UNCHANGED socket
  PROVE  Kept /\ size' \in [Vectors -> Nat]
<1> USE DEF RouteInv
<1>1. CASE Cardinality(Loaded) > 1 /\ DropsAll /\ UNCHANGED overtaken
  <2>1. Lessens
    BY <1>1 DEF DropsAll, Lessens, RoutesTyped
  <2> QED BY <2>1, LessensRoutes DEF Kept, Lessens
<1>2. CASE /\ Cardinality(Loaded) <= 1
           /\ DropsFill(Loaded)
           /\ enabled' \in Startable(Loaded, size)
           /\ orphans' = {}
           /\ overtaken' = (socket.op = "start")
  <2>1. StartsAfresh(Loaded, size)
    BY <1>2 DEF StartsAfresh, DropsFill, RoutesTyped, Replayable, Vectors
  <2>2. size \in [Vectors -> Nat]
    BY DEF RoutesTyped
  <2> QED BY <1>2, <2>1, <2>2, LoadedTyped, StartsAfreshRoutes DEF StartsAfresh
<1> QED BY <1>1, <1>2 DEF GlobalEnable

(* A file holds vectors, and at most one of them is replayed.              *)
LEMMA FileHoldsOne ==
  ASSUME NEW f \in Files
  PROVE  /\ f \in [Vectors -> Nat]
         /\ AtMostOne({r \in Replayable : f[r] > 0})
BY MaxSizeAssumption DEF Files, Nothing, Vectors, Replayable, AtMostOne

-----------------------------------------------------------------------------
(* Each step keeps the invariant.                                          *)

(* The steps that stop routes, or none, and start none.                    *)
LEMMA LesseningSteps ==
  ASSUME RouteInv,
         \/ \E v \in Vectors : Record(v)
         \/ \E v \in {"waypoints", "fill"} : AddWaypoint(v)
         \/ RecordPacket
         \/ \E r \in Replayable : Clear(r) \/ GivesUp(r)
         \/ Load \/ MenuDisable \/ SocketDropsAll \/ SocketDisables
  PROVE  Lessens /\ recording' \subseteq Vectors /\ AtMostOne(recording)'
<1> USE MaxSizeAssumption
    DEF RouteInv, RoutesTyped, Lessens, AtMostOne
<1>1. ASSUME NEW v \in Vectors, Record(v)
      PROVE  Lessens /\ recording' \subseteq Vectors /\ AtMostOne(recording)'
  BY <1>1, DisablesSome DEF Record, Nothing
<1>2. ASSUME NEW v \in {"waypoints", "fill"}, AddWaypoint(v)
      PROVE  Lessens /\ recording' \subseteq Vectors /\ AtMostOne(recording)'
  <2>1. v \in Vectors /\ size[v] \in Nat
    BY DEF Vectors, Replayable
  <2>2. [Nothing EXCEPT ![v] = 1] \in [Vectors -> Nat]
    BY DEF Nothing
  <2>3. [size EXCEPT ![v] = @ + 1] \in [Vectors -> Nat]
    BY <2>1
  <2> QED BY <1>2, <2>2, <2>3 DEF AddWaypoint
<1>3. CASE RecordPacket
  BY <1>3 DEF RecordPacket, Vectors, Replayable
<1>4. ASSUME NEW r \in Replayable, Clear(r) \/ GivesUp(r)
      PROVE  Lessens /\ recording' \subseteq Vectors /\ AtMostOne(recording)'
  BY <1>4 DEF Clear, GivesUp
<1>5. CASE Load
  BY <1>5, DisablesSome, FileHoldsOne DEF Load
<1>6. CASE MenuDisable
  BY <1>6, DisablesSome DEF MenuDisable
<1>7. CASE SocketDropsAll
  BY <1>7 DEF SocketDropsAll, DropsAll
<1>8. CASE SocketDisables
  BY <1>8, DisablesSome DEF SocketDisables
<1> QED BY <1>1, <1>2, <1>3, <1>4, <1>5, <1>6, <1>7, <1>8

(* The steps of the socket thread that look, stop all and start one.       *)
LEMMA SocketSteps ==
  ASSUME RouteInv,
         (\E op \in {"enable", "disable"} : SocketLooks(op)) \/ SocketStops \/ SocketStarts
  PROVE  RouteInv'
<1> USE DEF RouteInv
<1>1. ASSUME NEW op \in {"enable", "disable"}, SocketLooks(op)
      PROVE  RouteInv'
  BY <1>1, LoadedTyped
     DEF SocketLooks, RoutesTyped, AtMostOne, Provided, OneToStart
<1>2. CASE SocketStops
  <2>1. AtMostOne(socket.saw)
    BY <1>2, AtMostOneCounts DEF SocketStops, RoutesTyped, Vectors
  <2> QED BY <1>2, <2>1
          DEF SocketStops, DropsFill, RoutesTyped, AtMostOne, Provided, OneToStart
<1>3. CASE SocketStarts
  <2>1. PICK started \in Startable(socket.saw, size) : enabled' = enabled \cup started
    BY <1>3 DEF SocketStarts
  <2>2. /\ started \subseteq Replayable
        /\ AtMostOne(started)
        /\ \A r \in started : size[r] > 0
    BY <1>3, StartsOne DEF SocketStarts, RoutesTyped, OneToStart
  <2>3. AtMostOne(enabled)' \/ overtaken'
    BY <1>3, <2>1, <2>2 DEF SocketStarts, OneToStart, AtMostOne
  <2> QED BY <1>3, <2>1, <2>2, <2>3
          DEF SocketStarts, RoutesTyped, AtMostOne, Provided, OneToStart, Idle
<1> QED BY <1>1, <1>2, <1>3

LEMMA StepKeepsRouteInv == RouteInv /\ [Next]_vars => RouteInv'
<1> SUFFICES ASSUME RouteInv, [Next]_vars PROVE RouteInv'
  OBVIOUS
<1> USE DEF RouteInv
<1>1. ASSUME Lessens, recording' \subseteq Vectors, AtMostOne(recording)'
      PROVE  RouteInv'
  BY <1>1, LessensRoutes DEF Kept, Lessens, RoutesTyped, AtMostOne
<1>2. CASE ChangeRoute
  <2> DEFINE now == {r \in Replayable : size'[r] > 0}
  <2>1. size' \in [Vectors -> Nat] /\ AtMostOne(now)
    BY <1>2, FileHoldsOne DEF ChangeRoute
  <2>2. StartsAfresh(now, size')
    BY <1>2, <2>1 DEF StartsAfresh, ChangeRoute
  <2>3. Kept
    BY <2>1, <2>2, StartsAfreshRoutes
  <2> QED BY <1>2, <2>1, <2>3 DEF Kept, ChangeRoute, RoutesTyped, AtMostOne
<1>3. CASE ChangeRouteFails \/ MenuEnable
  <2>1. Kept /\ size' \in [Vectors -> Nat]
    BY <1>3, EnableRoutes DEF ChangeRouteFails, MenuEnable
  <2> QED BY <1>3, <2>1 DEF Kept, ChangeRouteFails, MenuEnable, RoutesTyped, AtMostOne
<1>4. CASE UNCHANGED vars
  BY <1>4 DEF vars, RoutesTyped, AtMostOne, Provided, OneToStart
<1> QED BY <1>1, <1>2, <1>3, <1>4, LesseningSteps, SocketSteps DEF Next

LEMMA InitRouteInv == Init => RouteInv
BY DEF Init, RouteInv, RoutesTyped, AtMostOne, Provided, OneToStart, Idle, Vectors, Replayable

-----------------------------------------------------------------------------
(* The types: the bound of the vectors, and that orphans run.              *)
HistoryTyped ==
  /\ size \in [Vectors -> 0 .. MaxSize]
  /\ orphans \subseteq enabled
  /\ overtaken \in BOOLEAN

LEMMA FilesBounded == Files \subseteq [Vectors -> 0 .. MaxSize]
BY MaxSizeAssumption DEF Files, Nothing

LEMMA OrphansRun ==
  ASSUME HistoryTyped, Orphaned, size' \in [Vectors -> 0 .. MaxSize], UNCHANGED overtaken
  PROVE  HistoryTyped'
BY DEF Orphaned, HistoryTyped

(* Whatever is emptied stays within the bound.                             *)
LEMMA DropsBounded ==
  ASSUME HistoryTyped
  PROVE  /\ DropsAll => size' \in [Vectors -> 0 .. MaxSize]
         /\ \A saw : DropsFill(saw) => size' \in [Vectors -> 0 .. MaxSize]
<1>1. 0 \in 0 .. MaxSize /\ size \in [Vectors -> 0 .. MaxSize]
  BY MaxSizeAssumption DEF HistoryTyped
<1>2. ASSUME DropsAll PROVE size' \in [Vectors -> 0 .. MaxSize]
  BY <1>1, <1>2 DEF DropsAll
<1>3. ASSUME NEW saw, DropsFill(saw) PROVE size' \in [Vectors -> 0 .. MaxSize]
  <2>1. "fill" \in Vectors
    BY DEF Vectors
  <2>2. size["fill"] \in 0 .. MaxSize
    BY <1>1, <2>1
  <2> QED BY <1>1, <1>3, <2>2 DEF DropsFill
<1> QED BY <1>2, <1>3

LEMMA GlobalEnableTypes ==
  ASSUME HistoryTyped, NEW saw, GlobalEnable(saw)
  PROVE  HistoryTyped'
<1>1. CASE DropsAll /\ UNCHANGED overtaken
  BY <1>1, DropsBounded, OrphansRun DEF DropsAll
<1>2. CASE DropsFill(saw) /\ orphans' = {} /\ overtaken' = (socket.op = "start")
  BY <1>2, DropsBounded, Zenon DEF HistoryTyped
<1> QED BY <1>1, <1>2 DEF GlobalEnable

LEMMA HistoryStep ==
  ASSUME HistoryTyped, [Next]_vars
  PROVE  HistoryTyped'
<1> USE MaxSizeAssumption
<1>1. ASSUME Orphaned, size' \in [Vectors -> 0 .. MaxSize], UNCHANGED overtaken
      PROVE  HistoryTyped'
  BY <1>1, OrphansRun
<1>2. Nothing \in [Vectors -> 0 .. MaxSize] /\ size \in [Vectors -> 0 .. MaxSize]
  BY DEF Nothing, HistoryTyped
<1>3. ASSUME NEW v \in Vectors, Record(v) PROVE HistoryTyped'
  BY <1>1, <1>2, <1>3 DEF Record
<1>4. ASSUME NEW v \in {"waypoints", "fill"}, AddWaypoint(v) PROVE HistoryTyped'
  <2>1. v \in Vectors
    BY DEF Vectors, Replayable
  <2>2. /\ [Nothing EXCEPT ![v] = 1] \in [Vectors -> 0 .. MaxSize]
        /\ size[v] < MaxSize => [size EXCEPT ![v] = @ + 1] \in [Vectors -> 0 .. MaxSize]
    BY <1>2, <2>1
  <2> QED BY <1>1, <1>4, <2>2 DEF AddWaypoint
<1>5. CASE RecordPacket
  <2>1. "packets" \in Vectors
    BY DEF Vectors, Replayable
  <2> QED BY <1>1, <1>2, <1>5, <2>1 DEF RecordPacket
<1>6. ASSUME NEW r \in Replayable, Clear(r) \/ GivesUp(r) PROVE HistoryTyped'
  BY <1>1, <1>2, <1>6 DEF Clear, GivesUp
<1>7. CASE Load
  BY <1>1, <1>7, FilesBounded DEF Load
<1>8. CASE ChangeRoute
  BY <1>8, FilesBounded DEF ChangeRoute, HistoryTyped
<1>9. CASE ChangeRouteFails \/ MenuEnable
  BY <1>9, GlobalEnableTypes DEF ChangeRouteFails, MenuEnable
<1>10. CASE MenuDisable \/ SocketDisables
  BY <1>1, <1>2, <1>10 DEF MenuDisable, SocketDisables
<1>11. CASE SocketDropsAll
  BY <1>1, <1>11, DropsBounded DEF SocketDropsAll, DropsAll
<1>12. CASE SocketStops
  BY <1>12, DropsBounded, Zenon DEF SocketStops, HistoryTyped
<1>13. CASE SocketStarts \/ (\E op \in {"enable", "disable"} : SocketLooks(op)) \/ UNCHANGED vars
  BY <1>13 DEF SocketStarts, SocketLooks, HistoryTyped, vars
<1> QED BY <1>3, <1>4, <1>5, <1>6, <1>7, <1>8, <1>9, <1>10, <1>11, <1>12, <1>13 DEF Next

-----------------------------------------------------------------------------
(* The theorems.                                                           *)

(* Whoever calls global_utils::enable, two routes run together only after  *)
(* the game thread has started one in the middle of the socket thread's.   *)
THEOREM OneRouteRuns == Spec => []RunsOneRoute
<1>1. RouteInv => RunsOneRoute
  <2>1. Replayable \in SUBSET Vectors
    BY DEF Vectors
  <2> QED BY <2>1, AtMostOneCounts DEF RouteInv, RoutesTyped, RunsOneRoute
<1> QED BY <1>1, InitRouteInv, StepKeepsRouteInv, PTL DEF Spec

(* Recording, adding waypoints and loading never leave two recordings.     *)
THEOREM OneRecording == Spec => []RecordsOneRoute
<1>1. RouteInv => RecordsOneRoute
  BY AtMostOneCounts DEF RouteInv, RoutesTyped, RecordsOneRoute
<1> QED BY <1>1, InitRouteInv, StepKeepsRouteInv, PTL DEF Spec

(* global_utils::disable stops every route that has not lost its vector.   *)
THEOREM ButtonStopsRoutes == Spec => []ButtonStops
<1>1. RouteInv => ButtonStops
  BY DEF RouteInv, RoutesTyped, Provided, ButtonStops, Disabled, Loaded, Vectors
<1> QED BY <1>1, InitRouteInv, StepKeepsRouteInv, PTL DEF Spec

(* Type correctness: no handler makes a vector outgrow the bound or sets a *)
(* flag of something else, and only what runs has lost its vector.         *)
THEOREM TypeCorrect == Spec => []TypeOK
<1>1. Init => HistoryTyped
  <2>1. [v \in Vectors |-> 0] \in [Vectors -> 0 .. MaxSize]
    BY MaxSizeAssumption
  <2> QED BY <2>1, Zenon DEF Init, HistoryTyped
<1>2. RouteInv /\ HistoryTyped => TypeOK
  BY DEF RouteInv, RoutesTyped, HistoryTyped, TypeOK
<1> QED BY <1>1, <1>2, InitRouteInv, StepKeepsRouteInv, HistoryStep, PTL DEF Spec
=============================================================================
