----------------------- MODULE ConditionalRoutesProofs -----------------------
(***************************************************************************)
(* Proofs about ConditionalRoutes, for lists, rounds and counters of any   *)
(* size: the entry that is read exists, and each route has its rounds.     *)
(***************************************************************************)
EXTENDS ConditionalRoutes, SequenceTheorems, TLAPS

TurnTyped ==
  /\ loops_configs \in Seq(LoopsEntry)
  /\ current \in Nat
  /\ route_loops \in 0 .. LoopMod - 1
  /\ rounds \in 0 .. MaxLoops
  /\ removed \in BOOLEAN /\ unreset \in BOOLEAN

(* With an empty list the index is 0, which the first entry makes good. *)
IndexFits == current = 0 \/ current < Len(loops_configs) \/ removed

(* The code counts no more rounds than there were; the model stops at the  *)
(* most the player can ask for.                                            *)
CountKept == unreset \/ route_loops <= rounds \/ rounds = MaxLoops

TurnInv == TurnTyped /\ IndexFits /\ CountKept

-----------------------------------------------------------------------------
LEMMA CountWraps ==
  ASSUME TurnTyped
  PROVE  NextCount \in 0 .. LoopMod - 1 /\ NextCount <= route_loops + 1
BY ConditionalAssumption, SMT DEF TurnTyped, NextCount

LEMMA NextFits ==
  ASSUME TurnTyped, NEW c \in NextRoutes
  PROVE  c \in Nat /\ (c = 0 \/ c < Len(loops_configs))
BY SMT DEF TurnTyped, NextRoutes, InTurn

(* A new turn: the next route, or the first. *)
LEMMA TurnStartsKeeps ==
  ASSUME TurnInv, TurnStarts, route_loops' = 0, UNCHANGED loops_configs,
         current' = 0 \/ current' \in NextRoutes
  PROVE  TurnInv'
<1>1. current' \in Nat /\ (current' = 0 \/ current' < Len(loops_configs))
  BY NextFits DEF TurnInv
<1>2. rounds' = 0 /\ removed' = FALSE /\ unreset' = FALSE
  BY DEF TurnStarts
<1>3. TurnTyped'
  <2>1. route_loops' \in 0 .. LoopMod - 1 /\ rounds' \in 0 .. MaxLoops
    BY <1>2, ConditionalAssumption, SMT
  <2> QED BY <1>1, <1>2, <2>1, Zenon DEF TurnInv, TurnTyped
<1> QED BY <1>1, <1>2, <1>3, SMT DEF TurnInv, IndexFits, CountKept

LEMMA RoundKeeps ==
  ASSUME TurnInv, RoundOnly
  PROVE  TurnInv'
<1>1. /\ route_loops' = NextCount /\ UNCHANGED <<loops_configs, current, removed, unreset>>
      /\ rounds' = IF rounds < MaxLoops THEN rounds + 1 ELSE rounds
  BY DEF RoundOnly, settings
<1>2. route_loops' \in 0 .. LoopMod - 1 /\ route_loops' <= route_loops + 1
  BY <1>1, CountWraps DEF TurnInv
<1>3. rounds' \in 0 .. MaxLoops
      /\ (route_loops <= rounds \/ rounds = MaxLoops
            => route_loops' <= rounds' \/ rounds' = MaxLoops)
  BY <1>1, <1>2, ConditionalAssumption, SMT DEF TurnInv, TurnTyped
<1> QED BY <1>1, <1>2, <1>3, Zenon DEF TurnInv, TurnTyped, IndexFits, CountKept

LEMMA AddKeeps ==
  ASSUME TurnInv, NEW c \in Config, AddLoops(c)
  PROVE  TurnInv'
<1>1. [config |-> c, loops |-> 1] \in LoopsEntry
  BY ConditionalAssumption DEF LoopsEntry
<1>2. /\ loops_configs' \in Seq(LoopsEntry)
      /\ Len(loops_configs') = Len(loops_configs) + 1
  BY <1>1, AppendProperties DEF AddLoops, TurnInv, TurnTyped
<1>3. UNCHANGED <<turn, history>>
  BY DEF AddLoops
<1>4. IndexFits'
  BY <1>2, <1>3, SMT DEF TurnInv, TurnTyped, IndexFits, turn, history
<1> QED BY <1>2, <1>3, <1>4, Zenon DEF TurnInv, TurnTyped, CountKept, turn, history

LEMMA SetKeepsLength ==
  ASSUME TurnInv, NEW i \in DOMAIN loops_configs, NEW n \in 0 .. MaxLoops, SetLoops(i, n)
  PROVE  loops_configs' \in Seq(LoopsEntry) /\ Len(loops_configs') = Len(loops_configs)
<1> DEFINE entry == [loops_configs[i] EXCEPT !.loops = n]
<1>1. entry \in LoopsEntry
  <2>1. loops_configs[i] \in LoopsEntry
    BY ElementOfSeq DEF TurnInv, TurnTyped
  <2> QED BY <2>1 DEF LoopsEntry
<1>2. loops_configs' = [loops_configs EXCEPT ![i] = entry]
  BY DEF SetLoops
<1> HIDE DEF entry
<1> QED BY <1>1, <1>2, ExceptSeq DEF TurnInv, TurnTyped

LEMMA SetKeeps ==
  ASSUME TurnInv, NEW i \in DOMAIN loops_configs, NEW n \in 0 .. MaxLoops, SetLoops(i, n)
  PROVE  TurnInv'
BY SetKeepsLength DEF SetLoops, TurnInv, TurnTyped, IndexFits, CountKept, turn, history

LEMMA DeleteKeeps ==
  ASSUME TurnInv, NEW i \in DOMAIN loops_configs, DeleteLoops(i)
  PROVE  TurnInv'
<1>1. loops_configs' \in Seq(LoopsEntry)
  <2> DEFINE E == LoopsEntry
  <2> HIDE DEF E
  <2>1. loops_configs \in Seq(E) /\ i \in 1..Len(loops_configs)
    BY DEF TurnInv, TurnTyped, E
  <2>2. loops_configs' = SubSeq(loops_configs, 1, i - 1)
                           \o SubSeq(loops_configs, i + 1, Len(loops_configs))
    BY DEF DeleteLoops, RemoveAt
  <2> QED BY <2>1, <2>2, SMT DEF E
<1>2. removed' = TRUE /\ UNCHANGED <<turn, rounds, unreset>>
  BY DEF DeleteLoops
<1> QED BY <1>1, <1>2, Zenon DEF TurnInv, TurnTyped, IndexFits, CountKept, turn

LEMMA LoadKeeps ==
  ASSUME TurnInv, NEW c \in Config, Load(c)
  PROVE  TurnInv'
<1>1. rounds' = 0 /\ unreset' = TRUE /\ UNCHANGED <<loops_configs, turn, removed>>
  BY DEF Load, settings
<1>2. rounds' \in 0 .. MaxLoops
  BY <1>1, ConditionalAssumption
<1> QED BY <1>1, <1>2, Zenon DEF TurnInv, TurnTyped, IndexFits, CountKept, turn

LEMMA TurnStep ==
  ASSUME TurnInv, [Next]_vars
  PROVE  TurnInv'
<1>1. ASSUME UNCHANGED <<loops_configs, turn, history>>
      PROVE  TurnInv'
  BY <1>1 DEF TurnInv, TurnTyped, IndexFits, CountKept, turn, history
<1>2. CASE Menu
  <2>1. ASSUME NEW c \in Config, AddLoops(c) PROVE TurnInv'
    BY <2>1, AddKeeps
  <2>2. ASSUME NEW c \in Config, NEW on \in Condition, AddConditional(c, on) PROVE TurnInv'
    BY <1>1, <2>2 DEF AddConditional
  <2>3. ASSUME NEW c \in Config, Load(c) PROVE TurnInv'
    BY <2>3, LoadKeeps
  <2>4. ASSUME NEW c \in Config, RemoveConfig(c) PROVE TurnInv'
    BY <1>1, <2>4 DEF RemoveConfig, settings
  <2>5. ASSUME NEW i \in DOMAIN loops_configs, DeleteLoops(i) PROVE TurnInv'
    BY <2>5, DeleteKeeps
  <2>6. ASSUME NEW i \in DOMAIN loops_configs, NEW n \in 0 .. MaxLoops, SetLoops(i, n)
        PROVE  TurnInv'
    BY <2>6, SetKeeps
  <2>7. ASSUME NEW i \in DOMAIN conditional_configs, DeleteConditional(i) PROVE TurnInv'
    BY <1>1, <2>7 DEF DeleteConditional
  <2>8. ASSUME NEW m \in Mode, SetMode(m) PROVE TurnInv'
    BY <1>1, <2>8 DEF SetMode
  <2>9. CASE MenuEnable
    BY <2>9, TurnStartsKeeps DEF MenuEnable, Reset, settings
  <2>10. CASE Disable
    BY <1>1, <2>10 DEF Disable, settings
  <2> QED BY <1>2, <2>1, <2>2, <2>3, <2>4, <2>5, <2>6, <2>7, <2>8, <2>9, <2>10 DEF Menu
<1>3. CASE RemoteEnable
  BY <1>1, <1>3 DEF RemoteEnable, settings
<1>4. CASE RoundEnds
  <2>1. ASSUME NEW i, ConditionalChange(i) PROVE TurnInv'
    BY <2>1, TurnStartsKeeps DEF ConditionalChange, settings
  <2>2. CASE RoundOnly
    BY <2>2, RoundKeeps
  <2>3. CASE TurnEnds
    BY <2>3, TurnStartsKeeps DEF TurnEnds, NextChange, settings
  <2> QED BY <1>4, <2>1, <2>2, <2>3, Zenon DEF RoundEnds
<1>5. CASE UNCHANGED vars
  BY <1>1, <1>5 DEF vars, settings
<1> QED BY <1>2, <1>3, <1>4, <1>5 DEF Next

LEMMA TurnInit == Init => TurnInv
<1> SUFFICES ASSUME Init PROVE TurnInv
  OBVIOUS
<1>1. loops_configs = <<>> /\ current = 0 /\ route_loops = 0 /\ rounds = 0
      /\ removed = FALSE /\ unreset = FALSE
  BY DEF Init
<1>2. loops_configs \in Seq(LoopsEntry)
  BY <1>1
<1>3. route_loops \in 0 .. LoopMod - 1 /\ rounds \in 0 .. MaxLoops
  BY <1>1, ConditionalAssumption
<1>4. current \in Nat /\ route_loops <= rounds
  BY <1>1
<1> QED BY <1>1, <1>2, <1>3, <1>4, Zenon DEF TurnInv, TurnTyped, IndexFits, CountKept

-----------------------------------------------------------------------------
(* The types of what the index and the rounds do not depend on.            *)
ListsTyped ==
  /\ Len(loops_configs) <= MaxEntries
  /\ conditional_configs \in Seq(ConditionalEntry) /\ Len(conditional_configs) <= MaxEntries
  /\ current <= MaxEntries
  /\ edits \in 0 .. MaxEdits

RunTyped ==
  /\ files \subseteq Config /\ loaded \in Config \cup {"none"}
  /\ mode \in Mode
  /\ was_conditional \in BOOLEAN /\ running \in BOOLEAN

LEMMA EditCounts ==
  ASSUME ListsTyped, Edit
  PROVE  edits' \in 0 .. MaxEdits
BY ConditionalAssumption DEF ListsTyped, Edit

LEMMA RemovedFrom ==
  ASSUME NEW S, NEW s \in Seq(S), NEW i \in DOMAIN s
  PROVE  RemoveAt(s, i) \in Seq(S) /\ Len(RemoveAt(s, i)) = Len(s) - 1
<1>1. i \in 1 .. Len(s) /\ Len(s) \in Nat
  OBVIOUS
<1>2. /\ SubSeq(s, 1, i - 1) \in Seq(S) /\ Len(SubSeq(s, 1, i - 1)) = i - 1
      /\ SubSeq(s, i + 1, Len(s)) \in Seq(S) /\ Len(SubSeq(s, i + 1, Len(s))) = Len(s) - i
  BY <1>1
<1> DEFINE b == SubSeq(s, 1, i - 1)
           e == SubSeq(s, i + 1, Len(s))
<1>3. RemoveAt(s, i) = b \o e
  BY DEF RemoveAt
<1>4. b \in Seq(S) /\ e \in Seq(S) /\ Len(b) = i - 1 /\ Len(e) = Len(s) - i
  BY <1>2
<1> HIDE DEF b, e
<1>5. b \o e \in Seq(S) /\ Len(b \o e) = Len(b) + Len(e)
  BY <1>4, ConcatProperties, Zenon
<1> QED BY <1>1, <1>3, <1>4, <1>5

LEMMA EditsKeepLists ==
  ASSUME TurnInv, ListsTyped, Menu
  PROVE  ListsTyped'
<1>1. Len(loops_configs) \in Nat /\ Len(conditional_configs) \in Nat /\ MaxEntries \in Nat
  BY ConditionalAssumption DEF TurnInv, TurnTyped, ListsTyped
<1>2. ASSUME UNCHANGED <<loops_configs, conditional_configs>>, current' \in {current, 0},
             edits' \in 0 .. MaxEdits
      PROVE  ListsTyped'
  BY <1>1, <1>2 DEF ListsTyped
<1>3. ASSUME NEW c \in Config, AddLoops(c) PROVE ListsTyped'
  <2>1. Len(loops_configs') = Len(loops_configs) + 1 /\ Len(loops_configs) < MaxEntries
    BY <1>3, AppendProperties DEF AddLoops, TurnInv, TurnTyped
  <2>2. UNCHANGED <<conditional_configs, current>> /\ edits' \in 0 .. MaxEdits
    BY <1>3, EditCounts DEF AddLoops, turn
  <2>3. Len(loops_configs') <= MaxEntries
    BY <1>1, <2>1
  <2> QED BY <2>2, <2>3 DEF ListsTyped
<1>4. ASSUME NEW c \in Config, NEW on \in Condition, AddConditional(c, on) PROVE ListsTyped'
  <2>1. [config |-> c, on |-> on] \in ConditionalEntry
    BY DEF ConditionalEntry
  <2>2. /\ conditional_configs' \in Seq(ConditionalEntry)
        /\ Len(conditional_configs') = Len(conditional_configs) + 1
        /\ Len(conditional_configs) < MaxEntries
    BY <1>4, <2>1, AppendProperties DEF AddConditional, ListsTyped
  <2>3. UNCHANGED <<loops_configs, current>> /\ edits' \in 0 .. MaxEdits
    BY <1>4, EditCounts DEF AddConditional, turn
  <2>4. Len(conditional_configs') <= MaxEntries
    BY <1>1, <2>2
  <2> QED BY <2>2, <2>3, <2>4 DEF ListsTyped
<1>5. ASSUME NEW i \in DOMAIN loops_configs, NEW n \in 0 .. MaxLoops, SetLoops(i, n)
      PROVE  ListsTyped'
  <2>1. Len(loops_configs') = Len(loops_configs)
    BY <1>5, SetKeepsLength
  <2> QED BY <1>5, <2>1, EditCounts DEF SetLoops, ListsTyped, turn
<1>6. ASSUME NEW i \in DOMAIN loops_configs, DeleteLoops(i) PROVE ListsTyped'
  <2>1. Len(loops_configs') = Len(loops_configs) - 1
    BY <1>6, RemovedFrom DEF DeleteLoops, TurnInv, TurnTyped
  <2>2. UNCHANGED <<conditional_configs, current>> /\ edits' \in 0 .. MaxEdits
    BY <1>6, EditCounts DEF DeleteLoops, turn
  <2>3. Len(loops_configs') <= MaxEntries
    BY <1>1, <2>1 DEF ListsTyped
  <2> QED BY <2>2, <2>3 DEF ListsTyped
<1>7. ASSUME NEW i \in DOMAIN conditional_configs, DeleteConditional(i) PROVE ListsTyped'
  <2>1. /\ conditional_configs' \in Seq(ConditionalEntry)
        /\ Len(conditional_configs') = Len(conditional_configs) - 1
    BY <1>7, RemovedFrom DEF DeleteConditional, ListsTyped
  <2>2. UNCHANGED <<loops_configs, current>> /\ edits' \in 0 .. MaxEdits
    BY <1>7, EditCounts DEF DeleteConditional, turn
  <2>3. Len(conditional_configs') <= MaxEntries
    BY <1>1, <2>1 DEF ListsTyped
  <2> QED BY <2>1, <2>2, <2>3 DEF ListsTyped
<1>8. ASSUME NEW m \in Mode, SetMode(m) PROVE ListsTyped'
  BY <1>2, <1>8, EditCounts DEF SetMode, turn
<1>9. ASSUME NEW c \in Config, Load(c) \/ RemoveConfig(c) PROVE ListsTyped'
  BY <1>9 DEF Load, RemoveConfig, settings, turn, ListsTyped
<1>10. CASE MenuEnable \/ Disable
  BY <1>2, <1>10 DEF MenuEnable, Disable, Reset, settings, turn, ListsTyped
<1> QED BY <1>3, <1>4, <1>5, <1>6, <1>7, <1>8, <1>9, <1>10, Zenon DEF Menu

LEMMA RoundsKeepLists ==
  ASSUME TurnInv, ListsTyped, RoundEnds
  PROVE  ListsTyped'
<1>1. UNCHANGED settings /\ (current' = current \/ current' \in NextRoutes)
  BY Zenon DEF RoundEnds, ConditionalChange, RoundOnly, TurnEnds, NextChange
<1>2. Len(loops_configs) \in Nat /\ MaxEntries \in Nat /\ current \in Nat
  BY ConditionalAssumption DEF TurnInv, TurnTyped
<1>3. ASSUME current' \in NextRoutes PROVE current' <= MaxEntries
  <2>1. current' \in Nat /\ (current' = 0 \/ current' < Len(loops_configs))
    BY <1>3, NextFits DEF TurnInv
  <2> QED BY <1>2, <2>1 DEF ListsTyped
<1> QED BY <1>1, <1>3 DEF settings, ListsTyped

LEMMA LoadAndEnableTypes ==
  ASSUME RunTyped, NEW c, LoadAndEnable(c)
  PROVE  loaded' \in Config \cup {"none"} /\ running' \in BOOLEAN
BY Zenon DEF RunTyped, LoadAndEnable

LEMMA RunStep ==
  ASSUME RunTyped, [Next]_vars
  PROVE  RunTyped'
<1>1. ASSUME UNCHANGED <<files, mode, loaded>>, was_conditional' \in BOOLEAN,
             running' \in BOOLEAN
      PROVE  RunTyped'
  BY <1>1 DEF RunTyped
<1>2. CASE Menu
  <2>1. CASE \/ \E c \in Config : AddLoops(c) \/ \E on \in Condition : AddConditional(c, on)
             \/ \E i \in DOMAIN loops_configs :
                  DeleteLoops(i) \/ \E n \in 0 .. MaxLoops : SetLoops(i, n)
             \/ \E i \in DOMAIN conditional_configs : DeleteConditional(i)
    BY <2>1, Zenon DEF AddLoops, AddConditional, DeleteLoops, SetLoops, DeleteConditional,
                       RunTyped, turn
  <2>2. ASSUME NEW m \in Mode, SetMode(m) PROVE RunTyped'
    BY <2>2, Zenon DEF SetMode, RunTyped, turn
  <2>3. ASSUME NEW c \in Config, Load(c) \/ RemoveConfig(c) PROVE RunTyped'
    <3>1. was_conditional' = was_conditional /\ mode' = mode /\ files' \subseteq files
          /\ loaded' \in {loaded, c} /\ running' \in {running, FALSE}
      BY <2>3 DEF Load, RemoveConfig, settings, turn
    <3> QED BY <3>1, Zenon DEF RunTyped
  <2>4. CASE MenuEnable \/ Disable
    <3>1. /\ UNCHANGED <<files, mode, loaded>> /\ running' \in BOOLEAN
          /\ was_conditional' \in {was_conditional, FALSE}
      BY <2>4 DEF MenuEnable, Disable, Reset, settings, turn
    <3> QED BY <3>1, Zenon DEF RunTyped
  <2> QED BY <1>2, <2>1, <2>2, <2>3, <2>4, Zenon DEF Menu
<1>3. CASE RemoteEnable
  BY <1>1, <1>3 DEF RemoteEnable, settings, turn, RunTyped
<1>4. CASE RoundEnds
  <2>1. ASSUME NEW i, ConditionalChange(i) PROVE RunTyped'
    <3>1. UNCHANGED <<files, mode>> /\ was_conditional' = TRUE
          /\ LoadAndEnable(conditional_configs[i].config)
      BY <2>1, Zenon DEF ConditionalChange, settings
    <3> QED BY <3>1, LoadAndEnableTypes, Zenon DEF RunTyped
  <2>2. CASE RoundOnly
    BY <2>2, Zenon DEF RoundOnly, settings, RunTyped
  <2>3. CASE TurnEnds
    <3>1. /\ UNCHANGED <<files, mode>>
          /\ \/ UNCHANGED <<loaded, running, was_conditional>>
             \/ LoadAndEnable(RouteAt(current')) /\ was_conditional' = FALSE
      BY <2>3, Zenon DEF TurnEnds, NextChange, settings
    <3>2. CASE UNCHANGED <<loaded, running, was_conditional>>
      BY <3>1, <3>2, Zenon DEF RunTyped
    <3>3. ASSUME NEW c, LoadAndEnable(c), was_conditional' = FALSE PROVE RunTyped'
      BY <3>1, <3>3, LoadAndEnableTypes, Zenon DEF RunTyped
    <3> QED BY <3>1, <3>2, <3>3
  <2> QED BY <1>4, <2>1, <2>2, <2>3, Zenon DEF RoundEnds
<1>5. CASE UNCHANGED vars
  BY <1>5, Zenon DEF vars, settings, turn, RunTyped
<1> QED BY <1>2, <1>3, <1>4, <1>5 DEF Next

(* Type correctness: what the menu, the ends of rounds and the server make *)
(* of the lists keeps their bounds, the index among them, and whatever is  *)
(* loaded is a file.                                                       *)
THEOREM TypeCorrect == Spec => []TypeOK
<1> DEFINE Inv == TurnInv /\ ListsTyped /\ RunTyped
<1>1. Init => Inv
  <2> SUFFICES ASSUME Init PROVE ListsTyped /\ RunTyped
    BY TurnInit
  <2>1. ListsTyped
    BY ConditionalAssumption DEF Init, ListsTyped
  <2>2. RunTyped
    BY Zenon DEF Init, RunTyped, Mode
  <2> QED BY <2>1, <2>2
<1>2. Inv /\ [Next]_vars => Inv'
  <2> SUFFICES ASSUME Inv, [Next]_vars PROVE ListsTyped'
    BY TurnStep, RunStep
  <2>1. CASE RemoteEnable \/ UNCHANGED vars
    BY <2>1 DEF RemoteEnable, vars, settings, turn, ListsTyped
  <2> QED BY <2>1, EditsKeepLists, RoundsKeepLists DEF Next
<1>3. Inv => TypeOK
  <2> SUFFICES ASSUME Inv PROVE TypeOK
    OBVIOUS
  <2>1. current \in 0 .. MaxEntries
    BY ConditionalAssumption DEF TurnInv, TurnTyped, ListsTyped
  <2> QED BY <2>1, Zenon DEF TurnInv, TurnTyped, ListsTyped, RunTyped, TypeOK
<1> QED BY <1>1, <1>2, <1>3, PTL DEF Spec

-----------------------------------------------------------------------------
(* The index that outlives the lists is past the end only of a list that    *)
(* entries were removed from (route_randomizer.cpp:106).                    *)
THEOREM IndexIsInRange == Spec => []IndexInRange
<1>1. TurnInv => IndexInRange
  BY SMT DEF TurnInv, TurnTyped, IndexFits, IndexInRange
<1> QED BY <1>1, TurnInit, TurnStep, PTL DEF Spec

(* A route in its turn is left only after its rounds, for every number of   *)
(* rounds and with a counter that wraps, however the list was edited.       *)
THEOREM RoundsAreKept == Spec => RoundsKept
<1>1. TurnInv =>
        [RoundEnds /\ TurnEnds /\ mode = "turn" /\ ~was_conditional /\ ~unreset /\ ~removed
           => rounds + 1 >= loops_configs[current + 1].loops]_vars
  <2> SUFFICES ASSUME TurnInv, TurnEnds, mode = "turn", ~was_conditional, ~unreset, ~removed
               PROVE  rounds + 1 >= loops_configs[current + 1].loops
    BY Zenon
  <2>1. loops_configs # <<>> /\ \E n \in Asked : NextCount >= n
    BY Zenon DEF TurnEnds
  <2>2. current < Len(loops_configs)
    BY <2>1, SMT DEF TurnInv, TurnTyped, IndexFits
  <2>3. NextCount >= loops_configs[current + 1].loops
    BY <2>1, <2>2 DEF Asked
  <2>4. loops_configs[current + 1].loops \in 0 .. MaxLoops
    <3>1. loops_configs[current + 1] \in LoopsEntry
      BY <2>2, ElementOfSeq DEF TurnInv, TurnTyped
    <3> QED BY <3>1 DEF LoopsEntry
  <2>5. route_loops <= rounds \/ rounds = MaxLoops
    BY Zenon DEF TurnInv, CountKept
  <2>6. NextCount \in 0 .. LoopMod - 1 /\ NextCount <= route_loops + 1
    BY CountWraps DEF TurnInv
  <2>7. route_loops \in Nat /\ rounds \in Nat /\ MaxLoops \in Nat /\ LoopMod \in Nat
    BY ConditionalAssumption DEF TurnInv, TurnTyped
  <2> QED BY <2>3, <2>4, <2>5, <2>6, <2>7, SMT
<1> QED BY <1>1, TurnInit, TurnStep, PTL DEF Spec, RoundsKept
=============================================================================
