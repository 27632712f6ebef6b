-------------------------- MODULE ConditionalRoutes --------------------------
(***************************************************************************)
(* Which route comes next when one has been run to its end: the player     *)
(* lists routes with the number of rounds each is to be run, and routes to *)
(* change to when his health or his fuel is low.  increment_route_loops_   *)
(* and_check is called at the end of every round, on the game thread, as   *)
(* the menu is.  A route is its name; that it cannot be started is a       *)
(* choice, and so is what the readings of health and fuel are.             *)
(***************************************************************************)
EXTENDS Naturals, Sequences, SequencesExt

CONSTANTS
  Config,      \* the route files
  MaxLoops,    \* bound: rounds the player asks for, 1 in a new entry
  LoopMod,     \* m_route_loops is a uint8_t: 256 in the code
  MaxEntries,  \* bound: entries of a list
  MaxEdits     \* bound: how often the player edits the lists

ASSUME ConditionalAssumption ==
  /\ LoopMod \in Nat \ {0} /\ MaxLoops \in 1 .. LoopMod - 1
  /\ MaxEntries \in Nat /\ MaxEdits \in Nat
  /\ "none" \notin Config

VARIABLES
  loops_configs,        \* routes to run in turn, and how many rounds of each
  conditional_configs,  \* routes to change to, and what is to be low
  current,              \* m_current_route, from 0
  route_loops,          \* m_route_loops
  was_conditional,      \* m_last_route_was_conditional
  loaded,               \* m_active_config_name
  running,              \* any_route_enabled()
  files,                \* the files that can be loaded
  mode,                 \* the check boxes
  edits,                \* how often the lists were edited
  rounds,               \* history: rounds since the turn or the route began
  removed,              \* history: an entry was removed since current was set
  unreset               \* history: a route was loaded since then

settings == <<loops_configs, conditional_configs, mode, edits>>
turn == <<current, route_loops, was_conditional>>
history == <<rounds, removed, unreset>>
vars == <<settings, files, turn, loaded, running, history>>

LoopsEntry == [config : Config, loops : 0 .. MaxLoops]
Condition == {"health", "fuel"}

(* "Conditional routes" off; on, with "Use route randomizer" off or on, the *)
(* latter without or with "Do not include last route in random".           *)
Mode == {"off", "turn", "random", "other"}
ConditionalEntry == [config : Config, on : Condition]

Init ==
  /\ loops_configs = <<>> /\ conditional_configs = <<>>
  /\ files = Config /\ mode = "off" /\ edits = 0
  /\ current = 0 /\ route_loops = 0 /\ was_conditional = FALSE
  /\ loaded = "none" /\ running = FALSE
  /\ rounds = 0 /\ removed = FALSE /\ unreset = FALSE

-----------------------------------------------------------------------------
(* The menu.                                                               *)
Edit == edits < MaxEdits /\ edits' = edits + 1

AddLoops(c) ==
  /\ Edit /\ Len(loops_configs) < MaxEntries
  /\ loops_configs' = Append(loops_configs, [config |-> c, loops |-> 1])
  /\ UNCHANGED <<conditional_configs, mode, files, turn, loaded, running, history>>

AddConditional(c, on) ==
  /\ Edit /\ Len(conditional_configs) < MaxEntries
  /\ conditional_configs' = Append(conditional_configs, [config |-> c, on |-> on])
  /\ UNCHANGED <<loops_configs, mode, files, turn, loaded, running, history>>

SetLoops(i, n) ==
  /\ Edit
  /\ loops_configs' = [loops_configs EXCEPT ![i].loops = n]
  /\ UNCHANGED <<conditional_configs, mode, files, turn, loaded, running, history>>

(* DELETE: the index into the list stays as it is.                         *)
DeleteLoops(i) ==
  /\ Edit
  /\ loops_configs' = RemoveAt(loops_configs, i)
  /\ removed' = TRUE
  /\ UNCHANGED <<conditional_configs, mode, files, turn, loaded, running, rounds, unreset>>

DeleteConditional(i) ==
  /\ Edit
  /\ conditional_configs' = RemoveAt(conditional_configs, i)
  /\ UNCHANGED <<loops_configs, mode, files, turn, loaded, running, history>>

SetMode(m) ==
  /\ Edit
  /\ mode' = m
  /\ UNCHANGED <<loops_configs, conditional_configs, files, turn, loaded, running, history>>

RemoveConfig(c) ==
  /\ c \in files
  /\ files' = files \ {c}
  /\ UNCHANGED <<settings, turn, loaded, running, history>>

(* Load Config, and load_route_config, which stops what runs.              *)
Load(c) ==
  /\ c \in files
  /\ loaded' = c
  /\ running' = FALSE
  /\ rounds' = 0 /\ unreset' = TRUE
  /\ UNCHANGED <<settings, files, turn, removed>>

(* Mutant of Reset: the rounds are counted on. *)
ResetToFirst ==
  /\ current' = 0 /\ was_conditional' = FALSE
  /\ UNCHANGED route_loops

(* conditional_routes::reset *)
Reset == current' = 0 /\ route_loops' = 0 /\ was_conditional' = FALSE

TurnStarts == rounds' = 0 /\ removed' = FALSE /\ unreset' = FALSE

(* The button: from the first entry on, whatever is loaded.                *)
MenuEnable ==
  /\ ~running
  /\ Reset /\ TurnStarts
  /\ running' \in BOOLEAN
  /\ UNCHANGED <<settings, files, loaded>>

(* The button again, an alert, or the server, *)
Disable ==
  /\ running
  /\ running' = FALSE
  /\ UNCHANGED <<settings, files, turn, loaded, history>>

(* which can also start a route, without a reset.                          *)
RemoteEnable ==
  /\ running' \in BOOLEAN
  /\ UNCHANGED <<settings, files, turn, loaded, history>>

-----------------------------------------------------------------------------
(* The end of a round.                                                     *)

(* What is low: the entries whose value is reached, and whether the fuel   *)
(* can be read at all.  any_condition_valid takes the first such entry,    *)
(* but looks no further once it needs a fuel value that cannot be read.    *)
Valid(low, fuel_known) ==
  {i \in low : \A j \in DOMAIN conditional_configs :
     /\ j < i => j \notin low
     /\ j <= i /\ conditional_configs[j].on = "fuel" => fuel_known}

(* Mutant of InTurn: the last entry is left out. *)
InTurnBeforeEnd == IF current + 2 >= Len(loops_configs) THEN 0 ELSE current + 1

InTurn == IF current + 1 >= Len(loops_configs) THEN 0 ELSE current + 1

(* change_current_route                                                    *)
NextRoutes ==
  LET all == 0 .. Len(loops_configs) - 1
  IN CASE mode = "turn" -> {InTurn}
       [] loops_configs = <<>> -> {0}
       [] mode = "other" /\ Len(loops_configs) > 1 -> all \ {current}
       [] OTHER -> all

(* load_route_config, which may find no such file, and enable, after which *)
(* that route runs, or none does.                                          *)
LoadAndEnable(c) ==
  /\ loaded' = IF c \in files THEN c ELSE loaded
  /\ running' \in BOOLEAN

(* Mutant of ConditionalChange: the next index is taken as it is. *)
ConditionalChangeUnchecked(i) ==
  /\ current' = current + 1
  /\ LoadAndEnable(conditional_configs[i].config)
  /\ was_conditional' = TRUE
  /\ route_loops' = 0
  /\ TurnStarts
  /\ UNCHANGED <<settings, files>>

(* change_to_conditional_route *)
ConditionalChange(i) ==
  /\ current' \in NextRoutes
  /\ LoadAndEnable(conditional_configs[i].config)
  /\ was_conditional' = TRUE
  /\ route_loops' = 0
  /\ TurnStarts
  /\ UNCHANGED <<settings, files>>

RouteAt(i) == loops_configs[i + 1].config

(* change_to_next_route *)
NextChange ==
  /\ current' \in NextRoutes
  /\ IF RouteAt(current') = loaded
       THEN UNCHANGED <<loaded, running, was_conditional>>
       ELSE LoadAndEnable(RouteAt(current')) /\ was_conditional' = FALSE
  /\ route_loops' = 0
  /\ TurnStarts
  /\ UNCHANGED <<settings, files>>

(* Mutant of NextCount: it does not wrap. *)
CountWithoutWrap == route_loops + 1

NextCount == (route_loops + 1) % LoopMod

(* The rounds the present entry asks for.  It is read unchecked: past the  *)
(* end of the list they may be any uint8_t.                                *)
Asked ==
  IF current < Len(loops_configs) THEN {loops_configs[current + 1].loops}
  ELSE 0 .. LoopMod - 1

(* The round is counted, *)
RoundOnly ==
  /\ \/ loops_configs = <<>>
     \/ mode = "turn" /\ ~was_conditional /\ \E n \in Asked : NextCount < n
  /\ route_loops' = NextCount
  /\ rounds' = IF rounds < MaxLoops THEN rounds + 1 ELSE rounds
  /\ UNCHANGED <<settings, files, current, was_conditional, loaded, running, removed, unreset>>

(* or it was the last one of its turn.                                     *)
TurnEnds ==
  /\ loops_configs # <<>>
  /\ mode # "turn" \/ was_conditional \/ \E n \in Asked : NextCount >= n
  /\ NextChange

(* increment_route_loops_and_check *)
RoundEnds ==
  /\ mode # "off" /\ running
  /\ \E low \in SUBSET DOMAIN conditional_configs, fuel_known \in BOOLEAN :
       \/ \E i \in Valid(low, fuel_known) : ConditionalChange(i)
       \/ Valid(low, fuel_known) = {} /\ (RoundOnly \/ TurnEnds)

-----------------------------------------------------------------------------
Menu ==
  \/ \E c \in Config :
       \/ AddLoops(c) \/ \E on \in Condition : AddConditional(c, on)
       \/ Load(c) \/ RemoveConfig(c)
  \/ \E i \in DOMAIN loops_configs :
       DeleteLoops(i) \/ \E n \in 0 .. MaxLoops : SetLoops(i, n)
  \/ \E i \in DOMAIN conditional_configs : DeleteConditional(i)
  \/ \E m \in Mode : SetMode(m)
  \/ MenuEnable \/ Disable

Next == Menu \/ RemoteEnable \/ RoundEnds

Spec == Init /\ [][Next]_vars

(* A route that keeps running gets to its end again and again.             *)
FairSpec == Spec /\ WF_vars(RoundEnds)

-----------------------------------------------------------------------------
(* Properties.                                                             *)

(* Type invariant. *)
TypeOK ==
  /\ loops_configs \in Seq(LoopsEntry) /\ Len(loops_configs) <= MaxEntries
  /\ conditional_configs \in Seq(ConditionalEntry)
  /\ Len(conditional_configs) <= MaxEntries
  /\ files \subseteq Config /\ mode \in Mode /\ edits \in 0 .. MaxEdits
  /\ current \in 0 .. MaxEntries /\ route_loops \in 0 .. LoopMod - 1
  /\ was_conditional \in BOOLEAN /\ running \in BOOLEAN
  /\ loaded \in Config \cup {"none"}
  /\ rounds \in 0 .. MaxLoops
  /\ removed \in BOOLEAN /\ unreset \in BOOLEAN

(* The entry that is read at the end of a round exists, unless the player  *)
(* has removed one since the index was set.                                *)
IndexInRange == loops_configs # <<>> => current < Len(loops_configs) \/ removed

(* In turn, a route is run the rounds the player has asked for before the  *)
(* next one comes.  The exceptions: it was loaded by hand and started by   *)
(* the server, its entry was removed, or it stands in for a condition.     *)
RoundsKept ==
  [][RoundEnds /\ TurnEnds /\ mode = "turn" /\ ~was_conditional /\ ~unreset /\ ~removed
       => rounds + 1 >= loops_configs[current + 1].loops]_vars

(* In turn, every route of the list that can be loaded has its turns, as   *)
(* long as nothing stops the running and no condition takes over.          *)
EachInTurn ==
  \A c \in Config :
    <>[](/\ running /\ mode = "turn" /\ c \in files
         /\ conditional_configs = <<>>
         /\ \E e \in ToSet(loops_configs) : e.config = c)
      => []<>(loaded = c)
=============================================================================
