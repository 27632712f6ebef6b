--------------------------- MODULE CommandChannel ---------------------------
(***************************************************************************)
(* What the game side may rely on when it hands a command (an alert, a     *)
(* screenshot, a route to publish) to socket_commands::add_command: the    *)
(* commands reach the server at most once and in the order in which they   *)
(* were added.  A command that was handed over may be lost, because the    *)
(* client takes the success of send() for delivery, but it is never        *)
(* delivered twice and never overtaken.                                    *)
(*                                                                         *)
(* Commands are numbered 1, 2, ... in the order of add_command.            *)
(***************************************************************************)
EXTENDS Naturals, Sequences, SequencesExt

VARIABLES
  added,      \* how many commands the game side has added
  settled,    \* commands 1 .. settled were delivered or lost
  delivered,  \* the commands the server got, in the order it got them
  lost        \* the commands that went down with their connection

channelVars == <<added, settled, delivered, lost>>

ChannelInit ==
  /\ added = 0
  /\ settled = 0
  /\ delivered = <<>>
  /\ lost = {}

(* A thread of the game side adds a command. *)
Accept ==
  /\ added' = added + 1
  /\ UNCHANGED <<settled, delivered, lost>>

(* The fate of the next k + l commands is decided: the first k reach the   *)
(* server, the l after them are lost with their connection.                *)
Settle(k, l) ==
  /\ settled + k + l <= added
  /\ settled' = settled + k + l
  /\ delivered' = delivered \o [i \in 1 .. k |-> settled + i]
  /\ lost' = lost \cup (settled + k + 1 .. settled + k + l)
  /\ UNCHANGED added

ChannelNext == Accept \/ \E k, l \in 0 .. added : Settle(k, l)

ChannelSpec == ChannelInit /\ [][ChannelNext]_channelVars

-----------------------------------------------------------------------------
(* The fate of a command is decided once: what was settled was delivered   *)
(* in the order of add_command, or lost, and not both.                     *)
FateIsFinal ==
  /\ ToSet(delivered) \cup lost = 1 .. settled
  /\ ToSet(delivered) \cap lost = {}
  /\ \A i, j \in 1 .. Len(delivered) : i < j => delivered[i] < delivered[j]
=============================================================================
