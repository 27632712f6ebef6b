------------------------------ MODULE Session -------------------------------
(***************************************************************************)
(* The client's side of the connection to its server: the socket thread    *)
(* (socket_handler::tick and everything it calls), the queue of outgoing   *)
(* commands (socket_commands::commands_list) that the game threads fill,   *)
(* and the loader thread (cheat::do_load) that starts the rest of the      *)
(* program once the session is initialised.                                *)
(*                                                                         *)
(* The server and the TCP link are external: the server answers the        *)
(* greeting in the order in which the client waits for the answers, and    *)
(* may send a heartbeat or a command of its own in between.                *)
(***************************************************************************)
EXTENDS Naturals, Sequences, SequencesExt

CONSTANTS
  MaxAdds,     \* bound: commands the game side adds
  MaxBreaks,   \* bound: times the link breaks
  MaxBad,      \* bound: frames the server should not have sent when it did
  InboxCap     \* bound: frames in flight to the client

ASSUME BoundsAssumption ==
  /\ MaxAdds \in Nat
  /\ MaxBreaks \in Nat
  /\ MaxBad \in Nat
  /\ InboxCap \in Nat \ {0}

VARIABLES
  pc,         \* where the socket thread is
  link,       \* the TCP connection: none, up, broken (unnoticed) or reset
  inbox,      \* frames from the server the client has not read
  outbox,     \* commands written to the socket the server has not got
  session,    \* number of connections made so far
  aes_key,    \* socket_handler::aes_key, the session keys appended to it
  m_aes_key,  \* socket_utils::m_aes_key, the key frames are (de)crypted with
  m_inited,   \* socket_handler::m_inited
  answered,   \* greeting answers processed by their handler, in any session
  skipped,    \* greeting waits that a heartbeat ended
  commands,   \* socket_commands::commands_list
  added,      \* how many commands were added
  srv,        \* what the server owes the client, or waits for
  loader,     \* where the loader thread is
  samp_base,  \* the base modules::samp() was built with
  bad,        \* such frames so far
  breaks,     \* link breaks so far
  delivered,  \* history: commands the server got
  lost        \* history: commands dropped by the link

sockVars == <<pc, session, aes_key, m_aes_key, m_inited, answered, skipped>>
netVars == <<link, inbox, outbox, delivered, lost, breaks>>
vars == <<sockVars, netVars, commands, added, srv, loader, samp_base, bad>>

-----------------------------------------------------------------------------
Greeting == {"USER", "HOOKS", "LIST"}
Frames == Greeting \cup {"KEY", "DENY", "HEARTBEAT", "CMD", "UNKNOWN"}
Loop == {"hb_read", "hb_beat", "hb_send", "hb_clear"}
SocketPcs == Loop \cup
  {"connect", "send_key", "await_key", "credentials", "await_user",
   "await_hooks", "inited", "wait_modules", "wait_samp", "send_name", "await_list",
   "cleanup", "terminated"}
LoaderPcs ==
  {"wait_patch", "wait_socket", "wait_modules", "wait_samp", "initialize",
   "done", "unloaded"}

(* TerminateProcess ends every thread; FreeLibrary takes the code away     *)
(* under the running socket thread.                                        *)
Alive == pc # "terminated" /\ loader # "unloaded"

(* modules::inited(): modules::init has found the base of the module.      *)
ModulesInited == loader \in {"wait_samp", "initialize", "done"}

(* samp_t::m_inited: samp_t::init has found all its objects.               *)
SampInited == loader \in {"initialize", "done"}

(* The commands in commands_list that have not been written to a socket.   *)
Unsent == IF pc = "hb_clear" THEN Tail(commands) ELSE commands

(* The commands whose fate is open: on their way, or not written yet.      *)
Outstanding == Len(outbox) + Len(Unsent)

Init ==
  /\ pc = "connect" /\ loader = "wait_patch"
  /\ link = "none" /\ inbox = <<>> /\ outbox = <<>>
  /\ session = 0 /\ aes_key = <<>> /\ m_aes_key = <<>>
  /\ m_inited = FALSE /\ answered = {} /\ skipped = {}
  /\ commands = <<>> /\ added = 0
  /\ srv = "none" /\ samp_base = "none"
  /\ bad = 0 /\ breaks = 0
  /\ delivered = <<>> /\ lost = {}

-----------------------------------------------------------------------------
(* Sending.  send() succeeds on a link that is up, and also, once, on one  *)
(* whose peer has gone without the client having noticed.                  *)
CanSend == link \in {"up", "broken"}
SendFails == link \in {"broken", "reset"}
AfterSend == link' = IF link = "broken" THEN "reset" ELSE link

(* A protocol message of the greeting; `owes` is what a server that gets   *)
(* it does next.                                                           *)
SendProtocol(from, to, owes) ==
  /\ Alive /\ pc = from
  /\ CanSend
  /\ AfterSend
  /\ srv' = IF link = "up" THEN owes ELSE srv
  /\ pc' = to
  /\ UNCHANGED <<inbox, outbox, delivered, lost, breaks, session, aes_key,
                 m_aes_key, m_inited, answered, skipped, commands, added,
                 loader, samp_base, bad>>

(* A step of the socket thread that only moves it on.                      *)
Goto(to) ==
  /\ pc' = to
  /\ UNCHANGED <<netVars, session, aes_key, m_aes_key, m_inited, answered,
                 skipped, commands, added, srv, loader, samp_base, bad>>

SendGivesUp(from) ==
  /\ Alive /\ pc = from
  /\ SendFails
  /\ Goto("cleanup")

-----------------------------------------------------------------------------
(* start_connection_with_server *)
Connect ==
  /\ Alive /\ pc = "connect"
  /\ link' = "up"
  /\ session' = session + 1
  /\ pc' = "send_key"
  /\ UNCHANGED <<inbox, outbox, delivered, lost, breaks, aes_key, m_aes_key,
                 m_inited, answered, skipped, commands, added, srv, loader,
                 samp_base, bad>>

ConnectFails ==
  /\ Alive /\ pc = "connect"
  /\ Goto("cleanup")

(* handshake_with_server_and_get_aes_key: the result of sending the public *)
(* key is not looked at, and the decrypted key is appended to aes_key.     *)
SendKey ==
  \/ SendProtocol("send_key", "await_key", "key")
  \/ /\ Alive /\ pc = "send_key"
     /\ SendFails
     /\ Goto("await_key")

ReceiveKey ==
  /\ Alive /\ pc = "await_key"
  /\ inbox # <<>>
  /\ inbox' = Tail(inbox)
  /\ aes_key' = Append(aes_key, session)
  /\ m_aes_key' = Append(aes_key, session)
  /\ pc' = "credentials"
  /\ UNCHANGED <<link, outbox, delivered, lost, breaks, session, m_inited,
                 answered, skipped, commands, added, srv, loader, samp_base,
                 bad>>

(* A blocking receive on a link that is gone and has nothing left to read. *)
NothingMore == inbox = <<>> /\ link # "up"

ReceiveKeyFails ==
  /\ Alive /\ pc = "await_key"
  /\ NothingMore
  /\ Goto("cleanup")

SendCredentials ==
  \/ SendProtocol("credentials", "await_user", "user")
  \/ SendGivesUp("credentials")

(* receive_and_process_command with CommandRelevance::HIGH: a heartbeat is *)
(* a success whatever the caller waits for; anything else must end in the  *)
(* awaited byte.                                                           *)
Readable == m_aes_key = <<session>>

ReceiveHigh(from, expected, to, failed) ==
  /\ Alive /\ pc = from
  /\ inbox # <<>>
  /\ inbox' = Tail(inbox)
  /\ \/ /\ Readable /\ Head(inbox) = "HEARTBEAT"
        /\ pc' = to
        /\ skipped' = skipped \cup {expected}
        /\ UNCHANGED answered
     \/ /\ Readable /\ Head(inbox) = expected
        /\ pc' = to
        /\ answered' = answered \cup {expected}
        /\ UNCHANGED skipped
     \/ /\ ~Readable \/ Head(inbox) \notin {"HEARTBEAT", expected}
        /\ pc' = failed
        /\ UNCHANGED <<answered, skipped>>
  /\ UNCHANGED <<link, outbox, delivered, lost, breaks, session, aes_key,
                 m_aes_key, m_inited, commands, added, srv, loader, samp_base,
                 bad>>

ReceiveHighFails(from, failed) ==
  /\ Alive /\ pc = from
  /\ NothingMore
  /\ Goto(failed)

(* INVALID_HWID, whatever went wrong, makes tick() terminate the process.  *)

(* Mutant of AwaitUserData: waits for the two answers in the wrong order.  *)
AwaitHooksFirst ==
  \/ ReceiveHigh("await_user", "HOOKS", "await_hooks", "terminated")
  \/ ReceiveHighFails("await_user", "terminated")

AwaitUserData ==
  \/ ReceiveHigh("await_user", "USER", "await_hooks", "terminated")
  \/ ReceiveHighFails("await_user", "terminated")

(* Mutant of AwaitHooksData: the status is not looked at. *)
AwaitHooksAnyStatus ==
  \/ ReceiveHigh("await_hooks", "HOOKS", "inited", "inited")
  \/ ReceiveHighFails("await_hooks", "inited")

AwaitHooksData ==
  \/ ReceiveHigh("await_hooks", "HOOKS", "inited", "cleanup")
  \/ ReceiveHighFails("await_hooks", "cleanup")

(* m_inited is set before the waits: do_load waits for it, and the modules *)
(* come from do_load.                                                      *)

(* Mutant of SetInited: m_inited is set once the modules are there.        *)
SetInitedAfterModules ==
  /\ Alive /\ pc = "inited"
  /\ ModulesInited
  /\ m_inited' = TRUE
  /\ pc' = "wait_modules"
  /\ UNCHANGED <<netVars, session, aes_key, m_aes_key, answered, skipped,
                 commands, added, srv, loader, samp_base, bad>>

SetInited ==
  /\ Alive /\ pc = "inited"
  /\ m_inited' = TRUE
  /\ pc' = "wait_modules"
  /\ UNCHANGED <<netVars, session, aes_key, m_aes_key, answered, skipped,
                 commands, added, srv, loader, samp_base, bad>>

(* modules::samp() builds its one instance with the base known at the time. *)
BuildSamp ==
  samp_base' = IF samp_base # "none" THEN samp_base
               ELSE IF ModulesInited THEN "found" ELSE "null"

(* Mutant of WaitModules: straight to the wait for modules::samp(). *)
WaitSampOnly ==
  /\ Alive /\ pc = "wait_modules"
  /\ BuildSamp
  /\ pc' = "wait_samp"
  /\ UNCHANGED <<netVars, session, aes_key, m_aes_key, m_inited, answered,
                 skipped, commands, added, srv, loader, bad>>

WaitModules ==
  /\ Alive /\ pc = "wait_modules"
  /\ ModulesInited
  /\ BuildSamp
  /\ pc' = "wait_samp"
  /\ UNCHANGED <<netVars, session, aes_key, m_aes_key, m_inited, answered,
                 skipped, commands, added, srv, loader, bad>>

WaitSamp ==
  /\ Alive /\ pc = "wait_samp"
  /\ SampInited
  /\ Goto("send_name")

SendName ==
  \/ SendProtocol("send_name", "await_list", "list")
  \/ SendGivesUp("send_name")

AwaitList ==
  \/ ReceiveHigh("await_list", "LIST", "hb_read", "cleanup")
  \/ ReceiveHighFails("await_list", "cleanup")

-----------------------------------------------------------------------------
(* heartbeat_thread, one action per part of its body.                      *)

Accepted == Greeting \cup {"HEARTBEAT", "CMD"}

HeartbeatRead ==
  /\ Alive /\ pc = "hb_read"
  /\ inbox # <<>>
  /\ inbox' = Tail(inbox)
  /\ pc' = IF Readable /\ Head(inbox) \in Accepted THEN "hb_beat" ELSE "cleanup"
  /\ UNCHANGED <<link, outbox, delivered, lost, breaks, session, aes_key,
                 m_aes_key, m_inited, answered, skipped, commands, added, srv,
                 loader, samp_base, bad>>

(* FIONREAD reports no data on a closed connection too. *)
HeartbeatNoData ==
  /\ Alive /\ pc = "hb_read"
  /\ inbox = <<>>
  /\ Goto("hb_beat")

(* Mutant of HeartbeatDue: the result of the send is not looked at. *)
HeartbeatAnyStatus ==
  \/ SendProtocol("hb_beat", "hb_send", srv)
  \/ /\ Alive /\ pc = "hb_beat"
     /\ SendFails
     /\ Goto("hb_send")

(* Ten seconds have passed since the last HEARTBEATCLIENT. *)
HeartbeatDue ==
  \/ SendProtocol("hb_beat", "hb_send", srv)
  \/ SendGivesUp("hb_beat")

HeartbeatNotDue ==
  /\ Alive /\ pc = "hb_beat"
  /\ Goto("hb_send")

(* Mutant of SendNothing: the first command is erased, sent or not. *)
ClearNothing ==
  /\ Alive /\ pc = "hb_send"
  /\ commands = <<>>
  /\ Goto("hb_clear")

SendNothing ==
  /\ Alive /\ pc = "hb_send"
  /\ commands = <<>>
  /\ Goto("hb_read")

(* send_aes_message(get_commands().at(0)).  On a link whose peer is gone a *)
(* successful send() is a loss.                                            *)
SendCommand ==
  /\ Alive /\ pc = "hb_send"
  /\ commands # <<>>
  /\ CanSend
  /\ AfterSend
  /\ IF link = "up"
       THEN outbox' = Append(outbox, Head(commands)) /\ lost' = lost
       ELSE lost' = lost \cup {Head(commands)} /\ outbox' = outbox
  /\ pc' = "hb_clear"
  /\ UNCHANGED <<inbox, delivered, breaks, session, aes_key, m_aes_key,
                 m_inited, answered, skipped, commands, added, srv, loader,
                 samp_base, bad>>

(* Mutant of SendCommandFails: tries again on the same socket. *)
SendCommandRetries ==
  /\ Alive /\ pc = "hb_send"
  /\ commands # <<>>
  /\ SendFails
  /\ Goto("hb_send")

(* Mutant of SendCommandFails: the command is erased all the same. *)
SendCommandFailsAndClears ==
  /\ Alive /\ pc = "hb_send"
  /\ commands # <<>>
  /\ SendFails
  /\ commands' = Tail(commands)
  /\ pc' = "cleanup"
  /\ UNCHANGED <<netVars, session, aes_key, m_aes_key, m_inited, answered,
                 skipped, added, srv, loader, samp_base, bad>>

SendCommandFails ==
  /\ commands # <<>>
  /\ SendGivesUp("hb_send")

(* Mutant of ClearCommand: erases the element its name speaks of. *)
ClearLastElement ==
  /\ Alive /\ pc = "hb_clear"
  /\ commands' = Front(commands)
  /\ pc' = "hb_read"
  /\ UNCHANGED <<netVars, session, aes_key, m_aes_key, m_inited, answered,
                 skipped, added, srv, loader, samp_base, bad>>

(* clear_last_command erases the first element. *)
ClearCommand ==
  /\ Alive /\ pc = "hb_clear"
  /\ commands' = Tail(commands)
  /\ pc' = "hb_read"
  /\ UNCHANGED <<netVars, session, aes_key, m_aes_key, m_inited, answered,
                 skipped, added, srv, loader, samp_base, bad>>

(* Mutant of Cleanup: aes_key is not cleared. *)
CleanupKeepingKey ==
  /\ Alive /\ pc = "cleanup"
  /\ \E k \in 0 .. Len(outbox) :
       /\ delivered' = delivered \o SubSeq(outbox, 1, k)
       /\ lost' = lost \cup {outbox[i] : i \in k + 1 .. Len(outbox)}
  /\ outbox' = <<>>
  /\ inbox' = <<>>
  /\ link' = "none"
  /\ srv' = "none"
  /\ pc' = "connect"
  /\ UNCHANGED <<breaks, session, aes_key, m_aes_key, m_inited, answered,
                 skipped, commands, added, loader, samp_base, bad>>

(* tick() after handle_connection: closesocket and aes_key.clear().  What  *)
(* was written before the close may still arrive, or only a part of it.    *)
Cleanup ==
  /\ Alive /\ pc = "cleanup"
  /\ \E k \in 0 .. Len(outbox) :
       /\ delivered' = delivered \o SubSeq(outbox, 1, k)
       /\ lost' = lost \cup {outbox[i] : i \in k + 1 .. Len(outbox)}
  /\ outbox' = <<>>
  /\ inbox' = <<>>
  /\ link' = "none"
  /\ srv' = "none"
  /\ aes_key' = <<>>
  /\ pc' = "connect"
  /\ UNCHANGED <<breaks, session, m_aes_key, m_inited, answered, skipped,
                 commands, added, loader, samp_base, bad>>

-----------------------------------------------------------------------------
(* The game threads: add_command, from the callbacks that initialize()     *)
(* installs and the threads they start.                                    *)

(* Mutant of AddCommand: inserts at the front. *)
AddCommandFirst ==
  /\ Alive /\ loader \in {"initialize", "done"}
  /\ added < MaxAdds
  /\ added' = added + 1
  /\ commands' = <<added + 1>> \o commands
  /\ UNCHANGED <<sockVars, netVars, srv, loader, samp_base, bad>>

AddCommand ==
  /\ Alive /\ loader \in {"initialize", "done"}
  /\ added < MaxAdds
  /\ added' = added + 1
  /\ commands' = Append(commands, added + 1)
  /\ UNCHANGED <<sockVars, netVars, srv, loader, samp_base, bad>>

(* The loader thread, do_load: each wait ends when what it waits for is    *)
(* there.                                                                  *)
LoaderGoto(from, to) ==
  /\ Alive /\ loader = from
  /\ loader' = to
  /\ UNCHANGED <<sockVars, netVars, commands, added, srv, bad>>

LoaderPatchSeen == LoaderGoto("wait_patch", "wait_socket") /\ UNCHANGED samp_base

LoaderSocketInited ==
  /\ m_inited
  /\ LoaderGoto("wait_socket", "wait_modules")
  /\ UNCHANGED samp_base

LoaderModulesInit == LoaderGoto("wait_modules", "wait_samp") /\ UNCHANGED samp_base

(* modules::samp().init() *)
LoaderSampInit == LoaderGoto("wait_samp", "initialize") /\ BuildSamp

LoaderInitialized == LoaderGoto("initialize", "done") /\ UNCHANGED samp_base

LoaderUnloads == LoaderGoto("initialize", "unloaded") /\ UNCHANGED samp_base

-----------------------------------------------------------------------------
(* The server and the link.                                                *)
Owed == [key |-> "KEY", user |-> "USER", hooks |-> "HOOKS", list |-> "LIST"]
ThenWaits == [key |-> "credentials", user |-> "hooks", hooks |-> "name",
              list |-> "ready"]

ServerPuts(frame) ==
  /\ link = "up"
  /\ Len(inbox) < InboxCap
  /\ inbox' = Append(inbox, frame)
  /\ UNCHANGED <<sockVars, link, outbox, delivered, lost, breaks, commands,
                 added, loader, samp_base>>

ServerAnswers ==
  /\ srv \in DOMAIN Owed
  /\ ServerPuts(Owed[srv])
  /\ srv' = ThenWaits[srv]
  /\ UNCHANGED bad

(* Anything but acceptable user data: an unknown key, another command. *)
ServerDenies ==
  /\ srv = "user"
  /\ ServerPuts("DENY")
  /\ srv' = "denied"
  /\ UNCHANGED bad

ServerBeats ==
  /\ srv = "ready"
  /\ ServerPuts("HEARTBEAT")
  /\ UNCHANGED <<srv, bad>>

(* A heartbeat in the middle of the greeting. *)
ServerBeatsEarly ==
  /\ srv \in {"credentials", "user", "hooks", "name", "list"}
  /\ bad < MaxBad
  /\ bad' = bad + 1
  /\ ServerPuts("HEARTBEAT")
  /\ UNCHANGED srv

ServerCommands ==
  /\ srv = "ready"
  /\ ServerPuts("CMD")
  /\ UNCHANGED <<srv, bad>>

(* A command byte without a handler, a handler that fails, a broken frame. *)
ServerPutsUnknown ==
  /\ srv = "ready"
  /\ bad < MaxBad
  /\ bad' = bad + 1
  /\ ServerPuts("UNKNOWN")
  /\ UNCHANGED srv

ServerGets ==
  /\ link = "up"
  /\ outbox # <<>>
  /\ delivered' = Append(delivered, Head(outbox))
  /\ outbox' = Tail(outbox)
  /\ UNCHANGED <<sockVars, link, inbox, lost, breaks, commands, added, srv,
                 loader, samp_base, bad>>

(* The peer goes away: frames in flight are cut off at some point, what    *)
(* the client had written and the server had not got is lost.              *)
LinkBreaks ==
  /\ link = "up"
  /\ breaks < MaxBreaks
  /\ breaks' = breaks + 1
  /\ link' = "broken"
  /\ \E n \in 0 .. Len(inbox) : inbox' = SubSeq(inbox, 1, n)
  /\ lost' = lost \cup {outbox[i] : i \in 1 .. Len(outbox)}
  /\ outbox' = <<>>
  /\ UNCHANGED <<sockVars, delivered, commands, added, srv, loader,
                 samp_base, bad>>

(* The network reports the break: from now on send() fails. *)
LinkResets ==
  /\ link = "broken"
  /\ link' = "reset"
  /\ UNCHANGED <<sockVars, inbox, outbox, delivered, lost, breaks, commands,
                 added, srv, loader, samp_base, bad>>

-----------------------------------------------------------------------------
SocketThread ==
  \/ Connect \/ ConnectFails \/ SendKey \/ ReceiveKey \/ ReceiveKeyFails
  \/ SendCredentials \/ AwaitUserData \/ AwaitHooksData \/ SetInited
  \/ WaitModules \/ WaitSamp \/ SendName \/ AwaitList
  \/ HeartbeatRead \/ HeartbeatNoData \/ HeartbeatDue \/ HeartbeatNotDue
  \/ SendNothing \/ SendCommand \/ SendCommandFails \/ ClearCommand
  \/ Cleanup

LoaderThread ==
  \/ LoaderPatchSeen \/ LoaderSocketInited \/ LoaderModulesInit
  \/ LoaderSampInit \/ LoaderInitialized \/ LoaderUnloads

Environment ==
  \/ ServerAnswers \/ ServerDenies \/ ServerBeats \/ ServerBeatsEarly
  \/ ServerCommands \/ ServerPutsUnknown \/ ServerGets
  \/ LinkBreaks \/ LinkResets

Stopped == ~Alive /\ UNCHANGED vars

Next == SocketThread \/ LoaderThread \/ AddCommand \/ Environment \/ Stopped

(* Both threads run; the game loads; a server that is waited for answers   *)
(* and can be connected to again; the ten seconds of the heartbeat pass.   *)
Fairness ==
  /\ WF_vars(SocketThread)
  /\ WF_vars(LoaderThread)
  /\ WF_vars(ServerAnswers \/ ServerDenies)
  /\ SF_vars(Connect)
  /\ SF_vars(HeartbeatDue)

Spec == Init /\ [][Next]_vars

FairSpec == Spec /\ Fairness

-----------------------------------------------------------------------------
(* Properties.                                                             *)

(* Type invariant, with what the socket thread's position says of the      *)
(* queue and of the link.                                                  *)
ThreadsOK ==
  /\ pc \in SocketPcs /\ loader \in LoaderPcs
  /\ m_inited \in BOOLEAN
  /\ answered \subseteq Greeting /\ skipped \subseteq Greeting
  /\ srv \in {"none", "credentials", "name", "ready", "denied"} \cup DOMAIN Owed
  /\ samp_base \in {"none", "null", "found"}

KeysOK ==
  /\ session \in Nat
  /\ aes_key \in Seq(Nat) /\ m_aes_key \in Seq(Nat)

NetworkOK ==
  /\ link \in {"none", "up", "broken", "reset"}
  /\ pc = "connect" => link = "none"
  /\ inbox \in Seq(Frames) /\ Len(inbox) <= InboxCap
  /\ outbox \in Seq(Nat) /\ delivered \in Seq(Nat) /\ lost \subseteq Nat
  /\ bad \in 0 .. MaxBad /\ breaks \in 0 .. MaxBreaks

QueueOK ==
  /\ added \in 0 .. MaxAdds
  /\ commands \in Seq(Nat)
  /\ pc = "hb_clear" => commands # <<>>

TypeOK == ThreadsOK /\ KeysOK /\ NetworkOK /\ QueueOK

(* Frames are crypted with the key of the connection they travel on, and   *)
(* with nothing of an earlier one: aes_key is appended to, so everything   *)
(* rests on tick() clearing it before it reconnects.                       *)
KeyIsFresh ==
  /\ pc \in {"connect", "send_key", "await_key"} => aes_key = <<>>
  /\ pc \notin {"connect", "send_key", "await_key", "cleanup", "terminated"}
       => m_aes_key = <<session>>

(* modules::samp() keeps the base it was built with: neither thread may    *)
(* reach it before modules::init has found the module.                     *)
SampBaseKnown == samp_base # "null"

(* The client loses no command itself: what was added has been delivered,  *)
(* is on its way, still queued, or was lost with a link, whatever failed   *)
(* between the send and the erase.                                         *)
NothingDroppedByClient ==
  1 .. added = ToSet(delivered) \cup lost \cup ToSet(outbox) \cup ToSet(Unsent)

(* The server gets the commands in the order they were added, none twice,  *)
(* across failed sends and reconnections; a lost one is never delivered.   *)
DeliveredInOrder ==
  /\ \A i, j \in 1 .. Len(delivered) : i < j => delivered[i] < delivered[j]
  /\ lost \cap ToSet(delivered) = {}

(* do_load goes on, to hooks that use the offsets of RECV_HOOKS_DATA, only *)
(* after the user data and the hooks data were processed, or a heartbeat   *)
(* was taken for one of them.                                              *)
InitedAfterGreeting ==
  loader \notin {"wait_patch", "wait_socket"}
    => {"USER", "HOOKS"} \subseteq answered \cup skipped

(* The process is only ended on a refusal, a broken link or a heartbeat    *)
(* out of turn: INVALID_HWID is the result of any failure at this point.   *)
TerminatedForAReason ==
  pc = "terminated" => srv = "denied" \/ breaks > 0 \/ bad > 0

(* The commands form a channel that neither duplicates nor reorders.       *)
Channel == INSTANCE CommandChannel
             WITH settled <- added - Outstanding
ChannelSpec == Channel!ChannelSpec

(* The loader and the socket thread wait for each other and both get on.   *)
LoaderFinishes == <>(~Alive \/ loader = "done")

(* Once nothing is added any more the queue of commands empties for good,  *)
(* whatever failed before.                                                 *)
Drained == <>[](~Alive \/ commands = <<>>)

(* A peer that has gone is noticed, without any command to send, and the   *)
(* client is connected again.                                              *)
BreakNoticed == link \in {"broken", "reset"} ~> (link = "up" \/ ~Alive)
=============================================================================
