---------------------------- MODULE SessionProofs ----------------------------
(***************************************************************************)
(* Proofs about Session, for every value of its bounds.                    *)
(***************************************************************************)
EXTENDS Session, SequenceTheorems, TLAPS

(* The definitions that only name parts of an action. *)
USE DEF sockVars, netVars, Alive, SendProtocol, SendGivesUp, Goto, CanSend,
        SendFails, AfterSend, NothingMore, Readable, ReceiveHigh,
        ReceiveHighFails, BuildSamp, LoaderGoto, ServerPuts

-----------------------------------------------------------------------------
(* Type correctness.                                                       *)

LEMMA InitTypeOK == Init => TypeOK
<1>1. Init => ThreadsOK
  BY DEF Init, ThreadsOK, SocketPcs, LoaderPcs
<1>2. Init => KeysOK
  BY DEF Init, KeysOK
<1>3. Init => NetworkOK
  BY BoundsAssumption DEF Init, NetworkOK
<1>4. Init => QueueOK
  BY BoundsAssumption DEF Init, QueueOK
<1> QED BY <1>1, <1>2, <1>3, <1>4 DEF TypeOK

(* What the steps of the socket thread touch: most of them neither write   *)
(* to the queue nor move a command, and few change the keys.               *)
Quiet ==
  /\ UNCHANGED <<outbox, delivered, lost, breaks, bad, commands, added>>
  /\ "hb_clear" \notin {pc, pc'} /\ pc' # "connect"
  /\ link' = link \/ (link = "broken" /\ link' = "reset")
  /\ inbox' = inbox \/ (inbox # <<>> /\ inbox' = Tail(inbox))

SocketFootprint ==
  /\ Connect \/ SendCommand \/ ClearCommand \/ Cleanup \/ Quiet
  /\ Connect \/ ReceiveKey \/ Cleanup \/ UNCHANGED <<session, aes_key, m_aes_key>>

LEMMA SocketSteps ==
  ASSUME SocketThread
  PROVE  SocketFootprint
BY DEF SocketFootprint, Quiet, SocketThread, Connect, ConnectFails, SendKey, ReceiveKey,
       ReceiveKeyFails, SendCredentials, AwaitUserData, AwaitHooksData,
       SetInited, WaitModules, WaitSamp, SendName, AwaitList, HeartbeatRead,
       HeartbeatNoData, HeartbeatDue, HeartbeatNotDue, SendNothing,
       SendCommand, SendCommandFails, ClearCommand, Cleanup

LEMMA SocketThreadsOK ==
  ASSUME TypeOK, SocketThread
  PROVE  ThreadsOK'
<1> USE DEF TypeOK, ThreadsOK, SocketPcs, LoaderPcs, Loop, Greeting, Owed
<1>1. CASE Connect \/ ConnectFails
  BY <1>1 DEF Connect, ConnectFails
<1>2. CASE SendKey
  BY <1>2 DEF SendKey
<1>3. CASE ReceiveKey \/ ReceiveKeyFails
  BY <1>3 DEF ReceiveKey, ReceiveKeyFails
<1>4. CASE SendCredentials
  BY <1>4 DEF SendCredentials
<1>5. CASE AwaitUserData
  BY <1>5 DEF AwaitUserData
<1>6. CASE AwaitHooksData
  BY <1>6 DEF AwaitHooksData
<1>7. CASE SetInited \/ WaitModules \/ WaitSamp
  BY <1>7 DEF SetInited, WaitModules, WaitSamp
<1>8. CASE SendName
  BY <1>8 DEF SendName
<1>9. CASE AwaitList
  BY <1>9 DEF AwaitList
<1>10. CASE HeartbeatRead \/ HeartbeatNoData
  BY <1>10 DEF HeartbeatRead, HeartbeatNoData
<1>11. CASE HeartbeatDue \/ HeartbeatNotDue
  BY <1>11 DEF HeartbeatDue, HeartbeatNotDue
<1>12. CASE SendNothing \/ SendCommand \/ SendCommandFails
  BY <1>12 DEF SendNothing, SendCommand, SendCommandFails
<1>13. CASE ClearCommand \/ Cleanup
  BY <1>13 DEF ClearCommand, Cleanup
<1> QED BY <1>1, <1>2, <1>3, <1>4, <1>5, <1>6, <1>7, <1>8, <1>9, <1>10, <1>11,
    <1>12, <1>13 DEF SocketThread

LEMMA SocketKeysOK ==
  ASSUME TypeOK, SocketThread
  PROVE  KeysOK'
<1> USE DEF TypeOK, KeysOK
<1>1. CASE Connect
  BY <1>1 DEF Connect
<1>2. CASE ReceiveKey
  <2>1. aes_key' = Append(aes_key, session) /\ m_aes_key' = Append(aes_key, session)
        /\ session' = session
    BY <1>2 DEF ReceiveKey
  <2> QED BY <2>1
<1>3. CASE Cleanup
  BY <1>3 DEF Cleanup
<1>4. CASE UNCHANGED <<session, aes_key, m_aes_key>>
  BY <1>4
<1> QED BY <1>1, <1>2, <1>3, <1>4, SocketSteps DEF SocketFootprint

LEMMA SocketNetworkOK ==
  ASSUME TypeOK, SocketThread
  PROVE  NetworkOK'
<1> USE DEF TypeOK, NetworkOK
<1>1. CASE Connect
  BY <1>1 DEF Connect
<1>2. CASE SendCommand
  <2>1. Head(commands) \in Nat
    BY <1>2 DEF SendCommand, QueueOK
  <2>2. outbox' \in Seq(Nat) /\ lost' \subseteq Nat
    <3>1. CASE link = "up"
      <4>1. outbox' = Append(outbox, Head(commands)) /\ lost' = lost
        BY <1>2, <3>1 DEF SendCommand
      <4> QED BY <2>1, <4>1
    <3>2. CASE link # "up"
      <4>1. outbox' = outbox /\ lost' = lost \cup {Head(commands)}
        BY <1>2, <3>2 DEF SendCommand
      <4> QED BY <2>1, <4>1
    <3> QED BY <3>1, <3>2
  <2>3. /\ link' \in {"up", "reset"}
        /\ pc' = "hb_clear"
        /\ UNCHANGED <<inbox, delivered, breaks, bad>>
    BY <1>2 DEF SendCommand
  <2> QED BY <2>2, <2>3
<1>3. CASE ClearCommand
  BY <1>3 DEF ClearCommand
<1>4. CASE Cleanup
  <2>1. PICK k \in 0 .. Len(outbox) :
          /\ delivered' = delivered \o SubSeq(outbox, 1, k)
          /\ lost' = lost \cup {outbox[i] : i \in k + 1 .. Len(outbox)}
    BY <1>4 DEF Cleanup
  <2>2. SubSeq(outbox, 1, k) \in Seq(Nat)
    <3>1. \A i \in 1 .. k : outbox[i] \in Nat
      OBVIOUS
    <3>2. 1 \in Int /\ k \in Int
      OBVIOUS
    <3> QED BY ONLY <3>1, <3>2, SubSeqProperties
  <2>3. delivered' \in Seq(Nat)
    BY <2>1, <2>2
  <2>4. lost' \subseteq Nat
    <3>1. lost' = lost \cup {outbox[i] : i \in k + 1 .. Len(outbox)}
      BY <2>1
    <3>2. lost \subseteq Nat /\ \A i \in k + 1 .. Len(outbox) : outbox[i] \in Nat
      OBVIOUS
    <3> QED BY ONLY <3>1, <3>2
  <2>5. /\ link' = "none" /\ inbox' = <<>> /\ outbox' = <<>>
        /\ UNCHANGED <<breaks, bad>>
    BY <1>4 DEF Cleanup
  <2>6. <<>> \in Seq(Frames) /\ <<>> \in Seq(Nat) /\ Len(<<>>) <= InboxCap
    BY BoundsAssumption, EmptySeq
  <2> QED BY <2>3, <2>4, <2>5, <2>6
<1>5. CASE Quiet
  <2>1. inbox' \in Seq(Frames) /\ Len(inbox') <= InboxCap
    <3>1. CASE inbox # <<>> /\ inbox' = Tail(inbox)
      <4>1. inbox' \in Seq(Frames) /\ Len(inbox') = Len(inbox) - 1
        BY <3>1, HeadTailProperties
      <4> QED BY <4>1, BoundsAssumption
    <3> QED BY <1>5, <3>1 DEF Quiet
  <2> QED BY <1>5, <2>1 DEF Quiet
<1> QED BY <1>1, <1>2, <1>3, <1>4, <1>5, SocketSteps DEF SocketFootprint

LEMMA SocketQueueOK ==
  ASSUME TypeOK, SocketThread
  PROVE  QueueOK'
<1> USE DEF TypeOK, QueueOK
<1>1. CASE Connect
  BY <1>1 DEF Connect
<1>2. CASE SendCommand
  BY <1>2 DEF SendCommand
<1>3. CASE ClearCommand
  BY <1>3 DEF ClearCommand
<1>4. CASE Cleanup
  BY <1>4 DEF Cleanup
<1>5. CASE Quiet
  BY <1>5 DEF Quiet
<1> QED BY <1>1, <1>2, <1>3, <1>4, <1>5, SocketSteps DEF SocketFootprint

LEMMA SocketTypeOK ==
  ASSUME TypeOK, SocketThread
  PROVE  TypeOK'
BY SocketThreadsOK, SocketKeysOK, SocketNetworkOK, SocketQueueOK DEF TypeOK

LEMMA LoaderTypeOK ==
  ASSUME TypeOK, LoaderThread
  PROVE  TypeOK'
<1> USE DEF LoaderThread, LoaderPatchSeen, LoaderSocketInited,
            LoaderModulesInit, LoaderSampInit, LoaderInitialized, LoaderUnloads
<1>1. ThreadsOK'
  BY DEF TypeOK, ThreadsOK, LoaderPcs
<1>2. KeysOK' /\ NetworkOK' /\ QueueOK'
  BY DEF TypeOK, KeysOK, NetworkOK, QueueOK
<1> QED BY <1>1, <1>2 DEF TypeOK

LEMMA ServerTypeOK ==
  ASSUME TypeOK, NEW frame \in Frames, ServerPuts(frame),
         \/ ServerAnswers \/ ServerDenies \/ ServerBeats
         \/ ServerBeatsEarly \/ ServerCommands \/ ServerPutsUnknown
  PROVE  TypeOK'
<1> USE DEF ServerAnswers, ServerDenies, ServerBeats, ServerBeatsEarly,
            ServerCommands, ServerPutsUnknown
<1>1. ThreadsOK'
  BY DEF TypeOK, ThreadsOK, Owed, ThenWaits
<1>2. KeysOK' /\ QueueOK'
  BY DEF TypeOK, KeysOK, QueueOK
<1>3. NetworkOK'
  <2>1. inbox' \in Seq(Frames) /\ Len(inbox') <= InboxCap
    BY BoundsAssumption DEF TypeOK, NetworkOK
  <2>2. bad' \in 0 .. MaxBad
    BY BoundsAssumption DEF TypeOK, NetworkOK
  <2> QED BY <2>1, <2>2 DEF TypeOK, NetworkOK
<1> QED BY <1>1, <1>2, <1>3 DEF TypeOK

LEMMA EnvironmentTypeOK ==
  ASSUME TypeOK, Environment
  PROVE  TypeOK'
<1>1. CASE ServerAnswers
  <2>1. Owed[srv] \in Frames
    BY <1>1 DEF ServerAnswers, Owed, Frames, Greeting
  <2> QED BY <1>1, <2>1, ServerTypeOK DEF ServerAnswers
<1>2. CASE ServerDenies \/ ServerBeats \/ ServerBeatsEarly \/ ServerCommands
           \/ ServerPutsUnknown
  <2>1. {"DENY", "HEARTBEAT", "CMD", "UNKNOWN"} \subseteq Frames
    BY DEF Frames
  <2> QED BY <1>2, <2>1, ServerTypeOK
          DEF ServerDenies, ServerBeats, ServerBeatsEarly, ServerCommands,
              ServerPutsUnknown
<1>3. CASE ServerGets
  <2>1. Head(outbox) \in Nat /\ Tail(outbox) \in Seq(Nat)
    BY <1>3 DEF ServerGets, TypeOK, NetworkOK
  <2>2. NetworkOK'
    BY <1>3, <2>1 DEF ServerGets, TypeOK, NetworkOK
  <2> QED BY <1>3, <2>2
          DEF ServerGets, TypeOK, ThreadsOK, KeysOK, QueueOK
<1>4. CASE LinkBreaks
  <2>1. PICK n \in 0 .. Len(inbox) : inbox' = SubSeq(inbox, 1, n)
    BY <1>4 DEF LinkBreaks
  <2>2. inbox' \in Seq(Frames) /\ Len(inbox') <= InboxCap
    <3>1. inbox \in Seq(Frames) /\ Len(inbox) <= InboxCap
      BY DEF TypeOK, NetworkOK
    <3>2. \A i \in 1 .. n : inbox[i] \in Frames
      BY <3>1
    <3>3. /\ SubSeq(inbox, 1, n) \in Seq(Frames)
          /\ Len(SubSeq(inbox, 1, n)) = IF 1 <= n THEN n - 1 + 1 ELSE 0
      BY <3>2, SubSeqProperties
    <3> QED BY <2>1, <3>1, <3>3, BoundsAssumption
  <2>3. lost' \subseteq Nat
    <3>1. lost' = lost \cup {outbox[i] : i \in 1 .. Len(outbox)}
      BY <1>4 DEF LinkBreaks
    <3>2. lost \subseteq Nat /\ \A i \in 1 .. Len(outbox) : outbox[i] \in Nat
      BY DEF TypeOK, NetworkOK
    <3> QED BY <3>1, <3>2
  <2>4. /\ link = "up" /\ link' = "broken" /\ pc' = pc
        /\ breaks < MaxBreaks /\ breaks' = breaks + 1
        /\ outbox' = <<>> /\ delivered' = delivered /\ bad' = bad
    BY <1>4 DEF LinkBreaks
  <2>5. NetworkOK'
    BY <2>2, <2>3, <2>4, BoundsAssumption DEF TypeOK, NetworkOK
  <2> QED BY <1>4, <2>5
          DEF LinkBreaks, TypeOK, ThreadsOK, KeysOK, QueueOK
<1>5. CASE LinkResets
  BY <1>5 DEF LinkResets, TypeOK, ThreadsOK, KeysOK, NetworkOK, QueueOK
<1> QED BY <1>1, <1>2, <1>3, <1>4, <1>5 DEF Environment

(* The state keeps its shape: the socket thread is where it may be, and it *)
(* erases from commands_list only what is there.                           *)
THEOREM TypeCorrect == Spec => []TypeOK
<1>1. Init => TypeOK
  BY InitTypeOK
<1>2. TypeOK /\ [Next]_vars => TypeOK'
  <2> SUFFICES ASSUME TypeOK, [Next]_vars PROVE TypeOK'
    OBVIOUS
  <2>1. CASE SocketThread
    BY <2>1, SocketTypeOK
  <2>2. CASE LoaderThread
    BY <2>2, LoaderTypeOK
  <2>3. CASE AddCommand
    <3>1. QueueOK'
      BY <2>3, BoundsAssumption DEF AddCommand, TypeOK, QueueOK
    <3> QED BY <2>3, <3>1 DEF AddCommand, TypeOK, ThreadsOK, KeysOK, NetworkOK
  <2>4. CASE Environment
    BY <2>4, EnvironmentTypeOK
  <2>5. CASE UNCHANGED vars
    BY <2>5 DEF vars, TypeOK, ThreadsOK, KeysOK, NetworkOK, QueueOK
  <2> QED BY <2>1, <2>2, <2>3, <2>4, <2>5 DEF Next, Stopped
<1> QED BY <1>1, <1>2, PTL DEF Spec

-----------------------------------------------------------------------------
(* Keys.                                                                   *)

LEMMA SocketKeepsKeysFresh ==
  ASSUME KeyIsFresh, SocketThread
  PROVE  KeyIsFresh'
<1> USE DEF KeyIsFresh
<1>1. CASE ReceiveKey
  <2>1. /\ pc = "await_key" /\ pc' = "credentials" /\ session' = session
        /\ m_aes_key' = Append(aes_key, session)
    BY <1>1 DEF ReceiveKey
  <2>2. Append(<<>>, session) = <<session>>
    OBVIOUS
  <2> QED BY <2>1, <2>2
<1>2. CASE SocketThread /\ ~ReceiveKey
  BY <1>2
  DEF SocketThread, Connect, ConnectFails, SendKey,
       ReceiveKeyFails, SendCredentials, AwaitUserData, AwaitHooksData,
       SetInited, WaitModules, WaitSamp, SendName, AwaitList, HeartbeatRead,
       HeartbeatNoData, HeartbeatDue, HeartbeatNotDue, SendNothing,
       SendCommand, SendCommandFails, ClearCommand, Cleanup
<1> QED BY <1>1, <1>2

LEMMA OthersLeaveSocketThread ==
  ASSUME LoaderThread \/ AddCommand \/ Environment
  PROVE  UNCHANGED sockVars
BY DEF LoaderThread, LoaderPatchSeen, LoaderSocketInited, LoaderModulesInit,
       LoaderSampInit, LoaderInitialized, LoaderUnloads, AddCommand,
       Environment, ServerAnswers, ServerDenies, ServerBeats, ServerBeatsEarly,
       ServerCommands, ServerPutsUnknown, ServerGets, LinkBreaks,
       LinkResets

(* In every session frames are crypted with the key of that session and    *)
(* with nothing of an earlier one, however the earlier one ended.          *)
THEOREM KeysFresh == Spec => []KeyIsFresh
<1>1. Init => KeyIsFresh
  BY DEF Init, KeyIsFresh
<1>2. KeyIsFresh /\ [Next]_vars => KeyIsFresh'
  <2> SUFFICES ASSUME KeyIsFresh, [Next]_vars PROVE KeyIsFresh'
    OBVIOUS
  <2>1. CASE SocketThread
    BY <2>1, SocketKeepsKeysFresh
  <2>2. CASE UNCHANGED sockVars
    BY <2>2 DEF KeyIsFresh
  <2> QED BY <2>1, <2>2, OthersLeaveSocketThread DEF Next, Stopped, vars
<1> QED BY <1>1, <1>2, PTL DEF Spec

-----------------------------------------------------------------------------
(* What the loader and the socket thread may rely on.                      *)

LEMMA SocketLeavesLoader ==
  ASSUME SocketThread
  PROVE  /\ UNCHANGED loader
         /\ WaitModules \/ UNCHANGED samp_base
BY DEF SocketThread, Connect, ConnectFails, SendKey, ReceiveKey,
       ReceiveKeyFails, SendCredentials, AwaitUserData, AwaitHooksData,
       SetInited, WaitModules, WaitSamp, SendName, AwaitList, HeartbeatRead,
       HeartbeatNoData, HeartbeatDue, HeartbeatNotDue, SendNothing,
       SendCommand, SendCommandFails, ClearCommand, Cleanup

LEMMA OthersLeaveLoader ==
  ASSUME AddCommand \/ Environment
  PROVE  UNCHANGED <<loader, samp_base>>
BY DEF AddCommand, Environment, ServerAnswers, ServerDenies, ServerBeats, ServerBeatsEarly,
       ServerCommands, ServerPutsUnknown, ServerGets, LinkBreaks,
       LinkResets

(* modules::samp() is never built with a base that is not known yet.       *)
THEOREM SampBaseIsKnown == Spec => []SampBaseKnown
<1>1. Init => SampBaseKnown
  BY DEF Init, SampBaseKnown
<1>2. SampBaseKnown /\ [Next]_vars => SampBaseKnown'
  <2> SUFFICES ASSUME SampBaseKnown, [Next]_vars PROVE SampBaseKnown'
    OBVIOUS
  <2> USE DEF SampBaseKnown, ModulesInited
  <2>1. CASE SocketThread
    <3>1. CASE WaitModules
      BY <3>1 DEF WaitModules
    <3> QED BY <2>1, <3>1, SocketLeavesLoader
  <2>2. CASE LoaderThread
    BY <2>2 DEF LoaderThread, LoaderPatchSeen, LoaderSocketInited,
                LoaderModulesInit, LoaderSampInit, LoaderInitialized,
                LoaderUnloads
  <2>3. CASE AddCommand \/ Environment
    BY <2>3, OthersLeaveLoader
  <2>4. CASE UNCHANGED vars
    BY <2>4 DEF vars
  <2> QED BY <2>1, <2>2, <2>3, <2>4 DEF Next, Stopped
<1> QED BY <1>1, <1>2, PTL DEF Spec

(* Each greeting answer is processed or skipped before the thread goes on. *)
GreetingInv ==
  /\ pc = "await_hooks" => "USER" \in answered \cup skipped
  /\ pc = "inited" \/ m_inited
       => {"USER", "HOOKS"} \subseteq answered \cup skipped
  /\ loader \notin {"wait_patch", "wait_socket"} => m_inited

LEMMA SocketKeepsGreeting ==
  ASSUME GreetingInv, SocketThread
  PROVE  GreetingInv'
BY SocketLeavesLoader
   DEF GreetingInv, SocketThread, Connect, ConnectFails, SendKey, ReceiveKey,
       ReceiveKeyFails, SendCredentials, AwaitUserData, AwaitHooksData,
       SetInited, WaitModules, WaitSamp, SendName, AwaitList, HeartbeatRead,
       HeartbeatNoData, HeartbeatDue, HeartbeatNotDue, SendNothing,
       SendCommand, SendCommandFails, ClearCommand, Cleanup

(* do_load goes on to install the hooks only after the greeting.           *)
THEOREM LoaderAfterGreeting == Spec => []InitedAfterGreeting
<1>1. Init => GreetingInv
  BY DEF Init, GreetingInv
<1>2. GreetingInv /\ [Next]_vars => GreetingInv'
  <2> SUFFICES ASSUME GreetingInv, [Next]_vars PROVE GreetingInv'
    OBVIOUS
  <2>1. CASE SocketThread
    BY <2>1, SocketKeepsGreeting
  <2>2. CASE LoaderThread
    BY <2>2 DEF GreetingInv, LoaderThread, LoaderPatchSeen, LoaderSocketInited,
                LoaderModulesInit, LoaderSampInit, LoaderInitialized,
                LoaderUnloads
  <2>3. CASE AddCommand \/ Environment
    BY <2>3, OthersLeaveLoader, OthersLeaveSocketThread DEF GreetingInv
  <2>4. CASE UNCHANGED vars
    BY <2>4 DEF vars, GreetingInv
  <2> QED BY <2>1, <2>2, <2>3, <2>4 DEF Next, Stopped
<1>3. GreetingInv => InitedAfterGreeting
  BY DEF GreetingInv, InitedAfterGreeting
<1> QED BY <1>1, <1>2, <1>3, PTL DEF Spec

-----------------------------------------------------------------------------
(* The greeting as a dialogue.                                             *)

(* Until a link breaks or the server speaks out of turn, each side knows   *)
(* where the other is in the greeting.                                     *)
Undisturbed == breaks = 0 /\ bad = 0

InTurn(owes, frames) == srv = owes /\ inbox = frames

GreetingOrder ==
  /\ link \in {"none", "up"}
  /\ pc \notin {"connect", "cleanup"} => link = "up"
  /\ pc = "connect" => link = "none"
  /\ pc \in {"connect", "send_key"} => InTurn("none", <<>>)
  /\ pc = "await_key" => InTurn("key", <<>>) \/ InTurn("credentials", <<"KEY">>)
  /\ pc = "credentials" => InTurn("credentials", <<>>)
  /\ pc = "await_user" =>
       \/ InTurn("user", <<>>)
       \/ InTurn("hooks", <<"USER">>)
       \/ InTurn("name", <<"USER", "HOOKS">>)
       \/ InTurn("denied", <<"DENY">>)
  /\ pc = "terminated" => srv = "denied"

OrderInv == Undisturbed => GreetingOrder

(* Once disturbed, the session stays so. *)
LEMMA DisturbedForGood ==
  ASSUME TypeOK, [Next]_vars, Undisturbed'
  PROVE  Undisturbed
<1>1. breaks \in Nat /\ bad \in Nat
  BY BoundsAssumption DEF TypeOK, NetworkOK
<1>2. CASE SocketThread
  BY <1>2, SocketSteps DEF SocketFootprint, Quiet, Connect, SendCommand, ClearCommand, Cleanup,
                           Undisturbed
<1>3. CASE LoaderThread \/ AddCommand
  BY <1>3 DEF LoaderThread, LoaderPatchSeen, LoaderSocketInited, LoaderModulesInit,
              LoaderSampInit, LoaderInitialized, LoaderUnloads, AddCommand, Undisturbed
<1>4. CASE Environment
  BY <1>1, <1>4
     DEF Environment, ServerAnswers, ServerDenies, ServerBeats, ServerBeatsEarly,
         ServerCommands, ServerPutsUnknown, ServerGets, LinkBreaks, LinkResets, Undisturbed
<1>5. CASE UNCHANGED vars
  BY <1>5 DEF vars, Undisturbed
<1> QED BY <1>2, <1>3, <1>4, <1>5 DEF Next, Stopped

LEMMA FewFrames ==
  /\ Tail(<<"KEY">>) = <<>>
  /\ Append(<<>>, "KEY") = <<"KEY">> /\ Append(<<>>, "USER") = <<"USER">>
  /\ Append(<<>>, "DENY") = <<"DENY">>
  /\ Append(<<"USER">>, "HOOKS") = <<"USER", "HOOKS">>
<1>1. Tail(<<"KEY">>) = <<>>
  OBVIOUS
<1>2. Append(<<>>, "KEY") = <<"KEY">> /\ Append(<<>>, "USER") = <<"USER">>
  OBVIOUS
<1>3. Append(<<>>, "DENY") = <<"DENY">>
  OBVIOUS
<1>4. Append(<<"USER">>, "HOOKS") = <<"USER", "HOOKS">>
  <2> DEFINE both == Append(<<"USER">>, "HOOKS")
  <2>1. <<"USER">> \in Seq(Greeting) /\ <<"USER", "HOOKS">> \in Seq(Greeting)
    BY DEF Greeting
  <2>2. both \in Seq(Greeting) /\ Len(both) = 2 /\ both[1] = "USER" /\ both[2] = "HOOKS"
    BY <2>1 DEF Greeting
  <2> HIDE DEF both
  <2>3. Len(both) = Len(<<"USER", "HOOKS">>)
    BY <2>2
  <2>4. \A i \in 1 .. Len(both) : both[i] = <<"USER", "HOOKS">>[i]
    BY <2>2
  <2>5. both = <<"USER", "HOOKS">>
    BY ONLY <2>1, <2>2, <2>3, <2>4, SeqEqual
  <2> QED BY <2>5 DEF both
<1> QED BY <1>1, <1>2, <1>3, <1>4

(* The client reads an answer only when it is there and of the kind it     *)
(* waits for, since frames are readable with the key of this session.      *)
LEMMA SocketKeepsOrder ==
  ASSUME KeyIsFresh, GreetingOrder, SocketThread
  PROVE  GreetingOrder'
<1> USE DEF GreetingOrder, InTurn
<1>1. CASE Connect \/ ConnectFails
  BY <1>1 DEF Connect, ConnectFails
<1>2. CASE SendKey
  BY <1>2 DEF SendKey
<1>3. CASE ReceiveKey \/ ReceiveKeyFails
  BY <1>3, FewFrames DEF ReceiveKey, ReceiveKeyFails
<1>4. CASE SendCredentials
  BY <1>4 DEF SendCredentials
<1>5. CASE AwaitUserData
  <2>1. pc = "await_user" /\ link = "up" /\ Readable
    BY <1>5 DEF AwaitUserData, KeyIsFresh
  <2>2. /\ inbox # <<>> /\ UNCHANGED <<link, srv>>
        /\ \/ pc' = "terminated" /\ Head(inbox) # "USER"
           \/ pc' = "await_hooks"
    BY <1>5, <2>1 DEF AwaitUserData
  <2> QED BY <2>1, <2>2
<1>6. CASE AwaitHooksData \/ AwaitList
  BY <1>6 DEF AwaitHooksData, AwaitList
<1>7. CASE SetInited \/ WaitModules \/ WaitSamp
  BY <1>7 DEF SetInited, WaitModules, WaitSamp
<1>8. CASE SendName
  BY <1>8 DEF SendName
<1>9. CASE HeartbeatRead \/ HeartbeatNoData \/ HeartbeatDue \/ HeartbeatNotDue
  BY <1>9 DEF HeartbeatRead, HeartbeatNoData, HeartbeatDue, HeartbeatNotDue
<1>10. CASE SendNothing \/ SendCommand \/ SendCommandFails \/ ClearCommand
  BY <1>10 DEF SendNothing, SendCommand, SendCommandFails, ClearCommand
<1>11. CASE Cleanup
  BY <1>11 DEF Cleanup
<1> QED BY <1>1, <1>2, <1>3, <1>4, <1>5, <1>6, <1>7, <1>8, <1>9, <1>10, <1>11
        DEF SocketThread

LEMMA EnvironmentKeepsOrder ==
  ASSUME TypeOK, GreetingOrder, Environment, Undisturbed, Undisturbed'
  PROVE  GreetingOrder'
<1> USE DEF GreetingOrder, InTurn
<1>1. CASE ServerAnswers
  <2>1. pc' = pc /\ link' = link /\ srv' = ThenWaits[srv] /\ inbox' = Append(inbox, Owed[srv])
    BY <1>1 DEF ServerAnswers
  <2>2. srv \in {"key", "user", "hooks", "list"}
    BY <1>1 DEF ServerAnswers, Owed
  <2>3. CASE srv = "key"
    BY <2>1, <2>3, FewFrames DEF Owed, ThenWaits
  <2>4. CASE srv = "user"
    BY <2>1, <2>4, FewFrames DEF Owed, ThenWaits
  <2>5. CASE srv = "hooks"
    BY <2>1, <2>5, FewFrames DEF Owed, ThenWaits
  <2>6. CASE srv = "list"
    BY <2>1, <2>6 DEF Owed, ThenWaits
  <2> QED BY <2>2, <2>3, <2>4, <2>5, <2>6
<1>2. CASE ServerDenies
  BY <1>2, FewFrames DEF ServerDenies
<1>3. CASE ServerBeats \/ ServerCommands \/ ServerGets
  BY <1>3 DEF ServerBeats, ServerCommands, ServerGets
<1>4. CASE ServerBeatsEarly \/ ServerPutsUnknown \/ LinkBreaks
  <2>1. breaks \in Nat /\ bad \in Nat
    BY BoundsAssumption DEF TypeOK, NetworkOK
  <2> QED BY <1>4, <2>1 DEF ServerBeatsEarly, ServerPutsUnknown, LinkBreaks, Undisturbed
<1>5. CASE LinkResets
  BY <1>5 DEF LinkResets
<1> QED BY <1>1, <1>2, <1>3, <1>4, <1>5 DEF Environment

(* The process is ended only after a refusal, a broken link or a frame out *)
(* of turn: between a client and a server that keep to the greeting,       *)
(* INVALID_HWID, which any failure at this point amounts to, comes of      *)
(* nothing but the server's answer (socket_handler.h).                     *)
THEOREM TerminatesForAReason == Spec => []TerminatedForAReason
<1>1. Init => OrderInv
  BY DEF Init, OrderInv, GreetingOrder, InTurn
<1>2. TypeOK /\ KeyIsFresh /\ OrderInv /\ [Next]_vars => OrderInv'
  <2> SUFFICES ASSUME TypeOK, KeyIsFresh, OrderInv, [Next]_vars, Undisturbed'
               PROVE  GreetingOrder'
    BY DEF OrderInv
  <2>1. Undisturbed /\ GreetingOrder
    BY DisturbedForGood DEF OrderInv
  <2>2. CASE SocketThread
    BY <2>1, <2>2, SocketKeepsOrder
  <2>3. CASE LoaderThread \/ AddCommand
    BY <2>1, <2>3
       DEF LoaderThread, LoaderPatchSeen, LoaderSocketInited, LoaderModulesInit,
           LoaderSampInit, LoaderInitialized, LoaderUnloads, AddCommand, GreetingOrder, InTurn
  <2>4. CASE Environment
    BY <2>1, <2>4, EnvironmentKeepsOrder
  <2>5. CASE UNCHANGED vars
    BY <2>1, <2>5 DEF vars, GreetingOrder, InTurn
  <2> QED BY <2>2, <2>3, <2>4, <2>5 DEF Next, Stopped
<1>3. TypeOK /\ OrderInv => TerminatedForAReason
  <2> SUFFICES ASSUME TypeOK, OrderInv, pc = "terminated", ~(breaks > 0), ~(bad > 0)
               PROVE  srv = "denied"
    BY DEF TerminatedForAReason
  <2>1. Undisturbed
    BY BoundsAssumption DEF TypeOK, NetworkOK, Undisturbed
  <2> QED BY <2>1 DEF OrderInv, GreetingOrder
<1> QED BY <1>1, <1>2, <1>3, TypeCorrect, KeysFresh, PTL DEF Spec

-----------------------------------------------------------------------------
(* The commands as a channel.                                              *)

(* Commands are numbered in the order of add_command, and what is on its   *)
(* way comes just before what is still queued.                             *)
NumberedInv ==
  /\ Len(commands) <= added
  /\ \A i \in 1 .. Len(commands) : commands[i] = added - Len(commands) + i
  /\ Outstanding <= added
  /\ \A i \in 1 .. Len(outbox) : outbox[i] = added - Outstanding + i
  /\ link # "up" => outbox = <<>>

(* A step of the queue: nothing moves, a command is added, or the fate of  *)
(* the oldest outstanding commands is decided.                             *)
Decided(k, l) ==
  /\ k + l <= Outstanding
  /\ Outstanding' = Outstanding - (k + l)
  /\ added' = added
  /\ delivered' = delivered \o [i \in 1 .. k |-> added - Outstanding + i]
  /\ lost' = lost \cup (added - Outstanding + k + 1 .. added - Outstanding + k + l)

QueueStep ==
  \/ UNCHANGED <<added, Outstanding, delivered, lost>>
  \/ added' = added + 1 /\ Outstanding' = Outstanding + 1 /\ UNCHANGED <<delivered, lost>>
  \/ \E k, l \in 0 .. added : Decided(k, l)

LEMMA LengthsAreNat ==
  ASSUME TypeOK
  PROVE  /\ Len(commands) \in Nat /\ Len(outbox) \in Nat /\ Len(Unsent) \in Nat
         /\ added \in Nat /\ Outstanding \in Nat
         /\ Unsent \in Seq(Nat)
<1> USE DEF TypeOK, NetworkOK, QueueOK
<1>1. Unsent \in Seq(Nat)
  BY HeadTailProperties DEF Unsent
<1>2. Len(commands) \in Nat /\ Len(outbox) \in Nat /\ added \in Nat
  BY BoundsAssumption
<1> QED BY <1>1, <1>2 DEF Outstanding

(* send_aes_message moves the first command to the socket, or loses it.    *)
LEMMA SendCommandNumbered ==
  ASSUME TypeOK, NumberedInv, SendCommand
  PROVE  NumberedInv' /\ QueueStep
<1>1. /\ pc = "hb_send" /\ pc' = "hb_clear"
      /\ commands # <<>> /\ commands' = commands /\ added' = added
      /\ delivered' = delivered
  BY DEF SendCommand
<1>2. commands \in Seq(Nat) /\ outbox \in Seq(Nat) /\ added \in Nat
  BY BoundsAssumption DEF TypeOK, NetworkOK, QueueOK
<1>3. Unsent = commands /\ Unsent' = Tail(commands)
  BY <1>1 DEF Unsent
<1>4. /\ Len(Tail(commands)) = Len(commands) - 1
      /\ Len(commands) \in Nat \ {0} /\ Len(outbox) \in Nat
      /\ Head(commands) = commands[1]
  BY <1>1, <1>2, HeadTailProperties, EmptySeq
<1>5. Head(commands) = added - Len(commands) + 1
  BY <1>4 DEF NumberedInv
<1>6. CASE link = "up"
  <2>1. outbox' = Append(outbox, Head(commands)) /\ lost' = lost /\ link' = "up"
    BY <1>6 DEF SendCommand
  <2>2. /\ Len(outbox') = Len(outbox) + 1
        /\ \A i \in 1 .. Len(outbox) : outbox'[i] = outbox[i]
        /\ outbox'[Len(outbox) + 1] = Head(commands)
    BY <2>1, <1>2, <1>1
  <2>3. Outstanding' = Outstanding
    BY <2>2, <1>3, <1>4 DEF Outstanding
  <2>4. \A i \in 1 .. Len(outbox') : outbox'[i] = added - Outstanding + i
    <3>1. outbox'[Len(outbox) + 1] = added - Outstanding + (Len(outbox) + 1)
      <4>1. Outstanding = Len(outbox) + Len(commands)
        BY <1>3 DEF Outstanding
      <4>2. added \in Int /\ Len(outbox) \in Int /\ Len(commands) \in Int
        BY <1>2, <1>4
      <4>3. added - Len(commands) + 1 = added - Outstanding + (Len(outbox) + 1)
        BY ONLY <4>1, <4>2
      <4> QED BY ONLY <4>3, <2>2, <1>5
    <3>2. \A i \in 1 .. Len(outbox) : outbox'[i] = added - Outstanding + i
      BY <2>2 DEF NumberedInv
    <3>3. \A i \in 1 .. Len(outbox) + 1 :
            i \in 1 .. Len(outbox) \/ i = Len(outbox) + 1
      BY <1>4
    <3> QED BY ONLY <2>2, <3>1, <3>2, <3>3
  <2> QED BY <2>1, <2>3, <2>4, <1>1 DEF NumberedInv, QueueStep
<1>7. CASE link # "up"
  <2>1. outbox' = outbox /\ lost' = lost \cup {Head(commands)} /\ outbox = <<>>
    BY <1>7 DEF SendCommand, NumberedInv
  <2>2. Outstanding = Len(commands) /\ Outstanding' = Len(commands) - 1
    BY <2>1, <1>3, <1>4 DEF Outstanding
  <2>3. Decided(0, 1)
    <3>1. [i \in 1 .. 0 |-> added - Outstanding + i] = <<>>
      OBVIOUS
    <3>2. delivered \in Seq(Nat)
      BY DEF TypeOK, NetworkOK
    <3>3. delivered' = delivered \o [i \in 1 .. 0 |-> added - Outstanding + i]
      BY <3>1, <3>2, <1>1, ConcatEmptySeq
    <3>4. lost' = lost \cup (added - Outstanding + 0 + 1 .. added - Outstanding + 0 + 1)
      <4>1. added - Outstanding \in Int /\ Head(commands) = added - Outstanding + 1
        BY <2>2, <1>2, <1>4, <1>5
      <4>2. \A x \in Int : x + 0 + 1 .. x + 0 + 1 = {x + 1}
        OBVIOUS
      <4> QED BY <4>1, <4>2, <2>1
    <3> QED BY <3>3, <3>4, <2>2, <1>1, <1>2, <1>4 DEF Decided
  <2>4. 0 \in 0 .. added /\ 1 \in 0 .. added
    BY <1>2, <1>4 DEF NumberedInv
  <2>5. QueueStep
    BY <2>3, <2>4 DEF QueueStep
  <2>6. NumberedInv'
    BY <2>1, <2>2, <1>1, <1>2, <1>4 DEF NumberedInv
  <2> QED BY <2>5, <2>6
<1> QED BY <1>6, <1>7

(* The loss of everything that is on its way, or of all but its first k.   *)
LEMMA OutboxSettled ==
  ASSUME TypeOK, NumberedInv, NEW k \in 0 .. Len(outbox),
         delivered' = delivered \o SubSeq(outbox, 1, k),
         lost' = lost \cup {outbox[i] : i \in k + 1 .. Len(outbox)},
         outbox' = <<>>, Unsent' = Unsent, added' = added
  PROVE  Decided(k, Len(outbox) - k)
<1> DEFINE settled == added - Outstanding
<1>1. /\ added \in Nat /\ Outstanding \in Nat /\ settled \in Nat
      /\ Len(outbox) \in Nat /\ Len(Unsent) \in Nat /\ k \in Nat
  BY LengthsAreNat DEF NumberedInv
<1>2. Outstanding' = Outstanding - (k + (Len(outbox) - k))
  BY <1>1 DEF Outstanding
<1>3. k + (Len(outbox) - k) <= Outstanding
  BY <1>1 DEF Outstanding
<1>4. SubSeq(outbox, 1, k) = [i \in 1 .. k |-> settled + i]
  <2>1. outbox \in Seq(Nat) /\ \A i \in 1 .. Len(outbox) : outbox[i] = settled + i
    BY DEF TypeOK, NetworkOK, NumberedInv
  <2> HIDE DEF settled
  <2> QED BY <2>1, <1>1
<1>5. {outbox[i] : i \in k + 1 .. Len(outbox)}
        = settled + k + 1 .. settled + k + (Len(outbox) - k)
  <2>1. \A i \in 1 .. Len(outbox) : outbox[i] = settled + i
    BY DEF NumberedInv
  <2> HIDE DEF settled
  <2>2. ASSUME NEW x \in settled + k + 1 .. settled + k + (Len(outbox) - k)
        PROVE  \E i \in k + 1 .. Len(outbox) : x = outbox[i]
    <3>1. x - settled \in k + 1 .. Len(outbox) /\ x = settled + (x - settled)
      BY <1>1
    <3>2. x = outbox[x - settled]
      BY <3>1, <2>1, <1>1
    <3> QED BY <3>1, <3>2
  <2>3. \A i \in k + 1 .. Len(outbox) :
          outbox[i] \in settled + k + 1 .. settled + k + (Len(outbox) - k)
    BY <2>1, <1>1
  <2> QED BY <2>2, <2>3
<1> QED BY <1>2, <1>3, <1>4, <1>5 DEF Decided

LEMMA SocketNumbered ==
  ASSUME TypeOK, NumberedInv, SocketThread
  PROVE  NumberedInv' /\ QueueStep
<1>1. CASE SendCommand
  BY <1>1, SendCommandNumbered
<1>2. CASE Quiet \/ Connect
  <2>1. UNCHANGED <<outbox, commands, added, delivered, lost>>
        /\ Unsent' = Unsent
        /\ (link' # "up" => link # "up")
    BY <1>2 DEF Quiet, Connect, Unsent
  <2> QED BY <2>1 DEF NumberedInv, QueueStep, Outstanding
<1>3. CASE ClearCommand
  <2>1. /\ pc = "hb_clear" /\ pc' = "hb_read" /\ commands' = Tail(commands)
        /\ UNCHANGED <<outbox, added, delivered, lost, link>>
    BY <1>3 DEF ClearCommand
  <2>2. Unsent' = Unsent
    BY <2>1 DEF Unsent
  <2>3. commands \in Seq(Nat) /\ commands # <<>> /\ added \in Nat
    BY <2>1, BoundsAssumption DEF TypeOK, QueueOK
  <2>4. /\ Len(commands) \in Nat /\ Len(commands') = Len(commands) - 1
        /\ \A i \in 1 .. Len(commands') : commands'[i] = commands[i + 1]
    BY <2>1, <2>3, HeadTailProperties
  <2>5. Len(commands') <= added'
        /\ \A i \in 1 .. Len(commands') : commands'[i] = added' - Len(commands') + i
    BY <2>1, <2>3, <2>4 DEF NumberedInv
  <2> QED BY <2>1, <2>2, <2>5 DEF NumberedInv, QueueStep, Outstanding
<1>4. CASE Cleanup
  <2>1. PICK k \in 0 .. Len(outbox) :
          /\ delivered' = delivered \o SubSeq(outbox, 1, k)
          /\ lost' = lost \cup {outbox[i] : i \in k + 1 .. Len(outbox)}
    BY <1>4 DEF Cleanup
  <2>2. /\ outbox' = <<>> /\ Unsent' = Unsent
        /\ UNCHANGED <<added, commands>>
    BY <1>4 DEF Cleanup, Unsent
  <2>3. Decided(k, Len(outbox) - k)
    BY <2>1, <2>2, OutboxSettled
  <2>4. k \in 0 .. added /\ Len(outbox) - k \in 0 .. added
    BY LengthsAreNat DEF NumberedInv, Outstanding
  <2>5. Outstanding' <= added'
    BY <2>2, LengthsAreNat DEF NumberedInv, Outstanding
  <2> QED BY <2>2, <2>3, <2>4, <2>5 DEF NumberedInv, QueueStep
<1> QED BY <1>1, <1>2, <1>3, <1>4, SocketSteps DEF SocketFootprint

LEMMA AddCommandNumbered ==
  ASSUME TypeOK, NumberedInv, AddCommand
  PROVE  NumberedInv' /\ QueueStep
<1>1. /\ commands' = Append(commands, added + 1) /\ added' = added + 1
      /\ UNCHANGED <<pc, outbox, delivered, lost, link>>
  BY DEF AddCommand
<1>2. commands \in Seq(Nat) /\ added \in Nat
      /\ (pc = "hb_clear" => commands # <<>>)
  BY BoundsAssumption DEF TypeOK, QueueOK
<1>3. /\ commands' \in Seq(Nat) /\ Len(commands) \in Nat
      /\ Len(commands') = Len(commands) + 1 /\ commands' # <<>>
      /\ \A i \in 1 .. Len(commands) : commands'[i] = commands[i]
      /\ commands'[Len(commands) + 1] = added + 1
  <2>1. added + 1 \in Nat
    BY <1>2
  <2> QED BY <1>1, <1>2, <2>1, AppendProperties
<1>4. Len(Unsent') = Len(Unsent) + 1
  <2>1. CASE pc = "hb_clear"
    <3>1. Len(Tail(commands)) = Len(commands) - 1
          /\ Len(Tail(commands')) = Len(commands') - 1
      BY <2>1, <1>2, <1>3, HeadTailProperties
    <3> QED BY <2>1, <3>1, <1>1, <1>3 DEF Unsent
  <2>2. CASE pc # "hb_clear"
    BY <2>2, <1>1, <1>3 DEF Unsent
  <2> QED BY <2>1, <2>2
<1>5. Outstanding' = Outstanding + 1
  BY <1>1, <1>4, LengthsAreNat DEF Outstanding
<1>6. Len(commands') <= added'
      /\ \A i \in 1 .. Len(commands') : commands'[i] = added' - Len(commands') + i
  <2>1. Len(commands') <= added'
    BY <1>1, <1>2, <1>3 DEF NumberedInv
  <2>2. \A i \in 1 .. Len(commands) : commands'[i] = added' - Len(commands') + i
    <3>1. \A i \in 1 .. Len(commands) : commands'[i] = added - Len(commands) + i
      BY <1>3 DEF NumberedInv
    <3>2. added' - Len(commands') = added - Len(commands)
      BY <1>1, <1>2, <1>3
    <3> QED BY ONLY <3>1, <3>2
  <2>3. commands'[Len(commands) + 1] = added' - Len(commands') + (Len(commands) + 1)
    BY <1>1, <1>2, <1>3
  <2>4. \A i \in 1 .. Len(commands) + 1 :
          i \in 1 .. Len(commands) \/ i = Len(commands) + 1
    BY <1>3
  <2> QED BY ONLY <1>3, <2>1, <2>2, <2>3, <2>4
<1>7. added' - Outstanding' = added - Outstanding /\ Outstanding' <= added'
  BY <1>1, <1>5, LengthsAreNat DEF NumberedInv
<1> QED BY <1>1, <1>5, <1>6, <1>7 DEF NumberedInv, QueueStep

LEMMA EnvironmentNumbered ==
  ASSUME TypeOK, NumberedInv, Environment
  PROVE  NumberedInv' /\ QueueStep
<1>1. CASE ServerGets
  <2>1. /\ outbox # <<>> /\ outbox' = Tail(outbox)
        /\ delivered' = Append(delivered, Head(outbox))
        /\ Unsent' = Unsent
        /\ UNCHANGED <<added, commands, lost, link>>
    BY <1>1 DEF ServerGets, Unsent
  <2>2. outbox \in Seq(Nat) /\ delivered \in Seq(Nat)
    BY DEF TypeOK, NetworkOK
  <2>3. /\ Len(outbox) \in Nat \ {0}
        /\ Len(outbox') = Len(outbox) - 1
        /\ \A i \in 1 .. Len(outbox') : outbox'[i] = outbox[i + 1]
        /\ Head(outbox) = outbox[1]
    BY <2>1, <2>2, HeadTailProperties, EmptySeq
  <2>4. Outstanding' = Outstanding - 1 /\ Outstanding >= 1
    BY <2>1, <2>3, LengthsAreNat DEF Outstanding
  <2>5. \A i \in 1 .. Len(outbox') : outbox'[i] = added' - Outstanding' + i
    <3>1. \A i \in 1 .. Len(outbox) : outbox[i] = added - Outstanding + i
      BY DEF NumberedInv
    <3>2. \A i \in 1 .. Len(outbox') : i + 1 \in 1 .. Len(outbox)
      BY <2>3
    <3>3. \A i \in 1 .. Len(outbox') :
            added - Outstanding + (i + 1) = added' - Outstanding' + i
      <4>1. added \in Int /\ Outstanding \in Int /\ Len(outbox') \in Int
        BY <2>3, LengthsAreNat
      <4>2. added' = added /\ Outstanding' = Outstanding - 1
        BY <2>1, <2>4
      <4> QED BY ONLY <4>1, <4>2
    <3> QED BY <2>3, <3>1, <3>2, <3>3
  <2>6. NumberedInv'
    BY <2>1, <2>4, <2>5, LengthsAreNat DEF NumberedInv
  <2>7. Decided(1, 0)
    <3>1. Head(outbox) = added - Outstanding + 1
      BY <2>3 DEF NumberedInv
    <3>2. [i \in 1 .. 1 |-> added - Outstanding + i] = <<added - Outstanding + 1>>
      OBVIOUS
    <3>3. delivered' = delivered \o [i \in 1 .. 1 |-> added - Outstanding + i]
      BY <3>1, <3>2, <2>1, <2>2
    <3>4. added - Outstanding + 1 + 1 .. added - Outstanding + 1 + 0 = {}
      BY LengthsAreNat
    <3> QED BY <3>3, <3>4, <2>1, <2>4, LengthsAreNat DEF Decided
  <2>8. 1 \in 0 .. added /\ 0 \in 0 .. added
    BY <2>4, LengthsAreNat DEF NumberedInv
  <2> QED BY <2>6, <2>7, <2>8 DEF QueueStep
<1>2. CASE LinkBreaks
  <2>1. /\ outbox' = <<>> /\ Unsent' = Unsent
        /\ lost' = lost \cup {outbox[i] : i \in 0 + 1 .. Len(outbox)}
        /\ UNCHANGED <<added, commands, delivered>>
    BY <1>2 DEF LinkBreaks, Unsent
  <2>2. delivered' = delivered \o SubSeq(outbox, 1, 0)
    BY <2>1, SubSeqEmpty, ConcatEmptySeq DEF TypeOK, NetworkOK
  <2>3. 0 \in 0 .. Len(outbox)
    BY LengthsAreNat
  <2>4. Decided(0, Len(outbox) - 0)
    BY <2>1, <2>2, <2>3, OutboxSettled
  <2>5. 0 \in 0 .. added /\ Len(outbox) - 0 \in 0 .. added
    BY LengthsAreNat DEF NumberedInv, Outstanding
  <2>6. Outstanding' <= added'
    BY <2>1, LengthsAreNat DEF NumberedInv, Outstanding
  <2> QED BY <2>1, <2>4, <2>5, <2>6 DEF NumberedInv, QueueStep
<1>3. CASE ~ServerGets /\ ~LinkBreaks
  <2>1. UNCHANGED <<outbox, commands, added, delivered, lost, pc>>
        /\ (link' # "up" => link # "up")
    BY <1>3 DEF Environment, ServerAnswers, ServerDenies, ServerBeats,
                ServerBeatsEarly, ServerCommands, ServerPutsUnknown, LinkResets
  <2> QED BY <2>1 DEF NumberedInv, QueueStep, Outstanding, Unsent
<1> QED BY <1>1, <1>2, <1>3

LEMMA StepsNumbered ==
  ASSUME TypeOK, NumberedInv, [Next]_vars
  PROVE  NumberedInv' /\ QueueStep
<1>1. CASE UNCHANGED vars
  BY <1>1 DEF vars, NumberedInv, QueueStep, Outstanding, Unsent
<1>2. CASE LoaderThread
  BY <1>2 DEF NumberedInv, QueueStep, Outstanding, Unsent, LoaderThread,
              LoaderPatchSeen, LoaderSocketInited, LoaderModulesInit,
              LoaderSampInit, LoaderInitialized, LoaderUnloads
<1> QED BY <1>1, <1>2, SocketNumbered, AddCommandNumbered, EnvironmentNumbered
        DEF Next, Stopped

(* A sequence that counts on from n holds the numbers after n.             *)
LEMMA ToSetOfRun ==
  ASSUME NEW s \in Seq(Nat), NEW n \in Int,
         \A i \in 1 .. Len(s) : s[i] = n + i
  PROVE  ToSet(s) = n + 1 .. n + Len(s)
<1>1. ToSet(s) = {s[i] : i \in 1 .. Len(s)} /\ Len(s) \in Nat
  BY LenProperties DEF ToSet
<1>2. \A i \in 1 .. Len(s) : s[i] \in n + 1 .. n + Len(s)
  BY <1>1
<1>3. ASSUME NEW x \in n + 1 .. n + Len(s)
      PROVE  \E i \in 1 .. Len(s) : x = s[i]
  <2>1. x - n \in 1 .. Len(s) /\ x = n + (x - n)
    BY <1>1
  <2> QED BY <2>1
<1> QED BY <1>1, <1>2, <1>3

THEOREM Numbered == Spec => [](TypeOK /\ NumberedInv)
<1>1. Init => NumberedInv
  BY BoundsAssumption DEF Init, NumberedInv, Outstanding, Unsent
<1>2. TypeOK /\ NumberedInv /\ [Next]_vars => NumberedInv'
  BY StepsNumbered
<1> QED BY <1>1, <1>2, TypeCorrect, PTL DEF Spec

(* Every step of the client, the server and the link is a step of the      *)
(* channel: the commands are neither duplicated nor reordered, whatever    *)
(* fails, and whenever the client reconnects.                              *)
THEOREM Refinement == Spec => ChannelSpec
<1>1. Init => Channel!ChannelInit
  <2>1. Init => Outstanding = 0
    BY EmptySeq DEF Init, Outstanding, Unsent
  <2> QED BY <2>1 DEF Init, Channel!ChannelInit
<1>2. TypeOK /\ NumberedInv /\ [Next]_vars
        => [Channel!ChannelNext]_(Channel!channelVars)
  <2> SUFFICES ASSUME TypeOK, NumberedInv, [Next]_vars
               PROVE  [Channel!ChannelNext]_(Channel!channelVars)
    OBVIOUS
  <2>1. QueueStep
    BY StepsNumbered
  <2>2. added \in Nat /\ Outstanding \in Nat
    BY LengthsAreNat
  <2>3. CASE UNCHANGED <<added, Outstanding, delivered, lost>>
    BY <2>3 DEF Channel!channelVars
  <2>4. CASE added' = added + 1 /\ Outstanding' = Outstanding + 1
             /\ UNCHANGED <<delivered, lost>>
    BY <2>2, <2>4 DEF Channel!ChannelNext, Channel!Accept
  <2>5. ASSUME NEW k \in 0 .. added, NEW l \in 0 .. added, Decided(k, l)
        PROVE  Channel!ChannelNext
    <3>1. Channel!Settle(k, l)
      BY <2>2, <2>5 DEF Decided, Channel!Settle
    <3> QED BY <3>1 DEF Channel!ChannelNext
  <2> QED BY <2>1, <2>3, <2>4, <2>5 DEF QueueStep
<1> QED BY <1>1, <1>2, Numbered, PTL DEF Spec, ChannelSpec, Channel!ChannelSpec

-----------------------------------------------------------------------------
(* The channel by itself: nothing here is about the session but that what  *)
(* is settled is what has been added and is not outstanding.  FateIsFinal  *)
(* is the channel's, in terms of this module.                              *)
settled == added - Outstanding

FateIsFinal ==
  /\ ToSet(delivered) \cup lost = 1 .. settled
  /\ ToSet(delivered) \cap lost = {}
  /\ \A i, j \in 1 .. Len(delivered) : i < j => delivered[i] < delivered[j]

ChannelTypeOK ==
  /\ added \in Nat /\ settled \in Nat /\ settled <= added
  /\ delivered \in Seq(Nat)
  /\ lost \subseteq Nat

ChannelInv == ChannelTypeOK /\ FateIsFinal

(* The elements of a sequence by position. *)
LEMMA ToSetByPosition ==
  ASSUME NEW S, NEW s \in Seq(S)
  PROVE  ToSet(s) = {s[i] : i \in 1 .. Len(s)}
BY LenProperties DEF ToSet

(* Appending the next k numbers to a sequence of numbers up to n.          *)
LEMMA AppendNext ==
  ASSUME NEW d \in Seq(Nat), NEW n \in Nat, NEW k \in Nat,
         ToSet(d) \subseteq 1 .. n,
         \A i, j \in 1 .. Len(d) : i < j => d[i] < d[j],
         NEW e, e = d \o [i \in 1 .. k |-> n + i]
  PROVE  /\ e \in Seq(Nat)
         /\ ToSet(e) = ToSet(d) \cup (n + 1 .. n + k)
         /\ \A i, j \in 1 .. Len(e) : i < j => e[i] < e[j]
<1> DEFINE t == [i \in 1 .. k |-> n + i]
<1>1. t \in Seq(Nat) /\ Len(t) = k
  OBVIOUS
<1>2. /\ e \in Seq(Nat)
      /\ Len(e) = Len(d) + k
      /\ \A i \in 1 .. Len(d) : e[i] = d[i]
      /\ \A i \in 1 .. k : e[Len(d) + i] = n + i
  BY <1>1
<1> HIDE DEF t
<1>3. \A i \in 1 .. Len(d) : d[i] \in 1 .. n
  BY DEF ToSet
<1>4. ToSet(e) = ToSet(d) \cup (n + 1 .. n + k)
  <2>1. ASSUME NEW x \in ToSet(e) PROVE x \in ToSet(d) \cup (n + 1 .. n + k)
    <3>0. ToSet(e) = {e[i] : i \in 1 .. Len(e)}
      <4>1. e \in Seq(Nat)
        BY <1>2
      <4> QED BY ONLY <4>1, ToSetByPosition
    <3>1. PICK i \in 1 .. Len(e) : x = e[i]
      BY <2>1, <3>0
    <3>2. CASE i \in 1 .. Len(d)
      BY <3>1, <3>2, <1>2 DEF ToSet
    <3>3. CASE i \notin 1 .. Len(d)
      <4>1. i - Len(d) \in 1 .. k /\ i = Len(d) + (i - Len(d))
        BY <3>1, <3>3, <1>2
      <4>2. x = n + (i - Len(d))
        BY <4>1, <3>1, <1>2
      <4> QED BY <4>1, <4>2
    <3> QED BY <3>2, <3>3
  <2>2. ASSUME NEW x \in ToSet(d) PROVE x \in ToSet(e)
    <3>1. PICK i \in 1 .. Len(d) : x = d[i]
      BY <2>2, ToSetByPosition
    <3>2. i \in 1 .. Len(e) /\ x = e[i]
      BY <3>1, <1>2
    <3> QED BY <3>2, <1>2, ToSetByPosition
  <2>3. ASSUME NEW x \in n + 1 .. n + k PROVE x \in ToSet(e)
    <3>1. x - n \in 1 .. k /\ x = n + (x - n)
      BY <2>3
    <3>2. x = e[Len(d) + (x - n)]
      BY <3>1, <1>2
    <3>3. Len(d) + (x - n) \in 1 .. Len(e)
      BY <3>1, <1>2
    <3> QED BY <3>2, <3>3, <1>2, ToSetByPosition
  <2> QED BY <2>1, <2>2, <2>3
<1>5. ASSUME NEW i \in 1 .. Len(e), NEW j \in 1 .. Len(e), i < j
      PROVE  e[i] < e[j]
  <2>1. CASE j \in 1 .. Len(d)
    BY <2>1, <1>5, <1>2
  <2>2. CASE j \notin 1 .. Len(d)
    <3>1. j - Len(d) \in 1 .. k /\ j = Len(d) + (j - Len(d))
      BY <2>2, <1>2
    <3>2. e[j] = n + (j - Len(d))
      BY <3>1, <1>2
    <3>3. CASE i \in 1 .. Len(d)
      BY <3>1, <3>2, <3>3, <1>2, <1>3
    <3>4. CASE i \notin 1 .. Len(d)
      <4>1. i - Len(d) \in 1 .. k /\ i = Len(d) + (i - Len(d))
        BY <3>4, <1>2
      <4>2. e[i] = n + (i - Len(d))
        BY <4>1, <1>2
      <4> QED BY <4>1, <4>2, <3>1, <3>2, <1>5
    <3> QED BY <3>3, <3>4
  <2> QED BY <2>1, <2>2
<1> QED BY <1>2, <1>4, <1>5

(* Settling a command decides its fate for good.                           *)
LEMMA SettleStep ==
  ASSUME ChannelInv, NEW k \in Nat, NEW l \in Nat, Channel!Settle(k, l)
  PROVE  ChannelInv'
<1> USE DEF ChannelInv, ChannelTypeOK, FateIsFinal, Channel!Settle, settled
<1>1. ToSet(delivered) \subseteq 1 .. settled /\ lost \subseteq 1 .. settled
  OBVIOUS
<1>2. /\ delivered' \in Seq(Nat)
      /\ ToSet(delivered') = ToSet(delivered) \cup (settled + 1 .. settled + k)
      /\ \A i, j \in 1 .. Len(delivered') :
           i < j => delivered'[i] < delivered'[j]
  <2>1. delivered' = delivered \o [i \in 1 .. k |-> settled + i]
    OBVIOUS
  <2> QED BY <1>1, <2>1, AppendNext
<1>3. ChannelTypeOK'
  BY <1>2
<1>4. ToSet(delivered)' \cup lost' = 1 .. settled'
  <2>1. ToSet(delivered)' = ToSet(delivered')
    BY DEF ToSet
  <2>2. 1 .. settled' = (1 .. settled) \cup (settled + 1 .. settled + k)
                          \cup (settled + k + 1 .. settled + k + l)
    OBVIOUS
  <2> QED BY <1>2, <2>1, <2>2
<1>5. ToSet(delivered)' \cap lost' = {}
  <2>1. ToSet(delivered)' = ToSet(delivered')
    BY DEF ToSet
  <2>2. (settled + 1 .. settled + k) \cap lost = {}
    BY <1>1
  <2>3. ToSet(delivered) \cap (settled + k + 1 .. settled + k + l) = {}
    BY <1>1
  <2>4. (settled + 1 .. settled + k) \cap (settled + k + 1 .. settled + k + l) = {}
    OBVIOUS
  <2> QED BY <1>2, <2>1, <2>2, <2>3, <2>4
<1> QED BY <1>2, <1>3, <1>4, <1>5

LEMMA ChannelKeeps == ChannelSpec => []ChannelInv
<1>1. Channel!ChannelInit => ChannelInv
  BY DEF Channel!ChannelInit, ChannelInv, ChannelTypeOK, FateIsFinal, settled, ToSet
<1>2. ChannelInv /\ [Channel!ChannelNext]_Channel!channelVars => ChannelInv'
  <2> SUFFICES ASSUME ChannelInv, [Channel!ChannelNext]_Channel!channelVars PROVE ChannelInv'
    OBVIOUS
  <2>1. CASE Channel!Accept
    <3>1. ChannelTypeOK'
      BY <2>1 DEF Channel!Accept, settled, ChannelInv, ChannelTypeOK
    <3>2. FateIsFinal'
      BY <2>1 DEF Channel!Accept, settled, ChannelInv, FateIsFinal, ToSet
    <3> QED BY <3>1, <3>2 DEF ChannelInv
  <2>2. ASSUME NEW k \in 0 .. added, NEW l \in 0 .. added, Channel!Settle(k, l)
        PROVE  ChannelInv'
    <3>1. k \in Nat /\ l \in Nat
      BY DEF ChannelInv, ChannelTypeOK
    <3> QED BY <3>1, <2>2, SettleStep
  <2>3. CASE UNCHANGED Channel!channelVars
    BY <2>3 DEF Channel!channelVars, settled, ChannelInv, ChannelTypeOK, FateIsFinal, ToSet
  <2> QED BY <2>1, <2>2, <2>3 DEF Channel!ChannelNext
<1> QED BY <1>1, <1>2, PTL DEF ChannelSpec, Channel!ChannelSpec

LEMMA SameFate == FateIsFinal <=> Channel!FateIsFinal
BY DEF FateIsFinal, Channel!FateIsFinal, settled, ToSet, Channel!ToSet

(* The fate of a command handed to add_command is decided once, in order,  *)
(* in every behaviour of the channel.                                      *)
THEOREM ChannelSafe == ChannelSpec => []Channel!FateIsFinal
<1>1. ChannelInv => Channel!FateIsFinal
  BY SameFate DEF ChannelInv
<1> QED BY <1>1, ChannelKeeps, PTL

LEMMA FateInSession == Spec => []FateIsFinal
BY Refinement, ChannelSafe, SameFate, PTL

(* The server gets the commands in the order of add_command, none twice,   *)
(* and none that went down with a link, for any number of breaks.          *)
THEOREM InOrderDelivery == Spec => []DeliveredInOrder
<1>1. FateIsFinal => DeliveredInOrder
  BY DEF FateIsFinal, DeliveredInOrder
<1> QED BY <1>1, FateInSession, PTL

(* The client itself loses no command: one that was added is delivered,    *)
(* lost with a link, on its way, or still queued.                          *)
THEOREM NothingDropped == Spec => []NothingDroppedByClient
<1>1. TypeOK /\ NumberedInv /\ FateIsFinal => NothingDroppedByClient
  <2> SUFFICES ASSUME TypeOK, NumberedInv, FateIsFinal
               PROVE  NothingDroppedByClient
    OBVIOUS
  <2>1. ToSet(delivered) \cup lost = 1 .. added - Outstanding
    BY DEF FateIsFinal, settled
  <2>2. ToSet(outbox) = added - Outstanding + 1 .. added - Len(Unsent)
    <3>1. outbox \in Seq(Nat) /\ added - Outstanding \in Int
          /\ \A i \in 1 .. Len(outbox) : outbox[i] = added - Outstanding + i
      BY LengthsAreNat DEF TypeOK, NetworkOK, NumberedInv
    <3>2. added - Outstanding + Len(outbox) = added - Len(Unsent)
      BY LengthsAreNat DEF Outstanding
    <3> QED BY ONLY <3>1, <3>2, ToSetOfRun
  <2>3. ToSet(Unsent) = added - Len(Unsent) + 1 .. added
    <3>1. Unsent \in Seq(Nat) /\ added - Len(Unsent) \in Int
      BY LengthsAreNat
    <3>2. \A i \in 1 .. Len(Unsent) : Unsent[i] = added - Len(Unsent) + i
      <4>1. CASE pc = "hb_clear"
        <5>1. commands \in Seq(Nat) /\ commands # <<>>
          BY <4>1 DEF TypeOK, QueueOK
        <5>2. /\ Unsent = Tail(commands)
              /\ Len(Unsent) = Len(commands) - 1
              /\ \A i \in 1 .. Len(Unsent) : Unsent[i] = commands[i + 1]
          BY <4>1, <5>1, HeadTailProperties DEF Unsent
        <5>3. \A i \in 1 .. Len(Unsent) :
                i + 1 \in 1 .. Len(commands)
          BY <5>2, LengthsAreNat
        <5> QED BY <5>2, <5>3, LengthsAreNat DEF NumberedInv
      <4>2. CASE pc # "hb_clear"
        <5>1. Unsent = commands
          BY <4>2 DEF Unsent
        <5> QED BY <5>1 DEF NumberedInv
      <4> QED BY <4>1, <4>2
    <3>3. added - Len(Unsent) + Len(Unsent) = added
      BY LengthsAreNat
    <3> QED BY ONLY <3>1, <3>2, <3>3, ToSetOfRun
  <2>4. 1 .. added = (1 .. added - Outstanding)
                       \cup (added - Outstanding + 1 .. added - Len(Unsent))
                       \cup (added - Len(Unsent) + 1 .. added)
    <3>1. /\ added - Outstanding \in Nat /\ added - Len(Unsent) \in Nat
          /\ added - Outstanding <= added - Len(Unsent)
          /\ added - Len(Unsent) <= added /\ added \in Nat
      BY LengthsAreNat DEF NumberedInv, Outstanding
    <3> QED BY ONLY <3>1
  <2> QED BY ONLY <2>1, <2>2, <2>3, <2>4 DEF NothingDroppedByClient
<1> QED BY <1>1, FateInSession, Numbered, PTL
=============================================================================
