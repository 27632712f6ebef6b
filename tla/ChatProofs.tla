----------------------------- MODULE ChatProofs -----------------------------
(***************************************************************************)
(* Proofs about Chat, for any keywords, answers, colours, lines and times. *)
(* A step either ticks, adds a line, or leaves the answer alone; the lemmas*)
(* say what of the answer the first two touch.                             *)
(***************************************************************************)
EXTENDS Chat, SequenceTheorems, WellFoundedInduction, TLAPS

AlarmTyped == alarm_active \in BOOLEAN /\ beeping \in {0, 1}

AlarmInv == AlarmTyped /\ OneAlarm

AnswerTyped ==
  /\ lines \in Nat /\ now \in Nat
  /\ last_entry.n \in Nat
  /\ due \in [n : Nat, at : Nat]
  /\ sent \in [n : Nat, count : Nat]
  /\ send_response \in BOOLEAN /\ has_line_changed \in BOOLEAN
  /\ chat_keywords \in Seq([keyword : Keyword, response : Response])

(* The answer is never for a line behind the one answered last: an answer *)
(* that waits is for a later one, and a line to be scanned is later still. *)
LinesInOrder ==
  /\ last_entry.n <= lines
  /\ due.n <= last_entry.n
  /\ sent.n <= due.n
  /\ send_response => sent.n < due.n
  /\ has_line_changed => due.n < last_entry.n

AnswerInv == AnswerTyped /\ LinesInOrder

-----------------------------------------------------------------------------
(* The alarm.                                                              *)

LEMMA StartAlarmKeepsOne ==
  ASSUME AlarmInv, StartAlarm
  PROVE  AlarmInv'
<1>1. CASE alarm_enable /\ running /\ ~alarm_active
  <2>1. beeping = 0
    BY <1>1 DEF AlarmInv, OneAlarm
  <2>2. alarm_active' = TRUE /\ beeping' = 1
    BY <1>1, <2>1, SMT DEF StartAlarm
  <2> QED BY <2>2 DEF AlarmInv, AlarmTyped, OneAlarm
<1>2. CASE ~(alarm_enable /\ running /\ ~alarm_active)
  BY <1>2 DEF StartAlarm, alarm, AlarmInv, AlarmTyped, OneAlarm
<1> QED BY <1>1, <1>2

LEMMA AlarmStep ==
  ASSUME AlarmInv, [Next]_vars
  PROVE  AlarmInv'
<1>1. ASSUME UNCHANGED alarm PROVE AlarmInv'
  BY <1>1 DEF alarm, AlarmInv, AlarmTyped, OneAlarm
<1>2. ASSUME NEW line \in Line, AddEntry(line) PROVE AlarmInv'
  BY <1>1, <1>2 DEF AddEntry, Receive
<1>3. CASE Tick
  BY <1>1, <1>3, StartAlarmKeepsOne, Zenon DEF Tick
<1>4. CASE BeepEnds
  <2>1. beeping = 1
    BY <1>4, SMT DEF BeepEnds, AlarmInv, AlarmTyped
  <2>2. alarm_active' = FALSE /\ beeping' = 0
    BY <1>4, <2>1, SMT DEF BeepEnds
  <2> QED BY <2>2 DEF AlarmInv, AlarmTyped, OneAlarm
<1>5. CASE SendAlertToUser
  BY <1>5, StartAlarmKeepsOne, Zenon DEF SendAlertToUser
<1>6. CASE RouteChanges \/ Second
  BY <1>1, <1>6 DEF RouteChanges, Second
<1>7. CASE Menu
  BY <1>1, <1>7 DEF Menu, AddKeyword, ClearKeywords, DeleteKeyword, ClickColor, DeleteColor, Edit
<1>8. CASE UNCHANGED vars
  BY <1>1, <1>8 DEF vars
<1> QED BY <1>2, <1>3, <1>4, <1>5, <1>6, <1>7, <1>8 DEF Next

(* There is one alarm thread exactly while the flag says so: start_alarm,  *)
(* asked by a keyword or by an alert, and the end of the thread (alarm.cpp).*)
THEOREM AlarmIsOne == Spec => []OneAlarm
<1>1. Init => AlarmInv
  BY DEF Init, AlarmInv, AlarmTyped, OneAlarm
<1>2. AlarmInv /\ [Next]_vars => AlarmInv'
  BY AlarmStep
<1>3. AlarmInv => OneAlarm
  BY DEF AlarmInv
<1> QED BY <1>1, <1>2, <1>3, PTL DEF Spec

-----------------------------------------------------------------------------
(* The answer.                                                             *)

(* What of a tick the answer is made of. *)
Sends == (send_response \/ Hit) /\ MaySend(response_delay')

LEMMA SecondsAreNatural ==
  ASSUME NEW r \in Response
  PROVE  Seconds[r] \in Nat
BY ResponseAssumption

LEMMA TickTakesLine ==
  ASSUME AnswerInv, Tick
  PROVE  /\ due' = IF Hit THEN [n |-> last_entry.n, at |-> due'.at] ELSE due
         /\ Hit => has_line_changed /\ ~has_line_changed'
         /\ has_line_changed' => has_line_changed
         /\ send_response' = ((send_response \/ Hit) /\ ~Sends)
         /\ sent' = IF Sends THEN [n |-> due'.n, count |-> sent.count + 1] ELSE sent
         /\ UNCHANGED <<lines, now, last_entry>>
         /\ has_line_changed' \in BOOLEAN /\ send_response' \in BOOLEAN
<1>1. /\ has_line_changed' = (has_line_changed /\ ~Scans)
      /\ UNCHANGED <<lines, now, last_entry>>
  BY Zenon DEF Tick
<1>2. /\ Hit => has_line_changed /\ ~has_line_changed'
      /\ has_line_changed' => has_line_changed
      /\ has_line_changed' \in BOOLEAN
  BY <1>1, Zenon DEF Hit, Scans, AnswerInv, AnswerTyped
<1>3. due' = IF Hit THEN [n |-> last_entry.n, at |-> due'.at] ELSE due
  <2>1. CASE Hit
    <3>1. due' = [n |-> last_entry.n, at |-> now + Seconds[Answer]]
      BY <2>1, Zenon DEF Tick
    <3> QED BY <2>1, <3>1
  <2>2. CASE ~Hit
    BY <2>2, Zenon DEF Tick
  <2> QED BY <2>1, <2>2
<1>4. /\ send_response' = ((send_response \/ Hit) /\ ~Sends)
      /\ sent' = IF Sends THEN [n |-> due'.n, count |-> sent.count + 1] ELSE sent
      /\ send_response' \in BOOLEAN
  <2>1. CASE Sends
    BY <2>1, Zenon DEF Tick, Sends
  <2>2. CASE ~Sends
    <3>1. send_response' = (send_response \/ Hit) /\ UNCHANGED sent
      BY <2>2, Zenon DEF Tick, Sends
    <3> QED BY <2>2, <3>1, Zenon
  <2> QED BY <2>1, <2>2
<1> QED BY <1>1, <1>2, <1>3, <1>4

LEMMA NaturalsHaveLeast ==
  ASSUME NEW T \in SUBSET Nat, T # {}
  PROVE  \E m \in T : \A k \in T : m <= k
<1>1. PICK m \in T : \A k \in T : <<k, m>> \notin OpToRel(<, Nat)
  BY WFMin, NatLessThanWellFounded, Zenon
<1>2. \A k \in T : ~(k < m)
  BY <1>1, Zenon DEF OpToRel
<1>3. \A k \in T : m <= k
  BY <1>2, SMT
<1> QED BY <1>3

LEMMA IndicesHaveLast ==
  ASSUME NEW n \in Nat, NEW S \in SUBSET (1..n), S # {}
  PROVE  \E i \in S : \A j \in S : j <= i
<1> DEFINE T == {k \in Nat : n - k \in S}
<1>1. T # {}
  <2>1. PICK i \in S : TRUE
    OBVIOUS
  <2>2. n - i \in Nat /\ n - (n - i) = i
    OBVIOUS
  <2> QED BY <2>1, <2>2
<1> HIDE DEF T
<1>2. PICK m \in T : \A k \in T : m <= k
  BY <1>1, NaturalsHaveLeast DEF T
<1>3. n - m \in S /\ m \in Nat
  BY DEF T
<1>4. ASSUME NEW j \in S PROVE j <= n - m
  <2>1. n - j \in T
    BY DEF T
  <2>2. m <= n - j
    BY <1>2, <2>1
  <2> QED BY <1>3, <2>2
<1> QED BY <1>3, <1>4

(* The keyword that was found last is one of the list. *)
LEMMA AnswerIsResponse ==
  ASSUME AnswerTyped, Hit
  PROVE  Answer \in Response /\ Seconds[Answer] \in Nat
<1>1. Len(chat_keywords) \in Nat /\ Found # {} /\ Found \subseteq 1..Len(chat_keywords)
  BY DEF Hit, Found, AnswerTyped
<1>2. \E i \in Found : \A j \in Found : j <= i
  BY <1>1, IndicesHaveLast
<1> DEFINE last == CHOOSE i \in Found : \A j \in Found : j <= i
<1>3. last \in Found
  BY <1>2, Zenon
<1> HIDE DEF last
<1>4. chat_keywords[last].response \in Response
  <2>1. chat_keywords[last] \in [keyword : Keyword, response : Response]
    BY <1>1, <1>3, ElementOfSeq DEF AnswerTyped
  <2> QED BY <2>1
<1>5. Answer = chat_keywords[last].response
  BY Zenon DEF Answer, last
<1> QED BY <1>4, <1>5, SecondsAreNatural

LEMMA TickTypes ==
  ASSUME AnswerInv, Tick
  PROVE  AnswerTyped'
<1>1. due' \in [n : Nat, at : Nat]
  <2>1. CASE Hit
    <3>1. due' = [n |-> last_entry.n, at |-> now + Seconds[Answer]]
      BY <2>1, Zenon DEF Tick
    <3> QED BY <2>1, <3>1, AnswerIsResponse, SMT DEF AnswerInv, AnswerTyped
  <2>2. CASE ~Hit
    BY <2>2, TickTakesLine DEF AnswerInv, AnswerTyped
  <2> QED BY <2>1, <2>2
<1>2. sent' \in [n : Nat, count : Nat]
  <2>1. CASE Sends
    <3>1. sent' = [n |-> due'.n, count |-> sent.count + 1]
      BY <2>1, TickTakesLine, Zenon
    <3> QED BY <1>1, <3>1, SMT DEF AnswerInv, AnswerTyped
  <2>2. CASE ~Sends
    BY <2>2, TickTakesLine DEF AnswerInv, AnswerTyped
  <2> QED BY <2>1, <2>2
<1>3. UNCHANGED <<chat_keywords, lines, now, last_entry>>
  BY Zenon DEF Tick, lists
<1> QED BY <1>1, <1>2, <1>3, TickTakesLine DEF AnswerInv, AnswerTyped

LEMMA TickKeepsOrder ==
  ASSUME AnswerInv, Tick
  PROVE  LinesInOrder' /\ (Sends => sent'.n > sent.n)
<1> USE DEF AnswerInv
<1>1. CASE Hit
  <2>1. due'.n = last_entry.n /\ due.n < last_entry.n /\ ~has_line_changed'
    BY <1>1, TickTakesLine DEF LinesInOrder
  <2>2. sent.n < due'.n
    BY <2>1, SMT DEF AnswerTyped, LinesInOrder
  <2>3. CASE Sends
    <3>1. sent'.n = due'.n /\ send_response' = FALSE
      <4>1. sent' = [n |-> due'.n, count |-> sent.count + 1] /\ send_response' = FALSE
        BY <2>3, TickTakesLine, Zenon
      <4> QED BY <4>1
    <3> QED BY <2>1, <2>2, <3>1, TickTakesLine, TickTypes DEF AnswerTyped, LinesInOrder
  <2>4. CASE ~Sends
    BY <2>1, <2>2, <2>4, TickTakesLine, TickTypes DEF AnswerTyped, LinesInOrder
  <2> QED BY <2>3, <2>4
<1>2. CASE ~Hit
  <2>1. UNCHANGED due
    BY <1>2, TickTakesLine, Zenon
  <2>2. CASE Sends
    <3>1. sent.n < due.n
      BY <1>2, <2>2 DEF Sends, LinesInOrder
    <3>2. sent'.n = due.n /\ send_response' = FALSE
      <4>1. sent' = [n |-> due'.n, count |-> sent.count + 1] /\ send_response' = FALSE
        BY <2>1, <2>2, TickTakesLine, Zenon
      <4> QED BY <2>1, <4>1
    <3> QED BY <2>1, <3>1, <3>2, TickTakesLine, TickTypes DEF AnswerTyped, LinesInOrder
  <2>3. CASE ~Sends
    BY <1>2, <2>1, <2>3, TickTakesLine, TickTypes DEF AnswerTyped, LinesInOrder
  <2> QED BY <2>2, <2>3
<1> QED BY <1>1, <1>2

(* A line that comes is the last to be scanned, or changes nothing. *)
LEMMA LineKeepsOrder ==
  ASSUME AnswerInv, NEW line \in Line, AddEntry(line)
  PROVE  AnswerInv'
<1>1. lines' = lines + 1 /\ UNCHANGED <<now, due, sent, send_response, chat_keywords>>
  BY DEF AddEntry, Receive, lists, answer
<1>2. CASE UNCHANGED <<has_line_changed, last_entry>>
  BY <1>1, <1>2, SMT DEF AnswerInv, AnswerTyped, LinesInOrder
<1>3. CASE Shows(line)
  <2>1. last_entry'.n = lines + 1 /\ has_line_changed' = TRUE
    BY <1>1, <1>3 DEF Shows
  <2> QED BY <1>1, <2>1, SMT DEF AnswerInv, AnswerTyped, LinesInOrder
<1> QED BY <1>2, <1>3, Zenon DEF AddEntry

(* What leaves the answer and its line alone. *)
LEMMA OthersKeepOrder ==
  ASSUME AnswerInv, UNCHANGED <<answer, has_line_changed, last_entry>>,
         lines' \in {lines, lines + 1}, now' \in {now, now + 1},
         chat_keywords' \in Seq([keyword : Keyword, response : Response])
  PROVE  AnswerInv'
BY DEF answer, AnswerInv, AnswerTyped, LinesInOrder

LEMMA KeywordsTyped ==
  ASSUME AnswerTyped, Menu
  PROVE  chat_keywords' \in Seq([keyword : Keyword, response : Response])
<1> DEFINE E == [keyword : Keyword, response : Response]
<1>1. chat_keywords \in Seq(E)
  BY DEF AnswerTyped
<1>2. ASSUME NEW keyword \in Keyword, NEW response \in Response, AddKeyword(keyword, response)
      PROVE  chat_keywords' \in Seq(E)
  <2>1. [keyword |-> keyword, response |-> response] \in E
    OBVIOUS
  <2> HIDE DEF E
  <2> QED BY <1>1, <1>2, <2>1, AppendProperties DEF AddKeyword
<1> HIDE DEF E
<1>3. CASE ClearKeywords
  BY <1>3 DEF ClearKeywords
<1>4. ASSUME NEW i \in DOMAIN chat_keywords, DeleteKeyword(i)
      PROVE  chat_keywords' \in Seq(E)
  BY <1>1, <1>4, SMT DEF DeleteKeyword
<1>5. CASE UNCHANGED chat_keywords
  BY <1>1, <1>5 DEF E
<1> QED BY <1>2, <1>3, <1>4, <1>5 DEF Menu, ClickColor, DeleteColor, E

LEMMA AnswerInit ==
  ASSUME Init
  PROVE  AnswerInv
<1>1. /\ lines = 0 /\ now = 0 /\ last_entry = NoLine /\ chat_keywords = <<>>
      /\ due = [n |-> 0, at |-> 0] /\ sent = [n |-> 0, count |-> 0]
      /\ send_response = FALSE /\ has_line_changed = FALSE
  BY DEF Init
<1>2. last_entry.n = 0 /\ due.n = 0 /\ sent.n = 0
  BY <1>1 DEF NoLine
<1>3. AnswerTyped
  <2>1. chat_keywords \in Seq([keyword : Keyword, response : Response])
    <3> DEFINE E == [keyword : Keyword, response : Response]
    <3> HIDE DEF E
    <3>1. chat_keywords \in Seq(E)
      BY <1>1
    <3> QED BY <3>1 DEF E
  <2>2. due \in [n : Nat, at : Nat] /\ sent \in [n : Nat, count : Nat]
    BY <1>1
  <2> QED BY <1>1, <1>2, <2>1, <2>2, Zenon DEF AnswerTyped
<1>4. LinesInOrder
  BY <1>1, <1>2, SMT DEF LinesInOrder
<1> QED BY <1>3, <1>4 DEF AnswerInv

LEMMA AnswerStep ==
  ASSUME AnswerInv, [Next]_vars
  PROVE  AnswerInv' /\ (UNCHANGED sent \/ sent'.n > sent.n)
<1>1. ASSUME NEW line \in Line, AddEntry(line)
      PROVE  AnswerInv' /\ UNCHANGED sent
  BY <1>1, LineKeepsOrder DEF AddEntry, Receive, answer
<1>2. ASSUME Tick
      PROVE  AnswerInv' /\ (UNCHANGED sent \/ sent'.n > sent.n)
  <2>1. Sends \/ UNCHANGED sent
    BY <1>2, TickTakesLine, Zenon
  <2> QED BY <1>2, <2>1, TickTypes, TickKeepsOrder, Zenon DEF AnswerInv
<1>3. CASE BeepEnds \/ SendAlertToUser \/ RouteChanges \/ Second
  <2>1. /\ UNCHANGED <<answer, has_line_changed, last_entry, chat_keywords>>
        /\ lines' \in {lines, lines + 1} /\ now' \in {now, now + 1}
    BY <1>3 DEF BeepEnds, SendAlertToUser, RouteChanges, Second, lists
  <2> QED BY <2>1, OthersKeepOrder DEF answer, AnswerInv, AnswerTyped
<1>4. CASE Menu
  <2>1. UNCHANGED <<answer, has_line_changed, last_entry, lines, now>>
    BY <1>4 DEF Menu, AddKeyword, ClearKeywords, DeleteKeyword, ClickColor, DeleteColor, Edit
  <2> QED BY <1>4, <2>1, OthersKeepOrder, KeywordsTyped DEF answer, AnswerInv
<1>5. CASE UNCHANGED vars
  BY <1>5, OthersKeepOrder DEF vars, lists, answer, AnswerInv, AnswerTyped
<1> QED BY <1>1, <1>2, <1>3, <1>4, <1>5, Zenon DEF Next

(* No line is answered twice and none after a later one, although a deleted *)
(* line leaves an older one the last that scan_chat reads (chat_detect.cpp).*)
THEOREM AnsweredOnce == Spec => AnswersOnce
<1>1. Init => AnswerInv
  BY AnswerInit
<1>2. AnswerInv /\ [Next]_vars => AnswerInv'
  BY AnswerStep
<1>3. AnswerInv /\ [Next]_vars => [sent'.count # sent.count => sent'.n > sent.n]_vars
  BY AnswerStep
<1> QED BY <1>1, <1>2, <1>3, PTL DEF Spec, AnswersOnce

-----------------------------------------------------------------------------
(* The deadline.                                                           *)

DeadlineIsDue == response_delay = due.at % Wrap

LEMMA BeforeTheWrap ==
  ASSUME NEW t \in Nat, t < Wrap
  PROVE  t % Wrap = t
BY ClockAssumption, SMT

LEMMA DeadlineStep ==
  ASSUME AnswerInv, DeadlineIsDue, [Next]_vars
  PROVE  /\ DeadlineIsDue'
         /\ UNCHANGED sent \/ now >= response_delay'
<1>1. CASE Tick
  <2>1. UNCHANGED sent \/ now >= response_delay'
    BY <1>1, Zenon DEF Tick, MaySend
  <2>2. CASE Hit
    <3>1. /\ response_delay' = Deadline(now + Seconds[Answer])
          /\ due' = [n |-> last_entry.n, at |-> now + Seconds[Answer]]
      BY <1>1, <2>2, Zenon DEF Tick
    <3>2. due'.at = now + Seconds[Answer]
      BY <3>1
    <3> QED BY <2>1, <3>1, <3>2, Zenon DEF DeadlineIsDue, Deadline
  <2>3. CASE ~Hit
    <3>1. UNCHANGED <<response_delay, due>>
      BY <1>1, <2>3, Zenon DEF Tick
    <3> QED BY <2>1, <3>1, Zenon DEF DeadlineIsDue
  <2> QED BY <2>2, <2>3
<1>2. CASE UNCHANGED answer
  BY <1>2, Zenon DEF answer, DeadlineIsDue
<1>3. Tick \/ UNCHANGED answer
  BY DEF Next, AddEntry, Receive, BeepEnds, SendAlertToUser, RouteChanges, Second, Menu,
         AddKeyword, ClearKeywords, DeleteKeyword, ClickColor, DeleteColor, Edit, vars
<1> QED BY <1>1, <1>2, <1>3

(* An answer is not sent before its time, whatever is found, edited or     *)
(* shown meanwhile, but for the wrap of the deadline (chat_detect.cpp:42). *)
THEOREM AnswersTakeTime == Spec => AnswerTakesTime
<1>1. Init => AnswerInv /\ DeadlineIsDue
  <2>1. 0 % Wrap = 0
    BY BeforeTheWrap, ClockAssumption
  <2>2. Init => response_delay = 0 /\ due.at = 0
    BY DEF Init
  <2> QED BY <2>1, <2>2, AnswerInit DEF DeadlineIsDue
<1>2. AnswerInv /\ DeadlineIsDue /\ [Next]_vars => AnswerInv' /\ DeadlineIsDue'
  BY AnswerStep, DeadlineStep
<1>3. AnswerInv /\ DeadlineIsDue /\ [Next]_vars
        => [sent'.count # sent.count => now >= due'.at \/ due'.at >= Wrap]_vars
  <2> SUFFICES ASSUME AnswerInv, DeadlineIsDue, [Next]_vars, ~UNCHANGED sent
               PROVE  now >= due'.at \/ due'.at >= Wrap
    OBVIOUS
  <2>1. due'.at \in Nat /\ now >= response_delay' /\ response_delay' = due'.at % Wrap
    BY AnswerStep, DeadlineStep DEF AnswerInv, AnswerTyped, DeadlineIsDue
  <2>2. CASE due'.at < Wrap
    BY <2>1, <2>2, BeforeTheWrap
  <2>3. CASE ~(due'.at < Wrap)
    BY <2>1, <2>3, ClockAssumption
  <2> QED BY <2>2, <2>3
<1> QED BY <1>1, <1>2, <1>3, PTL DEF Spec, AnswerTakesTime
=============================================================================
