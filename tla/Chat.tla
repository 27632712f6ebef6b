-------------------------------- MODULE Chat --------------------------------
(***************************************************************************)
(* The chat of the game as the program watches it (chat_detect, chat_block,*)
(* chatlog) and the alarm.  SA-MP adds every line through hook_add_entry,  *)
(* which copies it to the log and keeps lines of a deleted colour from the *)
(* game.  While a route runs, every frame scans the last line shown for    *)
(* the keywords, and answers after a delay as long as the answer.          *)
(*                                                                         *)
(* Hooks, frames, alerts and menu are all on the game's thread, one after  *)
(* the other; the alarm sounds on a thread of its own.  A text is the set  *)
(* of the keywords found in it.  The list of colours, which add_color      *)
(* keeps free of duplicates, is a function.  Routes are those of           *)
(* PacketReplay and RouteControl: here only whether one runs.  The         *)
(* commands for Discord are left out; Session has the queue they go to.    *)
(***************************************************************************)
EXTENDS Integers, Sequences

CONSTANTS
  Keyword,      \* words looked for
  Response,     \* answers, none of them empty
  Seconds,      \* the seconds an answer waits: one per five letters, one at least
  Color,        \* colours of lines, 24 bits
  AlertColor,   \* the colour of the program's own lines
  Digits,       \* the hexadecimal digits a colour has without leading zeros
  Line,         \* lines of chat: [type, prefix, color, inner, words]
  LogSize,      \* lines the log is cut down to (50 in the code)
  Wrap,         \* seconds until 32 bits of milliseconds start over (2^32 / 1000)
  MaxNow, MaxLines, MaxEdits, MaxEntries  \* bounds of the model

(* Time has to go on until the answer of every delay has become due. *)
ASSUME ClockAssumption == Wrap \in Nat \ {0} /\ MaxNow \in Nat /\ MaxNow >= Wrap
ASSUME ResponseAssumption == Seconds \in [Response -> Nat \ {0}] /\ "none" \notin Response
ASSUME ColorAssumption == AlertColor \in Color /\ Digits \in [Color -> 1..6]
ASSUME LineAssumption ==
  \A line \in Line : /\ line.type \in {"chat", "other"}
                     /\ {line.prefix, line.color} \subseteq Color
                     /\ line.inner \in Seq(Color)
                     /\ line.words \subseteq Keyword

VARIABLES
  enable,              \* vars.chat_detect.enable
  running,             \* global_utils::any_route_enabled()
  chat_keywords,       \* sequence of [keyword, response]
  color_keywords,      \* what the list says of a colour key
  chatlog_data,        \* the log: each line as the colour keys in it
  ignore_last_chat,    \* chat_block::m_ignore_last_chat
  has_line_changed, send_response, should_play_alarm,
  response_delay,      \* when the answer is due, in 32 bits
  last_keyword,        \* the answer
  alarm_enable, alarm_active, beeping,
  now,                 \* GetTickCount64() in seconds
  last_entry,          \* the line the game shows last, with its number
  lines, edits,        \* lines that came, menu clicks so far
  due,                 \* the line the answer is for, and when it is due
  sent                 \* how many answers were sent, and for which line the last

switches == <<enable, running, alarm_enable>>
lists == <<chat_keywords, color_keywords, edits>>
answer == <<send_response, response_delay, last_keyword, due, sent>>
alarm == <<alarm_active, beeping>>
vars == <<switches, lists, answer, alarm, chatlog_data, ignore_last_chat, has_line_changed,
          should_play_alarm, now, last_entry, lines>>

Modes == {"delete", "ignore"}
NoLine == [n |-> 0, keys |-> <<>>, words |-> {}]

(* How a colour is written: in full in the text of a line, without leading *)
(* zeros from a number, which then gets two zeros whatever it lacks.       *)
TextKey(c) == [color |-> c, digits |-> 6]
NumberKey(c) == [color |-> c, digits |-> IF Digits[c] = 6 THEN 6 ELSE Digits[c] + 2]
Key == {TextKey(c) : c \in Color} \cup {NumberKey(c) : c \in Color}

(* The colours of a line in their order: the prefix of a player's line, *)
(* the line's own, and those written in its text.                       *)
LineKeys(line) ==
  (IF line.type = "chat" THEN <<NumberKey(line.prefix)>> ELSE <<>>)
    \o <<NumberKey(line.color)>>
    \o [i \in DOMAIN line.inner |-> TextKey(line.inner[i])]

IsListed(k) == color_keywords[k] \in Modes

(* should_delete_last_chat: what the first listed colour of a line says. *)
Verdict(keys) ==
  LET listed == {i \in DOMAIN keys : IsListed(keys[i])}
  IN IF listed = {} THEN "show"
     ELSE color_keywords[keys[CHOOSE i \in listed : \A j \in listed : i <= j]]

(* The label the log draws with a line: good if no colour of it is listed. *)
IsGood(keys) == \A i \in DOMAIN keys : ~IsListed(keys[i])

Running == enable /\ running

(* The log is cut after a line of the game's, not after one of the program's. *)
Trimmed(log) == IF Len(log) > LogSize THEN Tail(log) ELSE log
-----------------------------------------------------------------------------
Init ==
  /\ enable \in BOOLEAN /\ alarm_enable \in BOOLEAN
  /\ running = FALSE
  /\ chat_keywords = <<>>
  /\ color_keywords = [k \in Key |-> "none"]
  /\ chatlog_data = <<>>
  /\ ignore_last_chat = FALSE
  /\ has_line_changed = FALSE /\ send_response = FALSE /\ should_play_alarm = FALSE
  /\ response_delay = 0
  /\ last_keyword = "none"
  /\ alarm_active = FALSE /\ beeping = 0
  /\ now = 0
  /\ last_entry = NoLine
  /\ lines = 0 /\ edits = 0
  /\ due = [n |-> 0, at |-> 0]
  /\ sent = [n |-> 0, count |-> 0]

Receive(keys) ==
  /\ lines < MaxLines
  /\ lines' = lines + 1
  /\ chatlog_data' = Trimmed(Append(chatlog_data, keys))
  /\ ignore_last_chat' = (ignore_last_chat \/ Verdict(keys) = "ignore")
  /\ UNCHANGED <<switches, lists, answer, alarm, now>>

Shows(line) ==
  /\ has_line_changed' = TRUE
  /\ should_play_alarm' = FALSE
  /\ last_entry' = [n |-> lines', keys |-> LineKeys(line), words |-> line.words]

(* Changed: the flag is set before the colours are looked at. *)
AddEntryFlagFirst(line) ==
  LET keys == LineKeys(line)
  IN /\ Receive(keys)
     /\ has_line_changed' = TRUE
     /\ should_play_alarm' = FALSE
     /\ last_entry' = IF Verdict(keys) = "delete" THEN last_entry
                      ELSE [n |-> lines', keys |-> keys, words |-> line.words]

(* hook_add_entry: a line comes.  The log always gets it; a line of a       *)
(* deleted colour gets no further, and one of an ignored colour is shown    *)
(* but sets the flag that keeps scan_chat from the last line.               *)
AddEntry(line) ==
  LET keys == LineKeys(line)
  IN /\ Receive(keys)
     /\ IF Verdict(keys) = "delete"
        THEN UNCHANGED <<has_line_changed, should_play_alarm, last_entry>>
        ELSE Shows(line)
-----------------------------------------------------------------------------
(* Changed: whether the alarm sounds already is not asked. *)
StartAlarmAgain ==
  IF alarm_enable /\ running
  THEN alarm_active' = TRUE /\ beeping' = beeping + 1
  ELSE UNCHANGED alarm

(* alarm::start_alarm, which asks for a running route itself. *)
StartAlarm ==
  IF alarm_enable /\ running /\ ~alarm_active
  THEN alarm_active' = TRUE /\ beeping' = beeping + 1
  ELSE UNCHANGED alarm

(* beep_thread, custom_alarm_thread: the sound is over. *)
BeepEnds ==
  /\ beeping > 0
  /\ beeping' = beeping - 1
  /\ alarm_active' = FALSE
  /\ UNCHANGED <<switches, lists, answer, chatlog_data, ignore_last_chat, has_line_changed,
                 should_play_alarm, now, last_entry, lines>>

(* scan_chat: whether the last line is looked at, and the answers of the   *)
(* keywords found in it.  The last of them is the one to be sent.          *)
Scans == ~ignore_last_chat /\ has_line_changed
Found == {i \in DOMAIN chat_keywords : chat_keywords[i].keyword \in last_entry.words}
Hit == Scans /\ Found # {}
Answer == chat_keywords[CHOOSE i \in Found : \A j \in Found : j <= i].response

(* Changed: the answer is due at once. *)
DeadlineNow(t) == now

Deadline(t) == t % Wrap

(* Changed: the answer is not sent any more once another line was shown. *)
MaySendToLast(deadline) == now >= deadline /\ should_play_alarm'

(* send_response, of what is pending once the line has been scanned: the  *)
(* 64 bits of the clock are compared with the 32 of the deadline.         *)
MaySend(deadline) == now >= deadline

(* tick: scan_chat, send_response and start_alarm, on every frame. *)
Tick ==
  /\ Running
  /\ has_line_changed' = (has_line_changed /\ ~Scans)
  /\ should_play_alarm' = (should_play_alarm \/ Hit)
  /\ IF Hit
     THEN LET at == now + Seconds[Answer]
          IN /\ last_keyword' = Answer
             /\ response_delay' = Deadline(at)
             /\ due' = [n |-> last_entry.n, at |-> at]
     ELSE UNCHANGED <<last_keyword, response_delay, due>>
  /\ IF (send_response \/ Hit) /\ MaySend(response_delay')
     THEN send_response' = FALSE /\ sent' = [n |-> due'.n, count |-> sent.count + 1]
     ELSE send_response' = (send_response \/ Hit) /\ UNCHANGED sent
  /\ IF should_play_alarm' THEN StartAlarm ELSE UNCHANGED alarm
  /\ UNCHANGED <<switches, lists, chatlog_data, ignore_last_chat, now, last_entry, lines>>

(* send_alert_to_user: the alarm, a line in the log, and the routes stop. *)
SendAlertToUser ==
  /\ running /\ lines < MaxLines
  /\ StartAlarm
  /\ lines' = lines + 1
  /\ chatlog_data' = Append(chatlog_data, <<NumberKey(AlertColor)>>)
  /\ running' = FALSE
  /\ UNCHANGED <<enable, alarm_enable, lists, answer, ignore_last_chat, has_line_changed,
                 should_play_alarm, now, last_entry>>

(* A route is started or stopped, by whatever means. *)
RouteChanges ==
  /\ running' = ~running
  /\ UNCHANGED <<enable, alarm_enable, lists, answer, alarm, chatlog_data, ignore_last_chat,
                 has_line_changed, should_play_alarm, now, last_entry, lines>>

Second ==
  /\ now < MaxNow
  /\ now' = now + 1
  /\ UNCHANGED <<switches, lists, answer, alarm, chatlog_data, ignore_last_chat,
                 has_line_changed, should_play_alarm, last_entry, lines>>
-----------------------------------------------------------------------------
Edit ==
  /\ edits < MaxEdits
  /\ edits' = edits + 1
  /\ UNCHANGED <<switches, answer, alarm, chatlog_data, ignore_last_chat, has_line_changed,
                 should_play_alarm, now, last_entry, lines>>

(* do_settings_menu: AddEntry, ClearEntries and Delete. *)
AddKeyword(keyword, response) ==
  /\ Len(chat_keywords) < MaxEntries
  /\ Edit
  /\ chat_keywords' = Append(chat_keywords, [keyword |-> keyword, response |-> response])
  /\ UNCHANGED color_keywords

ClearKeywords == Edit /\ chat_keywords' = <<>> /\ UNCHANGED color_keywords

DeleteKeyword(i) ==
  /\ Edit
  /\ chat_keywords' = SubSeq(chat_keywords, 1, i - 1) \o SubSeq(chat_keywords, i + 1, Len(chat_keywords))
  /\ UNCHANGED color_keywords

(* draw_chat_log_child: a click on a colour of a logged line takes it off  *)
(* the list, or puts it there to delete (left) or to ignore (right).       *)
ClickColor(key, mode) ==
  /\ Edit
  /\ color_keywords' = [color_keywords EXCEPT ![key] = IF IsListed(key) THEN "none" ELSE mode]
  /\ UNCHANGED chat_keywords

(* draw_color_tree_list: Delete. *)
DeleteColor(key) ==
  /\ IsListed(key)
  /\ Edit
  /\ color_keywords' = [color_keywords EXCEPT ![key] = "none"]
  /\ UNCHANGED chat_keywords

Menu ==
  \/ \E keyword \in Keyword, response \in Response : AddKeyword(keyword, response)
  \/ ClearKeywords
  \/ \E i \in DOMAIN chat_keywords : DeleteKeyword(i)
  \/ \E i \in DOMAIN chatlog_data, mode \in Modes :
       \E j \in DOMAIN chatlog_data[i] : ClickColor(chatlog_data[i][j], mode)
  \/ \E key \in Key : DeleteColor(key)

Next ==
  \/ \E line \in Line : AddEntry(line)
  \/ Tick
  \/ BeepEnds
  \/ SendAlertToUser
  \/ RouteChanges
  \/ Second
  \/ Menu

Spec == Init /\ [][Next]_vars

(* Frames are drawn and time goes on; what players, server and user do is *)
(* up to them.                                                            *)
FairSpec == Spec /\ WF_vars(Tick) /\ WF_vars(Second) /\ WF_vars(BeepEnds)
-----------------------------------------------------------------------------
TypeOK ==
  /\ {enable, running, alarm_enable, alarm_active, ignore_last_chat,
      has_line_changed, send_response, should_play_alarm} \subseteq BOOLEAN
  /\ chat_keywords \in Seq([keyword : Keyword, response : Response])
  /\ color_keywords \in [Key -> Modes \cup {"none"}]
  /\ chatlog_data \in Seq(Seq(Key))
  /\ response_delay \in 0..Wrap - 1
  /\ last_keyword \in Response \cup {"none"}
  /\ send_response => last_keyword # "none"

(* There is one alarm thread exactly while the flag says so, whoever starts *)
(* the alarm, a found keyword or an alert (alarm.cpp:32 and :15).           *)
OneAlarm == beeping = IF alarm_active THEN 1 ELSE 0

(* A line is answered once at most, and never one older than the line       *)
(* answered last: deleted lines, which leave an older line the game's last, *)
(* do not have it scanned again (chat_detect.cpp:9-15 and :53).             *)
AnswersOnce == [][sent'.count # sent.count => sent'.n > sent.n]_vars

(* An answer takes its time, as a person would, also when another line is   *)
(* found meanwhile, but for the wrap of 32 bits after 49.7 days: a deadline *)
(* behind the wrap is small and long past (chat_detect.cpp:42 and :64).     *)
AnswerTakesTime ==
  [][sent'.count # sent.count => now >= due'.at \/ due'.at >= Wrap]_vars

(* A found keyword is answered: other lines, edits of the list and the wrap *)
(* of the deadline may change or hasten the answer but not hold it back     *)
(* while the route runs (chat_detect.cpp:56-69).                            *)
AnswerGoesOut == []<>(~send_response \/ ~Running)

(* What the log says of a line: a line labelled "This chat is good!" is     *)
(* scanned by the next frame (chatlog.cpp:195).                             *)
GoodLineScanned == [][Tick /\ IsGood(last_entry.keys) => ~has_line_changed']_vars
=============================================================================
