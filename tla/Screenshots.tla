----------------------------- MODULE Screenshots -----------------------------
(***************************************************************************)
(* Screenshots (class screenshot).  The server asks for a picture or       *)
(* switches the live stream on and off, on the socket thread; the frames,  *)
(* on the game's thread, capture what was asked for, every two seconds a   *)
(* picture for the stream, and one for the user who let go of F8.  What    *)
(* was captured is encoded on a detached thread of its own, which adds a   *)
(* command for the server or writes a file.                                *)
(*                                                                         *)
(* The switches are plain bools: each test, each capture and each store is *)
(* a step, and the other threads run in between.  A picture is what it was *)
(* captured for.  That a capture whose last step fails keeps two surfaces  *)
(* (screenshot.cpp:447) is left out.                                       *)
(***************************************************************************)
EXTENDS Naturals

CONSTANTS
  Encoder,      \* encoding threads; the code has as many as it needs
  Interval,     \* units of time between two pictures of the stream, 2000 ms
  MaxAsked, MaxKeys     \* bounds of the model

ASSUME IntervalAssumption == Interval \in Nat \ {0}

VARIABLES
  m_take_screenshot, m_live_active,
  at,           \* what the frame does next
  live_age,     \* GetTickCount64() - live_tick, no more than Interval + 1
  should_take_screenshot,   \* F8 was pressed
  documents_exist,          \* the directory the game knows
  file_exists,              \* "screenshot.png": the name does not change
  encoder,      \* what each thread encodes
  sent,         \* the command added by the last step, if any
  asked,        \* pictures the server asked for,
  answered,     \* those it has been answered since, or whose capture failed
  overlapped,   \* it asked between a capture and the clearing of the flag
  keys, pictures    \* times the user wanted a picture, and got one

switches == <<m_take_screenshot, m_live_active>>
requests == <<asked, answered, overlapped>>
files == <<should_take_screenshot, documents_exist, file_exists, keys, pictures>>
vars == <<switches, at, live_age, encoder, sent, requests, files>>

Purposes == {"request", "live", "file"}
Free == [purpose |-> "none", switched |-> FALSE, asked |-> 0]
LiveIsDue == m_live_active /\ live_age > Interval
Tag(live) == IF live THEN "LIVE_COMMAND" ELSE "SCREENSHOT_COMMAND"
Later(a, b) == IF a > b THEN a ELSE b
-----------------------------------------------------------------------------
Init ==
  /\ m_take_screenshot = FALSE /\ m_live_active = FALSE
  /\ at = "take"
  /\ live_age = 0
  /\ should_take_screenshot = FALSE
  /\ documents_exist \in BOOLEAN /\ file_exists \in BOOLEAN
  /\ encoder = [e \in Encoder |-> Free]
  /\ sent = "none"
  /\ asked = 0 /\ answered = 0 /\ overlapped = FALSE
  /\ keys = 0 /\ pictures = 0

(* take_screenshot: the command of the server. *)
TakeScreenshot ==
  /\ asked < MaxAsked
  /\ asked' = asked + 1
  /\ m_take_screenshot' = TRUE
  /\ overlapped' = (overlapped \/ at = "clear")
  /\ sent' = "none"
  /\ UNCHANGED <<m_live_active, at, live_age, encoder, answered, files>>

(* pause_or_start_live *)
PauseOrStartLive ==
  /\ m_live_active' = ~m_live_active
  /\ encoder' = [e \in Encoder |->
       IF encoder[e] = Free THEN Free ELSE [encoder[e] EXCEPT !.switched = TRUE]]
  /\ sent' = "none"
  /\ UNCHANGED <<m_take_screenshot, at, live_age, requests, files>>

TimePasses ==
  /\ live_age <= Interval
  /\ live_age' = live_age + 1
  /\ sent' = "none"
  /\ UNCHANGED <<switches, at, encoder, requests, files>>
-----------------------------------------------------------------------------
(* A thread gets the picture.  switched: the stream is not, or is no longer, *)
(* what it was captured for.                                                 *)
Captured(e, purpose) ==
  /\ encoder[e] = Free
  /\ encoder' = [encoder EXCEPT ![e] =
       [purpose |-> purpose, switched |-> m_live_active # (purpose = "live"), asked |-> asked]]

(* tick: if (m_take_screenshot) *)
TestTake ==
  /\ at = "take"
  /\ at' = IF m_take_screenshot THEN "capture" ELSE "live"
  /\ sent' = "none"
  /\ UNCHANGED <<switches, live_age, encoder, requests, files>>

(* get_screenshot_to_bytes and send_screenshot_to_discord; any step of the *)
(* capture may fail, and then nothing is sent.                             *)
Capture ==
  /\ at = "capture"
  /\ at' = "clear"
  /\ overlapped' = FALSE
  /\ \/ \E e \in Encoder : Captured(e, "request") /\ UNCHANGED answered
     \/ answered' = asked /\ UNCHANGED encoder
  /\ sent' = "none"
  /\ UNCHANGED <<switches, live_age, asked, files>>

ClearTake ==
  /\ at = "clear"
  /\ at' = "live"
  /\ m_take_screenshot' = FALSE
  /\ sent' = "none"
  /\ UNCHANGED <<m_live_active, live_age, encoder, requests, files>>

(* Changed: live_tick is set on every frame. *)
TestLiveResets ==
  /\ at = "live"
  /\ at' = IF LiveIsDue THEN "capture live" ELSE "key"
  /\ live_age' = 0
  /\ sent' = "none"
  /\ UNCHANGED <<switches, encoder, requests, files>>

TestLive ==
  /\ at = "live"
  /\ at' = IF LiveIsDue THEN "capture live" ELSE "key"
  /\ sent' = "none"
  /\ UNCHANGED <<switches, live_age, encoder, requests, files>>

(* Changed: the capture of the stream clears the flag too. *)
CaptureLiveClears ==
  /\ at = "capture live"
  /\ at' = "key"
  /\ live_age' = 0
  /\ m_take_screenshot' = FALSE
  /\ (\E e \in Encoder : Captured(e, "live")) \/ UNCHANGED encoder
  /\ sent' = "none"
  /\ UNCHANGED <<m_live_active, requests, files>>

CaptureLive ==
  /\ at = "capture live"
  /\ at' = "key"
  /\ live_age' = 0
  /\ (\E e \in Encoder : Captured(e, "live")) \/ UNCHANGED encoder
  /\ sent' = "none"
  /\ UNCHANGED <<switches, requests, files>>

(* F8 is pressed, or nothing is done with it. *)
Key ==
  /\ at = "key"
  /\ at' = "take"
  /\ should_take_screenshot' \in {should_take_screenshot, TRUE}
  /\ sent' = "none"
  /\ UNCHANGED <<switches, live_age, encoder, requests,
                 documents_exist, file_exists, keys, pictures>>

(* F8 is let go.  Without the documents directory, or if the capture fails, *)
(* the game takes its own picture; if there is a file, nobody does.         *)
KeyReleased ==
  /\ at = "key" /\ should_take_screenshot /\ keys < MaxKeys
  /\ at' = "take"
  /\ should_take_screenshot' = FALSE
  /\ IF documents_exist /\ file_exists
     THEN UNCHANGED <<keys, pictures, encoder>>
     ELSE /\ keys' = keys + 1
          /\ \/ documents_exist /\ (\E e \in Encoder : Captured(e, "file")) /\ UNCHANGED pictures
             \/ pictures' = pictures + 1 /\ UNCHANGED encoder
  /\ sent' = "none"
  /\ UNCHANGED <<switches, live_age, requests, documents_exist, file_exists>>
-----------------------------------------------------------------------------
(* Changed: the command says what is still asked for. *)
TagOfRequest(e) == Tag(~m_take_screenshot)

CommandTag(e) == Tag(m_live_active)

(* What save_pixels_to_memory lets the thread add: nothing for a pixel      *)
(* format that is not known, and a command whatever else fails, since       *)
(* SUCCEEDED(hr) is no failure; its data may then be empty.                 *)
Encoded(tag) == {"none", tag}

(* send_screenshot_to_discord_thread *)
Encode(e) ==
  /\ encoder[e].purpose \in {"request", "live"}
  /\ encoder' = [encoder EXCEPT ![e] = Free]
  /\ answered' = Later(answered, encoder[e].asked)
  /\ sent' \in Encoded(CommandTag(e))
  /\ UNCHANGED <<switches, at, live_age, asked, overlapped, files>>

(* Changed: what has failed is taken for a success, as                     *)
(* save_pixels_to_memory does by returning SUCCEEDED(hr).                  *)
SaveFailsUnnoticed(e) ==
  /\ encoder[e].purpose = "file"
  /\ encoder' = [encoder EXCEPT ![e] = Free]
  /\ file_exists' \in {file_exists, TRUE}
  /\ sent' = "none"
  /\ UNCHANGED <<switches, at, live_age, requests,
                 should_take_screenshot, documents_exist, keys, pictures>>

(* save_screenshot_to_file_thread: a step of save_pixels_to_disk fails,    *)
(* before or after it has made the file, and the game takes the picture.   *)
SaveFails(e) ==
  /\ encoder[e].purpose = "file"
  /\ encoder' = [encoder EXCEPT ![e] = Free]
  /\ file_exists' \in {file_exists, TRUE}
  /\ pictures' = pictures + 1
  /\ sent' = "none"
  /\ UNCHANGED <<switches, at, live_age, requests,
                 should_take_screenshot, documents_exist, keys>>

(* Or the file is written; as nothing but a header if the format cannot be *)
(* converted, which is not an error of hr.                                 *)
Save(e) ==
  /\ encoder[e].purpose = "file"
  /\ encoder' = [encoder EXCEPT ![e] = Free]
  /\ file_exists' = TRUE
  /\ pictures' = pictures + 1
  /\ sent' = "none"
  /\ UNCHANGED <<switches, at, live_age, requests,
                 should_take_screenshot, documents_exist, keys>>

Tick == TestTake \/ Capture \/ ClearTake \/ TestLive \/ CaptureLive \/ Key \/ KeyReleased

Thread(e) == Encode(e) \/ SaveFails(e) \/ Save(e)

Next ==
  \/ TakeScreenshot
  \/ PauseOrStartLive
  \/ TimePasses
  \/ Tick
  \/ \E e \in Encoder : Thread(e)

Spec == Init /\ [][Next]_vars

(* Frames are drawn, time passes and a thread ends; when the server asks *)
(* and when the user presses the key is up to them.                      *)
FairSpec ==
  /\ Spec
  /\ WF_vars(Tick) /\ WF_vars(TimePasses)
  /\ \A e \in Encoder : WF_vars(Thread(e))
-----------------------------------------------------------------------------
TypeOK ==
  /\ {m_take_screenshot, m_live_active, should_take_screenshot,
      documents_exist, file_exists, overlapped} \subseteq BOOLEAN
  /\ at \in {"take", "capture", "clear", "live", "capture live", "key"}
  /\ live_age \in 0..Interval + 1
  /\ \A e \in Encoder : encoder[e] = Free \/ encoder[e].purpose \in Purposes
  /\ answered \in 0..asked
  /\ pictures \in 0..keys

(* Whatever the server asks for is captured after it asked and is sent, but *)
(* for a capture that fails and for a request between a capture and the     *)
(* store that clears the flag of the one before, which is lost              *)
(* (screenshot.cpp:485-493).                                                *)
RequestServed == []<>(answered = asked \/ overlapped)

(* While the stream is on, pictures of it keep being captured, whatever     *)
(* else the frames are doing (screenshot.cpp:496-505).                      *)
LiveGoesOn == []<>(~m_live_active \/ at = "capture live")

(* The command says what its picture was captured for, if the stream was    *)
(* not switched meanwhile and not on when the picture was asked for         *)
(* (screenshot.cpp:476).                                                    *)
TagTellsPurpose ==
  [][\A e \in Encoder : Encode(e) /\ sent' # "none" /\ ~encoder[e].switched =>
       sent' = Tag(encoder[e].purpose = "live")]_vars

(* Whenever F8 is let go and there is no file yet, there will be one, or    *)
(* the game takes its own picture (screenshot.cpp:457-461 and :516-544).    *)
KeyAnswered == []<>(pictures = keys)
=============================================================================
