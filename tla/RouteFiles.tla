----------------------------- MODULE RouteFiles -----------------------------
(***************************************************************************)
(* Route files (configs, packets_config, waypoints_config): the route and  *)
(* the chat lists in memory, the files they are saved in, and the list of  *)
(* files the menu shows.  Files are created, loaded, removed and published *)
(* on the game's thread; what others published is downloaded on the socket *)
(* thread, which writes files and makes the list anew at the same time.    *)
(*                                                                         *)
(* A file is the sequence of what is written to it: a header (version,     *)
(* name, uuid, licence and user), then sections of a tag, a count and as   *)
(* many elements, field by field.  Any part of it may be there when the    *)
(* program stops, when the disk is full, or when the other thread reads.   *)
(* No stream is ever asked whether it is good: what is not there is read   *)
(* as garbage.  A file is named by its uuid, which is random; a name whose *)
(* base64 has a slash in it cannot be opened, like one on a full disk.     *)
(* Publishing is a command and a message of the server, which keeps what   *)
(* was published.                                                          *)
(***************************************************************************)
EXTENDS Integers, Sequences, SequencesExt

CONSTANTS
  Id,           \* uuids of files
  Element,      \* waypoints, packets, RPCs, keywords, colours: [kind, ...]
  Recordings,   \* routes and chat lists that can be made: [route, chat]
  Foreign,      \* what other versions of the program write after the header
  MaxStops, MaxClicks, MaxGarbage   \* bounds of the model

VARIABLES
  route,        \* vars.waypoints, vars.packets
  chat,         \* vars.chat_detect.chat_keywords, color_keywords
  use_global,   \* vars.misc.use_global_keywords_and_colors
  disk,         \* the file of each uuid
  route_configs,\* the list: how many entries of each file
  job,          \* what each thread is doing
  published,    \* files the server has
  stops, clicks,\* restarts, uses of the menu and downloads so far
  gone,         \* files removed since the list was made, without making it anew
  raced         \* the list was made by both threads at once

bounds == <<stops, clicks>>
vars == <<route, chat, use_global, disk, route_configs, job, published, bounds, gone, raced>>

Thread == {"game", "socket"}
Other(t) == IF t = "game" THEN "socket" ELSE "game"

(* What is read where a file has ended. *)
Garbage == [kind |-> "garbage"]
Content == Seq(Element \cup {Garbage})
Route == [waypoints : Content, fill : Content, packets : Content]
Lists == [keywords : Content, colors : Content]
NoRoute == [waypoints |-> <<>>, fill |-> <<>>, packets |-> <<>>]
NoLists == [keywords |-> <<>>, colors |-> <<>>]

(* What is written to a file at once: the header; a tag, a count, a field  *)
(* of an element.                                                          *)
Put(type, value) == [type |-> type, value |-> value]
Header == Put("header", "1.2")
Tagged(data) ==
  \A i \in DOMAIN data : data[i].type = "tag" =>
    i + 1 \in DOMAIN data /\ data[i + 1].type = "count"
Tags == {"waypoints", "fill", "packets", "keywords", "colors"}
FieldTypes ==
  {"waypoint", "keyword", "response", "ignore_mode", "color", "type", "on_foot_data", "model_id",
   "in_car_data", "text_length", "text", "id", "list_item", "position"}
Piece ==
  [type : {"tag"}, value : Tags \cup {"other"}] \cup [type : {"count"}, value : Nat]
    \cup [type : FieldTypes, value : Element \cup {Garbage}]

ASSUME RecordingsAssumption ==
  \A r \in Recordings : r.route \in Route \ {NoRoute} /\ r.chat \in Lists
ASSUME ForeignAssumption == \A data \in Foreign : data \in Seq(Piece) /\ Tagged(data)
ASSUME BoundsAssumption == {MaxStops, MaxClicks, MaxGarbage} \subseteq Nat

(* A file: what was written to it, and, for the properties, what it was     *)
(* meant to hold and whether all of that has been written.                  *)
NoFile == [there |-> FALSE, data |-> <<>>, of |-> [route |-> NoRoute, chat |-> NoLists], whole |-> FALSE]
Entries == [id \in Id |-> IF disk[id].there THEN 1 ELSE 0]
Listed(id) == route_configs[id] > 0

Idle == [op |-> "idle"]
(* Changed: the list is not cleared first. *)
ListingOnTop == [op |-> "fill"]

Listing == [op |-> "clear"]
Ready(t) == job[t] = Idle
-----------------------------------------------------------------------------
(* Encoding and decoding. *)

(* The fields of an element in the order they are written; the type and id  *)
(* of a packet come first and tell which others follow.                     *)
Fields(kind) ==
  CASE kind = "waypoint" -> <<"waypoint">>
    [] kind = "keyword" -> <<"keyword", "response">>
    [] kind = "color" -> <<"ignore_mode", "color">>
    [] kind = "on_foot" -> <<"type", "on_foot_data">>
    [] kind = "in_car" -> <<"type", "model_id", "in_car_data">>
    [] kind \in {"message", "command"} -> <<"type", "text_length", "text">>
    [] kind = "dialog" -> <<"type", "text_length", "text", "id", "response", "list_item">>
    [] kind = "text_draw" -> <<"type", "id">>
    [] kind = "position" -> <<"type", "position">>
    [] OTHER -> <<"type">>

EncodeElement(e) == [i \in DOMAIN Fields(e.kind) |-> Put(Fields(e.kind)[i], e)]

(* Changed: the last field is forgotten. *)
EncodeAllButLast(tag, s) ==
  <<Put("tag", tag), Put("count", Len(s))>>
    \o FlattenSeq([i \in DOMAIN s |-> IF i = Len(s) THEN Front(EncodeElement(s[i]))
                                       ELSE EncodeElement(s[i])])

(* Changed: the section is closed by one element too few. *)
EncodeOneShort(tag, s) ==
  <<Put("tag", tag), Put("count", Len(s))>>
    \o FlattenSeq([i \in 1..Len(s) - 1 |-> EncodeElement(s[i])])

EncodeSection(tag, s) ==
  <<Put("tag", tag), Put("count", Len(s))>>
    \o FlattenSeq([i \in DOMAIN s |-> EncodeElement(s[i])])

EncodeUnlessEmpty(tag, s) == IF s = <<>> THEN <<>> ELSE EncodeSection(tag, s)

HasHeader(data) == data # <<>> /\ Head(data) = Header

(* get_active_route_type: INVALID with no route or with two kinds of them. *)
IsValid(r) == (r.waypoints = <<>>) # (r.packets = <<>>)

WaypointsSections(r) ==
  EncodeSection("waypoints", r.waypoints) \o EncodeUnlessEmpty("fill", r.fill)
PacketsSection(r) == EncodeUnlessEmpty("packets", r.packets)
KeywordsSection(c) == EncodeUnlessEmpty("keywords", c.keywords)
ColorsSection(c) == EncodeUnlessEmpty("colors", c.colors)

(* What create_route_config writes after the header. *)
Encode(r, c) ==
  (IF r.waypoints # <<>> THEN WaypointsSections(r) ELSE PacketsSection(r))
    \o KeywordsSection(c) \o ColorsSection(c)

NoCount == -1
Reader == [read |-> [tag \in Tags |-> <<>>], tag |-> "none", left |-> 0, field |-> 0, bad |-> FALSE]

(* The loop of load_route_config, one field after the other: a tag, or, in  *)
(* a section, its count, or the next field of the next element.  A tag it   *)
(* does not know ends it.                                                   *)
ReadNext(r, next) ==
  IF r.bad THEN r
  ELSE CASE r.left = NoCount -> [r EXCEPT !.left = next.value]
    [] r.left = 0 ->
         IF next.type = "tag" /\ next.value \in Tags
         THEN [r EXCEPT !.tag = next.value, !.left = NoCount]
         ELSE [r EXCEPT !.bad = TRUE]
    [] OTHER ->
         IF next.type \in {"tag", "count"} \/ next.type # Fields(next.value.kind)[r.field + 1]
         THEN [r EXCEPT !.bad = TRUE]
         ELSE IF r.field + 1 < Len(Fields(next.value.kind))
         THEN [r EXCEPT !.field = @ + 1]
         ELSE [r EXCEPT !.field = 0, !.left = @ - 1, !.read[r.tag] = Append(@, next.value)]

ReadAll(reader, data) ==
  LET read[i \in 0..Len(data)] == IF i = 0 THEN reader ELSE ReadNext(read[i - 1], data[i])
  IN read[Len(data)]

(* What is left in memory once the file has ended: the elements that are    *)
(* missing are garbage, and so is a count that is missing.                  *)
Decode(data, unread) ==
  LET r == ReadAll(Reader, Tail(data))
      missing == IF r.left = NoCount THEN unread ELSE r.left
  IN [bad |-> r.bad,
      read |-> IF r.bad \/ r.tag = "none" THEN r.read
               ELSE [r.read EXCEPT ![r.tag] = @ \o [i \in 1..missing |-> Garbage]]]

LoadedRoute(read) ==
  [waypoints |-> read["waypoints"], fill |-> read["fill"], packets |-> read["packets"]]

(* Global chat lists stay as they are. *)
LoadedLists(read) ==
  IF use_global THEN chat ELSE [keywords |-> read["keywords"], colors |-> read["colors"]]
-----------------------------------------------------------------------------
Init ==
  /\ route = NoRoute
  /\ chat = NoLists
  /\ use_global \in BOOLEAN
  /\ disk = [id \in Id |-> NoFile]
  /\ route_configs = [id \in Id |-> 0]
  /\ job = [t \in Thread |-> Idle]
  /\ published = {[NoFile EXCEPT !.there = TRUE, !.data = <<Header>> \o data] : data \in Foreign}
  /\ stops = 0 /\ clicks = 0
  /\ gone = {}
  /\ raced = FALSE

(* A route is recorded, the chat lists are edited. *)
Record ==
  /\ Ready("game")
  /\ \E r \in Recordings : route' = r.route /\ chat' = r.chat
  /\ UNCHANGED <<use_global, disk, route_configs, job, published, gone, raced>>

(* create_route_config opens the file.  With no route that can be saved the *)
(* file is removed again and the list remains as it was.                    *)
CreateConfig(id) ==
  /\ Ready("game") /\ ~disk[id].there /\ ~Listed(id)
  /\ \/ /\ disk' = [disk EXCEPT ![id] = [NoFile EXCEPT !.there = TRUE, !.of = [route |-> route, chat |-> chat]]]
        /\ job' = [job EXCEPT !["game"] =
             [op |-> "write", id |-> id, keep |-> IsValid(route), whole |-> IsValid(route),
              todo |-> <<Header>> \o IF IsValid(route) THEN Encode(route, chat) ELSE <<>>]]
     \/ /\ job' = [job EXCEPT !["game"] = IF IsValid(route) THEN Listing ELSE Idle]
        /\ UNCHANGED disk
  /\ UNCHANGED <<route, chat, use_global, route_configs, published, gone, raced>>

(* download_route_config: the answer of the server, under a new uuid. *)
Download(id, file) ==
  /\ Ready("socket") /\ ~disk[id].there /\ ~Listed(id)
  /\ HasHeader(file.data)
  /\ \/ /\ disk' = [disk EXCEPT ![id] = [NoFile EXCEPT !.there = TRUE, !.of = file.of]]
        /\ job' = [job EXCEPT !["socket"] =
             [op |-> "write", id |-> id, keep |-> TRUE, whole |-> file.whole,
              todo |-> <<Header>> \o Tail(file.data)]]
     \/ job' = [job EXCEPT !["socket"] = Listing] /\ UNCHANGED disk
  /\ UNCHANGED <<route, chat, use_global, route_configs, published, gone, raced>>

(* Some more of the file gets to the disk. *)
Write(t) ==
  /\ job[t].op = "write" /\ job[t].todo # <<>>
  /\ disk' = [disk EXCEPT ![job[t].id].data = Append(@, Head(job[t].todo))]
  /\ job' = [job EXCEPT ![t].todo = Tail(@)]
  /\ UNCHANGED <<route, chat, use_global, route_configs, published, bounds, gone, raced>>

(* Or nothing more, without anybody noticing. *)
WriteFails(t) ==
  /\ job[t].op = "write" /\ job[t].todo # <<>>
  /\ job' = [job EXCEPT ![t].todo = <<>>, ![t].whole = FALSE]
  /\ UNCHANGED <<route, chat, use_global, disk, route_configs, published, bounds, gone, raced>>

(* The file is closed, and the list is to be made, or it is removed. *)
Close(t) ==
  /\ job[t].op = "write" /\ job[t].todo = <<>>
  /\ IF job[t].keep
     THEN /\ disk' = [disk EXCEPT ![job[t].id].whole = job[t].whole]
          /\ job' = [job EXCEPT ![t] = Listing]
          /\ UNCHANGED gone
     ELSE /\ disk' = [disk EXCEPT ![job[t].id] = NoFile]
          /\ job' = [job EXCEPT ![t] = Idle]
          /\ gone' = gone \cup {job[t].id}
  /\ UNCHANGED <<route, chat, use_global, route_configs, published, bounds, raced>>

(* get_configs_list: the list is cleared, then filled from the directory. *)
ClearList(t) ==
  /\ job[t] = Listing
  /\ route_configs' = [id \in Id |-> 0]
  /\ job' = [job EXCEPT ![t] = [op |-> "fill"]]
  /\ raced' = (job[Other(t)].op = "fill")
  /\ UNCHANGED <<route, chat, use_global, disk, published, bounds, gone>>

FillList(t) ==
  /\ job[t].op = "fill"
  /\ route_configs' = [id \in Id |-> route_configs[id] + Entries[id]]
  /\ job' = [job EXCEPT ![t] = Idle]
  /\ gone' = {}
  /\ UNCHANGED <<route, chat, use_global, disk, published, bounds, raced>>

(* remove_route_config, of an entry of the list.  It fails if the socket    *)
(* thread has the file open, which ends the process: see Stop.              *)
RemoveConfig(id) ==
  /\ Ready("game") /\ Listed(id)
  /\ job["socket"].op = "write" => job["socket"].id # id
  /\ disk' = [disk EXCEPT ![id] = NoFile]
  /\ job' = [job EXCEPT !["game"] = Listing]
  /\ UNCHANGED <<route, chat, use_global, route_configs, published, gone, raced>>

(* load_route_config, from the menu or by the conditional routes: without   *)
(* our version nothing happens; a tag that is not known removes the file,   *)
(* but not from the list.                                                   *)
LoadConfig(id) ==
  /\ Ready("game") /\ Listed(id)
  /\ HasHeader(disk[id].data)
  /\ job["socket"].op = "write" => job["socket"].id # id \/ ~Decode(disk[id].data, 0).bad
  /\ \E unread \in 0..MaxGarbage :
       LET file == Decode(disk[id].data, unread)
       IN /\ route' = LoadedRoute(file.read)
          /\ chat' = LoadedLists(file.read)
          /\ IF file.bad
             THEN disk' = [disk EXCEPT ![id] = NoFile] /\ gone' = gone \cup {id}
             ELSE UNCHANGED <<disk, gone>>
  /\ UNCHANGED <<use_global, route_configs, job, published, raced>>

(* Set Config Public: whatever the file of the entry holds is sent. *)
Publish(id) ==
  /\ Ready("game") /\ Listed(id)
  /\ published' = published \cup {[disk[id] EXCEPT !.there = TRUE]}
  /\ UNCHANGED <<route, chat, use_global, disk, route_configs, job, gone, raced>>

(* The program ends, in whatever it is doing, and is started again: setup   *)
(* makes the list, everything else in memory is lost.                       *)
Stop ==
  /\ stops < MaxStops
  /\ stops' = stops + 1
  /\ route' = NoRoute /\ chat' = NoLists
  /\ job' = [t \in Thread |-> Idle]
  /\ route_configs' = Entries
  /\ gone' = {} /\ raced' = FALSE
  /\ UNCHANGED <<use_global, disk, published, clicks>>

Click ==
  /\ clicks < MaxClicks
  /\ clicks' = clicks + 1 /\ UNCHANGED stops
  /\ \/ Record
     \/ \E id \in Id : CreateConfig(id) \/ RemoveConfig(id) \/ LoadConfig(id) \/ Publish(id)
     \/ \E id \in Id, file \in published : Download(id, file)

Next ==
  \/ Click
  \/ \E t \in Thread : Write(t) \/ WriteFails(t) \/ Close(t) \/ ClearList(t) \/ FillList(t)
  \/ Stop

Spec == Init /\ [][Next]_vars
-----------------------------------------------------------------------------
TypeOK ==
  /\ route \in Route /\ chat \in Lists
  /\ route_configs \in [Id -> Nat]
  /\ \A id \in Id : disk[id].whole => disk[id].there
  /\ \A t \in Thread : job[t].op \in {"idle", "write", "clear", "fill"}

(* What is saved of a route.                                                *)
Saved(r) == IF r.waypoints = <<>> THEN [r EXCEPT !.fill = <<>>] ELSE r

(* A file that was written to its end, here or by who published it, loads   *)
(* as the route it was saved from, and its chat lists unless the global     *)
(* ones are kept; also after a restart, and whoever wrote what since.  A    *)
(* fill route beside recorded packets, which never runs, is left out.       *)
LoadsWhatWasSaved ==
  [][\A id \in Id : LoadConfig(id) /\ disk[id].whole =>
       /\ route' = Saved(disk[id].of.route)
       /\ chat' = IF use_global THEN chat ELSE disk[id].of.chat]_vars

(* Loading removes a file for a tag that is not known (configs.cpp:236):    *)
(* never one the program wrote itself, however little of it got written or  *)
(* is written so far.                                                       *)
GoodFilesStay ==
  [][\A id \in Id : LoadConfig(id) /\ ~disk'[id].there => disk[id].of.route = NoRoute]_vars

(* With nobody at work every file is in the list, once, and what is in the  *)
(* list without a file was removed since without making the list anew; but  *)
(* the two threads may have made it at once.                                *)
ListMatchesDisk ==
  (\A t \in Thread : Ready(t)) /\ ~raced =>
    \A id \in Id \ gone : route_configs[id] = Entries[id]
=============================================================================
