-------------------------- MODULE RouteFilesProofs --------------------------
(***************************************************************************)
(* Route files, for any number of files, whatever is written to them and   *)
(* whenever the program stops.  In this order: the list of files and the   *)
(* directory; files and the threads that write them; what is written is    *)
(* what is read; what the files hold, and what is loaded from them.        *)
(***************************************************************************)
EXTENDS RouteFiles, SequenceTheorems, WellFoundedInduction, TLAPS

(***************************************************************************)
(* The list.  Two threads make it: each clears it in one step and fills it *)
(* in another.  What a thread is about to do makes up for a list that is   *)
(* not right, as long as not both are between the two steps.               *)
(***************************************************************************)

(* Records as far as the argument looks at them: a file has its four       *)
(* fields, a thread that writes knows its file.                            *)
IsFile(f) == f = [field \in {"there", "data", "of", "whole"} |-> f[field]]

IsWriteJob(j) ==
  j = [op |-> "write", id |-> j.id, keep |-> j.keep, whole |-> j.whole, todo |-> j.todo]

Shapes ==
  /\ disk = [id \in Id |-> disk[id]] /\ \A id \in Id : IsFile(disk[id])
  /\ job = [t \in Thread |-> job[t]]
  /\ \A t \in Thread :
       \/ job[t] \in {Idle, Listing, ListingOnTop}
       \/ IsWriteJob(job[t]) /\ job[t].id \in Id

Writing == {job[t].id : t \in {u \in Thread : job[u].op = "write"}}

(* Unless both threads were between the two steps at once, the list is     *)
(* empty where one of them is.                                             *)
EmptyWhileFilled ==
  ~raced =>
    \A t \in Thread : job[t].op = "fill" =>
      job[Other(t)].op # "fill" /\ \A id \in Id : route_configs[id] = 0

(* Where neither is between the two steps nor about to clear it, the list  *)
(* is right but for files that were removed or are being written.          *)
RightOtherwise ==
  ~raced /\ (\A t \in Thread : job[t].op \in {"idle", "write"}) =>
    \A id \in Id \ (gone \cup Writing) : route_configs[id] = Entries[id]

ListInv == Shapes /\ EmptyWhileFilled /\ RightOtherwise

AtRest == \A t \in Thread : job[t].op \in {"idle", "write"}

(***************************************************************************)
(* Lemmas.                                                                 *)
(***************************************************************************)

(* There are two threads. *)
LEMMA TwoThreads ==
  ASSUME NEW t \in Thread
  PROVE  /\ Other(t) \in Thread /\ Other(t) # t
         /\ \A u \in Thread : u = t \/ u = Other(t)
  BY DEF Thread, Other

(* A thread is where its job says. *)
LEMMA JobOps ==
  ASSUME Shapes, NEW t \in Thread
  PROVE  /\ job[t].op \in {"idle", "clear", "fill", "write"}
         /\ job[t] = Idle <=> job[t].op = "idle"
         /\ job[t] = Listing <=> job[t].op = "clear"
         /\ job[t].op = "fill" => job[t] = ListingOnTop
         /\ job[t].op = "write" => IsWriteJob(job[t]) /\ job[t].id \in Id
  BY DEF Shapes, IsWriteJob, Idle, Listing, ListingOnTop

(* A step that leaves the list alone and brings no thread between the two  *)
(* steps keeps the list empty where it was.                                *)
LEMMA EmptyStays ==
  ASSUME EmptyWhileFilled, UNCHANGED <<route_configs, raced>>,
         \A t \in Thread : job'[t].op = "fill" => job[t].op = "fill"
  PROVE  EmptyWhileFilled'
  BY TwoThreads DEF EmptyWhileFilled

(* It keeps the list right where files come and go that are being written  *)
(* or were removed.                                                        *)
LEMMA RightStays ==
  ASSUME RightOtherwise, UNCHANGED <<route_configs, raced>>, AtRest' => AtRest,
         \A id \in Id \ (gone' \cup Writing') :
           id \notin gone \cup Writing /\ Entries'[id] = Entries[id]
  PROVE  RightOtherwise'
  BY DEF RightOtherwise, AtRest

(* A thread that is about to clear the list makes up for everything.       *)
LEMMA RightToCome ==
  ASSUME NEW t \in Thread, job'[t] = Listing
  PROVE  RightOtherwise'
  BY DEF RightOtherwise, Listing

(***************************************************************************)
(* The steps.                                                              *)
(***************************************************************************)

LEMMA InitRight == Init => ListInv
<1> SUFFICES ASSUME Init PROVE ListInv
  OBVIOUS
<1>1. Shapes
  BY DEF Init, Shapes, IsFile, NoFile
<1>2. EmptyWhileFilled
  BY DEF Init, EmptyWhileFilled, Idle
<1>3. RightOtherwise
  BY DEF Init, RightOtherwise, Entries, NoFile
<1> QED
  BY <1>1, <1>2, <1>3 DEF ListInv

(* Steps that leave the files, the list and the threads as they are.       *)
LEMMA OthersKeepList ==
  ASSUME ListInv, UNCHANGED <<disk, route_configs, job, gone, raced>>
  PROVE  ListInv'
  BY DEF ListInv, Shapes, EmptyWhileFilled, RightOtherwise, Writing, Entries

(* A thread that was idle creates a file, which counts as being written,   *)
(* or is to make the list, or goes on without a file.                      *)
LEMMA BeginKeepsList ==
  ASSUME ListInv, NEW t \in Thread, NEW id \in Id, NEW j,
         Ready(t), job' = [job EXCEPT ![t] = j],
         UNCHANGED <<route_configs, gone, raced>>,
         \/ /\ IsWriteJob(j) /\ j.id = id
            /\ \E file : IsFile(file) /\ disk' = [disk EXCEPT ![id] = file]
         \/ j \in {Listing, Idle} /\ UNCHANGED disk
  PROVE  ListInv'
<1> USE DEF ListInv
<1>1. Shapes'
  BY DEF Shapes
<1>2. /\ job[t].op = "idle" /\ job'[t] = j
      /\ \A u \in Thread : u # t => job'[u] = job[u]
  BY DEF Shapes, Ready, Idle
<1>3. j.op # "fill"
  BY DEF IsWriteJob, Listing, Idle
<1>4. EmptyWhileFilled'
  BY <1>2, <1>3, EmptyStays
<1>5. RightOtherwise'
  <2>1. CASE j = Listing
    BY <2>1, <1>2, RightToCome
  <2>2. CASE j = Idle /\ UNCHANGED disk
    <3>1. Writing' = Writing /\ Entries' = Entries
      BY <2>2, <1>2 DEF Writing, Entries, Idle
    <3>2. AtRest' => AtRest
      BY <1>2 DEF AtRest
    <3> QED BY <3>1, <3>2, RightStays
  <2>3. CASE /\ IsWriteJob(j) /\ j.id = id
             /\ \E file : IsFile(file) /\ disk' = [disk EXCEPT ![id] = file]
    <3>1. AtRest' => AtRest
      BY <1>2 DEF AtRest
    <3>2. Writing' = Writing \cup {id}
      BY <2>3, <1>2 DEF Writing, IsWriteJob
    <3>3. \A other \in Id \ {id} : Entries'[other] = Entries[other]
      BY <2>3 DEF Entries, Shapes
    <3> QED BY <3>1, <3>2, <3>3, RightStays
  <2> QED BY <2>1, <2>2, <2>3
<1> QED BY <1>1, <1>4, <1>5

(* What create_route_config and download_route_config open is a file, and  *)
(* what they write it with is a job.                                       *)
LEMMA OpenedFile ==
  ASSUME NEW of
  PROVE  IsFile([NoFile EXCEPT !.there = TRUE, !.of = of])
<1>1. IsFile(NoFile)
  BY DEF IsFile, NoFile
<1>2. ASSUME NEW f, IsFile(f) PROVE IsFile([f EXCEPT !.there = TRUE, !.of = of])
  BY <1>2 DEF IsFile
<1> QED BY <1>1, <1>2

LEMMA OpenedJob ==
  ASSUME NEW id, NEW keep, NEW whole, NEW todo
  PROVE  LET j == [op |-> "write", id |-> id, keep |-> keep, whole |-> whole, todo |-> todo]
         IN IsWriteJob(j) /\ j.id = id
  BY DEF IsWriteJob

LEMMA CreateKeepsList ==
  ASSUME ListInv, NEW id \in Id, CreateConfig(id)
  PROVE  ListInv'
<1> DEFINE of == [route |-> route, chat |-> chat]
           file == [NoFile EXCEPT !.there = TRUE, !.of = of]
           valid == IsValid(route)
           todo == <<Header>> \o IF valid THEN Encode(route, chat) ELSE <<>>
           j == [op |-> "write", id |-> id, keep |-> valid, whole |-> valid, todo |-> todo]
<1>1. \/ disk' = [disk EXCEPT ![id] = file] /\ job' = [job EXCEPT !["game"] = j]
      \/ /\ job' = [job EXCEPT !["game"] = IF valid THEN Listing ELSE Idle]
         /\ UNCHANGED disk
  BY DEF CreateConfig
<1>2. Ready("game") /\ UNCHANGED <<route_configs, gone, raced>>
  BY DEF CreateConfig
<1> HIDE DEF valid, todo, of
<1>3. IsFile(file)
  BY OpenedFile
<1>4. IsWriteJob(j) /\ j.id = id
  BY OpenedJob
<1> HIDE DEF file, j
<1>5. "game" \in Thread
  BY DEF Thread
<1> QED BY <1>1, <1>2, <1>3, <1>4, <1>5, BeginKeepsList

LEMMA DownloadKeepsList ==
  ASSUME ListInv, NEW id \in Id, NEW from, Download(id, from)
  PROVE  ListInv'
<1> DEFINE file == [NoFile EXCEPT !.there = TRUE, !.of = from.of]
           todo == <<Header>> \o Tail(from.data)
           j == [op |-> "write", id |-> id, keep |-> TRUE, whole |-> from.whole, todo |-> todo]
<1>1. \/ disk' = [disk EXCEPT ![id] = file] /\ job' = [job EXCEPT !["socket"] = j]
      \/ job' = [job EXCEPT !["socket"] = Listing] /\ UNCHANGED disk
  BY DEF Download
<1>2. Ready("socket") /\ UNCHANGED <<route_configs, gone, raced>>
  BY DEF Download
<1> HIDE DEF todo
<1>3. IsFile(file)
  BY OpenedFile
<1>4. IsWriteJob(j) /\ j.id = id
  BY OpenedJob
<1> HIDE DEF file, j
<1>5. "socket" \in Thread
  BY DEF Thread
<1> QED BY <1>1, <1>2, <1>3, <1>4, <1>5, BeginKeepsList

(* Writing on, or failing to, changes no entry.                            *)
LEMMA WriteKeepsList ==
  ASSUME ListInv, NEW t \in Thread, Write(t) \/ WriteFails(t)
  PROVE  ListInv'
<1> USE DEF ListInv
<1>1. /\ job[t].op = "write" /\ UNCHANGED <<route_configs, gone, raced>>
      /\ \/ job' = [job EXCEPT ![t].todo = Tail(@)]
         \/ job' = [job EXCEPT ![t].todo = <<>>, ![t].whole = FALSE]
      /\ \/ UNCHANGED disk
         \/ disk' = [disk EXCEPT ![job[t].id].data = Append(@, Head(job[t].todo))]
  BY DEF Write, WriteFails
<1>2. IsWriteJob(job[t]) /\ job[t].id \in Id
  BY <1>1, JobOps
<1>3. /\ \A u \in Thread : u # t => job'[u] = job[u]
      /\ IsWriteJob(job'[t]) /\ job'[t].id = job[t].id
  BY <1>1, <1>2 DEF Shapes, IsWriteJob
<1>4. job' = [u \in Thread |-> job'[u]]
  BY <1>1 DEF Shapes
<1>5. /\ disk' = [id \in Id |-> disk'[id]]
      /\ \A id \in Id : IsFile(disk'[id]) /\ disk'[id].there = disk[id].there
  <2>1. CASE UNCHANGED disk
    BY <2>1 DEF Shapes
  <2>2. CASE disk' = [disk EXCEPT ![job[t].id].data = Append(@, Head(job[t].todo))]
    <3> DEFINE more == Append(disk[job[t].id].data, Head(job[t].todo))
    <3>1. disk' = [disk EXCEPT ![job[t].id] = [disk[job[t].id] EXCEPT !.data = more]]
      BY <2>2
    <3> HIDE DEF more
    <3>2. ASSUME NEW f, IsFile(f)
          PROVE  IsFile([f EXCEPT !.data = more]) /\ [f EXCEPT !.data = more].there = f.there
      BY <3>2 DEF IsFile
    <3>3. /\ disk = [id \in Id |-> disk[id]] /\ \A id \in Id : IsFile(disk[id])
      BY DEF Shapes
    <3> QED BY <1>2, <3>1, <3>2, <3>3
  <2> QED BY <1>1, <2>1, <2>2
<1>6. Shapes'
  BY <1>2, <1>3, <1>4, <1>5 DEF Shapes
<1>7. EmptyWhileFilled'
  BY <1>1, <1>2, <1>3, EmptyStays DEF IsWriteJob
<1>8. RightOtherwise'
  <2>1. Writing' = Writing
    BY <1>2, <1>3 DEF Writing, IsWriteJob
  <2>2. Entries' = Entries
    BY <1>5 DEF Entries
  <2>3. AtRest' => AtRest
    BY <1>1, <1>3 DEF AtRest
  <2> QED BY <1>1, <2>1, <2>2, <2>3, RightStays
<1> QED BY <1>6, <1>7, <1>8

(* A file that was written is followed by the list; one that was not is    *)
(* gone.                                                                   *)
LEMMA CloseKeepsList ==
  ASSUME ListInv, NEW t \in Thread, Close(t)
  PROVE  ListInv'
<1> USE DEF ListInv
<1> DEFINE id == job[t].id
<1>1. job[t].op = "write" /\ id \in Id /\ UNCHANGED <<route_configs, raced>>
  BY JobOps DEF Close
<1>2. \/ /\ disk' = [disk EXCEPT ![id].whole = job[t].whole]
         /\ job' = [job EXCEPT ![t] = Listing] /\ UNCHANGED gone
      \/ /\ disk' = [disk EXCEPT ![id] = NoFile]
         /\ job' = [job EXCEPT ![t] = Idle] /\ gone' = gone \cup {id}
  BY DEF Close
<1> HIDE DEF id
<1>3. /\ \A u \in Thread : u # t => job'[u] = job[u]
      /\ job'[t] \in {Listing, Idle}
      /\ job' = [u \in Thread |-> job'[u]]
  BY <1>2 DEF Shapes
<1>4. disk' = [f \in Id |-> disk'[f]] /\ \A f \in Id : IsFile(disk'[f])
  BY <1>1, <1>2 DEF Shapes, IsFile, NoFile
<1>5. Shapes'
  BY <1>3, <1>4 DEF Shapes
<1>6. EmptyWhileFilled'
  BY <1>1, <1>3, EmptyStays DEF Listing, Idle
<1>7. RightOtherwise'
  <2>1. CASE job'[t] = Listing
    BY <2>1, RightToCome
  <2>2. CASE job'[t] # Listing
    <3>1. /\ disk' = [disk EXCEPT ![id] = NoFile]
          /\ job'[t] = Idle /\ gone' = gone \cup {id}
      BY <1>2, <2>2 DEF Shapes
    <3>2. Writing \subseteq Writing' \cup {id}
      BY <1>3 DEF Writing, id
    <3>3. \A f \in Id \ {id} : Entries'[f] = Entries[f]
      BY <3>1 DEF Entries, Shapes
    <3>4. AtRest' => AtRest
      BY <1>1, <1>3 DEF AtRest
    <3> QED BY <1>1, <3>1, <3>2, <3>3, <3>4, RightStays
  <2> QED BY <2>1, <2>2
<1> QED BY <1>5, <1>6, <1>7

(* Clearing: the list is empty, and the other thread may be there too.     *)
LEMMA ClearKeepsList ==
  ASSUME ListInv, NEW t \in Thread, ClearList(t)
  PROVE  ListInv'
<1> USE DEF ListInv
<1>1. /\ route_configs' = [id \in Id |-> 0] /\ UNCHANGED disk
      /\ job' = [job EXCEPT ![t] = ListingOnTop]
      /\ raced' = (job[Other(t)].op = "fill")
  BY DEF ClearList, ListingOnTop
<1>2. /\ job'[t].op = "fill"
      /\ \A u \in Thread : u # t => job'[u] = job[u]
  BY <1>1 DEF Shapes, ListingOnTop
<1>3. Shapes'
  BY <1>1 DEF Shapes
<1>4. EmptyWhileFilled'
  <2> SUFFICES ASSUME ~raced', NEW u \in Thread, job'[u].op = "fill"
               PROVE  job'[Other(u)].op # "fill" /\ \A id \in Id : route_configs'[id] = 0
    BY DEF EmptyWhileFilled
  <2>1. job'[Other(t)].op # "fill"
    BY <1>1, <1>2, TwoThreads
  <2>2. u = t
    BY <2>1, TwoThreads
  <2> QED BY <1>1, <2>1, <2>2
<1>5. RightOtherwise'
  BY <1>2 DEF RightOtherwise
<1> QED BY <1>3, <1>4, <1>5

(* Filling: what was cleared now holds every file once.                    *)
LEMMA FillKeepsList ==
  ASSUME ListInv, NEW t \in Thread, FillList(t)
  PROVE  ListInv'
<1> USE DEF ListInv
<1>1. /\ job[t].op = "fill"
      /\ route_configs' = [id \in Id |-> route_configs[id] + Entries[id]]
      /\ job' = [job EXCEPT ![t] = Idle]
      /\ UNCHANGED <<disk, raced>>
  BY DEF FillList
<1>2. /\ job'[t] = Idle
      /\ \A u \in Thread : u # t => job'[u] = job[u]
  BY <1>1 DEF Shapes
<1>3. Shapes'
  BY <1>1 DEF Shapes
<1>4. ~raced => job[Other(t)].op # "fill" /\ \A id \in Id : route_configs[id] = 0
  BY <1>1 DEF EmptyWhileFilled
<1>5. EmptyWhileFilled'
  <2> SUFFICES ASSUME ~raced, NEW u \in Thread PROVE job'[u].op # "fill"
    BY <1>1 DEF EmptyWhileFilled
  <2> QED BY <1>2, <1>4, TwoThreads DEF Idle
<1>6. RightOtherwise'
  <2>1. Entries' = Entries
    BY <1>1 DEF Entries
  <2>2. \A id \in Id : Entries[id] \in {0, 1}
    BY DEF Entries
  <2> SUFFICES ASSUME ~raced, NEW id \in Id PROVE route_configs'[id] = Entries[id]
    BY <1>1, <2>1 DEF RightOtherwise
  <2> QED BY <1>1, <1>4, <2>2
<1> QED BY <1>3, <1>5, <1>6

(* Removing is followed by the list.                                       *)
LEMMA RemoveKeepsList ==
  ASSUME ListInv, NEW id \in Id, RemoveConfig(id)
  PROVE  ListInv'
<1> USE DEF ListInv
<1>1. /\ disk' = [disk EXCEPT ![id] = NoFile]
      /\ job' = [job EXCEPT !["game"] = Listing]
      /\ UNCHANGED <<route_configs, raced>>
  BY DEF RemoveConfig
<1>2. "game" \in Thread
  BY DEF Thread
<1>3. /\ job'["game"] = Listing
      /\ \A u \in Thread : u # "game" => job'[u] = job[u]
  BY <1>1, <1>2 DEF Shapes
<1>4. Shapes'
  <2>1. IsFile(NoFile)
    BY DEF IsFile, NoFile
  <2> QED BY <1>1, <2>1 DEF Shapes
<1>5. EmptyWhileFilled'
  BY <1>1, <1>3, EmptyStays DEF Listing
<1>6. RightOtherwise'
  BY <1>2, <1>3, RightToCome
<1> QED BY <1>4, <1>5, <1>6

(* Loading leaves the list and the threads alone; a file it removes is     *)
(* gone.                                                                   *)
LEMMA LoadKeepsList ==
  ASSUME ListInv, NEW id \in Id, LoadConfig(id)
  PROVE  ListInv'
<1> USE DEF ListInv
<1>1. /\ UNCHANGED <<route_configs, job, raced>>
      /\ \/ disk' = [disk EXCEPT ![id] = NoFile] /\ gone' = gone \cup {id}
         \/ UNCHANGED <<disk, gone>>
  BY DEF LoadConfig
<1>2. CASE UNCHANGED <<disk, gone>>
  BY <1>1, <1>2, OthersKeepList
<1>3. CASE disk' = [disk EXCEPT ![id] = NoFile] /\ gone' = gone \cup {id}
  <2>1. Shapes'
    <3>1. IsFile(NoFile)
      BY DEF IsFile, NoFile
    <3> QED BY <1>1, <1>3, <3>1 DEF Shapes
  <2>2. EmptyWhileFilled'
    BY <1>1, EmptyStays
  <2>3. Writing' = Writing /\ (AtRest' => AtRest)
    BY <1>1 DEF Writing, AtRest
  <2>4. \A f \in Id \ {id} : Entries'[f] = Entries[f]
    BY <1>3 DEF Entries, Shapes
  <2>5. RightOtherwise'
    BY <1>1, <1>3, <2>3, <2>4, RightStays
  <2> QED BY <2>1, <2>2, <2>5
<1> QED BY <1>1, <1>2, <1>3

(* A restart makes the list of what is there, with nobody at work.         *)
LEMMA StopKeepsList ==
  ASSUME ListInv, Stop
  PROVE  ListInv'
<1> USE DEF ListInv
<1>1. /\ job' = [t \in Thread |-> Idle] /\ route_configs' = Entries
      /\ UNCHANGED disk
  BY DEF Stop
<1>2. Shapes'
  BY <1>1 DEF Shapes
<1>3. EmptyWhileFilled'
  BY <1>1 DEF EmptyWhileFilled, Idle
<1>4. RightOtherwise'
  BY <1>1 DEF RightOtherwise, Entries
<1> QED BY <1>2, <1>3, <1>4

LEMMA NextKeepsList == ListInv /\ [Next]_vars => ListInv'
<1> SUFFICES ASSUME ListInv, [Next]_vars PROVE ListInv'
  OBVIOUS
<1>1. CASE Click
  <2>1. CASE Record
    BY <1>1, <2>1, OthersKeepList DEF Record
  <2>2. ASSUME NEW id \in Id, CreateConfig(id) PROVE ListInv'
    BY <2>2, CreateKeepsList
  <2>3. ASSUME NEW id \in Id, RemoveConfig(id) PROVE ListInv'
    BY <2>3, RemoveKeepsList
  <2>4. ASSUME NEW id \in Id, LoadConfig(id) PROVE ListInv'
    BY <2>4, LoadKeepsList
  <2>5. ASSUME NEW id \in Id, Publish(id) PROVE ListInv'
    BY <2>5, OthersKeepList DEF Publish
  <2>6. ASSUME NEW id \in Id, NEW file \in published, Download(id, file) PROVE ListInv'
    BY <2>6, DownloadKeepsList
  <2> QED BY <1>1, <2>1, <2>2, <2>3, <2>4, <2>5, <2>6 DEF Click
<1>2. ASSUME NEW t \in Thread, Write(t) \/ WriteFails(t) PROVE ListInv'
  BY <1>2, WriteKeepsList
<1>3. ASSUME NEW t \in Thread, Close(t) PROVE ListInv'
  BY <1>3, CloseKeepsList
<1>4. ASSUME NEW t \in Thread, ClearList(t) PROVE ListInv'
  BY <1>4, ClearKeepsList
<1>5. ASSUME NEW t \in Thread, FillList(t) PROVE ListInv'
  BY <1>5, FillKeepsList
<1>6. CASE Stop
  BY <1>6, StopKeepsList
<1>7. CASE UNCHANGED vars
  BY <1>7, OthersKeepList DEF vars
<1> QED BY <1>1, <1>2, <1>3, <1>4, <1>5, <1>6, <1>7 DEF Next

THEOREM ListInvariant == Spec => []ListInv
<1> QED BY InitRight, NextKeepsList, PTL DEF Spec

(* With nobody at work the list shows every file once and nothing that is  *)
(* not there, but for what was removed without making the list anew        *)
(* (configs.cpp:236), unless both threads made it at once.                 *)
THEOREM ListIsRight == Spec => []ListMatchesDisk
<1>1. ListInv => ListMatchesDisk
  <2> SUFFICES ASSUME ListInv, \A t \in Thread : Ready(t), ~raced, NEW id \in Id \ gone
               PROVE  route_configs[id] = Entries[id]
    BY DEF ListMatchesDisk
  <2>1. \A t \in Thread : job[t].op = "idle"
    BY DEF Ready, Idle
  <2>2. Writing = {}
    BY <2>1 DEF Writing
  <2> QED BY <2>1, <2>2 DEF ListInv, RightOtherwise
<1> QED BY <1>1, ListInvariant, PTL
-----------------------------------------------------------------------------
(***************************************************************************)
(* Types, and with them that no file is removed under the thread that      *)
(* writes it, nor written by both.                                         *)
(***************************************************************************)

FilesOpen ==
  /\ \A t \in Thread : job[t].op = "write" => disk[job[t].id].there
  /\ \A t, u \in Thread :
       job[t].op = "write" /\ job[u].op = "write" /\ t # u => job[t].id # job[u].id

WholeIsThere == \A id \in Id : disk[id].whole => disk[id].there

(* A file that is opened is there, and nobody else's.                      *)
LEMMA BeginKeepsFiles ==
  ASSUME Shapes, FilesOpen, WholeIsThere, NEW t \in Thread, NEW id \in Id, NEW j,
         job' = [job EXCEPT ![t] = j], ~disk[id].there,
         \/ /\ IsWriteJob(j) /\ j.id = id
            /\ \E file : file.there /\ ~file.whole /\ disk' = [disk EXCEPT ![id] = file]
         \/ j.op # "write" /\ UNCHANGED disk
  PROVE  FilesOpen' /\ WholeIsThere'
<1>1. job'[t] = j /\ \A u \in Thread : u # t => job'[u] = job[u]
  BY DEF Shapes
<1>2. CASE j.op # "write" /\ UNCHANGED disk
  BY <1>1, <1>2 DEF FilesOpen, WholeIsThere
<1>3. CASE /\ IsWriteJob(j) /\ j.id = id
           /\ \E file : file.there /\ ~file.whole /\ disk' = [disk EXCEPT ![id] = file]
  <2>1. /\ disk'[id].there /\ ~disk'[id].whole
        /\ \A f \in Id : f # id => disk'[f] = disk[f]
    BY <1>3 DEF Shapes
  <2>2. \A u \in Thread : job[u].op = "write" => job[u].id \in Id \ {id}
    BY JobOps DEF FilesOpen
  <2>3. FilesOpen'
    BY <1>1, <1>3, <2>1, <2>2 DEF FilesOpen, IsWriteJob
  <2>4. WholeIsThere'
    BY <2>1 DEF WholeIsThere
  <2> QED BY <2>3, <2>4
<1> QED BY <1>2, <1>3

LEMMA CreateKeepsFiles ==
  ASSUME Shapes, FilesOpen, WholeIsThere, NEW id \in Id, CreateConfig(id)
  PROVE  FilesOpen' /\ WholeIsThere'
<1> DEFINE of == [route |-> route, chat |-> chat]
           file == [NoFile EXCEPT !.there = TRUE, !.of = of]
           valid == IsValid(route)
           todo == <<Header>> \o IF valid THEN Encode(route, chat) ELSE <<>>
           j == [op |-> "write", id |-> id, keep |-> valid, whole |-> valid, todo |-> todo]
<1>1. \/ disk' = [disk EXCEPT ![id] = file] /\ job' = [job EXCEPT !["game"] = j]
      \/ /\ job' = [job EXCEPT !["game"] = IF valid THEN Listing ELSE Idle]
         /\ UNCHANGED disk
  BY DEF CreateConfig
<1>2. ~disk[id].there /\ "game" \in Thread
  BY DEF CreateConfig, Thread
<1> HIDE DEF valid, todo, of
<1>3. file.there /\ ~file.whole
  BY DEF NoFile
<1>4. IsWriteJob(j) /\ j.id = id
  BY OpenedJob
<1>5. Listing.op # "write" /\ Idle.op # "write"
  BY DEF Listing, Idle
<1> HIDE DEF file, j
<1> QED BY <1>1, <1>2, <1>3, <1>4, <1>5, BeginKeepsFiles

LEMMA DownloadKeepsFiles ==
  ASSUME Shapes, FilesOpen, WholeIsThere, NEW id \in Id, NEW from, Download(id, from)
  PROVE  FilesOpen' /\ WholeIsThere'
<1> DEFINE file == [NoFile EXCEPT !.there = TRUE, !.of = from.of]
           todo == <<Header>> \o Tail(from.data)
           j == [op |-> "write", id |-> id, keep |-> TRUE, whole |-> from.whole, todo |-> todo]
<1>1. \/ disk' = [disk EXCEPT ![id] = file] /\ job' = [job EXCEPT !["socket"] = j]
      \/ job' = [job EXCEPT !["socket"] = Listing] /\ UNCHANGED disk
  BY DEF Download
<1>2. ~disk[id].there /\ "socket" \in Thread
  BY DEF Download, Thread
<1> HIDE DEF todo
<1>3. file.there /\ ~file.whole
  BY DEF NoFile
<1>4. IsWriteJob(j) /\ j.id = id
  BY OpenedJob
<1>5. Listing.op # "write"
  BY DEF Listing
<1> HIDE DEF file, j
<1> QED BY <1>1, <1>2, <1>3, <1>4, <1>5, BeginKeepsFiles

LEMMA WriteKeepsFiles ==
  ASSUME Shapes, FilesOpen, WholeIsThere, NEW t \in Thread, Write(t) \/ WriteFails(t)
  PROVE  FilesOpen' /\ WholeIsThere'
<1>1. /\ job[t].op = "write"
      /\ \/ job' = [job EXCEPT ![t].todo = Tail(@)]
         \/ job' = [job EXCEPT ![t].todo = <<>>, ![t].whole = FALSE]
      /\ \/ UNCHANGED disk
         \/ disk' = [disk EXCEPT ![job[t].id].data = Append(@, Head(job[t].todo))]
  BY DEF Write, WriteFails
<1>2. IsWriteJob(job[t]) /\ job[t].id \in Id
  BY <1>1, JobOps
<1>3. /\ \A u \in Thread : u # t => job'[u] = job[u]
      /\ job'[t].op = "write" /\ job'[t].id = job[t].id
  BY <1>1, <1>2 DEF Shapes, IsWriteJob
<1>4. \A id \in Id : disk'[id].there = disk[id].there /\ disk'[id].whole = disk[id].whole
  BY <1>1, <1>2 DEF Shapes, IsFile
<1>5. FilesOpen'
  BY <1>1, <1>3, <1>4, JobOps DEF FilesOpen
<1>6. WholeIsThere'
  BY <1>4 DEF WholeIsThere
<1> QED BY <1>5, <1>6

(* The file that is closed is there, and the other thread has another.     *)
LEMMA CloseKeepsFiles ==
  ASSUME Shapes, FilesOpen, WholeIsThere, NEW t \in Thread, Close(t)
  PROVE  FilesOpen' /\ WholeIsThere'
<1> DEFINE id == job[t].id
<1>1. job[t].op = "write" /\ id \in Id /\ disk[id].there
  BY JobOps DEF Close, FilesOpen
<1>2. \/ disk' = [disk EXCEPT ![id].whole = job[t].whole] /\ job' = [job EXCEPT ![t] = Listing]
      \/ disk' = [disk EXCEPT ![id] = NoFile] /\ job' = [job EXCEPT ![t] = Idle]
  BY DEF Close
<1>3. \A u \in Thread : u # t /\ job[u].op = "write" => job[u].id \in Id \ {id}
  BY <1>1, JobOps DEF FilesOpen
<1> HIDE DEF id
<1>4. /\ \A u \in Thread : u # t => job'[u] = job[u]
      /\ job'[t].op # "write"
  BY <1>2 DEF Shapes, Listing, Idle
<1>5. \A f \in Id \ {id} : disk'[f] = disk[f]
  BY <1>2 DEF Shapes
<1>6. disk'[id].whole => disk'[id].there
  BY <1>1, <1>2 DEF Shapes, IsFile, NoFile
<1>7. FilesOpen'
  BY <1>3, <1>4, <1>5 DEF FilesOpen
<1>8. WholeIsThere'
  BY <1>5, <1>6 DEF WholeIsThere
<1> QED BY <1>7, <1>8

(* Nothing is removed while it is written: not by the menu, which the      *)
(* system would not let, and not by loading.                               *)
LEMMA RemoveKeepsFiles ==
  ASSUME Shapes, FilesOpen, WholeIsThere, NEW id \in Id,
         \A t \in Thread : job[t].op = "write" => job[t].id # id,
         \A t \in Thread : job'[t].op = "write" => job'[t] = job[t],
         disk' = [disk EXCEPT ![id] = NoFile]
  PROVE  FilesOpen' /\ WholeIsThere'
<1>1. disk'[id] = NoFile /\ \A f \in Id \ {id} : disk'[f] = disk[f]
  BY DEF Shapes
<1>2. FilesOpen'
  BY <1>1, JobOps DEF FilesOpen
<1>3. WholeIsThere'
  BY <1>1 DEF WholeIsThere, NoFile
<1> QED BY <1>2, <1>3

LEMMA NextKeepsFiles ==
  ASSUME Shapes, FilesOpen, WholeIsThere, [Next]_vars
  PROVE  FilesOpen' /\ WholeIsThere'
<1>1. ASSUME UNCHANGED disk, \A t \in Thread : job'[t].op = "write" => job'[t] = job[t]
      PROVE  FilesOpen' /\ WholeIsThere'
  BY <1>1 DEF FilesOpen, WholeIsThere
<1>2. ASSUME NEW id \in Id, RemoveConfig(id) PROVE FilesOpen' /\ WholeIsThere'
  <2>1. /\ disk' = [disk EXCEPT ![id] = NoFile] /\ job' = [job EXCEPT !["game"] = Listing]
        /\ job["game"] = Idle /\ (job["socket"].op = "write" => job["socket"].id # id)
    BY <1>2 DEF RemoveConfig, Ready
  <2>2. \A t \in Thread : job'[t].op = "write" => job'[t] = job[t]
    BY <2>1 DEF Shapes, Listing
  <2>3. \A t \in Thread : job[t].op = "write" => job[t].id # id
    BY <2>1 DEF Thread, Idle
  <2> QED BY <2>1, <2>2, <2>3, RemoveKeepsFiles
<1>3. ASSUME NEW id \in Id, LoadConfig(id) PROVE FilesOpen' /\ WholeIsThere'
  <2> DEFINE bad(unread) == Decode(disk[id].data, unread).bad
  <2>1. /\ job["game"] = Idle /\ UNCHANGED job
        /\ job["socket"].op = "write" => job["socket"].id # id \/ ~bad(0)
        /\ \E unread \in 0..MaxGarbage :
             IF bad(unread) THEN disk' = [disk EXCEPT ![id] = NoFile] ELSE UNCHANGED disk
    BY <1>3 DEF LoadConfig, Ready
  <2>2. \A unread : bad(unread) = bad(0)
    BY DEF Decode
  <2> HIDE DEF bad
  <2>3. CASE UNCHANGED disk
    BY <1>1, <2>1, <2>3
  <2>4. CASE bad(0) /\ disk' = [disk EXCEPT ![id] = NoFile]
    <3>1. \A t \in Thread : job[t].op = "write" => job[t].id # id
      BY <2>1, <2>4 DEF Thread, Idle
    <3> QED BY <2>1, <2>4, <3>1, RemoveKeepsFiles
  <2> QED BY <2>1, <2>2, <2>3, <2>4
<1>4. ASSUME NEW t \in Thread, ClearList(t) \/ FillList(t) PROVE FilesOpen' /\ WholeIsThere'
  <2>1. UNCHANGED disk
    BY <1>4 DEF ClearList, FillList
  <2>2. job' = [job EXCEPT ![t] = ListingOnTop] \/ job' = [job EXCEPT ![t] = Idle]
    BY <1>4 DEF ClearList, FillList, ListingOnTop
  <2>3. \A u \in Thread : job'[u].op = "write" => job'[u] = job[u]
    BY <2>2 DEF Shapes, ListingOnTop, Idle
  <2> QED BY <1>1, <2>1, <2>3
<1>5. CASE Stop
  <2>1. UNCHANGED disk /\ job' = [t \in Thread |-> Idle]
    BY <1>5 DEF Stop
  <2> QED BY <1>1, <2>1 DEF Idle
<1>6. ASSUME UNCHANGED <<disk, job>> PROVE FilesOpen' /\ WholeIsThere'
  BY <1>1, <1>6
<1>7. CASE Click
  <2>1. Record => UNCHANGED <<disk, job>>
    BY DEF Record
  <2>2. ASSUME NEW id \in Id, Publish(id) PROVE UNCHANGED <<disk, job>>
    BY <2>2 DEF Publish
  <2> QED BY <1>2, <1>3, <1>6, <1>7, <2>1, <2>2, CreateKeepsFiles, DownloadKeepsFiles DEF Click
<1>8. CASE UNCHANGED vars
  BY <1>6, <1>8 DEF vars
<1>9. ASSUME NEW t \in Thread, Close(t) PROVE FilesOpen' /\ WholeIsThere'
  BY <1>9, CloseKeepsFiles
<1>10. ASSUME NEW t \in Thread, Write(t) \/ WriteFails(t) PROVE FilesOpen' /\ WholeIsThere'
  BY <1>10, WriteKeepsFiles
<1> QED BY <1>4, <1>5, <1>7, <1>8, <1>9, <1>10 DEF Next
-----------------------------------------------------------------------------
(***************************************************************************)
(* Reading.  The loop of load_route_config reads piece after piece, so what*)
(* it has read of two files one after the other is what it reads of the    *)
(* second when it goes on from the first.                                  *)
(***************************************************************************)

(* What holds of 0, and of a number once it holds of the one before.       *)
LEMMA NatSetInduction ==
  ASSUME NEW S, 0 \in S, \A n \in Nat : n \in S => n + 1 \in S
  PROVE  Nat \subseteq S
<1> SUFFICES ASSUME NEW k \in Nat, k \notin S PROVE FALSE
  OBVIOUS
<1>1. PICK m \in Nat \ S : \A n \in Nat \ S : <<n, m>> \notin OpToRel(<, Nat)
  BY WFMin, NatLessThanWellFounded, Zenon
<1>2. m \in Nat /\ m \notin S /\ m # 0
  OBVIOUS
<1>3. m - 1 \in Nat /\ m = (m - 1) + 1
  BY <1>2
<1>4. m - 1 \in Nat \ S
  BY <1>2, <1>3
<1>5. <<m - 1, m>> \in OpToRel(<, Nat)
  BY <1>3 DEF OpToRel
<1> QED BY <1>1, <1>4, <1>5

(* The states of the reader, one after the other, from any. *)
Steps(f, n, reader, data) ==
  f = [i \in 0..n |-> IF i = 0 THEN reader ELSE ReadNext(f[i - 1], data[i])]

(* They exist, for any number of pieces. *)
LEMMA StepsExist ==
  ASSUME NEW reader, NEW data
  PROVE  \A n \in Nat : \E f : Steps(f, n, reader, data)
<1> DEFINE S == {n \in Nat : \E f : Steps(f, n, reader, data)}
<1>1. 0 \in S
  <2> DEFINE g == [i \in 0..0 |-> reader]
  <2>1. Steps(g, 0, reader, data)
    BY DEF Steps
  <2> QED BY <2>1
<1>2. ASSUME NEW n \in Nat, n \in S PROVE n + 1 \in S
  <2>1. PICK f : Steps(f, n, reader, data)
    BY <1>2
  <2> DEFINE g == [i \in 0..n + 1 |-> IF i = n + 1 THEN ReadNext(f[n], data[i]) ELSE f[i]]
  <2>2. \A i \in 0..n : f[i] = IF i = 0 THEN reader ELSE ReadNext(f[i - 1], data[i])
    BY <2>1 DEF Steps
  <2>3. \A i \in 0..n + 1 : g[i] = IF i = 0 THEN reader ELSE ReadNext(g[i - 1], data[i])
    BY <2>2
  <2>4. Steps(g, n + 1, reader, data)
    BY <2>3 DEF Steps
  <2> QED BY <2>4
<1> QED BY <1>1, <1>2, NatSetInduction

(* Any list of states that goes step by step leads to what is read.        *)
LEMMA ReadAllIs ==
  ASSUME NEW reader, NEW data, Len(data) \in Nat,
         NEW g, g[0] = reader, \A i \in 1..Len(data) : g[i] = ReadNext(g[i - 1], data[i])
  PROVE  ReadAll(reader, data) = g[Len(data)]
<1> DEFINE f == CHOOSE f : f = [i \in 0..Len(data) |-> IF i = 0 THEN reader
                                                        ELSE ReadNext(f[i - 1], data[i])]
<1>1. ReadAll(reader, data) = f[Len(data)]
  BY DEF ReadAll
<1>2. Steps(f, Len(data), reader, data)
  <2>1. \E h : h = [i \in 0..Len(data) |-> IF i = 0 THEN reader ELSE ReadNext(h[i - 1], data[i])]
    <3>1. PICK h : Steps(h, Len(data), reader, data)
      BY StepsExist
    <3>2. h = [i \in 0..Len(data) |-> IF i = 0 THEN reader ELSE ReadNext(h[i - 1], data[i])]
      BY <3>1, Zenon DEF Steps
    <3> QED BY <3>2, Zenon
  <2> QED BY <2>1, Zenon DEF Steps
<1> HIDE DEF f
<1> DEFINE S == {i \in Nat : i <= Len(data) => f[i] = g[i]}
<1>3. 0 \in S
  BY <1>2 DEF Steps
<1>4. ASSUME NEW i \in Nat, i \in S PROVE i + 1 \in S
  <2> SUFFICES ASSUME i + 1 <= Len(data) PROVE f[i + 1] = g[i + 1]
    OBVIOUS
  <2>1. f[i + 1] = ReadNext(f[i], data[i + 1])
    BY <1>2 DEF Steps
  <2>2. g[i + 1] = ReadNext(g[i], data[i + 1])
    OBVIOUS
  <2> QED BY <1>4, <2>1, <2>2
<1>5. Nat \subseteq S
  <2> HIDE DEF S
  <2> QED BY <1>3, <1>4, NatSetInduction
<1>6. f[Len(data)] = g[Len(data)]
  BY <1>5
<1> QED BY <1>1, <1>6

LEMMA ReadAllSteps ==
  ASSUME NEW reader, NEW data, Len(data) \in Nat
  PROVE  \E g : /\ g[0] = reader
                /\ \A i \in 1..Len(data) : g[i] = ReadNext(g[i - 1], data[i])
                /\ ReadAll(reader, data) = g[Len(data)]
<1>1. PICK g : Steps(g, Len(data), reader, data)
  BY StepsExist
<1>2. g[0] = reader /\ \A i \in 1..Len(data) : g[i] = ReadNext(g[i - 1], data[i])
  BY <1>1 DEF Steps
<1>3. ReadAll(reader, data) = g[Len(data)]
  BY <1>2, ReadAllIs
<1> QED BY <1>2, <1>3

LEMMA ReadNothing ==
  ASSUME NEW reader
  PROVE  ReadAll(reader, <<>>) = reader
<1>1. Len(<<>>) = 0 /\ Len(<<>>) \in Nat
  BY EmptySeq
<1>2. PICK g : g[0] = reader /\ ReadAll(reader, <<>>) = g[Len(<<>>)]
  <2> DEFINE data == <<>>
  <2>1. Len(data) \in Nat
    BY <1>1
  <2> HIDE DEF data
  <2>2. \E g : g[0] = reader /\ ReadAll(reader, data) = g[Len(data)]
    BY <2>1, ReadAllSteps
  <2> QED BY <2>2 DEF data
<1> QED BY <1>1, <1>2

(* Two files one after the other. *)
LEMMA ReadOn ==
  ASSUME NEW S, NEW a \in Seq(S), NEW b \in Seq(S), NEW reader
  PROVE  ReadAll(reader, a \o b) = ReadAll(ReadAll(reader, a), b)
<1>1. /\ Len(a) \in Nat /\ Len(b) \in Nat /\ Len(a \o b) = Len(a) + Len(b)
      /\ \A i \in 1..Len(a) : (a \o b)[i] = a[i]
      /\ \A i \in 1..Len(b) : (a \o b)[Len(a) + i] = b[i]
  BY ConcatProperties, LenProperties
<1>2. PICK g : /\ g[0] = reader
               /\ \A i \in 1..Len(a \o b) : g[i] = ReadNext(g[i - 1], (a \o b)[i])
               /\ ReadAll(reader, a \o b) = g[Len(a \o b)]
  <2> DEFINE data == a \o b
  <2>1. Len(data) \in Nat
    BY <1>1
  <2> HIDE DEF data
  <2>2. \E g : /\ g[0] = reader
               /\ \A i \in 1..Len(data) : g[i] = ReadNext(g[i - 1], data[i])
               /\ ReadAll(reader, data) = g[Len(data)]
    BY <2>1, ReadAllSteps
  <2> QED BY <2>2 DEF data
<1>3. ReadAll(reader, a) = g[Len(a)]
  <2>1. \A i \in 1..Len(a) : g[i] = ReadNext(g[i - 1], a[i])
    BY <1>1, <1>2
  <2> QED BY <1>1, <1>2, <2>1, ReadAllIs
<1> DEFINE h == [i \in 0..Len(b) |-> g[Len(a) + i]]
<1>4. h[0] = g[Len(a)] /\ h[Len(b)] = g[Len(a \o b)]
  BY <1>1
<1>5. \A i \in 1..Len(b) : h[i] = ReadNext(h[i - 1], b[i])
  <2> SUFFICES ASSUME NEW i \in 1..Len(b) PROVE h[i] = ReadNext(h[i - 1], b[i])
    OBVIOUS
  <2>1. Len(a) + i \in 1..Len(a \o b)
    BY <1>1
  <2>2. g[Len(a) + i] = ReadNext(g[(Len(a) + i) - 1], (a \o b)[Len(a) + i])
    BY <1>2, <2>1
  <2>3. h[i] = g[Len(a) + i] /\ h[i - 1] = g[(Len(a) + i) - 1]
    BY <1>1
  <2> QED BY <1>1, <2>2, <2>3
<1> HIDE DEF h
<1>6. ReadAll(g[Len(a)], b) = h[Len(b)]
  BY <1>1, <1>4, <1>5, ReadAllIs
<1> QED BY <1>2, <1>3, <1>4, <1>6

LEMMA ReadOne ==
  ASSUME NEW reader, NEW piece
  PROVE  ReadAll(reader, <<piece>>) = ReadNext(reader, piece)
<1>1. Len(<<piece>>) = 1 /\ <<piece>>[1] = piece
  OBVIOUS
<1> QED BY <1>1, ReadAllSteps

(* What is not known stops the reading for good. *)
LEMMA BadStays ==
  ASSUME NEW reader, reader.bad, NEW data, Len(data) \in Nat
  PROVE  ReadAll(reader, data) = reader
<1> DEFINE g == [i \in 0..Len(data) |-> reader]
<1>1. \A i \in 1..Len(data) : g[i] = ReadNext(g[i - 1], data[i])
  BY DEF ReadNext
<1>2. g[0] = reader /\ g[Len(data)] = reader
  OBVIOUS
<1> HIDE DEF g
<1> QED BY <1>1, <1>2, ReadAllIs

(***************************************************************************)
(* What is written is what is read: element by element, section by section,*)
(* in a file that was written to its end.                                  *)
(***************************************************************************)

Thing == Element \cup {Garbage}

(* A reader that understood everything so far. *)
At(read, tag, left, field) ==
  [read |-> read, tag |-> tag, left |-> left, field |-> field, bad |-> FALSE]

(* One more element was read. *)
With(read, tag, e) == [read EXCEPT ![tag] = Append(@, e)]

(* Every kind of element has fields. *)
LEMMA FieldsShape ==
  ASSUME NEW kind
  PROVE  /\ Fields(kind) \in Seq(FieldTypes)
         /\ Len(Fields(kind)) \in Nat \ {0}
         /\ DOMAIN Fields(kind) = 1..Len(Fields(kind))
<1> DEFINE F == Fields(kind)
           Types == FieldTypes
<1>1. \/ F = <<"waypoint">>
      \/ F = <<"keyword", "response">>
      \/ F = <<"ignore_mode", "color">>
      \/ F = <<"type", "on_foot_data">>
      \/ F = <<"type", "model_id", "in_car_data">>
      \/ F = <<"type", "text_length", "text">>
      \/ F = <<"type", "text_length", "text", "id", "response", "list_item">>
      \/ F = <<"type", "id">>
      \/ F = <<"type", "position">>
      \/ F = <<"type">>
  BY DEF Fields
<1> HIDE DEF F
<1>2. F \in Seq(Types) /\ F # <<>>
  <2>1. CASE F = <<"waypoint">> BY <2>1 DEF FieldTypes
  <2>2. CASE F = <<"keyword", "response">> BY <2>2 DEF FieldTypes
  <2>3. CASE F = <<"ignore_mode", "color">> BY <2>3 DEF FieldTypes
  <2>4. CASE F = <<"type", "on_foot_data">> BY <2>4 DEF FieldTypes
  <2>5. CASE F = <<"type", "model_id", "in_car_data">> BY <2>5 DEF FieldTypes
  <2>6. CASE F = <<"type", "text_length", "text">> BY <2>6 DEF FieldTypes
  <2>7. CASE F = <<"type", "text_length", "text", "id", "response", "list_item">> BY <2>7 DEF FieldTypes
  <2>8. CASE F = <<"type", "id">> BY <2>8 DEF FieldTypes
  <2>9. CASE F = <<"type", "position">> BY <2>9 DEF FieldTypes
  <2>10. CASE F = <<"type">> BY <2>10 DEF FieldTypes
  <2> QED BY <1>1, <2>1, <2>2, <2>3, <2>4, <2>5, <2>6, <2>7, <2>8, <2>9, <2>10
<1>3. Len(F) \in Nat \ {0} /\ DOMAIN F = 1..Len(F)
  BY <1>2, LenProperties, EmptySeq
<1> QED BY <1>2, <1>3 DEF F

(* Readers that agree field by field are the same.                         *)
IsReader(r) == r = [f \in {"read", "tag", "left", "field", "bad"} |-> r[f]]

LEMMA SameReader ==
  ASSUME NEW a, NEW b, IsReader(a), IsReader(b), a.read = b.read, a.tag = b.tag,
         a.left = b.left, a.field = b.field, a.bad = b.bad
  PROVE  a = b
  BY DEF IsReader

LEMMA ReadTag ==
  ASSUME NEW read, NEW was, NEW tag \in Tags
  PROVE  ReadNext(At(read, was, 0, 0), Put("tag", tag)) = At(read, tag, NoCount, 0)
<1> DEFINE r == At(read, was, 0, 0)
           next == Put("tag", tag)
           new == [r EXCEPT !.tag = tag, !.left = NoCount]
<1>1. next.type = "tag" /\ next.value = tag
  BY DEF Put
<1>2. IsReader(r) /\ r.read = read /\ r.left = 0 /\ r.field = 0 /\ r.bad = FALSE
  BY DEF At, IsReader
<1> HIDE DEF r, next
<1>3. ReadNext(r, next) = new
  BY <1>1, <1>2 DEF ReadNext, NoCount
<1>4. /\ IsReader(new) /\ new.read = read /\ new.tag = tag /\ new.left = NoCount
      /\ new.field = 0 /\ new.bad = FALSE
  BY <1>2 DEF IsReader
<1> HIDE DEF new
<1>5. new = At(read, tag, NoCount, 0)
  BY <1>4, SameReader DEF At, IsReader
<1> QED BY <1>3, <1>5 DEF r, next

LEMMA ReadCount ==
  ASSUME NEW read, NEW tag, NEW n \in Nat
  PROVE  ReadNext(At(read, tag, NoCount, 0), Put("count", n)) = At(read, tag, n, 0)
<1> DEFINE r == At(read, tag, NoCount, 0)
           next == Put("count", n)
           new == [r EXCEPT !.left = n]
<1>1. next.value = n
  BY DEF Put
<1>2. /\ IsReader(r) /\ r.read = read /\ r.tag = tag /\ r.left = NoCount
      /\ r.field = 0 /\ r.bad = FALSE
  BY DEF At, IsReader
<1> HIDE DEF r, next
<1>3. ReadNext(r, next) = new
  BY <1>1, <1>2 DEF ReadNext, NoCount
<1>4. /\ IsReader(new) /\ new.read = read /\ new.tag = tag /\ new.left = n
      /\ new.field = 0 /\ new.bad = FALSE
  BY <1>2 DEF IsReader
<1> HIDE DEF new
<1>5. new = At(read, tag, n, 0)
  BY <1>4, SameReader DEF At, IsReader
<1> QED BY <1>3, <1>5 DEF r, next

LEMMA ReadField ==
  ASSUME NEW read, NEW tag \in Tags, NEW left \in Nat \ {0}, NEW e,
         NEW i \in 1..Len(Fields(e.kind))
  PROVE  ReadNext(At(read, tag, left, i - 1), Put(Fields(e.kind)[i], e))
           = IF i < Len(Fields(e.kind)) THEN At(read, tag, left, i)
             ELSE At(With(read, tag, e), tag, left - 1, 0)
<1> DEFINE F == Fields(e.kind)
           next == Put(F[i], e)
           r == At(read, tag, left, i - 1)
<1>1. next.type = F[i] /\ next.value = e /\ F[i] \notin {"tag", "count"}
  BY FieldsShape, ElementOfSeq DEF Put, FieldTypes
<1>2. /\ IsReader(r) /\ r.bad = FALSE /\ r.left = left /\ r.left # NoCount /\ r.left # 0
      /\ r.field = i - 1 /\ r.field + 1 = i /\ r.tag = tag /\ r.read = read
  <2>1. /\ IsReader(r) /\ r.bad = FALSE /\ r.left = left /\ r.field = i - 1
        /\ r.tag = tag /\ r.read = read
    BY DEF At, IsReader
  <2>2. left # NoCount /\ left # 0 /\ (i - 1) + 1 = i
    BY FieldsShape DEF NoCount
  <2> HIDE DEF r
  <2> QED BY <2>1, <2>2
<1>3. ReadNext(r, next) =
        IF i < Len(F) THEN [r EXCEPT !.field = @ + 1]
        ELSE [r EXCEPT !.field = 0, !.left = @ - 1, !.read[tag] = Append(@, e)]
  <2> HIDE DEF r, next, F
  <2> QED BY <1>1, <1>2 DEF ReadNext, F
<1>4. [r EXCEPT !.field = @ + 1] = At(read, tag, left, i)
  <2> DEFINE new == [r EXCEPT !.field = @ + 1]
  <2>1. /\ IsReader(new) /\ new.read = read /\ new.tag = tag /\ new.left = left
        /\ new.field = i /\ new.bad = FALSE
    <3> HIDE DEF r
    <3> QED BY <1>2 DEF IsReader
  <2> HIDE DEF new
  <2>2. new = At(read, tag, left, i)
    BY <2>1, SameReader DEF At, IsReader
  <2> QED BY <2>2 DEF new
<1>5. [r EXCEPT !.field = 0, !.left = @ - 1, !.read[tag] = Append(@, e)]
        = At(With(read, tag, e), tag, left - 1, 0)
  <2> DEFINE new == [r EXCEPT !.field = 0, !.left = @ - 1, !.read[tag] = Append(@, e)]
  <2>1. /\ IsReader(new) /\ new.read = With(read, tag, e) /\ new.tag = tag
        /\ new.left = left - 1 /\ new.field = 0 /\ new.bad = FALSE
    <3> HIDE DEF r
    <3> QED BY <1>2 DEF IsReader, With
  <2> HIDE DEF new
  <2>2. new = At(With(read, tag, e), tag, left - 1, 0)
    BY <2>1, SameReader DEF At, IsReader
  <2> QED BY <2>2 DEF new
<1> QED BY <1>3, <1>4, <1>5

(* An element is read, field by field. *)
LEMMA ReadElement ==
  ASSUME NEW read, NEW tag \in Tags, NEW left \in Nat \ {0}, NEW e
  PROVE  ReadAll(At(read, tag, left, 0), EncodeElement(e))
           = At(With(read, tag, e), tag, left - 1, 0)
<1> DEFINE F == Fields(e.kind)
           data == EncodeElement(e)
           last == At(With(read, tag, e), tag, left - 1, 0)
           g == [i \in 0..Len(F) |-> IF i < Len(F) THEN At(read, tag, left, i) ELSE last]
<1>1. Len(F) \in Nat \ {0} /\ DOMAIN F = 1..Len(F)
  BY FieldsShape
<1>2. /\ Len(data) = Len(F)
      /\ \A i \in 1..Len(F) : data[i] = Put(F[i], e)
  BY <1>1 DEF EncodeElement
<1>3. \A i \in 1..Len(F) : g[i] = ReadNext(g[i - 1], data[i])
  <2> SUFFICES ASSUME NEW i \in 1..Len(F) PROVE g[i] = ReadNext(g[i - 1], data[i])
    OBVIOUS
  <2>1. g[i - 1] = At(read, tag, left, i - 1)
    BY <1>1
  <2>2. g[i] = IF i < Len(F) THEN At(read, tag, left, i) ELSE last
    BY <1>1
  <2>3. ReadNext(At(read, tag, left, i - 1), Put(F[i], e))
          = IF i < Len(F) THEN At(read, tag, left, i) ELSE last
    <3> HIDE DEF g, data
    <3>1. i \in 1..Len(Fields(e.kind))
      OBVIOUS
    <3> HIDE DEF F, last
    <3> QED BY <3>1, ReadField DEF F, last
  <2> HIDE DEF g, last
  <2> QED BY <1>2, <2>1, <2>2, <2>3
<1>4. g[0] = At(read, tag, left, 0) /\ g[Len(F)] = last
  BY <1>1
<1> HIDE DEF g, last, data
<1>5. ReadAll(At(read, tag, left, 0), data) = g[Len(data)]
  BY <1>1, <1>2, <1>3, <1>4, ReadAllIs
<1> QED BY <1>2, <1>4, <1>5 DEF data, last

(* All that is written is pieces, and a count follows each tag.            *)
Contents == {data \in Seq(Piece) : Tagged(data)}

Flattening(f, n, seqs) ==
  f = [i \in 1..n |-> IF i = 1 THEN seqs[1] ELSE f[i - 1] \o seqs[i]]

(* FlattenSeq, one sequence after the other. *)
LEMMA FlattenSteps ==
  ASSUME NEW seqs, Len(seqs) \in Nat \ {0}
  PROVE  \E g : /\ g[1] = seqs[1]
                /\ \A i \in 2..Len(seqs) : g[i] = g[i - 1] \o seqs[i]
                /\ FlattenSeq(seqs) = g[Len(seqs)]
<1> DEFINE S == {n \in Nat : \E f : Flattening(f, n + 1, seqs)}
<1>1. 0 \in S
  <2> DEFINE g == [i \in 1..1 |-> seqs[1]]
  <2>1. Flattening(g, 0 + 1, seqs)
    BY DEF Flattening
  <2> QED BY <2>1
<1>2. ASSUME NEW n \in Nat, n \in S PROVE n + 1 \in S
  <2>1. PICK f : Flattening(f, n + 1, seqs)
    BY <1>2
  <2> DEFINE m == n + 2
             g == [i \in 1..m |-> IF i = m THEN f[n + 1] \o seqs[i] ELSE f[i]]
  <2>2. \A i \in 1..n + 1 : f[i] = IF i = 1 THEN seqs[1] ELSE f[i - 1] \o seqs[i]
    BY <2>1 DEF Flattening
  <2>3. \A i \in 1..m : g[i] = IF i = 1 THEN seqs[1] ELSE g[i - 1] \o seqs[i]
    BY <2>2
  <2>4. Flattening(g, m, seqs)
    BY <2>3 DEF Flattening
  <2> QED BY <2>4
<1>3. PICK h : Flattening(h, Len(seqs), seqs)
  <2>1. Len(seqs) - 1 \in S
    <3> HIDE DEF S
    <3> QED BY <1>1, <1>2, NatSetInduction
  <2> QED BY <2>1
<1> DEFINE f == CHOOSE f : f = [i \in 1..Len(seqs) |-> IF i = 1 THEN seqs[i] ELSE f[i - 1] \o seqs[i]]
<1>4. FlattenSeq(seqs) = f[Len(seqs)]
  BY DEF FlattenSeq
<1>5. f = [i \in 1..Len(seqs) |-> IF i = 1 THEN seqs[i] ELSE f[i - 1] \o seqs[i]]
  <2>1. h = [i \in 1..Len(seqs) |-> IF i = 1 THEN seqs[i] ELSE h[i - 1] \o seqs[i]]
    BY <1>3 DEF Flattening
  <2> QED BY <2>1, Zenon
<1> HIDE DEF f
<1>6. f[1] = seqs[1]
  BY <1>5
<1>7. ASSUME NEW i \in 2..Len(seqs) PROVE f[i] = f[i - 1] \o seqs[i]
  <2>1. i \in 1..Len(seqs) /\ i # 1
    OBVIOUS
  <2> QED BY <1>5, <2>1
<1> QED BY <1>4, <1>6, <1>7

(* Files may be put together. *)
LEMMA ContentsConcat ==
  ASSUME NEW a \in Contents, NEW b \in Contents
  PROVE  a \o b \in Contents
<1>1. a \in Seq(Piece) /\ b \in Seq(Piece)
  BY DEF Contents
<1> DEFINE d == a \o b
<1>2. /\ d \in Seq(Piece) /\ Len(d) = Len(a) + Len(b)
      /\ Len(a) \in Nat /\ Len(b) \in Nat
      /\ DOMAIN a = 1..Len(a) /\ DOMAIN b = 1..Len(b) /\ DOMAIN d = 1..Len(d)
      /\ \A i \in 1..Len(a) : d[i] = a[i]
      /\ \A i \in 1..Len(b) : d[Len(a) + i] = b[i]
  BY <1>1, ConcatProperties, LenProperties
<1> HIDE DEF d
<1>3. ASSUME NEW i \in 1..Len(d), d[i].type = "tag"
      PROVE  i + 1 \in 1..Len(d) /\ d[i + 1].type = "count"
  <2>1. CASE i \in 1..Len(a)
    <3>1. a[i].type = "tag"
      BY <1>2, <1>3, <2>1
    <3>2. i + 1 \in 1..Len(a) /\ a[i + 1].type = "count"
      BY <1>2, <2>1, <3>1 DEF Contents, Tagged
    <3> QED BY <1>2, <3>2
  <2>2. CASE i \notin 1..Len(a)
    <3> DEFINE j == i - Len(a)
    <3>1. j \in 1..Len(b) /\ i = Len(a) + j /\ d[i] = b[j]
      BY <1>2, <2>2
    <3>2. j + 1 \in 1..Len(b) /\ b[j + 1].type = "count"
      BY <1>2, <1>3, <3>1 DEF Contents, Tagged
    <3>3. d[i + 1] = b[j + 1] /\ i + 1 \in 1..Len(d)
      BY <1>2, <3>1, <3>2
    <3> QED BY <3>2, <3>3
  <2> QED BY <2>1, <2>2
<1>4. Tagged(d)
  BY <1>2, <1>3 DEF Tagged
<1> QED BY <1>2, <1>4 DEF Contents, d

LEMMA ElementIsContents ==
  ASSUME NEW e \in Thing
  PROVE  EncodeElement(e) \in Contents
<1> DEFINE F == Fields(e.kind)
           data == EncodeElement(e)
<1>1. /\ Len(F) \in Nat \ {0} /\ DOMAIN F = 1..Len(F)
      /\ \A i \in 1..Len(F) : F[i] \in FieldTypes
  BY FieldsShape, ElementOfSeq
<1> HIDE DEF F
<1>2. \A i \in 1..Len(F) : Put(F[i], e) \in Piece
  BY <1>1 DEF Piece, Put, Thing
<1>3. data = [i \in 1..Len(F) |-> Put(F[i], e)]
  BY <1>1 DEF EncodeElement, F
<1>4. data \in Seq(Piece)
  <2> HIDE DEF data
  <2> QED BY <1>1, <1>2, <1>3
<1>5. \A i \in DOMAIN data : data[i].type # "tag"
  BY <1>1, <1>3 DEF FieldTypes, Put
<1> HIDE DEF data
<1>6. data \in Contents
  BY <1>4, <1>5 DEF Contents, Tagged
<1> QED BY <1>6 DEF data

LEMMA HeadIsContents ==
  ASSUME NEW tag \in Tags, NEW n \in Nat
  PROVE  <<Put("tag", tag), Put("count", n)>> \in Contents
<1> DEFINE a == Put("tag", tag)
           b == Put("count", n)
           data == <<a, b>>
<1>1. a \in Piece /\ b \in Piece
  BY DEF Piece, Put
<1>2. a.type = "tag" /\ b.type = "count"
  BY DEF Put
<1> HIDE DEF a, b
<1>3. data \in Seq(Piece)
  BY <1>1
<1>4. Len(data) = 2 /\ DOMAIN data = 1..2 /\ data[1] = a /\ data[2] = b
  OBVIOUS
<1> HIDE DEF data
<1>5. Tagged(data)
  BY <1>2, <1>4 DEF Tagged
<1> QED BY <1>3, <1>5 DEF Contents, data, a, b

(* What has been read of a section. *)
Got(read, tag, s) == [read EXCEPT ![tag] = s]

LEMMA WithNext ==
  ASSUME NEW read \in [Tags -> Content], NEW tag \in Tags, NEW s \in Content,
         NEW k \in 0..Len(s) - 1
  PROVE  With(Got(read, tag, SubSeq(s, 1, k)), tag, s[k + 1]) = Got(read, tag, SubSeq(s, 1, k + 1))
<1>1. s \in Seq(Thing) /\ Len(s) \in Nat
  BY LenProperties DEF Content, Thing
<1>2. Append(SubSeq(s, 1, k), s[k + 1]) = SubSeq(s, 1, k + 1)
  <2>1. k + 1 \in 1..Len(s) /\ s[k + 1] \in Thing
    BY <1>1, ElementOfSeq
  <2>2. SubSeq(s, 1, k) \in Seq(Thing)
    BY <1>1, <2>1
  <2>3. SubSeq(s, 1, k + 1) = SubSeq(s, 1, (k + 1) - 1) \o <<s[k + 1]>>
    BY <1>1, <2>1, SubSeqRecursiveSecond
  <2>4. (k + 1) - 1 = k
    OBVIOUS
  <2> QED BY <2>1, <2>2, <2>3, <2>4, AppendIsConcat
<1> QED BY <1>2 DEF With, Got

(* A section is read, element by element, whatever was read before.         *)
LEMMA ReadSection ==
  ASSUME NEW read \in [Tags -> Content], NEW was, NEW tag \in Tags, read[tag] = <<>>,
         NEW s \in Content
  PROVE  /\ EncodeSection(tag, s) \in Contents
         /\ ReadAll(At(read, was, 0, 0), EncodeSection(tag, s)) = At(Got(read, tag, s), tag, 0, 0)
<1>1. s \in Seq(Thing) /\ Len(s) \in Nat /\ DOMAIN s = 1..Len(s)
  BY LenProperties DEF Content, Thing
<1> DEFINE a == Put("tag", tag)
           b == Put("count", Len(s))
           head == <<a, b>>
           seqs == [i \in DOMAIN s |-> EncodeElement(s[i])]
           rest == FlattenSeq(seqs)
<1>2. EncodeSection(tag, s) = head \o rest
  BY DEF EncodeSection
<1>3. head \in Contents
  BY <1>1, HeadIsContents
<1>4. ReadAll(At(read, was, 0, 0), head) = At(read, tag, Len(s), 0)
  <2>1. head = <<a>> \o <<b>>
    OBVIOUS
  <2>2. ReadAll(At(read, was, 0, 0), <<a>>) = At(read, tag, NoCount, 0)
    BY ReadOne, ReadTag
  <2>3. ReadAll(At(read, tag, NoCount, 0), <<b>>) = At(read, tag, Len(s), 0)
    BY <1>1, ReadOne, ReadCount
  <2>4. <<a>> \in Seq({a, b}) /\ <<b>> \in Seq({a, b})
    <3> HIDE DEF a, b
    <3> QED OBVIOUS
  <2> DEFINE x == <<a>>
             y == <<b>>
             r == At(read, was, 0, 0)
  <2> HIDE DEF a, b, x, y, r
  <2>5. ReadAll(r, x \o y) = ReadAll(ReadAll(r, x), y)
    BY <2>4, ReadOn DEF x, y
  <2> QED BY <2>1, <2>2, <2>3, <2>5 DEF x, y, r
<1>5. CASE Len(s) = 0
  <2>1. s = <<>>
    BY <1>1, <1>5, EmptySeq
  <2>2. Len(seqs) = 0 /\ rest = seqs /\ seqs = <<>>
    BY <1>1, <1>5 DEF FlattenSeq
  <2>3. head \o rest = head
    BY <1>3, <2>2, ConcatEmptySeq DEF Contents
  <2>4. Got(read, tag, s) = read
    BY <2>1 DEF Got
  <2> QED BY <1>2, <1>3, <1>4, <1>5, <2>3, <2>4
<1>6. CASE Len(s) # 0
  <2>1. Len(seqs) = Len(s) /\ \A i \in 1..Len(s) : seqs[i] = EncodeElement(s[i])
    BY <1>1
  <2>2. PICK g : /\ g[1] = seqs[1]
                 /\ \A i \in 2..Len(seqs) : g[i] = g[i - 1] \o seqs[i]
                 /\ rest = g[Len(seqs)]
    <3> HIDE DEF seqs
    <3> QED BY <1>1, <1>6, <2>1, FlattenSteps
  <2> HIDE DEF seqs, rest, head
  <2> DEFINE state(k) == At(Got(read, tag, SubSeq(s, 1, k)), tag, Len(s) - k, 0)
             S == {n \in Nat : n + 1 <= Len(s) =>
                     /\ g[n + 1] \in Contents
                     /\ ReadAll(At(read, tag, Len(s), 0), g[n + 1]) = state(n + 1)}
  <2>3. \A i \in 1..Len(s) : seqs[i] \in Contents
    BY <1>1, <2>1, ElementOfSeq, ElementIsContents
  <2>4. ASSUME NEW k \in 0..Len(s) - 1
        PROVE  ReadAll(state(k), seqs[k + 1]) = state(k + 1)
    <3> DEFINE old == Got(read, tag, SubSeq(s, 1, k))
               e == s[k + 1]
    <3>1. Len(s) - k \in Nat \ {0} /\ (Len(s) - k) - 1 = Len(s) - (k + 1) /\ k + 1 \in 1..Len(s)
      <4> DEFINE n == Len(s)
      <4>1. n \in Nat /\ k \in 0..n - 1
        BY <1>1
      <4> HIDE DEF n, S, state, old, e
      <4>2. n - k \in Nat \ {0} /\ (n - k) - 1 = n - (k + 1) /\ k + 1 \in 1..n
        BY <4>1
      <4> QED BY <4>2 DEF n
    <3>2. With(old, tag, e) = Got(read, tag, SubSeq(s, 1, k + 1))
      BY WithNext
    <3>3. ReadAll(At(old, tag, Len(s) - k, 0), EncodeElement(e))
            = At(With(old, tag, e), tag, (Len(s) - k) - 1, 0)
      <4> HIDE DEF old, e
      <4> QED BY <3>1, ReadElement
    <3> HIDE DEF old, e
    <3> QED BY <2>1, <3>1, <3>2, <3>3 DEF old, e
  <2>5. state(0) = At(read, tag, Len(s), 0)
    <3>1. SubSeq(s, 1, 0) = <<>>
      BY SubSeqEmpty
    <3>2. Got(read, tag, <<>>) = read
      BY DEF Got
    <3>3. Len(s) - 0 = Len(s)
      BY <1>1
    <3> QED BY <3>1, <3>2, <3>3, Zenon
  <2>6. 0 \in S
    <3>1. ReadAll(state(0), seqs[0 + 1]) = state(0 + 1)
      BY <1>1, <1>6, <2>4
    <3> HIDE DEF state
    <3> QED BY <1>1, <1>6, <2>1, <2>2, <2>3, <2>5, <3>1
  <2>7. ASSUME NEW n \in Nat, n \in S PROVE n + 1 \in S
    <3> DEFINE m == n + 1
    <3> SUFFICES ASSUME m + 1 <= Len(s)
                 PROVE  /\ g[m + 1] \in Contents
                        /\ ReadAll(At(read, tag, Len(s), 0), g[m + 1]) = state(m + 1)
      OBVIOUS
    <3>1. g[m] \in Contents /\ ReadAll(At(read, tag, Len(s), 0), g[m]) = state(m)
      BY <1>1, <2>7
    <3>2. g[m + 1] = g[m] \o seqs[m + 1] /\ seqs[m + 1] \in Contents
      <4>1. m + 1 \in 2..Len(s) /\ (m + 1) - 1 = m
        BY <1>1
      <4> HIDE DEF state, m, S
      <4>2. m + 1 \in 2..Len(seqs) /\ m + 1 \in 1..Len(s)
        BY <1>1, <2>1, <4>1
      <4>3. g[m + 1] = g[(m + 1) - 1] \o seqs[m + 1]
        BY <2>2, <4>2
      <4> QED BY <2>3, <4>1, <4>2, <4>3
    <3>3. ReadAll(state(m), seqs[m + 1]) = state(m + 1)
      BY <1>1, <2>4
    <3>4. g[m] \in Seq(Piece) /\ seqs[m + 1] \in Seq(Piece)
      BY <3>1, <3>2 DEF Contents
    <3> HIDE DEF state, m, S
    <3> QED BY <3>1, <3>2, <3>3, <3>4, ContentsConcat, ReadOn
  <2>8. Len(s) - 1 \in S
    <3> HIDE DEF S
    <3> QED BY <1>1, <1>6, <2>6, <2>7, NatSetInduction
  <2>9. rest \in Contents /\ ReadAll(At(read, tag, Len(s), 0), rest) = state(Len(s))
    <3> HIDE DEF state
    <3> QED BY <1>1, <1>6, <2>1, <2>2, <2>8
  <2>10. state(Len(s)) = At(Got(read, tag, s), tag, 0, 0)
    <3>1. SubSeq(s, 1, Len(s)) = s /\ Len(s) - Len(s) = 0
      BY <1>1, SubSeqFull
    <3> QED BY <3>1, Zenon
  <2>11. head \in Seq(Piece) /\ rest \in Seq(Piece)
    BY <1>3, <2>9 DEF Contents
  <2> HIDE DEF state
  <2> QED BY <1>2, <1>3, <1>4, <2>9, <2>10, <2>11, ContentsConcat, ReadOn
<1> QED BY <1>5, <1>6

Empty == [tag \in Tags |-> <<>>]

(* What is in a file that was read without a complaint. *)
Reads(data, read) ==
  /\ data \in Contents
  /\ \E tag : ReadAll(Reader, data) = At(read, tag, 0, 0)

LEMMA GotTyped ==
  ASSUME NEW read \in [Tags -> Content], NEW tag \in Tags, NEW s \in Content
  PROVE  /\ Got(read, tag, s) \in [Tags -> Content]
         /\ Got(read, tag, s)[tag] = s
         /\ \A other \in Tags \ {tag} : Got(read, tag, s)[other] = read[other]
  BY DEF Got

LEMMA ReadsNothing == Reads(<<>>, Empty)
<1>1. <<>> \in Contents
  BY DEF Contents, Tagged
<1>2. Reader = At(Empty, "none", 0, 0)
  BY DEF Reader, At, Empty
<1>3. ReadAll(Reader, <<>>) = Reader
  BY ReadNothing
<1> QED BY <1>1, <1>2, <1>3 DEF Reads

(* A section more. *)
LEMMA ReadsSection ==
  ASSUME NEW data, NEW read \in [Tags -> Content], Reads(data, read),
         NEW tag \in Tags, read[tag] = <<>>, NEW s \in Content
  PROVE  /\ Reads(data \o EncodeSection(tag, s), Got(read, tag, s))
         /\ Reads(data \o EncodeUnlessEmpty(tag, s), Got(read, tag, s))
<1> DEFINE more == EncodeSection(tag, s)
<1>1. PICK was : data \in Contents /\ ReadAll(Reader, data) = At(read, was, 0, 0)
  BY DEF Reads
<1>2. more \in Contents /\ ReadAll(At(read, was, 0, 0), more) = At(Got(read, tag, s), tag, 0, 0)
  BY ReadSection
<1> HIDE DEF more
<1>3. data \o more \in Contents
  BY <1>1, <1>2, ContentsConcat
<1>4. ReadAll(Reader, data \o more) = At(Got(read, tag, s), tag, 0, 0)
  BY <1>1, <1>2, ReadOn DEF Contents
<1>5. Reads(data \o more, Got(read, tag, s))
  BY <1>3, <1>4 DEF Reads
<1>6. CASE s = <<>>
  <2>1. data \o EncodeUnlessEmpty(tag, s) = data
    BY <1>1, <1>6, ConcatEmptySeq DEF EncodeUnlessEmpty, Contents
  <2>2. Got(read, tag, s) = read
    BY <1>6 DEF Got
  <2> QED BY <1>5, <2>1, <2>2 DEF more
<1>7. CASE s # <<>>
  BY <1>5, <1>7 DEF EncodeUnlessEmpty, more
<1> QED BY <1>6, <1>7

(* Saving and loading a route that can be saved. *)
LEMMA ReadsEncoding ==
  ASSUME NEW r \in Route, IsValid(r), NEW c \in Lists
  PROVE  \E read \in [Tags -> Content] :
           /\ Reads(Encode(r, c), read)
           /\ LoadedRoute(read) = Saved(r)
           /\ read["keywords"] = c.keywords /\ read["colors"] = c.colors
<1> DEFINE waypoints == r.waypoints
           fill == r.fill
           packets == r.packets
           keywords == c.keywords
           colors == c.colors
<1>0. r = [waypoints |-> r.waypoints, fill |-> r.fill, packets |-> r.packets]
  BY DEF Route
<1>1. /\ waypoints \in Content /\ fill \in Content /\ packets \in Content
      /\ keywords \in Content /\ colors \in Content
  BY DEF Route, Lists
<1>2. /\ "waypoints" \in Tags /\ "fill" \in Tags /\ "packets" \in Tags
      /\ "keywords" \in Tags /\ "colors" \in Tags
  BY DEF Tags
<1>3. Empty \in [Tags -> Content] /\ \A tag \in Tags : Empty[tag] = <<>>
  BY EmptySeq DEF Empty, Content
<1> HIDE DEF Empty, waypoints, fill, packets, keywords, colors
<1>4. ASSUME NEW body, NEW read \in [Tags -> Content], Reads(body, read),
             read["keywords"] = <<>>, read["colors"] = <<>>,
             LoadedRoute(read) = Saved(r), Encode(r, c) = body \o KeywordsSection(c) \o ColorsSection(c)
      PROVE  \E new \in [Tags -> Content] :
               /\ Reads(Encode(r, c), new)
               /\ LoadedRoute(new) = Saved(r)
               /\ new["keywords"] = c.keywords /\ new["colors"] = c.colors
  <2> DEFINE read1 == Got(read, "keywords", keywords)
             read2 == Got(read1, "colors", colors)
  <2>1. /\ read1 \in [Tags -> Content] /\ read1["keywords"] = keywords
        /\ \A other \in Tags \ {"keywords"} : read1[other] = read[other]
    <3>1. read1 \in [Tags -> Content]
      BY <1>1, <1>2, GotTyped
    <3>2. read1["keywords"] = keywords
      BY <1>1, <1>2, GotTyped
    <3>3. ASSUME NEW other \in Tags \ {"keywords"} PROVE read1[other] = read[other]
      BY <1>1, <1>2, GotTyped
    <3> HIDE DEF read1
    <3> QED BY <3>1, <3>2, <3>3
  <2>2. Reads(body \o KeywordsSection(c), read1)
    BY <1>1, <1>2, <1>4, ReadsSection DEF KeywordsSection, keywords
  <2> HIDE DEF read1
  <2>9. read1 \in [Tags -> Content]
    BY <2>1
  <2>3. /\ read2 \in [Tags -> Content] /\ read2["colors"] = colors
        /\ \A other \in Tags \ {"colors"} : read2[other] = read1[other]
    <3>0. "colors" \in Tags /\ colors \in Content
      BY <1>1, <1>2
    <3>1. read2 \in [Tags -> Content]
      BY <2>9, <3>0, GotTyped
    <3>2. read2["colors"] = colors
      BY <2>9, <3>0, GotTyped
    <3>3. ASSUME NEW other \in Tags \ {"colors"} PROVE read2[other] = read1[other]
      BY <2>9, <3>0, GotTyped
    <3> HIDE DEF read2
    <3> QED BY <3>1, <3>2, <3>3
  <2>4. read1["colors"] = <<>>
    BY <1>2, <1>4, <2>1
  <2>5. Reads((body \o KeywordsSection(c)) \o ColorsSection(c), read2)
    BY <1>1, <1>2, <2>1, <2>2, <2>4, ReadsSection DEF ColorsSection, colors
  <2> HIDE DEF read2
  <2>6. /\ read2["waypoints"] = read["waypoints"] /\ read2["fill"] = read["fill"]
        /\ read2["packets"] = read["packets"] /\ read2["keywords"] = keywords
    BY <1>2, <2>1, <2>3
  <2>7. LoadedRoute(read2) = LoadedRoute(read)
    BY <2>6 DEF LoadedRoute
  <2> QED BY <1>4, <2>3, <2>5, <2>6, <2>7 DEF keywords, colors
<1>5. CASE r.waypoints # <<>>
  <2> DEFINE body1 == EncodeSection("waypoints", waypoints)
             read1 == Got(Empty, "waypoints", waypoints)
             read2 == Got(read1, "fill", fill)
  <2>1. r.packets = <<>>
    BY <1>5 DEF IsValid
  <2>2. /\ read1 \in [Tags -> Content] /\ read1["waypoints"] = waypoints
        /\ \A other \in Tags \ {"waypoints"} : read1[other] = <<>>
    <3>1. read1 \in [Tags -> Content]
      BY <1>1, <1>2, <1>3, GotTyped
    <3>2. read1["waypoints"] = waypoints
      BY <1>1, <1>2, <1>3, GotTyped
    <3>3. ASSUME NEW other \in Tags \ {"waypoints"} PROVE read1[other] = <<>>
      BY <1>1, <1>2, <1>3, GotTyped
    <3> HIDE DEF read1
    <3> QED BY <3>1, <3>2, <3>3
  <2>3. Reads(body1, read1)
    <3>1. Reads(<<>> \o body1, read1)
      BY <1>1, <1>2, <1>3, ReadsNothing, ReadsSection
    <3>2. <<>> \o body1 = body1
      BY <1>1, <1>2, <1>3, ReadSection, ConcatEmptySeq DEF Contents
    <3> QED BY <3>1, <3>2
  <2> HIDE DEF read1
  <2>4. /\ read2 \in [Tags -> Content] /\ read2["fill"] = fill
        /\ \A other \in Tags \ {"fill"} : read2[other] = read1[other]
    <3>1. read2 \in [Tags -> Content]
      BY <1>1, <1>2, <2>2, GotTyped
    <3>2. read2["fill"] = fill
      BY <1>1, <1>2, <2>2, GotTyped
    <3>3. ASSUME NEW other \in Tags \ {"fill"} PROVE read2[other] = read1[other]
      BY <1>1, <1>2, <2>2, GotTyped
    <3> HIDE DEF read2
    <3> QED BY <3>1, <3>2, <3>3
  <2>5. Reads(WaypointsSections(r), read2)
    <3>1. read1["fill"] = <<>>
      BY <1>2, <2>2
    <3> HIDE DEF read2
    <3> QED BY <1>1, <1>2, <2>2, <2>3, <3>1, ReadsSection DEF WaypointsSections, read2, waypoints, fill
  <2> HIDE DEF read2
  <2>6. /\ read2["waypoints"] = waypoints /\ read2["packets"] = <<>> /\ read2["fill"] = fill
        /\ read2["keywords"] = <<>> /\ read2["colors"] = <<>>
    BY <1>2, <2>2, <2>4
  <2>7. LoadedRoute(read2) = Saved(r)
    BY <1>0, <1>5, <2>1, <2>6 DEF LoadedRoute, Saved, waypoints, fill, packets
  <2>8. Encode(r, c) = WaypointsSections(r) \o KeywordsSection(c) \o ColorsSection(c)
    BY <1>5 DEF Encode
  <2> QED BY <1>4, <2>4, <2>5, <2>6, <2>7, <2>8
<1>6. CASE r.waypoints = <<>>
  <2> DEFINE read1 == Got(Empty, "packets", packets)
  <2>1. /\ read1 \in [Tags -> Content] /\ read1["packets"] = packets
        /\ \A other \in Tags \ {"packets"} : read1[other] = <<>>
    <3>1. read1 \in [Tags -> Content]
      BY <1>1, <1>2, <1>3, GotTyped
    <3>2. read1["packets"] = packets
      BY <1>1, <1>2, <1>3, GotTyped
    <3>3. ASSUME NEW other \in Tags \ {"packets"} PROVE read1[other] = <<>>
      BY <1>1, <1>2, <1>3, GotTyped
    <3> HIDE DEF read1
    <3> QED BY <3>1, <3>2, <3>3
  <2>2. Reads(PacketsSection(r), read1)
    <3>1. Reads(<<>> \o PacketsSection(r), read1)
      BY <1>1, <1>2, <1>3, ReadsNothing, ReadsSection DEF PacketsSection, packets
    <3>2. PacketsSection(r) \in Contents
      <4>1. <<>> \in Contents
        BY ReadsNothing DEF Reads
      <4> QED BY <1>1, <1>2, <1>3, <4>1, ReadSection DEF PacketsSection, EncodeUnlessEmpty, packets
    <3>3. <<>> \o PacketsSection(r) = PacketsSection(r)
      BY <3>2, ConcatEmptySeq DEF Contents
    <3> QED BY <3>1, <3>3
  <2> HIDE DEF read1
  <2>3. /\ read1["waypoints"] = <<>> /\ read1["fill"] = <<>> /\ read1["packets"] = packets
        /\ read1["keywords"] = <<>> /\ read1["colors"] = <<>>
    BY <1>2, <2>1
  <2>4. LoadedRoute(read1) = Saved(r)
    BY <1>0, <1>6, <2>3 DEF LoadedRoute, Saved, waypoints, fill, packets
  <2>5. Encode(r, c) = PacketsSection(r) \o KeywordsSection(c) \o ColorsSection(c)
    BY <1>6 DEF Encode
  <2> QED BY <1>4, <2>1, <2>2, <2>3, <2>4, <2>5
<1> QED BY <1>5, <1>6

(* A file that ends early is not taken for another version's. *)
LEMMA PrefixNotBad ==
  ASSUME NEW a \in Seq(Piece), NEW b \in Seq(Piece), ~ReadAll(Reader, a \o b).bad
  PROVE  ~ReadAll(Reader, a).bad
<1> DEFINE r == ReadAll(Reader, a)
<1>1. ReadAll(Reader, a \o b) = ReadAll(r, b)
  BY ReadOn
<1>2. Len(b) \in Nat
  BY LenProperties
<1> HIDE DEF r
<1>3. SUFFICES ASSUME r.bad PROVE FALSE
  BY DEF r
<1>4. ReadAll(r, b) = r
  BY <1>2, <1>3, BadStays
<1> QED BY <1>1, <1>3, <1>4

(* What was read and what is still expected, at any place of any file. *)
ReaderTyped(r) ==
  /\ r = [f \in {"read", "tag", "left", "field", "bad"} |-> r[f]]
  /\ r.read \in [Tags -> Content]
  /\ r.left \in Nat \cup {NoCount} /\ r.field \in Nat
  /\ r.left # 0 => r.tag \in Tags

LEMMA NextTyped ==
  ASSUME NEW r, ReaderTyped(r), NEW next \in Piece,
         ~r.bad /\ r.left = NoCount => next.type = "count"
  PROVE  /\ ReaderTyped(ReadNext(r, next))
         /\ LET new == ReadNext(r, next)
            IN ~new.bad /\ new.left = NoCount => next.type = "tag"
<1> DEFINE bad == [r EXCEPT !.bad = TRUE]
<1>1. ReaderTyped(bad) /\ bad.bad
  BY DEF ReaderTyped
<1>2. CASE r.bad
  BY <1>2 DEF ReadNext
<1>3. CASE ~r.bad /\ r.left = NoCount
  <2>1. next.value \in Nat
    BY <1>3 DEF Piece, FieldTypes
  <2> DEFINE new == [r EXCEPT !.left = next.value]
  <2>2. ReadNext(r, next) = new
    BY <1>3 DEF ReadNext, NoCount
  <2>3. ReaderTyped(new) /\ new.left # NoCount
    BY <1>3, <2>1 DEF ReaderTyped, NoCount
  <2> HIDE DEF new
  <2> QED BY <2>2, <2>3
<1>4. CASE ~r.bad /\ r.left = 0
  <2> DEFINE new == [r EXCEPT !.tag = next.value, !.left = NoCount]
  <2>1. CASE next.type = "tag" /\ next.value \in Tags
    <3>1. ReadNext(r, next) = new
      BY <1>4, <2>1 DEF ReadNext, NoCount
    <3>2. ReaderTyped(new)
      BY <2>1 DEF ReaderTyped
    <3> HIDE DEF new
    <3> QED BY <2>1, <3>1, <3>2
  <2>2. CASE ~(next.type = "tag" /\ next.value \in Tags)
    <3>1. ReadNext(r, next) = bad
      BY <1>4, <2>2 DEF ReadNext, NoCount
    <3> HIDE DEF bad
    <3> QED BY <1>1, <3>1
  <2> QED BY <2>1, <2>2
<1>5. CASE ~r.bad /\ r.left \in Nat \ {0}
  <2> DEFINE F == Fields(next.value.kind)
             on == [r EXCEPT !.field = @ + 1]
             done == [r EXCEPT !.field = 0, !.left = @ - 1, !.read[r.tag] = Append(@, next.value)]
  <2>1. CASE next.type \in {"tag", "count"} \/ next.type # F[r.field + 1]
    <3>1. ReadNext(r, next) = bad
      <4> HIDE DEF bad, F
      <4> QED BY <1>5, <2>1 DEF ReadNext, NoCount, bad, F
    <3> HIDE DEF bad
    <3> QED BY <1>1, <3>1
  <2>2. CASE ~(next.type \in {"tag", "count"} \/ next.type # F[r.field + 1])
    <3>1. next.value \in Thing
      BY <2>2 DEF Piece, Thing
    <3>2. ReadNext(r, next) \in {on, done}
      <4> HIDE DEF F, on, done
      <4> QED BY <1>5, <2>2 DEF ReadNext, NoCount, F, on, done
    <3>3. ReaderTyped(on) /\ on.left # NoCount
      BY <1>5 DEF ReaderTyped, NoCount
    <3>4. ReaderTyped(done) /\ done.left # NoCount
      <4>1. r.tag \in Tags /\ r.read[r.tag] \in Content
        BY <1>5 DEF ReaderTyped
      <4>2. Append(r.read[r.tag], next.value) \in Content
        BY <3>1, <4>1, AppendProperties DEF Content, Thing
      <4>3. [r.read EXCEPT ![r.tag] = Append(@, next.value)] \in [Tags -> Content]
        BY <4>1, <4>2 DEF ReaderTyped
      <4>4. /\ done = [f \in {"read", "tag", "left", "field", "bad"} |-> done[f]]
            /\ done.read = [r.read EXCEPT ![r.tag] = Append(@, next.value)]
            /\ done.left = r.left - 1 /\ done.field = 0 /\ done.tag = r.tag
        BY DEF ReaderTyped
      <4> HIDE DEF done
      <4>5. done.left \in Nat /\ done.left # NoCount
        <5> DEFINE n == r.left
        <5>1. n \in Nat \ {0} /\ done.left = n - 1
          BY <1>5, <4>4
        <5> HIDE DEF n
        <5> QED BY <5>1 DEF NoCount
      <4>6. done.read \in [Tags -> Content]
        BY <4>3, <4>4
      <4>7. done.field \in Nat /\ done.tag \in Tags
        BY <4>1, <4>4
      <4> QED BY <4>4, <4>5, <4>6, <4>7 DEF ReaderTyped
    <3> HIDE DEF on, done
    <3> QED BY <3>2, <3>3, <3>4
  <2> QED BY <2>1, <2>2
<1> QED BY <1>2, <1>3, <1>4, <1>5 DEF ReaderTyped

(* It holds of what is read of any beginning of a file in which a count    *)
(* follows each tag.                                                       *)
LEMMA ReadTyped ==
  ASSUME NEW a \in Seq(Piece), NEW b \in Seq(Piece), Tagged(a \o b)
  PROVE  ReaderTyped(ReadAll(Reader, a))
<1>1. /\ Len(a) \in Nat /\ Len(b) \in Nat /\ DOMAIN (a \o b) = 1..Len(a) + Len(b)
      /\ \A i \in 1..Len(a) : a[i] \in Piece /\ (a \o b)[i] = a[i]
  BY ConcatProperties, LenProperties, ElementOfSeq
<1>2. PICK g : /\ g[0] = Reader
               /\ \A i \in 1..Len(a) : g[i] = ReadNext(g[i - 1], a[i])
               /\ ReadAll(Reader, a) = g[Len(a)]
  BY <1>1, ReadAllSteps
<1> DEFINE S == {n \in Nat : n <= Len(a) =>
                   /\ ReaderTyped(g[n])
                   /\ ~g[n].bad /\ g[n].left = NoCount => n # 0 /\ a[n].type = "tag"}
<1>3. 0 \in S
  <2>1. ReaderTyped(Reader) /\ Reader.left # NoCount
    <3>1. Reader.read \in [Tags -> Content]
      BY EmptySeq DEF Reader, Content
    <3>2. Reader.left = 0 /\ Reader.field = 0
      BY DEF Reader
    <3>3. Reader = [f \in {"read", "tag", "left", "field", "bad"} |-> Reader[f]]
      BY DEF Reader
    <3> QED BY <3>1, <3>2, <3>3 DEF ReaderTyped, NoCount
  <2> QED BY <1>2, <2>1
<1>4. ASSUME NEW n \in Nat, n \in S PROVE n + 1 \in S
  <2> DEFINE m == n + 1
  <2> SUFFICES ASSUME m <= Len(a)
               PROVE  /\ ReaderTyped(g[m])
                      /\ ~g[m].bad /\ g[m].left = NoCount => m # 0 /\ a[m].type = "tag"
    OBVIOUS
  <2>1. /\ ReaderTyped(g[n])
        /\ ~g[n].bad /\ g[n].left = NoCount => n # 0 /\ a[n].type = "tag"
    BY <1>1, <1>4
  <2>2. m \in 1..Len(a) /\ m # 0 /\ a[m] \in Piece /\ g[m] = ReadNext(g[n], a[m])
    BY <1>1, <1>2
  <2>3. ~g[n].bad /\ g[n].left = NoCount => a[m].type = "count"
    <3> SUFFICES ASSUME ~g[n].bad, g[n].left = NoCount PROVE a[m].type = "count"
      OBVIOUS
    <3>1. n \in 1..Len(a) /\ (a \o b)[n].type = "tag"
      BY <1>1, <2>1
    <3>2. (a \o b)[m].type = "count"
      <4> DEFINE d == a \o b
      <4>1. n \in DOMAIN d /\ d[n].type = "tag" /\ Tagged(d)
        BY <1>1, <3>1
      <4> HIDE DEF d, S
      <4>2. d[n + 1].type = "count"
        BY <4>1 DEF Tagged
      <4> QED BY <4>2 DEF d
    <3> QED BY <1>1, <2>2, <3>2
  <2> HIDE DEF m, S
  <2> QED BY <2>1, <2>2, <2>3, NextTyped
<1>5. Len(a) \in S
  <2> HIDE DEF S
  <2> QED BY <1>1, <1>3, <1>4, NatSetInduction
<1> QED BY <1>1, <1>2, <1>5
-----------------------------------------------------------------------------
(***************************************************************************)
(* What the files hold.  Every file, here or published, begins like one    *)
(* that was saved from what it is said to hold, and what its writer has yet*)
(* to write goes on like it.                                               *)
(***************************************************************************)

(* All that may be in a file. *)
Part == Piece \cup {Header}

FileOf(of) == of \in [route : Route, chat : Lists]

(* What may follow the header of a file: what was saved, nothing where     *)
(* there was nothing to save, and anything that others wrote.              *)
ContentsOf(of) ==
  IF of.route = NoRoute THEN Contents
  ELSE IF IsValid(of.route) THEN {Encode(of.route, of.chat)} ELSE {<<>>}

Joins(data, rest, c) == data \o rest = <<Header>> \o c

(* The beginning of such a file, and the rest that is missing.             *)
Begins(data, of) ==
  data \in Seq(Part) /\ \E rest \in Seq(Part) : \E c \in ContentsOf(of) : Joins(data, rest, c)

(* All of it. *)
Complete(data, of) ==
  IsValid(of.route) /\ data = <<Header>> \o Encode(of.route, of.chat)

(* Both parts of a sequence are over the set that the sequence is over. *)
LEMMA PartsOfContent ==
  ASSUME NEW S, NEW T, NEW a \in Seq(T), NEW b \in Seq(T), a \o b \in Seq(S)
  PROVE  a \in Seq(S) /\ b \in Seq(S)
<1> DEFINE d == a \o b
<1>1. /\ Len(a) \in Nat /\ Len(b) \in Nat /\ Len(d) = Len(a) + Len(b)
      /\ a = [i \in 1..Len(a) |-> a[i]] /\ b = [i \in 1..Len(b) |-> b[i]]
      /\ \A i \in 1..Len(a) : d[i] = a[i]
      /\ \A i \in 1..Len(b) : d[Len(a) + i] = b[i]
  BY ConcatProperties, LenProperties
<1>2. d \in Seq(S)
  OBVIOUS
<1> HIDE DEF d
<1>3. \A i \in 1..Len(d) : d[i] \in S
  BY <1>2, ElementOfSeq
<1>4. \A i \in 1..Len(a) : a[i] \in S
  BY <1>1, <1>3
<1>5. \A i \in 1..Len(b) : b[i] \in S
  <2> SUFFICES ASSUME NEW i \in 1..Len(b) PROVE b[i] \in S
    OBVIOUS
  <2>1. Len(a) + i \in 1..Len(d)
    BY <1>1
  <2> QED BY <1>1, <1>3, <2>1
<1>6. a \in Seq(S)
  BY <1>1, <1>4, IsASeq
<1>7. b \in Seq(S)
  BY <1>1, <1>5, IsASeq
<1> QED BY <1>6, <1>7

LEMMA HeadAndTail ==
  ASSUME NEW S, NEW a, NEW x \in Seq(S)
  PROVE  Head(<<a>> \o x) = a /\ Tail(<<a>> \o x) = x
  OBVIOUS

(* A file that is not empty begins with the header; the rest is content.    *)
LEMMA AfterHeader ==
  ASSUME NEW data \in Seq(Part), data # <<>>, NEW rest \in Seq(Part), NEW c \in Seq(Piece),
         Joins(data, rest, c)
  PROVE  /\ data = <<Header>> \o Tail(data)
         /\ Tail(data) \in Seq(Piece) /\ rest \in Seq(Piece) /\ Tail(data) \o rest = c
<1>1. /\ Head(data) \in Part /\ Tail(data) \in Seq(Part) /\ data = <<Head(data)>> \o Tail(data)
  BY HeadTailProperties
<1>2. c \in Seq(Part) /\ <<Header>> \in Seq(Part) /\ <<Head(data)>> \in Seq(Part)
  BY <1>1 DEF Part
<1> DEFINE h == Head(data)
           t == Tail(data)
<1>3. <<h>> \o (t \o rest) = <<Header>> \o c
  BY <1>1, <1>2, ConcatAssociative DEF Joins
<1>4. t \o rest \in Seq(Part)
  BY <1>1, ConcatProperties
<1> HIDE DEF h, t
<1> DEFINE x == t \o rest
<1>5. h = Header /\ x = c
  <2>1. x \in Seq(Part) /\ c \in Seq(Part) /\ <<h>> \o x = <<Header>> \o c
    BY <1>2, <1>3, <1>4
  <2> HIDE DEF x
  <2>2. Head(<<h>> \o x) = h /\ Tail(<<h>> \o x) = x
    BY <2>1, HeadAndTail
  <2>3. Head(<<Header>> \o c) = Header /\ Tail(<<Header>> \o c) = c
    BY <2>1, HeadAndTail
  <2> QED BY <2>1, <2>2, <2>3
<1> QED BY <1>1, <1>5, PartsOfContent DEF h, t

(* Whatever follows the header, a count follows each tag. *)
LEMMA ContentsOfFiles ==
  ASSUME NEW of, FileOf(of), NEW c \in ContentsOf(of)
  PROVE  c \in Contents
<1>1. of.route \in Route /\ of.chat \in Lists
  BY DEF FileOf
<1>2. CASE of.route = NoRoute
  BY <1>2 DEF ContentsOf
<1>3. CASE of.route # NoRoute /\ IsValid(of.route)
  BY <1>1, <1>3, ReadsEncoding DEF ContentsOf, Reads
<1>4. CASE of.route # NoRoute /\ ~IsValid(of.route)
  BY <1>4, ReadsNothing DEF ContentsOf, Reads
<1> QED BY <1>2, <1>3, <1>4

(* Whatever is loaded is a route and lists. *)
LEMMA DecodeTyped ==
  ASSUME NEW of, FileOf(of), NEW data, Begins(data, of), data # <<>>, NEW unread \in Nat
  PROVE  Decode(data, unread).read \in [Tags -> Content]
<1> DEFINE r == ReadAll(Reader, Tail(data))
           missing == IF r.left = NoCount THEN unread ELSE r.left
           more == [i \in 1..missing |-> Garbage]
<1>1. ReaderTyped(r)
  <2>1. PICK rest \in Seq(Part), c \in ContentsOf(of) : Joins(data, rest, c)
    BY DEF Begins
  <2>2. c \in Seq(Piece) /\ Tagged(c)
    BY <2>1, ContentsOfFiles DEF Contents
  <2>3. data \in Seq(Part)
    BY DEF Begins
  <2>4. /\ Tail(data) \in Seq(Piece) /\ rest \in Seq(Piece) /\ Tail(data) \o rest = c
    BY <2>1, <2>2, <2>3, AfterHeader
  <2> QED BY <2>2, <2>4, ReadTyped
<1>2. Decode(data, unread).read =
        IF r.bad \/ r.tag = "none" THEN r.read ELSE [r.read EXCEPT ![r.tag] = @ \o more]
  BY DEF Decode
<1> HIDE DEF r
<1>3. missing \in Nat
  BY <1>1 DEF ReaderTyped
<1> HIDE DEF missing
<1>4. more \in Content
  BY <1>3 DEF Content
<1> HIDE DEF more
<1>5. r.read \in [Tags -> Content]
  BY <1>1 DEF ReaderTyped
<1>6. CASE r.tag \in Tags
  <2>1. r.read[r.tag] \o more \in Content
    BY <1>4, <1>5, <1>6, ConcatProperties DEF Content
  <2> QED BY <1>2, <1>5, <1>6, <2>1
<1>7. CASE r.tag \notin Tags
  BY <1>2, <1>5, <1>7
<1> QED BY <1>6, <1>7

LEMMA LoadedTyped ==
  ASSUME NEW read \in [Tags -> Content], chat \in Lists
  PROVE  LoadedRoute(read) \in Route /\ LoadedLists(read) \in Lists
<1>1. /\ read["waypoints"] \in Content /\ read["fill"] \in Content /\ read["packets"] \in Content
      /\ read["keywords"] \in Content /\ read["colors"] \in Content
  BY DEF Tags
<1>2. LoadedRoute(read) \in Route
  BY <1>1 DEF LoadedRoute, Route
<1>3. LoadedLists(read) \in Lists
  BY <1>1 DEF LoadedLists, Lists
<1> QED BY <1>2, <1>3

(* What was written completely is loaded as it was. *)
LEMMA DecodeComplete ==
  ASSUME NEW of, FileOf(of), NEW data, Complete(data, of), NEW unread \in Nat
  PROVE  /\ ~Decode(data, unread).bad
         /\ LoadedRoute(Decode(data, unread).read) = Saved(of.route)
         /\ LoadedLists(Decode(data, unread).read) = IF use_global THEN chat ELSE of.chat
<1> DEFINE enc == Encode(of.route, of.chat)
<1>1. PICK read \in [Tags -> Content] :
        /\ Reads(enc, read)
        /\ LoadedRoute(read) = Saved(of.route)
        /\ read["keywords"] = of.chat.keywords /\ read["colors"] = of.chat.colors
  BY ReadsEncoding DEF FileOf, Complete
<1>2. PICK tag : ReadAll(Reader, enc) = At(read, tag, 0, 0)
  BY <1>1 DEF Reads
<1>3. Tail(data) = enc
  <2>1. enc \in Seq(Piece) /\ data = <<Header>> \o enc
    BY <1>1 DEF Reads, Contents, Complete
  <2> HIDE DEF enc
  <2> QED BY <2>1
<1> DEFINE r == At(read, tag, 0, 0)
<1>4. r.left = 0 /\ ~r.bad /\ r.tag = tag /\ r.read = read
  BY DEF At
<1>10. ReadAll(Reader, Tail(data)) = r
  BY <1>2, <1>3
<1>5. Decode(data, unread) =
        [bad |-> r.bad,
         read |-> IF r.bad \/ r.tag = "none" THEN r.read
                  ELSE [r.read EXCEPT ![r.tag] = @ \o [i \in 1..0 |-> Garbage]]]
  <2> HIDE DEF r
  <2>1. r.left # NoCount
    BY <1>4 DEF NoCount
  <2> QED BY <1>4, <1>10, <2>1 DEF Decode
<1>6. [read EXCEPT ![tag] = @ \o [i \in 1..0 |-> Garbage]] = read
  <2>1. [i \in 1..0 |-> Garbage] = <<>>
    OBVIOUS
  <2>2. tag \in Tags => read[tag] \o <<>> = read[tag]
    BY ConcatEmptySeq DEF Content
  <2> QED BY <2>1, <2>2
<1> HIDE DEF r
<1>7. ~Decode(data, unread).bad /\ Decode(data, unread).read = read
  BY <1>4, <1>5, <1>6
<1>8. of.chat = [keywords |-> of.chat.keywords, colors |-> of.chat.colors]
  BY DEF FileOf, Lists
<1>9. LoadedLists(read) = IF use_global THEN chat ELSE of.chat
  BY <1>1, <1>8 DEF LoadedLists
<1> QED BY <1>1, <1>7, <1>9

(* What the program began to write has no tag that is not known. *)
LEMMA DecodeBad ==
  ASSUME NEW of, FileOf(of), NEW data, Begins(data, of), data # <<>>, NEW unread,
         Decode(data, unread).bad
  PROVE  of.route = NoRoute
<1> SUFFICES ASSUME of.route # NoRoute PROVE FALSE
  OBVIOUS
<1>1. PICK rest \in Seq(Part), c \in ContentsOf(of) : Joins(data, rest, c)
  BY DEF Begins
<1>2. c \in Seq(Piece)
  BY <1>1, ContentsOfFiles DEF Contents
<1>7. data \in Seq(Part)
  BY DEF Begins
<1>3. /\ Tail(data) \in Seq(Piece) /\ rest \in Seq(Piece) /\ Tail(data) \o rest = c
  BY <1>1, <1>2, <1>7, AfterHeader
<1>4. \E read : Reads(c, read)
  <2>1. CASE IsValid(of.route)
    BY <2>1, ReadsEncoding DEF ContentsOf, FileOf
  <2>2. CASE ~IsValid(of.route)
    BY <2>2, ReadsNothing DEF ContentsOf
  <2> QED BY <2>1, <2>2
<1>5. ~ReadAll(Reader, c).bad
  BY <1>4 DEF Reads, At
<1>6. ~ReadAll(Reader, Tail(data)).bad
  BY <1>3, <1>5, PrefixNotBad
<1> QED BY <1>6 DEF Decode

(* Memory holds a route and lists, the menu's list counts entries. *)
MemoryTyped == route \in Route /\ chat \in Lists /\ route_configs \in [Id -> Nat]

(* Every file begins like one that was saved from what it is said to hold, *)
(* and is complete if it counts as whole.                                  *)
Sound(f) ==
  /\ FileOf(f.of)
  /\ Begins(f.data, f.of)
  /\ f.whole => Complete(f.data, f.of)
  /\ ~f.there => f.of.route = NoRoute

FilesSound == (\A id \in Id : Sound(disk[id])) /\ \A f \in published : Sound(f)

(* With what its writer has yet to write it still is, or will be whole.    *)
Awaits(f, j) ==
  /\ ~f.whole /\ j.todo \in Seq(Part)
  /\ Begins(f.data \o j.todo, f.of)
  /\ j.whole => Complete(f.data \o j.todo, f.of)

WritersSound == \A t \in Thread : job[t].op = "write" => Awaits(disk[job[t].id], job[t])

HoldInv == MemoryTyped /\ FilesSound /\ WritersSound

(* What is the beginning of a beginning is one too. *)
LEMMA BeginsShorter ==
  ASSUME NEW a \in Seq(Part), NEW b \in Seq(Part), NEW of, Begins(a \o b, of)
  PROVE  Begins(a, of)
<1>1. PICK rest \in Seq(Part), c \in ContentsOf(of) : Joins(a \o b, rest, c)
  BY DEF Begins
<1>2. Joins(a, b \o rest, c) /\ b \o rest \in Seq(Part)
  <2>1. b \o rest \in Seq(Part)
    BY <1>1, ConcatProperties
  <2>2. (a \o b) \o rest = a \o (b \o rest)
    BY <1>1, ConcatAssociative
  <2> QED BY <1>1, <2>1, <2>2 DEF Joins
<1> QED BY <1>1, <1>2 DEF Begins

(* One piece is moved from what is to be written to what was. *)
LEMMA MoveOne ==
  ASSUME NEW a \in Seq(Part), NEW b \in Seq(Part), b # <<>>
  PROVE  /\ Head(b) \in Part /\ Tail(b) \in Seq(Part) /\ Append(a, Head(b)) \in Seq(Part)
         /\ Append(a, Head(b)) \o Tail(b) = a \o b
<1> DEFINE h == Head(b)
           t == Tail(b)
<1>1. h \in Part /\ t \in Seq(Part) /\ b = <<h>> \o t
  BY HeadTailProperties
<1> HIDE DEF h, t
<1>2. Append(a, h) = a \o <<h>> /\ Append(a, h) \in Seq(Part) /\ <<h>> \in Seq(Part)
  BY <1>1, AppendIsConcat, AppendProperties
<1>3. (a \o <<h>>) \o t = a \o (<<h>> \o t)
  BY <1>1, <1>2, ConcatAssociative
<1> QED BY <1>1, <1>2, <1>3 DEF h, t

LEMMA AllOfIt ==
  ASSUME NEW of, NEW c \in ContentsOf(of), FileOf(of)
  PROVE  Begins(<<Header>> \o c, of)
<1> DEFINE d == <<Header>> \o c
<1>1. c \in Seq(Part) /\ <<Header>> \in Seq(Part) /\ <<>> \in Seq(Part)
  BY ContentsOfFiles DEF Contents, Part
<1>2. d \in Seq(Part)
  BY <1>1, ConcatProperties
<1>3. d \o <<>> = d
  BY <1>2, ConcatEmptySeq
<1>4. Joins(d, <<>>, c)
  BY <1>3 DEF Joins
<1> QED BY <1>1, <1>2, <1>4 DEF Begins

(* What is not there holds nothing, for nothing. *)
LEMMA NoFileIsSound == Sound(NoFile) /\ NoFile.data = <<>> /\ ~NoFile.whole
<1>1. /\ NoFile.of = [route |-> NoRoute, chat |-> NoLists] /\ NoFile.data = <<>>
      /\ ~NoFile.whole
  BY DEF NoFile
<1>2. FileOf(NoFile.of) /\ NoFile.of.route = NoRoute
  <2>1. <<>> \in Content
    BY EmptySeq DEF Content
  <2>2. NoRoute \in Route /\ NoLists \in Lists
    BY <2>1 DEF NoRoute, NoLists, Route, Lists
  <2> QED BY <1>1, <2>2 DEF FileOf
<1>3. <<>> \in ContentsOf(NoFile.of)
  BY <1>2, ReadsNothing DEF ContentsOf, Reads
<1>4. Begins(<<Header>> \o <<>>, NoFile.of)
  BY <1>2, <1>3, AllOfIt
<1>5. <<Header>> \o <<>> = <<>> \o <<Header>> /\ <<>> \in Seq(Part) /\ <<Header>> \in Seq(Part)
  BY DEF Part
<1>6. Begins(<<>>, NoFile.of)
  BY <1>4, <1>5, BeginsShorter
<1> QED BY <1>1, <1>2, <1>6 DEF Sound

(* A file that is opened for what can be written to it. *)
LEMMA BeginKeepsSound ==
  ASSUME Shapes, FilesOpen, FilesSound, WritersSound, NEW t \in Thread, NEW id \in Id, NEW j,
         job' = [job EXCEPT ![t] = j], ~disk[id].there, UNCHANGED published,
         \/ /\ IsWriteJob(j) /\ j.id = id
            /\ \E file :
                 /\ FileOf(file.of) /\ file.there /\ ~file.whole /\ file.data = <<>>
                 /\ j.todo \in Seq(Part) /\ Begins(j.todo, file.of)
                 /\ j.whole => Complete(j.todo, file.of)
                 /\ disk' = [disk EXCEPT ![id] = file]
         \/ j.op # "write" /\ UNCHANGED disk
  PROVE  FilesSound' /\ WritersSound'
<1>1. job'[t] = j /\ \A u \in Thread : u # t => job'[u] = job[u]
  BY DEF Shapes
<1>2. CASE j.op # "write" /\ UNCHANGED disk
  BY <1>1, <1>2 DEF FilesSound, WritersSound
<1>3. CASE /\ IsWriteJob(j) /\ j.id = id
           /\ \E file :
                /\ FileOf(file.of) /\ file.there /\ ~file.whole /\ file.data = <<>>
                /\ j.todo \in Seq(Part) /\ Begins(j.todo, file.of)
                /\ j.whole => Complete(j.todo, file.of)
                /\ disk' = [disk EXCEPT ![id] = file]
  <2>1. PICK file :
          /\ FileOf(file.of) /\ file.there /\ ~file.whole /\ file.data = <<>>
          /\ j.todo \in Seq(Part) /\ Begins(j.todo, file.of)
          /\ j.whole => Complete(j.todo, file.of)
          /\ disk' = [disk EXCEPT ![id] = file]
    BY <1>3
  <2>2. disk'[id] = file /\ \A f \in Id : f # id => disk'[f] = disk[f]
    BY <2>1 DEF Shapes
  <2>3. file.data \o j.todo = j.todo /\ <<>> \in Seq(Part)
    BY <2>1, ConcatEmptySeq
  <2>4. Begins(file.data, file.of)
    <3> DEFINE a == file.data
               b == j.todo
    <3>1. a \in Seq(Part) /\ b \in Seq(Part) /\ Begins(a \o b, file.of)
      BY <2>1, <2>3
    <3> HIDE DEF a, b
    <3> QED BY <3>1, BeginsShorter DEF a
  <2>5. Sound(file)
    BY <2>1, <2>4 DEF Sound
  <2>6. Awaits(file, j)
    BY <2>1, <2>3 DEF Awaits
  <2>7. FilesSound'
    BY <2>2, <2>5 DEF FilesSound
  <2>8. \A u \in Thread : job[u].op = "write" => job[u].id \in Id \ {id}
    BY JobOps DEF FilesOpen
  <2>9. WritersSound'
    BY <1>1, <1>3, <2>2, <2>6, <2>8 DEF WritersSound
  <2> QED BY <2>7, <2>9
<1> QED BY <1>2, <1>3

(* What is saved is what is in memory. *)
LEMMA CreateKeepsSound ==
  ASSUME Shapes, FilesOpen, HoldInv, NEW id \in Id, CreateConfig(id)
  PROVE  FilesSound' /\ WritersSound'
<1> DEFINE of == [route |-> route, chat |-> chat]
           file == [NoFile EXCEPT !.there = TRUE, !.of = of]
           valid == IsValid(route)
           c == IF valid THEN Encode(route, chat) ELSE <<>>
           todo == <<Header>> \o c
           j == [op |-> "write", id |-> id, keep |-> valid, whole |-> valid, todo |-> todo]
<1>1. \/ disk' = [disk EXCEPT ![id] = file] /\ job' = [job EXCEPT !["game"] = j]
      \/ /\ job' = [job EXCEPT !["game"] = IF valid THEN Listing ELSE Idle]
         /\ UNCHANGED disk
  BY DEF CreateConfig
<1>2. ~disk[id].there /\ "game" \in Thread /\ UNCHANGED published
  BY DEF CreateConfig, Thread
<1>3. FileOf(of) /\ of.route = route /\ of.chat = chat
  BY DEF FileOf, HoldInv, MemoryTyped
<1>4. c \in ContentsOf(of)
  <2>1. CASE route = NoRoute
    BY <1>3, <2>1, ReadsNothing DEF IsValid, NoRoute, ContentsOf, Reads
  <2>2. CASE route # NoRoute
    BY <1>3, <2>2 DEF ContentsOf
  <2> QED BY <2>1, <2>2
<1> HIDE DEF of
<1>5. valid => Complete(todo, of)
  BY <1>3 DEF Complete
<1> HIDE DEF c, valid
<1>6. Begins(todo, of) /\ todo \in Seq(Part)
  BY <1>3, <1>4, AllOfIt DEF Begins
<1> HIDE DEF todo
<1>7. file.there /\ ~file.whole /\ file.data = <<>> /\ file.of = of
  BY DEF NoFile
<1>8. /\ IsWriteJob(j) /\ j.id = id
      /\ j.todo = todo /\ j.whole = valid
  BY OpenedJob
<1>9. Listing.op # "write" /\ Idle.op # "write"
  BY DEF Listing, Idle
<1> HIDE DEF file, j
<1> QED BY <1>1, <1>2, <1>3, <1>5, <1>6, <1>7, <1>8, <1>9, BeginKeepsSound DEF HoldInv

(* What is downloaded is written as it was published. *)
LEMMA DownloadKeepsSound ==
  ASSUME Shapes, FilesOpen, HoldInv, NEW id \in Id, NEW from \in published, Download(id, from)
  PROVE  FilesSound' /\ WritersSound'
<1> DEFINE of == from.of
           file == [NoFile EXCEPT !.there = TRUE, !.of = of]
           todo == <<Header>> \o Tail(from.data)
           j == [op |-> "write", id |-> id, keep |-> TRUE, whole |-> from.whole, todo |-> todo]
<1>1. \/ disk' = [disk EXCEPT ![id] = file] /\ job' = [job EXCEPT !["socket"] = j]
      \/ job' = [job EXCEPT !["socket"] = Listing] /\ UNCHANGED disk
  BY DEF Download
<1>2. ~disk[id].there /\ "socket" \in Thread /\ UNCHANGED published
  BY DEF Download, Thread
<1>3. /\ FileOf(of) /\ Begins(from.data, of) /\ from.data \in Seq(Part)
      /\ from.whole => Complete(from.data, of)
  BY DEF HoldInv, FilesSound, Sound, Begins
<1>4. todo = from.data
  <2>1. from.data # <<>> /\ Head(from.data) = Header
    BY DEF Download, HasHeader
  <2> QED BY <1>3, <2>1, HeadTailProperties
<1> HIDE DEF todo, of
<1>5. file.there /\ ~file.whole /\ file.data = <<>> /\ file.of = of
  BY DEF NoFile
<1>6. /\ IsWriteJob(j) /\ j.id = id
      /\ j.todo = todo /\ j.whole = from.whole
  BY OpenedJob
<1>7. Listing.op # "write"
  BY DEF Listing
<1> HIDE DEF file, j
<1> QED BY <1>1, <1>2, <1>3, <1>4, <1>5, <1>6, <1>7, BeginKeepsSound DEF HoldInv

(* What is written moves from the writer to the file. *)
LEMMA WriteKeepsSound ==
  ASSUME Shapes, FilesOpen, FilesSound, WritersSound, NEW t \in Thread, Write(t) \/ WriteFails(t)
  PROVE  FilesSound' /\ WritersSound'
<1> DEFINE id == job[t].id
           f == disk[id]
           todo == job[t].todo
<1>1. /\ job[t].op = "write" /\ todo # <<>> /\ UNCHANGED published
      /\ \/ /\ job' = [job EXCEPT ![t].todo = Tail(@)]
            /\ disk' = [disk EXCEPT ![id].data = Append(@, Head(todo))]
         \/ /\ job' = [job EXCEPT ![t].todo = <<>>, ![t].whole = FALSE]
            /\ UNCHANGED disk
  BY DEF Write, WriteFails
<1>2. IsWriteJob(job[t]) /\ id \in Id /\ Sound(f) /\ Awaits(f, job[t]) /\ IsFile(f)
  BY <1>1, JobOps DEF FilesSound, WritersSound, Shapes
<1>3. f.data \in Seq(Part) /\ todo \in Seq(Part)
  BY <1>2 DEF Sound, Begins, Awaits
<1>4. \A u \in Thread : u # t => job'[u] = job[u]
  BY <1>1 DEF Shapes
<1>5. \A u \in Thread : u # t /\ job[u].op = "write" => job[u].id \in Id \ {id}
  BY <1>1, JobOps DEF FilesOpen
<1>6. SUFFICES /\ \A o \in Id \ {id} : disk'[o] = disk[o]
               /\ Sound(disk'[id]) /\ Awaits(disk'[id], job'[t]) /\ job'[t].id = id
  <2>1. ASSUME /\ \A o \in Id \ {id} : disk'[o] = disk[o]
               /\ Sound(disk'[id]) /\ Awaits(disk'[id], job'[t]) /\ job'[t].id = id
        PROVE  FilesSound' /\ WritersSound'
    <3> HIDE DEF id
    <3>1. FilesSound'
      BY <1>1, <2>1 DEF FilesSound
    <3>2. WritersSound'
      BY <1>4, <1>5, <2>1 DEF WritersSound
    <3> QED BY <3>1, <3>2
  <2> QED BY <2>1
<1>7. CASE job' = [job EXCEPT ![t].todo = <<>>, ![t].whole = FALSE] /\ UNCHANGED disk
  <2>1. job'[t].todo = <<>> /\ ~job'[t].whole /\ job'[t].id = id
    BY <1>2, <1>7 DEF Shapes, IsWriteJob
  <2>2. f.data \o <<>> = f.data /\ <<>> \in Seq(Part)
    BY <1>3, ConcatEmptySeq
  <2>3. disk'[id] = f
    BY <1>7
  <2> HIDE DEF f
  <2>4. Awaits(f, job'[t])
    BY <1>2, <2>1, <2>2 DEF Awaits, Sound
  <2> QED BY <1>2, <1>7, <2>1, <2>3, <2>4
<1>8. CASE /\ job' = [job EXCEPT ![t].todo = Tail(@)]
           /\ disk' = [disk EXCEPT ![id].data = Append(@, Head(todo))]
  <2> DEFINE more == Append(f.data, Head(todo))
  <2>1. job'[t].todo = Tail(todo) /\ job'[t].whole = job[t].whole /\ job'[t].id = id
    BY <1>2, <1>8 DEF Shapes, IsWriteJob
  <2>2. /\ disk'[id].data = more /\ disk'[id].of = f.of
        /\ disk'[id].whole = f.whole /\ disk'[id].there = f.there
        /\ \A o \in Id \ {id} : disk'[o] = disk[o]
    <3> HIDE DEF more
    <3>1. disk' = [disk EXCEPT ![id] = [f EXCEPT !.data = more]]
      BY <1>8 DEF more
    <3>2. disk'[id] = [f EXCEPT !.data = more] /\ \A o \in Id \ {id} : disk'[o] = disk[o]
      <4> HIDE DEF id, f
      <4> QED BY <1>2, <3>1 DEF Shapes
    <3> QED BY <1>2, <3>2 DEF IsFile
  <2>3. /\ Tail(todo) \in Seq(Part) /\ more \in Seq(Part)
        /\ more \o Tail(todo) = f.data \o todo
    BY <1>1, <1>3, MoveOne
  <2> HIDE DEF more, f, todo
  <2>4. Awaits(disk'[id], job'[t])
    BY <1>2, <2>1, <2>2, <2>3 DEF Awaits, todo
  <2>5. Begins(more, f.of)
    BY <1>2, <2>3, BeginsShorter DEF Awaits, todo
  <2>6. Sound(disk'[id])
    BY <1>2, <2>2, <2>5 DEF Sound, Awaits
  <2> QED BY <2>1, <2>2, <2>4, <2>6
<1> QED BY <1>1, <1>7, <1>8

(* Where writers and their files stay as they are. *)
LEMMA OthersKeepSound ==
  ASSUME WritersSound, \A id \in Id : Sound(disk'[id]), \A f \in published' : Sound(f),
         \A t \in Thread : job'[t].op = "write" =>
           job'[t] = job[t] /\ disk'[job[t].id] = disk[job[t].id]
  PROVE  FilesSound' /\ WritersSound'
<1>1. FilesSound'
  BY DEF FilesSound
<1>2. WritersSound'
  BY DEF WritersSound
<1> QED BY <1>1, <1>2

(* A file that is closed with nothing left to write is what it was to be.   *)
LEMMA CloseKeepsSound ==
  ASSUME Shapes, FilesOpen, FilesSound, WritersSound, NEW t \in Thread, Close(t)
  PROVE  FilesSound' /\ WritersSound'
<1> DEFINE id == job[t].id
           f == disk[id]
<1>1. job[t].op = "write" /\ job[t].todo = <<>> /\ id \in Id /\ UNCHANGED published
  BY JobOps DEF Close
<1>2. Sound(f) /\ Awaits(f, job[t]) /\ IsFile(f)
  BY <1>1 DEF FilesSound, WritersSound, Shapes
<1>3. \/ disk' = [disk EXCEPT ![id].whole = job[t].whole] /\ job' = [job EXCEPT ![t] = Listing]
      \/ disk' = [disk EXCEPT ![id] = NoFile] /\ job' = [job EXCEPT ![t] = Idle]
  BY DEF Close
<1>4. \A u \in Thread : u # t /\ job[u].op = "write" => job[u].id \in Id \ {id}
  BY <1>1, JobOps DEF FilesOpen
<1>5. /\ \A u \in Thread : u # t => job'[u] = job[u]
      /\ job'[t].op # "write"
  BY <1>3 DEF Shapes, Listing, Idle
<1>6. Sound([f EXCEPT !.whole = job[t].whole])
  <2> DEFINE new == [f EXCEPT !.whole = job[t].whole]
  <2> HIDE DEF f
  <2>1. new.of = f.of /\ new.data = f.data /\ new.there = f.there /\ new.whole = job[t].whole
    BY <1>2 DEF IsFile
  <2> HIDE DEF new
  <2>2. f.data \o <<>> = f.data
    BY <1>2, ConcatEmptySeq DEF Sound, Begins
  <2>3. new.whole => Complete(new.data, new.of)
    BY <1>1, <1>2, <2>1, <2>2 DEF Awaits
  <2>4. Sound(new)
    BY <1>2, <2>1, <2>3 DEF Sound
  <2> QED BY <2>4 DEF new
<1> DEFINE closed == [f EXCEPT !.whole = job[t].whole]
<1>7. disk' = [disk EXCEPT ![id] = closed] \/ disk' = [disk EXCEPT ![id] = NoFile]
  BY <1>3
<1> HIDE DEF closed, id, f
<1>8. Sound(closed)
  BY <1>6 DEF closed
<1>9. \A o \in Id \ {id} : disk'[o] = disk[o]
  BY <1>7 DEF Shapes
<1>10. Sound(disk'[id])
  BY <1>1, <1>7, <1>8, NoFileIsSound DEF Shapes
<1>11. \A o \in Id : Sound(disk'[o])
  BY <1>9, <1>10 DEF FilesSound
<1> QED BY <1>1, <1>4, <1>5, <1>9, <1>11, OthersKeepSound DEF FilesSound

(* A file that others do not write may be removed. *)
LEMMA RemoveKeepsSound ==
  ASSUME Shapes, FilesSound, WritersSound, NEW id \in Id,
         \A t \in Thread : job[t].op = "write" => job[t].id # id,
         \A t \in Thread : job'[t].op = "write" => job'[t] = job[t],
         disk' = [disk EXCEPT ![id] = NoFile], UNCHANGED published
  PROVE  FilesSound' /\ WritersSound'
<1>1. disk'[id] = NoFile /\ \A f \in Id \ {id} : disk'[f] = disk[f]
  BY DEF Shapes
<1>2. \A f \in Id : Sound(disk'[f])
  BY <1>1, NoFileIsSound DEF FilesSound
<1>3. \A t \in Thread : job'[t].op = "write" =>
        job'[t] = job[t] /\ disk'[job[t].id] = disk[job[t].id]
  BY <1>1, JobOps
<1> QED BY <1>2, <1>3, OthersKeepSound DEF FilesSound

(* The server keeps what the file holds, and for what. *)
LEMMA PublishKeepsSound ==
  ASSUME Shapes, FilesSound, WritersSound, NEW id \in Id, Publish(id)
  PROVE  FilesSound' /\ WritersSound'
<1> DEFINE f == disk[id]
           sent == [f EXCEPT !.there = TRUE]
<1>1. UNCHANGED <<disk, job>> /\ published' = published \cup {sent}
  BY DEF Publish
<1>2. Sound(f) /\ IsFile(f)
  BY DEF FilesSound, Shapes
<1>3. Sound(sent)
  <2> HIDE DEF f
  <2>1. sent.of = f.of /\ sent.data = f.data /\ sent.there /\ sent.whole = f.whole
    BY <1>2 DEF IsFile
  <2> HIDE DEF sent
  <2> QED BY <1>2, <2>1 DEF Sound
<1> HIDE DEF sent
<1>4. \A o \in published' : Sound(o)
  BY <1>1, <1>3 DEF FilesSound
<1> QED BY <1>1, <1>4, OthersKeepSound DEF FilesSound

(* What is loaded, from any file. *)
LEMMA LoadIsSound ==
  ASSUME Shapes, HoldInv, NEW id \in Id, LoadConfig(id)
  PROVE  /\ MemoryTyped'
         /\ disk[id].whole =>
              /\ route' = Saved(disk[id].of.route)
              /\ chat' = IF use_global THEN chat ELSE disk[id].of.chat
         /\ ~disk'[id].there => disk[id].of.route = NoRoute
<1> DEFINE f == disk[id]
<1>1. Sound(f) /\ chat \in Lists
  BY DEF HoldInv, FilesSound, MemoryTyped
<1>2. PICK unread \in 0..MaxGarbage :
        /\ route' = LoadedRoute(Decode(f.data, unread).read)
        /\ chat' = LoadedLists(Decode(f.data, unread).read)
        /\ IF Decode(f.data, unread).bad THEN disk' = [disk EXCEPT ![id] = NoFile] ELSE UNCHANGED disk
  BY DEF LoadConfig
<1>3. f.data # <<>> /\ UNCHANGED route_configs
  BY DEF LoadConfig, HasHeader
<1>4. unread \in Nat
  BY <1>2, BoundsAssumption
<1>5. FileOf(f.of) /\ Begins(f.data, f.of)
  BY <1>1 DEF Sound
<1>6. MemoryTyped'
  <2>1. Decode(f.data, unread).read \in [Tags -> Content]
    BY <1>3, <1>4, <1>5, DecodeTyped
  <2>2. route' \in Route /\ chat' \in Lists
    BY <1>1, <1>2, <2>1, LoadedTyped
  <2> QED BY <1>3, <2>2 DEF MemoryTyped, HoldInv
<1>7. ASSUME f.whole
      PROVE  route' = Saved(f.of.route) /\ chat' = IF use_global THEN chat ELSE f.of.chat
  <2>1. Complete(f.data, f.of)
    BY <1>1, <1>7 DEF Sound
  <2> QED BY <1>2, <1>4, <1>5, <2>1, DecodeComplete
<1>8. ASSUME ~disk'[id].there PROVE f.of.route = NoRoute
  <2>1. CASE Decode(f.data, unread).bad
    BY <1>3, <1>5, <2>1, DecodeBad
  <2>2. CASE ~Decode(f.data, unread).bad
    BY <1>1, <1>2, <1>8, <2>2 DEF Sound
  <2> QED BY <2>1, <2>2
<1> QED BY <1>6, <1>7, <1>8

LEMMA LoadKeepsSound ==
  ASSUME Shapes, FilesSound, WritersSound, NEW id \in Id, LoadConfig(id)
  PROVE  FilesSound' /\ WritersSound'
<1> DEFINE bad(unread) == Decode(disk[id].data, unread).bad
<1>1. /\ job["game"] = Idle /\ UNCHANGED <<job, published>>
      /\ job["socket"].op = "write" => job["socket"].id # id \/ ~bad(0)
      /\ \E unread \in 0..MaxGarbage :
           IF bad(unread) THEN disk' = [disk EXCEPT ![id] = NoFile] ELSE UNCHANGED disk
  BY DEF LoadConfig, Ready
<1>2. \A unread : bad(unread) = bad(0)
  BY DEF Decode
<1> HIDE DEF bad
<1>3. CASE UNCHANGED disk
  BY <1>1, <1>3, OthersKeepSound DEF FilesSound
<1>4. CASE bad(0) /\ disk' = [disk EXCEPT ![id] = NoFile]
  <2>1. \A t \in Thread : job[t].op = "write" => job[t].id # id
    BY <1>1, <1>4 DEF Thread, Idle
  <2> QED BY <1>1, <1>4, <2>1, RemoveKeepsSound
<1> QED BY <1>1, <1>2, <1>3, <1>4

LEMMA NextKeepsSound ==
  ASSUME Shapes, FilesOpen, HoldInv, [Next]_vars
  PROVE  FilesSound' /\ WritersSound'
<1>0. FilesSound /\ WritersSound
  BY DEF HoldInv
<1>1. ASSUME UNCHANGED <<disk, published>>,
             \A t \in Thread : job'[t].op = "write" => job'[t] = job[t]
      PROVE  FilesSound' /\ WritersSound'
  BY <1>0, <1>1, OthersKeepSound DEF FilesSound
<1>2. ASSUME NEW id \in Id, RemoveConfig(id) PROVE FilesSound' /\ WritersSound'
  <2>1. /\ disk' = [disk EXCEPT ![id] = NoFile] /\ job' = [job EXCEPT !["game"] = Listing]
        /\ job["game"] = Idle /\ (job["socket"].op = "write" => job["socket"].id # id)
        /\ UNCHANGED published
    BY <1>2 DEF RemoveConfig, Ready
  <2>2. \A t \in Thread : job'[t].op = "write" => job'[t] = job[t]
    BY <2>1 DEF Shapes, Listing
  <2>3. \A t \in Thread : job[t].op = "write" => job[t].id # id
    BY <2>1 DEF Thread, Idle
  <2> QED BY <1>0, <2>1, <2>2, <2>3, RemoveKeepsSound
<1>4. ASSUME NEW t \in Thread, ClearList(t) \/ FillList(t) PROVE FilesSound' /\ WritersSound'
  <2>1. UNCHANGED <<disk, published>>
    BY <1>4 DEF ClearList, FillList
  <2>2. job' = [job EXCEPT ![t] = ListingOnTop] \/ job' = [job EXCEPT ![t] = Idle]
    BY <1>4 DEF ClearList, FillList, ListingOnTop
  <2>3. \A u \in Thread : job'[u].op = "write" => job'[u] = job[u]
    BY <2>2 DEF Shapes, ListingOnTop, Idle
  <2> QED BY <1>1, <2>1, <2>3
<1>5. CASE Stop
  <2>1. UNCHANGED <<disk, published>> /\ job' = [t \in Thread |-> Idle]
    BY <1>5 DEF Stop
  <2> QED BY <1>1, <2>1 DEF Idle
<1>6. ASSUME UNCHANGED <<disk, job, published>> PROVE FilesSound' /\ WritersSound'
  BY <1>1, <1>6
<1>7. CASE Click
  <2>1. Record => UNCHANGED <<disk, job, published>>
    BY DEF Record
  <2> QED BY <1>0, <1>2, <1>6, <1>7, <2>1, CreateKeepsSound, DownloadKeepsSound,
             LoadKeepsSound, PublishKeepsSound DEF Click
<1>8. CASE UNCHANGED vars
  BY <1>6, <1>8 DEF vars
<1>9. ASSUME NEW t \in Thread, Close(t) PROVE FilesSound' /\ WritersSound'
  BY <1>0, <1>9, CloseKeepsSound
<1>10. ASSUME NEW t \in Thread, Write(t) \/ WriteFails(t) PROVE FilesSound' /\ WritersSound'
  BY <1>0, <1>10, WriteKeepsSound
<1> QED BY <1>4, <1>5, <1>7, <1>8, <1>9, <1>10 DEF Next

(* What is in memory is a route and lists of chat, whatever was loaded.    *)
LEMMA MemoryStaysTyped ==
  ASSUME Shapes, HoldInv, [Next]_vars
  PROVE  MemoryTyped'
<1>0. MemoryTyped
  BY DEF HoldInv
<1>1. Entries \in [Id -> Nat]
  BY DEF Entries
<1>2. ASSUME NEW id \in Id, LoadConfig(id) PROVE MemoryTyped'
  BY <1>2, LoadIsSound
<1>3. Record => MemoryTyped'
  BY <1>0, RecordingsAssumption DEF Record, MemoryTyped
<1>4. Stop => MemoryTyped'
  <2>1. NoRoute \in Route /\ NoLists \in Lists
    <3>1. <<>> \in Content
      BY EmptySeq DEF Content
    <3> QED BY <3>1 DEF NoRoute, NoLists, Route, Lists
  <2> QED BY <1>1, <2>1 DEF Stop, MemoryTyped
<1>5. ASSUME NEW t \in Thread, ClearList(t) PROVE MemoryTyped'
  BY <1>0, <1>5 DEF ClearList, MemoryTyped
<1>6. ASSUME NEW t \in Thread, FillList(t) PROVE MemoryTyped'
  BY <1>0, <1>1, <1>6 DEF FillList, MemoryTyped
<1>7. UNCHANGED <<route, chat, route_configs>> => MemoryTyped'
  BY <1>0 DEF MemoryTyped
<1>8. ASSUME NEW t \in Thread, Write(t) \/ WriteFails(t) \/ Close(t)
      PROVE  UNCHANGED <<route, chat, route_configs>>
  BY <1>8 DEF Write, WriteFails, Close
<1>9. ASSUME NEW id \in Id, CreateConfig(id) \/ RemoveConfig(id) \/ Publish(id)
      PROVE  UNCHANGED <<route, chat, route_configs>>
  BY <1>9 DEF CreateConfig, RemoveConfig, Publish
<1>10. ASSUME NEW id \in Id, NEW file, Download(id, file)
       PROVE  UNCHANGED <<route, chat, route_configs>>
  BY <1>10 DEF Download
<1> QED BY <1>2, <1>3, <1>4, <1>5, <1>6, <1>7, <1>8, <1>9, <1>10 DEF Next, Click, vars

LEMMA InitHolds == Init => FilesOpen /\ WholeIsThere /\ HoldInv
<1> SUFFICES ASSUME Init PROVE FilesOpen /\ WholeIsThere /\ HoldInv
  OBVIOUS
<1>1. /\ route = NoRoute /\ chat = NoLists
      /\ disk = [id \in Id |-> NoFile]
      /\ route_configs = [id \in Id |-> 0]
      /\ job = [t \in Thread |-> Idle]
      /\ published = {[NoFile EXCEPT !.there = TRUE, !.data = <<Header>> \o data] : data \in Foreign}
  BY Zenon DEF Init
<1>2. NoFile.whole = FALSE /\ Idle.op = "idle"
  BY DEF NoFile, Idle
<1>3. FilesOpen
  BY <1>1, <1>2 DEF FilesOpen
<1>4. WholeIsThere
  BY <1>1, <1>2 DEF WholeIsThere
<1>5. MemoryTyped
  <2>1. <<>> \in Content
    BY EmptySeq DEF Content
  <2> QED BY <1>1, <2>1 DEF MemoryTyped, NoRoute, NoLists, Route, Lists
<1>6. ASSUME NEW data \in Foreign
      PROVE  Sound([NoFile EXCEPT !.there = TRUE, !.data = <<Header>> \o data])
  <2> DEFINE all == <<Header>> \o data
             f == [NoFile EXCEPT !.there = TRUE, !.data = all]
  <2>1. data \in Contents
    BY ForeignAssumption DEF Contents
  <2>2. FileOf(NoFile.of) /\ NoFile.of.route = NoRoute
    <3>1. NoFile.of.route = NoRoute
      BY DEF NoFile
    <3> QED BY <3>1, NoFileIsSound DEF Sound
  <2>3. Begins(all, NoFile.of)
    BY <2>1, <2>2, AllOfIt DEF ContentsOf
  <2> HIDE DEF all
  <2>4. f.there /\ f.data = all /\ f.of = NoFile.of /\ ~f.whole
    BY DEF NoFile
  <2> HIDE DEF f
  <2>5. Sound(f)
    BY <2>2, <2>3, <2>4 DEF Sound
  <2> QED BY <2>5 DEF f, all
<1>7. FilesSound
  BY <1>1, <1>6, NoFileIsSound DEF FilesSound
<1>8. WritersSound
  BY <1>1, <1>2 DEF WritersSound
<1> QED BY <1>3, <1>4, <1>5, <1>7, <1>8 DEF HoldInv

(* All of it together is inductive. *)
LEMMA FilesInvariant == Spec => [](Shapes /\ FilesOpen /\ WholeIsThere /\ HoldInv)
<1>1. ListInv => Shapes
  BY DEF ListInv
<1>2. Shapes /\ FilesOpen /\ WholeIsThere /\ HoldInv /\ [Next]_vars
        => FilesOpen' /\ WholeIsThere' /\ HoldInv'
  BY NextKeepsFiles, NextKeepsSound, MemoryStaysTyped DEF HoldInv
<1> QED BY <1>1, <1>2, InitHolds, ListInvariant, PTL DEF Spec

(* Type correctness, and with it: what counts as written whole is there,   *)
(* and no thread writes a file that another removed or writes              *)
(* (configs.cpp:183).                                                      *)
THEOREM TypeCorrect == Spec => [](TypeOK /\ FilesOpen)
<1>1. Shapes /\ WholeIsThere /\ HoldInv => TypeOK
  BY JobOps DEF TypeOK, WholeIsThere, HoldInv, MemoryTyped
<1> QED BY <1>1, FilesInvariant, PTL

(* A file that was written to its end loads as the route and the lists it  *)
(* was saved from: create_route_config (configs.cpp:140) and               *)
(* load_route_config (configs.cpp:185) agree on every route, whatever its  *)
(* length and the kinds of its elements, also after a download or restart. *)
THEOREM LoadedAsSaved == Spec => LoadsWhatWasSaved
<1>1. Shapes /\ HoldInv =>
        [\A id \in Id : LoadConfig(id) /\ disk[id].whole =>
           /\ route' = Saved(disk[id].of.route)
           /\ chat' = IF use_global THEN chat ELSE disk[id].of.chat]_vars
  BY LoadIsSound
<1> QED BY <1>1, FilesInvariant, PTL DEF LoadsWhatWasSaved

(* load_route_config removes no file the program itself wrote, at whatever *)
(* place the writing was cut off (configs.cpp:236).                        *)
THEOREM GoodFilesKept == Spec => GoodFilesStay
<1>1. Shapes /\ HoldInv =>
        [\A id \in Id : LoadConfig(id) /\ ~disk'[id].there => disk[id].of.route = NoRoute]_vars
  BY LoadIsSound
<1> QED BY <1>1, FilesInvariant, PTL DEF GoodFilesStay
=============================================================================
