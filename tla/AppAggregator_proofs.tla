------------------------ MODULE AppAggregator_proofs ------------------------
(***************************************************************************)
(* Proofs about AppAggregator, for any users, paths, threads, commands and *)
(* messages on their way: with the messages of its threads read, the view  *)
(* of a user agrees with the user's queue.                                 *)
(***************************************************************************)
EXTENDS AppAggregator, Downloader_proofs

Kinds == {"Offline", "OfflineError", "InProgress", "InvalidFile", "Completed"}

UpdateType ==
  [kind : Kinds, user : Users, active : Paths \cup {None}, queue : Seq(Paths)]

\* A SingleDownloadState.
Entry ==
  [active : Paths \cup {None}, queue : Seq(Paths), online : BOOLEAN, error : BOOLEAN]

-----------------------------------------------------------------------------
(* What the app loop makes of the messages that it is going to read.       *)

\* Entry e of u once message m has been read.
Reading(u, e, m) ==
  IF m.user = u THEN Shown(IF e = None THEN DefaultState ELSE e, m) ELSE e

\* f goes through the entries of u that begin with d, as the messages of s are read.
Reads(s, d, u, f) ==
  /\ f \in [0 .. Len(s) -> Entry \cup {None}]
  /\ f[0] = d
  /\ \A i \in 1 .. Len(s) : f[i] = Reading(u, f[i - 1], s[i])

\* Behind the first i messages there is none of u.
Quiet(s, u, i) == \A j \in i + 1 .. Len(s) : s[j].user # u

\* What entry e shows is in q.
Within(e, q) ==
  e # None =>
    /\ e.active # None => InSeq(e.active, q)
    /\ \A k \in DOMAIN e.queue : InSeq(e.queue[k], q)

\* No entry on the way has the user online with an error; an error at the end means that
\* the user's thread is about to start run; and when the messages of u are read, what is
\* shown is in q, unless the thread is leaving.
Foreseen(s, d, u, starting, leaving, q) ==
  \E f :
    /\ Reads(s, d, u, f)
    /\ \A i \in 0 .. Len(s) : f[i] # None /\ f[i].online => ~ f[i].error
    /\ f[Len(s)] # None /\ f[Len(s)].error => starting # {}
    /\ leaving = {} => \A i \in 0 .. Len(s) : Quiet(s, u, i) => Within(f[i], q)

\* All of q is in r.
Covers(r, q) == \A p : InSeq(p, q) => InSeq(p, r)

\* What each arm of app_loop does to an entry.
LEMMA ShownOf ==
  ASSUME NEW e \in Entry, NEW m \in UpdateType
  PROVE  /\ Shown(e, m) \in Entry
         /\ m.kind = "Offline" => /\ ~ Shown(e, m).online /\ ~ Shown(e, m).error
                                  /\ Shown(e, m).active = e.active /\ Shown(e, m).queue = m.queue
         /\ m.kind = "OfflineError" => /\ ~ Shown(e, m).online /\ Shown(e, m).error
                                       /\ Shown(e, m).active = e.active
                                       /\ Shown(e, m).queue = e.queue
         /\ m.kind \notin {"Offline", "OfflineError"} =>
              /\ Shown(e, m).online /\ Shown(e, m).error = e.error
              /\ Shown(e, m).active = m.active /\ Shown(e, m).queue = m.queue
<1>1. /\ e.active \in Paths \cup {None} /\ e.queue \in Seq(Paths) /\ e.error \in BOOLEAN
      /\ m.active \in Paths \cup {None} /\ m.queue \in Seq(Paths)
  BY DEF Entry, UpdateType
<1>2. CASE m.kind = "Offline"
  BY <1>1, <1>2 DEF Shown, Entry
<1>3. CASE m.kind = "OfflineError"
  BY <1>1, <1>3 DEF Shown, Entry
<1>4. CASE m.kind \notin {"Offline", "OfflineError"}
  BY <1>1, <1>4 DEF Shown, Entry
<1> QED
  BY <1>2, <1>3, <1>4

LEMMA DefaultOf ==
  /\ DefaultState \in Entry /\ ~ DefaultState.error
  /\ DefaultState.active = None /\ DefaultState.queue = <<>>
BY DEF DefaultState, Entry

\* A message more: the entries up to it stay.
LEMMA ReadsOneMore ==
  ASSUME NEW s \in Seq(UpdateType), NEW d, NEW u, NEW f, Reads(s, d, u, f), NEW m \in UpdateType
  PROVE  \E g : /\ Reads(Append(s, m), d, u, g)
                /\ g[Len(s) + 1] = Reading(u, f[Len(s)], m)
                /\ \A i \in 0 .. Len(s) : g[i] = f[i]
<1> DEFINE n == Len(s)
           e == Reading(u, f[n], m)
           g == [i \in 0 .. n + 1 |-> IF i = n + 1 THEN e ELSE f[i]]
<1>1. /\ n \in Nat /\ Len(Append(s, m)) = n + 1
      /\ Append(s, m)[n + 1] = m /\ \A i \in 1 .. n : Append(s, m)[i] = s[i]
  OBVIOUS
<1>2. f \in [0 .. n -> Entry \cup {None}] /\ f[0] = d
      /\ \A i \in 1 .. n : f[i] = Reading(u, f[i - 1], s[i])
  BY DEF Reads
<1>3. e \in Entry \cup {None}
  BY <1>1, <1>2, ShownOf, DefaultOf DEF Reading
<1>10. e = Reading(u, f[n], m)
  OBVIOUS
<1> HIDE DEF e, n
<1>4. g[n + 1] = e /\ \A i \in 0 .. n : g[i] = f[i]
  BY <1>1
<1>5. g \in [0 .. n + 1 -> Entry \cup {None}]
  BY <1>1, <1>2, <1>3
<1>6. ASSUME NEW i \in 1 .. n + 1
      PROVE  g[i] = Reading(u, g[i - 1], Append(s, m)[i])
  <2>1. CASE i = n + 1
    <3>1. n + 1 - 1 = n /\ n \in 0 .. n
      BY <1>1
    <3> HIDE DEF g
    <3> QED
      BY <1>1, <1>4, <1>10, <2>1, <3>1
  <2>2. CASE i # n + 1
    <3>1. i \in 1 .. n /\ i \in 0 .. n /\ i - 1 \in 0 .. n
      BY <1>1, <2>2
    <3> HIDE DEF g
    <3> QED
      BY <1>1, <1>2, <1>4, <3>1
  <2> QED
    BY <2>1, <2>2
<1>7. g[0] = d
  BY <1>1, <1>2, <1>4
<1>8. Reads(Append(s, m), d, u, g)
  <2> HIDE DEF g
  <2> QED
    BY <1>1, <1>5, <1>6, <1>7 DEF Reads
<1> HIDE DEF g
<1> QED
  BY <1>4, <1>8, <1>10 DEF n

LEMMA CoversOf ==
  ASSUME NEW r, NEW q, Covers(r, q)
  PROVE  \A k \in DOMAIN q : InSeq(q[k], r)
BY DEF Covers, InSeq

\* Foreseen for more: the thread may start, the queue may grow.
LEMMA ForeseenStill ==
  ASSUME NEW s, NEW d, NEW u, NEW st, NEW lv, NEW q, Foreseen(s, d, u, st, lv, q),
         NEW st2, NEW lv2, NEW q2, st # {} => st2 # {}, lv2 # {} \/ (lv = {} /\ Covers(q2, q))
  PROVE  Foreseen(s, d, u, st2, lv2, q2)
<1>1. PICK f : /\ Reads(s, d, u, f)
               /\ \A i \in 0 .. Len(s) : f[i] # None /\ f[i].online => ~ f[i].error
               /\ f[Len(s)] # None /\ f[Len(s)].error => st # {}
               /\ lv = {} => \A i \in 0 .. Len(s) : Quiet(s, u, i) => Within(f[i], q)
  BY DEF Foreseen
<1>2. ASSUME lv2 = {}, NEW i \in 0 .. Len(s), Quiet(s, u, i)
      PROVE  Within(f[i], q2)
  BY <1>1, <1>2 DEF Within, Covers
<1> QED
  BY <1>1, <1>2 DEF Foreseen

\* A message more.  It is of another user; or it tells that the thread is offline, or
\* offline with an error; or it comes from a thread that has begun run without an error.
\* What it has in its queue, and as active, is in the queue, unless the thread is leaving.
LEMMA ForeseenOneMore ==
  ASSUME NEW s \in Seq(UpdateType), NEW d, NEW u, NEW st, NEW lv,
         NEW q,
         Foreseen(s, d, u, st, lv, q), NEW m \in UpdateType,
         NEW st2, NEW lv2, NEW q2,
         \/ lv2 # {} \/ (lv = {} /\ Covers(q2, q))
         \/ (m.user = u /\ m.kind \notin {"Offline", "OfflineError"}),
         m.user # u => (st # {} => st2 # {}),
         m.user = u /\ m.kind = "OfflineError" => st2 # {},
         m.user = u /\ m.kind \notin {"Offline", "OfflineError"} => st = {},
         m.user = u /\ m.kind = "Offline" /\ lv2 = {} => Covers(q2, m.queue),
         m.user = u /\ m.kind \notin {"Offline", "OfflineError"} /\ lv2 = {} =>
            /\ Covers(q2, m.queue)
            /\ m.active # None => InSeq(m.active, q2)
  PROVE  Foreseen(Append(s, m), d, u, st2, lv2, q2)
<1> DEFINE n == Len(s)
<1>1. PICK f : /\ Reads(s, d, u, f)
               /\ \A i \in 0 .. n : f[i] # None /\ f[i].online => ~ f[i].error
               /\ f[n] # None /\ f[n].error => st # {}
               /\ lv = {} => \A i \in 0 .. n : Quiet(s, u, i) => Within(f[i], q)
  BY DEF Foreseen
<1> DEFINE e == Reading(u, f[n], m)
           b == IF f[n] = None THEN DefaultState ELSE f[n]
<1>2. PICK g : /\ Reads(Append(s, m), d, u, g)
               /\ g[n + 1] = e /\ \A i \in 0 .. n : g[i] = f[i]
  BY <1>1, ReadsOneMore
<1>3. /\ n \in Nat /\ Len(Append(s, m)) = n + 1 /\ n \in 0 .. n
      /\ Append(s, m)[n + 1] = m /\ \A i \in 1 .. n : Append(s, m)[i] = s[i]
  OBVIOUS
<1>4. f[n] \in Entry \cup {None} /\ b \in Entry
  BY <1>1, <1>3, DefaultOf DEF Reads
<1>5. /\ m.user # u => e = f[n]
      /\ m.user = u => e = Shown(b, m)
  BY DEF Reading
<1>6. b.error => st # {}
  BY <1>1, DefaultOf
<1>7. Quiet(s, u, n)
  BY <1>3 DEF Quiet
<1> HIDE DEF n, e, b
<1>8. e # None /\ e.online => ~ e.error
  BY <1>1, <1>3, <1>4, <1>5, <1>6, ShownOf
<1>9. e # None /\ e.error => st2 # {}
  BY <1>1, <1>3, <1>4, <1>5, <1>6, ShownOf
<1>10. lv2 = {} => Within(e, q2)
  <2> SUFFICES ASSUME lv2 = {} PROVE Within(e, q2)
    OBVIOUS
  <2>1. CASE m.user # u
    BY <1>1, <1>3, <1>5, <1>7, <2>1 DEF Within, Covers
  <2>2. CASE m.user = u /\ m.kind \notin {"Offline", "OfflineError"}
    <3>1. e.active = m.active /\ e.queue = m.queue
      BY <1>4, <1>5, <2>2, ShownOf
    <3>2. \A k \in DOMAIN m.queue : InSeq(m.queue[k], q2)
      BY <2>2, CoversOf
    <3> QED
      BY <2>2, <3>1, <3>2 DEF Within
  <2>3. CASE m.user = u /\ m.kind \in {"Offline", "OfflineError"}
    <3>1. Within(f[n], q) /\ Covers(q2, q)
      BY <1>1, <1>3, <1>7, <2>3
    <3>2. /\ b.active # None => InSeq(b.active, q2)
          /\ \A k \in DOMAIN b.queue : InSeq(b.queue[k], q2)
      BY <1>4, <3>1, DefaultOf DEF Within, Covers, b
    <3>3. CASE m.kind = "Offline"
      <4>1. e.active = b.active /\ e.queue = m.queue
        BY <1>4, <1>5, <2>3, <3>3, ShownOf
      <4>2. \A k \in DOMAIN m.queue : InSeq(m.queue[k], q2)
        BY <2>3, <3>3, CoversOf
      <4> QED
        BY <3>2, <4>1, <4>2 DEF Within
    <3>4. CASE m.kind = "OfflineError"
      <4>1. e.active = b.active /\ e.queue = b.queue
        BY <1>4, <1>5, <2>3, <3>4, ShownOf
      <4> QED
        BY <3>2, <4>1 DEF Within
    <3> QED
      BY <2>3, <3>3, <3>4
  <2> QED
    BY <2>1, <2>2, <2>3
<1>11. ASSUME lv2 = {}, NEW i \in 0 .. n, Quiet(Append(s, m), u, i)
       PROVE  Within(g[i], q2)
  <2>1. m.user # u
    BY <1>3, <1>11 DEF Quiet
  <2>2. \A j \in i + 1 .. n : Append(s, m)[j].user # u
    BY <1>3, <1>11 DEF Quiet
  <2>3. Quiet(s, u, i)
    BY <1>3, <2>2 DEF Quiet, n
  <2> QED
    BY <1>1, <1>2, <1>11, <2>1, <2>3 DEF Within, Covers
<1>12. \A i \in 0 .. n + 1 : i \in 0 .. n \/ i = n + 1
  BY <1>3
<1> QED
  BY <1>1, <1>2, <1>3, <1>8, <1>9, <1>10, <1>11, <1>12 DEF Foreseen

\* The app loop reads a message: what was the second entry is the first.
LEMMA ForeseenRead ==
  ASSUME NEW s \in Seq(UpdateType), s # <<>>, NEW d, NEW u, NEW st, NEW lv, NEW q,
         Foreseen(s, d, u, st, lv, q)
  PROVE  Foreseen(Tail(s), Reading(u, d, Head(s)), u, st, lv, q)
<1> DEFINE n == Len(s)
<1>1. PICK f : /\ Reads(s, d, u, f)
               /\ \A i \in 0 .. n : f[i] # None /\ f[i].online => ~ f[i].error
               /\ f[n] # None /\ f[n].error => st # {}
               /\ lv = {} => \A i \in 0 .. n : Quiet(s, u, i) => Within(f[i], q)
  BY DEF Foreseen
<1> DEFINE g == [i \in 0 .. n - 1 |-> f[i + 1]]
<1>2. /\ n \in Nat /\ n >= 1 /\ Len(Tail(s)) = n - 1 /\ Head(s) = s[1]
      /\ \A i \in 1 .. n - 1 : Tail(s)[i] = s[i + 1]
  OBVIOUS
<1>3. f \in [0 .. n -> Entry \cup {None}] /\ f[0] = d
      /\ \A i \in 1 .. n : f[i] = Reading(u, f[i - 1], s[i])
  BY <1>1 DEF Reads
<1> HIDE DEF n
<1>4. \A i \in 0 .. n - 1 : i + 1 \in 0 .. n /\ i + 1 \in 1 .. n /\ g[i] = f[i + 1]
  BY <1>2
<1>5. g \in [0 .. n - 1 -> Entry \cup {None}]
  BY <1>3, <1>4
<1>6. g[0] = Reading(u, d, Head(s))
  <2>1. g[0] = f[1] /\ 1 \in 1 .. n /\ f[1] = Reading(u, f[1 - 1], s[1])
    BY <1>2, <1>3, <1>4
  <2>2. 1 - 1 = 0
    OBVIOUS
  <2> QED
    BY <1>2, <1>3, <2>1, <2>2
<1> HIDE DEF g
<1>7. ASSUME NEW i \in 1 .. n - 1
      PROVE  g[i] = Reading(u, g[i - 1], Tail(s)[i])
  <2>1. /\ i \in 0 .. n - 1 /\ i - 1 \in 0 .. n - 1 /\ i + 1 \in 1 .. n
        /\ i + 1 - 1 = i /\ i - 1 + 1 = i
    BY <1>2
  <2> QED
    BY <1>2, <1>3, <1>4, <2>1
<1>8. ASSUME NEW i \in 0 .. n - 1, Quiet(Tail(s), u, i)
      PROVE  Quiet(s, u, i + 1)
  <2>1. ASSUME NEW j \in i + 2 .. n PROVE s[j].user # u
    <3>1. j - 1 \in i + 1 .. n - 1 /\ j - 1 \in 1 .. n - 1 /\ j - 1 + 1 = j
      BY <1>2
    <3> QED
      BY <1>2, <1>8, <3>1 DEF Quiet
  <2> QED
    BY <1>2, <2>1 DEF Quiet, n
<1>9. Reads(Tail(s), Reading(u, d, Head(s)), u, g)
  BY <1>2, <1>5, <1>6, <1>7 DEF Reads
<1>10. n - 1 \in 0 .. n - 1 /\ n - 1 + 1 = n
  BY <1>2
<1> QED
  BY <1>1, <1>2, <1>4, <1>8, <1>9, <1>10 DEF Foreseen

-----------------------------------------------------------------------------
(* What is active is in the queue file, from SelectItem on until it is     *)
(* finished or cancelled, over errors that start run again, unless it was  *)
(* a write of that file that failed.                                       *)

ActiveQueued ==
  \A t \in Thread : active_download_path[t] # None =>
    /\ Alive(t)
    /\ t[1] \in OneVoice => InSeq(active_download_path[t], queue_file[t[1]])

\* A step of t in which no write of its queue fails.
Unfailing(t) ==
  \/ StartRun(t) \/ ReadReceiver(t) \/ OuterLoop(t) \/ Connect(t)
  \/ SetEverythingFile(t) \/ LookupEverythingFile(t) \/ SelectItem(t) \/ Transfer(t)
  \/ InnerLoop(t)

\* After a write that fails run begins again.
LEMMA FailingFacts ==
  ASSUME TypeOK, NEW t \in Thread, QueueWriteFails(t)
  PROVE  pc[t] \in {"poll_rx", "select", "transfer"} /\ pc'[t] = "init"
<1>1. Goto(t, "init") /\ pc[t] \in {"poll_rx", "select", "transfer"}
  BY QueueWriteFailsFacts
<1> QED
  BY <1>1 DEF Goto, TypeOK

\* A thread ends by returning, and by nothing else.
LEMMA OnlyExitEnds ==
  ASSUME TypeOK, NEW t \in Thread, ThreadNext(t), pc'[t] = "dead"
  PROVE  Exit(t)
<1>1. ASSUME NEW label, Goto(t, label)
      PROVE  pc'[t] = label
  BY <1>1 DEF Goto, TypeOK
<1>2. ASSUME NEW label, Poll(t, label)
      PROVE  pc'[t] = "poll_rev"
  BY <1>1, <1>2 DEF Poll
<1>3. ret[t] \in Returns
  BY DEF TypeOK
<1>4. CASE ReadReceiver(t)
  BY <1>1, <1>3, <1>4 DEF ReadReceiver, PollRev, PollRxEmpty, OnNewDownload, OnCancelDownload,
     OnCancelAll, OnRemoveUser, OnPause, OnResume, OnNewSharedUser, OnRestartConnection,
     OnNewConfig, Receive, Returns
<1>5. CASE StartRun(t) \/ OuterLoop(t) \/ Connect(t) \/ SetEverythingFile(t)
           \/ LookupEverythingFile(t) \/ InnerLoop(t)
  BY <1>1, <1>2, <1>5 DEF StartRun, OuterLoop, Connect, SetEverythingFile, LookupEverythingFile,
     InnerLoop, FailRun
<1>6. CASE SelectItem(t) \/ Transfer(t)
  BY <1>1, <1>2, <1>6 DEF SelectItem, Transfer, TransferStep, AfterTransferPoll, TransferDone,
     TransferError, FailRun, pcVars
<1> QED
  BY <1>4, <1>5, <1>6, FailingFacts DEF ThreadNext

\* A step of t: its queue is in the file, and so is what is active.
LEMMA ThreadActive ==
  ASSUME IInv, DiskInv, ActiveQueued, NEW t \in Thread, Unfailing(t), t[1] \in OneVoice
  PROVE  /\ active_download_path'[t] # None =>
              Alive(t)' /\ InSeq(active_download_path'[t], queue_file'[t[1]])
         /\ pc[t] # "init" /\ pc'[t] # "dead" => queue_file'[t[1]] = download_queue'[t]
         /\ pc'[t] = "dead" => download_queue'[t] = <<>>
<1>0. /\ TypeOK /\ t[1] \in Users /\ Alive(t) /\ pc'[t] # "unborn"
      /\ pc[t] # "init" => queue_file[t[1]] = download_queue[t]
      /\ active_download_path[t] # None => InSeq(active_download_path[t], queue_file[t[1]])
      /\ download_queue[t] \in Seq(Paths)
  <2>1. TypeOK /\ t[1] \in Users /\ t[1] \notin overlapped /\ ThreadNext(t)
    BY DEF IInv, Thread, OneVoice, Unfailing, ThreadNext
  <2> QED
    BY <2>1, ThreadWrites, ThreadFrameOf DEF DiskInv, QueueOnDisk, ActiveQueued, TypeOK
<1> USE DEF Alive
<1>1. CASE StartRun(t)
  BY <1>0, <1>1 DEF StartRun, Poll, Goto, TypeOK
<1>2. CASE Exit(t)
  BY <1>0, <1>2 DEF Exit, Goto, TypeOK
<1>3. CASE UNCHANGED <<queue_file, download_queue, active_download_path>> /\ pc[t] # "init"
           /\ pc'[t] # "dead"
  BY <1>0, <1>3
<1>4. ASSUME NEW q, SetQueue(t, q)
      PROVE  queue_file'[t[1]] = q /\ download_queue'[t] = q
  BY <1>0, <1>4 DEF SetQueue, TypeOK
<1>5. ASSUME NEW type, Receive(t, type)
      PROVE  pc[t] = "poll_rx" /\ pc'[t] = "poll_rev" /\ receiver[t] # <<>>
             /\ Head(receiver[t]).type = type
  BY <1>0, <1>5 DEF Receive, Goto, TypeOK
<1>6. CASE OnNewDownload(t)
  <2>1. InSeq(active_download_path[t], download_queue[t]) =>
          InSeq(active_download_path[t], Append(download_queue[t], Head(receiver[t]).path))
    BY <1>0, AppendKeeps
  <2> QED
    BY <1>0, <1>4, <1>5, <1>6, <2>1 DEF OnNewDownload
<1>7. CASE OnCancelDownload(t)
  <2> DEFINE p == Head(receiver[t]).path
  <2>1. active_download_path'[t] # None =>
          active_download_path'[t] = active_download_path[t] /\ active_download_path[t] # p
    BY <1>0, <1>7 DEF OnCancelDownload, TypeOK
  <2>2. active_download_path'[t] # None =>
          InSeq(active_download_path[t], Retain(download_queue[t], p))
    BY <1>0, <1>5, <1>7, <2>1, RetainKeeps DEF OnCancelDownload
  <2> QED
    BY <1>0, <1>4, <1>5, <1>7, <2>1, <2>2 DEF OnCancelDownload
<1>8. CASE OnCancelAll(t) \/ OnRemoveUser(t)
  <2>1. active_download_path'[t] = None
    BY <1>0, <1>8 DEF OnCancelAll, OnRemoveUser, TypeOK
  <2> QED
    BY <1>0, <1>4, <1>5, <1>8, <2>1 DEF OnCancelAll, OnRemoveUser
<1>9. CASE OnPause(t) \/ OnResume(t) \/ OnNewSharedUser(t) \/ OnRestartConnection(t)
           \/ OnNewConfig(t)
  BY <1>3, <1>5, <1>9 DEF OnPause, OnResume, OnNewSharedUser, OnRestartConnection, OnNewConfig
<1>10. CASE PollRev(t)
  BY <1>0, <1>2, <1>3, <1>10 DEF PollRev, Goto, localVars, TypeOK
<1>11. CASE PollRxEmpty(t)
  <2>1. ret[t] \in Returns
    BY <1>0 DEF TypeOK
  <2> QED
    BY <1>0, <1>2, <1>3, <1>11, <2>1 DEF PollRxEmpty, Goto, localVars, TypeOK, Returns
<1>12. CASE OuterLoop(t)
  BY <1>0, <1>2, <1>3, <1>12 DEF OuterLoop, RunFrame, Poll, Goto, TypeOK
<1>13. CASE Connect(t) \/ SetEverythingFile(t) \/ LookupEverythingFile(t) \/ InnerLoop(t)
  BY <1>0, <1>3, <1>13 DEF Connect, SetEverythingFile, LookupEverythingFile, InnerLoop, RunFrame,
     FailRun, Poll, Goto, TypeOK
<1>14. ASSUME FinishActive(t)
       PROVE  active_download_path'[t] = None /\ queue_file'[t[1]] = download_queue'[t]
  BY <1>0, <1>4, <1>14 DEF FinishActive, TypeOK
<1>15. CASE SelectItem(t)
  <2>1. pc[t] = "select" /\ pc'[t] # "dead"
    BY <1>0, <1>15 DEF SelectItem, Poll, Goto, TypeOK, pcVars
  <2>2. CASE /\ download_queue[t] # <<>>
             /\ active_download_path' =
                  [active_download_path EXCEPT ![t] = Head(download_queue[t])]
             /\ UNCHANGED <<download_queue, queue_file>>
    <3>1. active_download_path'[t] = Head(download_queue[t])
      BY <1>0, <2>2 DEF TypeOK
    <3>2. InSeq(Head(download_queue[t]), download_queue[t])
      <4>1. 1 \in DOMAIN download_queue[t] /\ download_queue[t][1] = Head(download_queue[t])
        BY <1>0, <2>2
      <4> QED
        BY <4>1 DEF InSeq
    <3> QED
      BY <1>0, <2>1, <2>2, <3>1, <3>2
  <2> QED
    BY <1>0, <1>3, <1>14, <1>15, <2>1, <2>2 DEF SelectItem
<1>16. CASE TransferStep(t) \/ AfterTransferPoll(t)
  BY <1>0, <1>3, <1>16 DEF TransferStep, AfterTransferPoll, RunFrame, Poll, Goto, TypeOK
<1>17. CASE TransferDone(t) \/ TransferError(t)
  <2>1. pc[t] = "transfer" /\ pc'[t] # "dead"
    BY <1>0, <1>17 DEF TransferDone, TransferError, FailRun, Poll, Goto, TypeOK
  <2> QED
    BY <1>0, <1>3, <1>14, <1>17, <2>1 DEF TransferDone, TransferError
<1> QED
  BY <1>1, <1>2, <1>6, <1>7, <1>8, <1>9, <1>10, <1>11, <1>12, <1>13, <1>15, <1>16, <1>17
     DEF Unfailing, ReadReceiver, Transfer

\* A thread that reports as it should has not failed to write its queue.
LEMMA ReportsOf ==
  ASSUME NEW t \in Thread, ThreadReports(t)
  PROVE  ThreadNext(t) /\ (Unfailing(t) \/ t[1] \in unheard')
<1>1. CASE ReadAndReport(t) \/ ConnectAndReport(t) \/ SelectAndReport(t) \/ TransferAndReport(t)
  BY <1>1 DEF ReadAndReport, ConnectAndReport, SelectAndReport, TransferAndReport, Transfer,
     Unfailing, ThreadNext
<1>2. CASE WriteUnreported(t)
  BY <1>2 DEF WriteUnreported, ThreadNext
<1> QED
  BY <1>1, <1>2 DEF ThreadReports, Unfailing, ThreadNext

LEMMA ThreadKeepsActive ==
  ASSUME IInv, DiskInv, ActiveQueued, NEW t \in Thread, ThreadReports(t), unheard \subseteq unheard'
  PROVE  ActiveQueued'
<1>0. TypeOK /\ ThreadNext(t) /\ (Unfailing(t) \/ t[1] \in unheard')
  BY ReportsOf DEF IInv
<1>1. /\ overlapped' = overlapped /\ Alive(t)
      /\ \A u \in Users \ {t[1]} : queue_file'[u] = queue_file[u]
  BY <1>0, ThreadWrites
<1>5. OneVoice' \subseteq OneVoice
  BY <1>1 DEF OneVoice
<1>2. \A o \in Thread \ {t} : /\ Alive(o)' <=> Alive(o)
                              /\ active_download_path'[o] = active_download_path[o]
  BY <1>0, ThreadIsLocal DEF Own, Alive
<1>3. ASSUME NEW o \in Thread, o # t, active_download_path'[o] # None
      PROVE  /\ Alive(o)'
             /\ o[1] \in OneVoice' => InSeq(active_download_path'[o], queue_file'[o[1]])
  <2>1. Alive(o) /\ Alive(o)' /\ active_download_path'[o] = active_download_path[o]
        /\ (o[1] \in OneVoice => InSeq(active_download_path[o], queue_file[o[1]]))
    BY <1>2, <1>3 DEF ActiveQueued
  <2>2. o[1] \in OneVoice => o[1] # t[1]
    BY <1>1, <1>3, <2>1 DEF DiskInv, OneAlive, OneVoice
  <2>3. o[1] \in Users
    BY DEF Thread
  <2> QED
    BY <1>1, <1>5, <2>1, <2>2, <2>3
<1>4. ASSUME active_download_path'[t] # None
      PROVE  Alive(t)'
  <2>1. CASE pc'[t] = "dead"
    <3>1. Exit(t)
      BY <1>0, <2>1, OnlyExitEnds
    <3> QED
      BY <1>0, <1>4, <3>1 DEF Exit, TypeOK
  <2>2. CASE pc'[t] # "dead"
    BY <1>0, <2>2, ThreadFrameOf DEF Alive
  <2> QED
    BY <2>1, <2>2
<1>6. ASSUME active_download_path'[t] # None, t[1] \in OneVoice'
      PROVE  InSeq(active_download_path'[t], queue_file'[t[1]])
  <2>1. t[1] \in OneVoice /\ Unfailing(t)
    BY <1>0, <1>5, <1>6 DEF OneVoice
  <2> QED
    BY <1>6, <2>1, ThreadActive
<1> QED
  BY <1>3, <1>4, <1>6 DEF ActiveQueued

\* The calls that leave the process running.
ManagerCall ==
  \/ \E u \in Users, p \in Paths : download_selected(u, p) \/ downloads_cancel_single(u, p)
  \/ downloads_cancel_all \/ downloads_pause_all \/ downloads_resume_all
  \/ \E u \in Users, id \in Ids : add_new_user(u, id) \/ update_user(u, id)
  \/ \E u \in Users : remove_user(u) \/ download_refused(u)
  \/ create_new_id \/ set_path_downloads_dir
  \/ \E b \in BOOLEAN : set_ignore_incoming(b)
  \/ \E u \in Users : RefreshArrives(u)

\* The calls of the manager start threads, and leave one that runs alone, and its queue
\* file, as they are.
LEMMA ManagerStep ==
  ASSUME TypeOK, ManagerCall \/ MgrTodo \/ ConnNext
  PROVE  /\ UNCHANGED <<active_download_path, shutdown>>
         /\ overlapped \subseteq overlapped'
         /\ \A t \in Thread : /\ pc'[t] = pc[t] \/ pc'[t] = "init"
                              /\ Alive(t) /\ t[1] \notin overlapped' =>
                                   queue_file'[t[1]] = queue_file[t[1]]
<1> DEFINE Same == UNCHANGED <<active_download_path, shutdown, overlapped, queue_file, pc>>
           Goal == /\ UNCHANGED <<active_download_path, shutdown>>
                   /\ overlapped \subseteq overlapped'
                   /\ \A t \in Thread : /\ pc'[t] = pc[t] \/ pc'[t] = "init"
                                        /\ Alive(t) /\ t[1] \notin overlapped' =>
                                             queue_file'[t[1]] = queue_file[t[1]]
<1> USE DEF threadUnchanged, SendOnlyUnchanged, pcVars, localVars
<1>0. ASSUME NEW t \in Thread, Alive(t)
      PROVE  \E m \in 1 .. MaxThreads : Alive(<<t[1], m>>)
  <2>1. t = <<t[1], t[2]>> /\ t[2] \in 1 .. MaxThreads
    BY DEF Thread
  <2> QED
    BY <1>0, <2>1
<1>1. Same => Goal
  OBVIOUS
<1>2. ASSUME NEW u \in Users, NEW conn,
             Spawn(u, conn, config, is_downloading_paused), SpawnUnchanged
      PROVE  /\ UNCHANGED <<active_download_path, shutdown>>
             /\ overlapped \subseteq overlapped'
             /\ \A t \in Thread : /\ pc'[t] = pc[t] \/ pc'[t] = "init"
                                  /\ Alive(t) /\ t[1] = u => u \in overlapped'
  <2>1. /\ UNCHANGED <<active_download_path, shutdown>>
        /\ overlapped \subseteq overlapped'
        /\ (\E m \in 1 .. MaxThreads : Alive(<<u, m>>)) => u \in overlapped'
        /\ \A t \in Thread : pc'[t] = pc[t] \/ pc'[t] = "init"
    BY <1>2 DEF Spawn, SpawnUnchanged, TypeOK
  <2> QED
    BY <1>0, <2>1
<1>3. ASSUME NEW u \in Users, NEW p \in Paths, download_selected(u, p)
      PROVE  Goal
  <2>1. CASE Reachable(u)
    BY <1>1, <1>3, <2>1 DEF download_selected
  <2>2. CASE ~ Reachable(u)
    <3>1. /\ Spawn(u, None, config, is_downloading_paused) /\ SpawnUnchanged
          /\ \E items : queue_file' = [queue_file EXCEPT ![u] = items]
      BY <1>3, <2>2 DEF download_selected
    <3>2. \A v \in Users \ {u} : queue_file'[v] = queue_file[v]
      BY <3>1 DEF TypeOK
    <3>3. \A t \in Thread : t[1] \in Users
      BY DEF Thread
    <3> QED
      BY <1>2, <3>1, <3>2, <3>3
  <2> QED
    BY <2>1, <2>2
<1>4. ASSUME NEW u \in Users, NEW conn \in Conn, ReverseConnection(u, conn)
      PROVE  Goal
  <2>1. CASE Same
    BY <1>1, <2>1
  <2>2. CASE Spawn(u, conn, config, is_downloading_paused) /\ SpawnUnchanged
    BY <1>2, <1>4, <2>2 DEF ReverseConnection, SpawnUnchanged
  <2> QED
    BY <1>4, <2>1, <2>2 DEF ReverseConnection
<1>5. CASE \/ \E u \in Users, p \in Paths : downloads_cancel_single(u, p)
           \/ downloads_cancel_all \/ downloads_pause_all \/ downloads_resume_all
           \/ \E u \in Users : RefreshArrives(u)
  <2>1. Same
    BY <1>5 DEF downloads_cancel_single, downloads_cancel_all, downloads_pause_all,
       downloads_resume_all, RefreshArrives, ghostVars
  <2> QED
    BY <1>1, <2>1
<1>6. CASE \/ \E u \in Users, id \in Ids : add_new_user(u, id) \/ update_user(u, id)
           \/ \E u \in Users : remove_user(u)
           \/ create_new_id \/ set_path_downloads_dir
           \/ \E b \in BOOLEAN : set_ignore_incoming(b)
  <2>1. Same
    BY <1>6 DEF add_new_user, update_user, remove_user, create_new_id, set_path_downloads_dir,
       set_ignore_incoming, Reconfigure
  <2> QED
    BY <1>1, <2>1
<1>7. CASE MgrTodo
  <2>1. Same
    BY <1>7 DEF MgrTodo, SendRemoveUser, DropSenders, SendSharedUser, restart_connections
  <2> QED
    BY <1>1, <2>1
<1>8. ASSUME NEW u \in Users, download_refused(u)
      PROVE  Goal
  <2>1. /\ UNCHANGED <<active_download_path, shutdown, pc>>
        /\ overlapped \subseteq overlapped'
        /\ (\E m \in 1 .. MaxThreads : Alive(<<u, m>>)) => u \in overlapped'
    BY <1>8 DEF download_refused
  <2>2. \A v \in Users \ {u} : queue_file'[v] = queue_file[v]
    BY <1>8 DEF download_refused, TypeOK
  <2>3. \A t \in Thread : t[1] \in Users
    BY DEF Thread
  <2> QED
    BY <1>0, <2>1, <2>2, <2>3
<1> HIDE DEF Goal
<1> QED
  BY <1>3, <1>4, <1>5, <1>6, <1>7, <1>8 DEF ManagerCall, ConnNext, Goal

-----------------------------------------------------------------------------
(* What a step of a thread tells the app loop.                             *)

\* Retain (VecDeque::retain) adds nothing.
LEMMA RetainWithin ==
  ASSUME NEW S, NEW s \in Seq(S), NEW x, NEW p, InSeq(p, Retain(s, x))
  PROVE  InSeq(p, s)
<1>1. PICK H : /\ \A i \in 0 .. Len(s) : H[i] \in Seq(S) /\ H[i] = RetainStep(s, x, H, i)
               /\ Retain(s, x) = H[Len(s)]
  BY RetainRun
<1> DEFINE T == {j \in 0 .. Len(s) : InSeq(p, H[j])}
<1>2. Len(s) \in T
  BY <1>1
<1>3. PICK n \in T : \A m \in T : n <= m
  <2> T \in SUBSET Nat
    OBVIOUS
  <2> HIDE DEF T
  <2> QED
    BY <1>2, NatMin
<1>4. n \in 0 .. Len(s) /\ InSeq(p, H[n])
  BY <1>3
<1>5. n # 0
  BY <1>1, <1>4 DEF RetainStep, InSeq
<1>6. n - 1 \in 0 .. Len(s) /\ n - 1 \notin T /\ n \in 1 .. Len(s)
  BY <1>3, <1>4, <1>5
<1>7. ~ InSeq(p, H[n - 1]) /\ H[n - 1] \in Seq(S)
  BY <1>1, <1>6
<1> HIDE DEF T
<1>8. H[n] = Append(H[n - 1], s[n])
  BY <1>1, <1>4, <1>5, <1>7 DEF RetainStep
<1>9. PICK i \in DOMAIN H[n] : H[n][i] = p
  BY <1>4 DEF InSeq
<1>10. (i \in DOMAIN H[n - 1] /\ H[n][i] = H[n - 1][i]) \/ H[n][i] = s[n]
  BY <1>7, <1>8
<1> QED
  BY <1>6, <1>7, <1>9, <1>10 DEF InSeq

LEMMA TailDiffers ==
  ASSUME NEW S, NEW q \in Seq(S), q # <<>>
  PROVE  Tail(q) # q
<1>1. Len(q) \in Nat /\ Len(Tail(q)) = Len(q) - 1
  OBVIOUS
<1>2. Tail(q) = q => Len(Tail(q)) = Len(q)
  BY ZenonT(20)
<1> DEFINE n == Len(q)
           k == Len(Tail(q))
<1>3. n \in Nat /\ k = n - 1
  BY <1>1
<1> HIDE DEF n, k
<1>4. k # n
  BY <1>3
<1> QED
  BY <1>2, <1>4 DEF n, k

LEMMA WithoutActiveOf ==
  ASSUME NEW q \in Seq(Paths), NEW a
  PROVE  WithoutActive(q, a) \in Seq(Paths) /\ Covers(q, WithoutActive(q, a))
BY RetainType, RetainWithin DEF WithoutActive, Covers

Steady == {"InProgress", "InvalidFile", "Completed"}

\* A report has what is active and what waits in the queue it leaves.
LEMMA ReportOf ==
  ASSUME TypeOK', NEW t \in Thread, NEW kind \in Steady
  PROVE  /\ Report(kind, t) \in UpdateType
         /\ Report(kind, t).kind = kind /\ Report(kind, t).user = t[1]
         /\ Report(kind, t).active = active_download_path'[t]
         /\ Covers(download_queue'[t], Report(kind, t).queue)
<1>1. /\ t[1] \in Users /\ active_download_path'[t] \in Paths \cup {None}
      /\ download_queue'[t] \in Seq(Paths)
  BY DEF Thread, TypeOK
<1> QED
  BY <1>1, WithoutActiveOf DEF Report, Update, UpdateType, Steady, Kinds

LEMMA OfflineOf ==
  ASSUME TypeOK', NEW t \in Thread
  PROVE  /\ Offline(t) \in UpdateType /\ Offline(t).kind = "Offline" /\ Offline(t).user = t[1]
         /\ Offline(t).queue = download_queue'[t]
         /\ Update("OfflineError", t, None, <<>>) \in UpdateType
         /\ Update("OfflineError", t, None, <<>>).kind = "OfflineError"
         /\ Update("OfflineError", t, None, <<>>).user = t[1]
<1>1. t[1] \in Users /\ download_queue'[t] \in Seq(Paths) /\ <<>> \in Seq(Paths)
  BY DEF Thread, TypeOK
<1> QED
  BY <1>1 DEF Offline, Update, UpdateType, Kinds

\* The ways in which a step of t changes the channel.  Nothing is sent: then the queue
\* only grows, but for RemoveUser and for a thread that ends without a word.
TellsNothing(t) ==
  /\ app_receiver' = app_receiver
  /\ \/ t[1] \in unheard'
     \/ /\ Alive(t)'
        /\ Covers(queue_file'[t[1]], queue_file[t[1]]) \/ shutdown'[t]

\* The user is offline, and the queue as it is in the file.
TellsOffline(t) ==
  /\ app_receiver' = Append(app_receiver, Offline(t))
  /\ Alive(t)' /\ UNCHANGED queue_file
  /\ download_queue'[t] = queue_file[t[1]]

\* The thread ends run with an ID mismatch.
TellsError(t) ==
  /\ app_receiver' = Append(app_receiver, Update("OfflineError", t, None, <<>>))
  /\ pc'[t] = "init" /\ UNCHANGED queue_file

\* A report or two.
TellsReports(t) ==
  \/ \E k \in Steady : app_receiver' = Append(app_receiver, Report(k, t))
  \/ \E k, l \in Steady :
        app_receiver' = Append(Append(app_receiver, Report(k, t)), Report(l, t))

\* StartRun tells that the user is offline, which takes an old error away; all else
\* that a thread tells comes later.
LEMMA ThreadTells ==
  ASSUME IInv, DiskInv, NEW t \in Thread, ThreadReports(t), t[1] \notin overlapped,
         app_receiver \in Seq(UpdateType), TypeOK'
  PROVE  /\ download_state' = download_state
         /\ unheard \subseteq unheard' /\ unheard' \subseteq unheard \cup {t[1]}
         /\ \/ TellsOffline(t)
            \/ pc[t] # "init" /\ (TellsNothing(t) \/ TellsError(t) \/ TellsReports(t))
<1>0. /\ TypeOK /\ t[1] \in Users /\ Alive(t)
      /\ pc[t] # "init" => queue_file[t[1]] = download_queue[t]
      /\ download_queue[t] \in Seq(Paths) /\ queue_file[t[1]] \in Seq(Paths)
  <2>1. TypeOK /\ t[1] \in Users /\ ThreadNext(t)
    BY ReportsOf DEF IInv, Thread
  <2> QED
    BY <2>1, ThreadWrites DEF DiskInv, QueueOnDisk, TypeOK
<1>1. ASSUME NEW ms, Send(ms)
      PROVE  UNCHANGED <<download_state, unheard>> /\ app_receiver' = app_receiver \o ms
  BY <1>1 DEF Send
<1>2. ASSUME NEW m \in UpdateType
      PROVE  app_receiver \o <<m>> = Append(app_receiver, m)
  BY <1>2
<1>3. ASSUME NEW m \in UpdateType, NEW l \in UpdateType
      PROVE  app_receiver \o <<m, l>> = Append(Append(app_receiver, m), l)
  BY <1>3
<1>4. ASSUME NEW k \in Steady, Send(<<Report(k, t)>>)
      PROVE  UNCHANGED <<download_state, unheard>> /\ TellsReports(t)
  BY <1>1, <1>2, <1>4, ReportOf DEF TellsReports
<1>5. ASSUME Send(<<InProgress(t)>>)
      PROVE  UNCHANGED <<download_state, unheard>> /\ TellsReports(t)
  BY <1>4, <1>5 DEF InProgress, Steady
<1>6. ASSUME Silent
      PROVE  UNCHANGED <<app_receiver, download_state, unheard>>
  BY <1>6 DEF Silent, viewVars
<1>7. Covers(queue_file[t[1]], queue_file[t[1]])
  BY DEF Covers
<1> USE DEF Alive
<1>8. CASE StartRun(t) /\ Send(<<Offline(t)>>)
  <2>1. UNCHANGED <<download_state, unheard>> /\ app_receiver' = Append(app_receiver, Offline(t))
    BY <1>1, <1>2, <1>8, OfflineOf
  <2>2. pc'[t] = "poll_rev" /\ UNCHANGED queue_file /\ download_queue'[t] = queue_file[t[1]]
    BY <1>0, <1>8 DEF StartRun, Poll, Goto, TypeOK
  <2> QED
    BY <2>1, <2>2 DEF TellsOffline
<1>9. CASE ReadAndReport(t)
  <2>1. pc[t] # "init"
    BY <1>9 DEF ReadAndReport, ReadReceiver, PollRev, PollRxEmpty, OnNewDownload,
       OnCancelDownload, OnCancelAll, OnRemoveUser, OnPause, OnResume, OnNewSharedUser,
       OnRestartConnection, OnNewConfig, Receive
  <2>2. CASE Cancels(t)
    BY <1>5, <1>9, <2>1, <2>2 DEF ReadAndReport
  <2>3. CASE ~ Cancels(t)
    <3>1. /\ UNCHANGED <<app_receiver, download_state>>
          /\ unheard' = IF Alive(t)' THEN unheard ELSE unheard \cup {t[1]}
      BY <1>9, <2>3 DEF ReadAndReport
    <3>2. Alive(t)' => Covers(queue_file'[t[1]], queue_file[t[1]]) \/ shutdown'[t]
      <4>1. CASE OnNewDownload(t)
        <5>1. queue_file'[t[1]] = Append(queue_file[t[1]], Head(receiver[t]).path)
          BY <1>0, <2>1, <4>1 DEF OnNewDownload, SetQueue, TypeOK
        <5> QED
          BY <1>0, <5>1, AppendKeeps DEF Covers
      <4>2. CASE OnRemoveUser(t)
        BY <1>0, <4>2 DEF OnRemoveUser, TypeOK
      <4>3. ~ OnCancelDownload(t) /\ ~ OnCancelAll(t)
        BY <2>3 DEF Cancels, OnCancelDownload, OnCancelAll, Receive
      <4>4. CASE UNCHANGED queue_file
        BY <1>7, <4>4
      <4> QED
        BY <1>9, <4>1, <4>2, <4>3, <4>4 DEF ReadAndReport, ReadReceiver, PollRev, PollRxEmpty,
           OnPause, OnResume, OnNewSharedUser, OnRestartConnection, OnNewConfig, Exit
    <3> QED
      BY <2>1, <3>1, <3>2 DEF TellsNothing
  <2> QED
    BY <2>2, <2>3
<1>10. ASSUME Silent, UNCHANGED queue_file, pc[t] # "init", pc'[t] \notin {"dead", "unborn"}
       PROVE  UNCHANGED <<download_state, unheard>> /\ TellsNothing(t)
  BY <1>6, <1>7, <1>10 DEF TellsNothing
<1>11. CASE OuterLoop(t) /\ IF shutdown[t] THEN Send(<<InProgress(t)>>) ELSE Silent
  <2>1. pc[t] # "init"
    BY <1>11 DEF OuterLoop
  <2>2. ~ shutdown[t] => UNCHANGED queue_file /\ pc'[t] \notin {"dead", "unborn"}
    BY <1>0, <1>11 DEF OuterLoop, RunFrame, Poll, Goto, TypeOK
  <2> QED
    BY <1>5, <1>10, <1>11, <2>1, <2>2
<1>12. CASE ConnectAndReport(t)
  <2>1. pc[t] = "connect" /\ UNCHANGED <<queue_file, download_queue>>
        /\ pc'[t] \in {"listing", "poll_rev", "init"}
    BY <1>0, <1>12 DEF ConnectAndReport, Connect, RunFrame, Poll, Goto, TypeOK
  <2>2. CASE Send(<<Offline(t)>>)
    <3>1. UNCHANGED <<download_state, unheard>>
          /\ app_receiver' = Append(app_receiver, Offline(t))
      BY <1>1, <1>2, <2>2, OfflineOf
    <3> QED
      BY <1>0, <2>1, <3>1 DEF TellsOffline
  <2>3. CASE pc'[t] = "init" /\ Send(<<Update("OfflineError", t, None, <<>>)>>)
    <3>1. UNCHANGED <<download_state, unheard>>
          /\ app_receiver' = Append(app_receiver, Update("OfflineError", t, None, <<>>))
      BY <1>1, <1>2, <2>3, OfflineOf
    <3> QED
      BY <2>1, <2>3, <3>1 DEF TellsError
  <2> QED
    BY <1>10, <1>12, <2>1, <2>2, <2>3 DEF ConnectAndReport
<1>13. CASE (SetEverythingFile(t) \/ LookupEverythingFile(t) \/ InnerLoop(t)) /\ Silent
  <2>1. UNCHANGED queue_file /\ pc[t] # "init" /\ pc'[t] \notin {"dead", "unborn"}
    BY <1>0, <1>13 DEF SetEverythingFile, LookupEverythingFile, InnerLoop, RunFrame, FailRun, Poll,
       Goto, TypeOK
  <2> QED
    BY <1>10, <1>13, <2>1
<1>14. CASE SelectAndReport(t)
  <2>1. pc[t] = "select"
    BY <1>14 DEF SelectAndReport, SelectItem
  <2>2. pc'[t] = "poll_rev" => UNCHANGED queue_file
    BY <1>0, <1>14 DEF SelectAndReport, SelectItem, Goto, TypeOK, pcVars
  <2> QED
    BY <1>4, <1>5, <1>10, <1>14, <2>1, <2>2 DEF SelectAndReport, Steady
<1>15. CASE TransferAndReport(t)
  <2>1. CASE /\ TransferStep(t)
             /\ \/ \E kind \in {"InProgress", "InvalidFile"} : Send(<<Report(kind, t)>>)
                \/ Silent
    <3>1. UNCHANGED queue_file /\ pc[t] # "init" /\ pc'[t] \notin {"dead", "unborn"}
      BY <1>0, <2>1 DEF TransferStep, RunFrame, Poll, Goto, TypeOK
    <3>2. Silent \/ \E k \in Steady : Send(<<Report(k, t)>>)
      BY <2>1 DEF Steady
    <3> QED
      BY <1>4, <1>10, <3>1, <3>2
  <2>2. CASE /\ AfterTransferPoll(t)
             /\ IF stop_downloading[t] THEN Send(<<InProgress(t)>>) ELSE Silent
    <3>1. UNCHANGED queue_file /\ pc[t] # "init" /\ pc'[t] \notin {"dead", "unborn"}
      BY <1>0, <2>2 DEF AfterTransferPoll, RunFrame, Poll, Goto, TypeOK
    <3> QED
      BY <1>5, <1>10, <2>2, <3>1
  <2>3. CASE /\ TransferDone(t)
             /\ \E kind \in {"Completed", "InvalidFile"} :
                   Send(<<Report(kind, t), InProgress(t)>>)
    <3>1. PICK k \in Steady : Send(<<Report(k, t), Report("InProgress", t)>>)
      BY <2>3 DEF Steady, InProgress
    <3>2. "InProgress" \in Steady /\ pc[t] # "init"
      BY <2>3 DEF Steady, TransferDone
    <3>3. /\ UNCHANGED <<download_state, unheard>>
          /\ app_receiver' = Append(Append(app_receiver, Report(k, t)), Report("InProgress", t))
      <4>1. Report(k, t) \in UpdateType /\ Report("InProgress", t) \in UpdateType
        BY <3>2, ReportOf
      <4>2. /\ UNCHANGED <<download_state, unheard>>
            /\ app_receiver' = app_receiver \o <<Report(k, t), Report("InProgress", t)>>
        BY <1>1, <3>1
      <4> QED
        BY <1>3, <4>1, <4>2
    <3> QED
      BY <3>2, <3>3 DEF TellsReports
  <2>4. CASE /\ TransferError(t)
             /\ \/ Send(<<Report("InvalidFile", t)>>)
                \/ download_queue'[t] = download_queue[t] /\ Silent
    <3>1. pc[t] = "transfer" /\ pc'[t] = "init"
      BY <1>0, <2>4 DEF TransferError, FailRun, Goto, TypeOK
    <3>2. download_queue[t] # <<>>
      BY <3>1 DEF IInv, TransferOfHead, Transferring
    <3>3. Tail(download_queue[t]) # download_queue[t]
      BY <1>0, <3>2, TailDiffers
    <3>4. FinishActive(t) => download_queue'[t] = Tail(download_queue[t])
      BY <1>0 DEF FinishActive, SetQueue, TypeOK
    <3>5. download_queue'[t] = download_queue[t] => UNCHANGED queue_file
      BY <2>4, <3>3, <3>4 DEF TransferError
    <3> QED
      BY <1>4, <1>10, <2>4, <3>1, <3>5 DEF Steady
  <2> QED
    BY <1>15, <2>1, <2>2, <2>3, <2>4 DEF TransferAndReport
<1>16. CASE WriteUnreported(t)
  <2>1. /\ UNCHANGED <<app_receiver, download_state>> /\ unheard' = unheard \cup {t[1]}
        /\ pc[t] # "init"
    BY <1>0, <1>16, FailingFacts DEF WriteUnreported
  <2> QED
    BY <2>1 DEF TellsNothing
<1> QED
  BY <1>8, <1>9, <1>11, <1>12, <1>13, <1>14, <1>15, <1>16 DEF ThreadReports

\* The messages of a step are of its thread's user, and no other entry is touched.
LEMMA ThreadTellsOwn ==
  ASSUME TypeOK', NEW t \in Thread, ThreadReports(t), app_receiver \in Seq(UpdateType)
  PROVE  /\ ThreadNext(t)
         /\ download_state' = download_state
         /\ unheard \subseteq unheard' /\ unheard' \subseteq unheard \cup {t[1]}
         /\ \/ app_receiver' = app_receiver
            \/ \E m \in UpdateType : m.user = t[1] /\ app_receiver' = Append(app_receiver, m)
            \/ \E m, l \in UpdateType :
                 /\ m.user = t[1] /\ l.user = t[1]
                 /\ app_receiver' = Append(Append(app_receiver, m), l)
<1>1. ASSUME NEW m \in UpdateType, m.user = t[1], Send(<<m>>)
      PROVE  /\ UNCHANGED <<download_state, unheard>>
             /\ \E k \in UpdateType : k.user = t[1] /\ app_receiver' = Append(app_receiver, k)
  <2>1. app_receiver \o <<m>> = Append(app_receiver, m)
    BY <1>1
  <2> QED
    BY <1>1, <2>1 DEF Send
<1>2. ASSUME NEW m \in UpdateType, NEW l \in UpdateType, m.user = t[1], l.user = t[1],
             Send(<<m, l>>)
      PROVE  /\ UNCHANGED <<download_state, unheard>>
             /\ \E k, j \in UpdateType :
                  /\ k.user = t[1] /\ j.user = t[1]
                  /\ app_receiver' = Append(Append(app_receiver, k), j)
  <2>1. app_receiver \o <<m, l>> = Append(Append(app_receiver, m), l)
    BY <1>2
  <2> QED
    BY <1>2, <2>1 DEF Send
<1>3. /\ \A k \in Steady : Report(k, t) \in UpdateType /\ Report(k, t).user = t[1]
      /\ InProgress(t) = Report("InProgress", t)
      /\ {"InProgress", "InvalidFile", "Completed"} \subseteq Steady
  BY ReportOf DEF InProgress, Steady
<1>4. Silent => UNCHANGED <<app_receiver, download_state, unheard>>
  BY DEF Silent, viewVars
<1> DEFINE Told == /\ download_state' = download_state
                   /\ unheard \subseteq unheard' /\ unheard' \subseteq unheard \cup {t[1]}
                   /\ \/ app_receiver' = app_receiver
                      \/ \E m \in UpdateType :
                           m.user = t[1] /\ app_receiver' = Append(app_receiver, m)
                      \/ \E m, l \in UpdateType :
                           /\ m.user = t[1] /\ l.user = t[1]
                           /\ app_receiver' = Append(Append(app_receiver, m), l)
<1>5. ASSUME \/ Silent \/ Send(<<Offline(t)>>) \/ \E k \in Steady : Send(<<Report(k, t)>>)
             \/ Send(<<InProgress(t)>>)
             \/ Send(<<Update("OfflineError", t, None, <<>>)>>)
             \/ \E k \in Steady : Send(<<Report(k, t), InProgress(t)>>)
      PROVE  Told
  <2>1. CASE \E k \in Steady : Send(<<Report(k, t), InProgress(t)>>)
    BY <1>2, <1>3, <2>1
  <2>2. CASE Silent
    BY <1>4, <2>2
  <2>3. CASE \E m \in UpdateType : m.user = t[1] /\ Send(<<m>>)
    BY <1>1, <2>3
  <2> QED
    BY <1>3, <1>5, <2>1, <2>2, <2>3, OfflineOf
<1>6. CASE ReadAndReport(t)
  BY <1>5, <1>6, ReportsOf DEF ReadAndReport
<1>7. CASE (StartRun(t) /\ Send(<<Offline(t)>>))
           \/ (OuterLoop(t) /\ IF shutdown[t] THEN Send(<<InProgress(t)>>) ELSE Silent)
           \/ ConnectAndReport(t)
           \/ ((SetEverythingFile(t) \/ LookupEverythingFile(t) \/ InnerLoop(t)) /\ Silent)
           \/ SelectAndReport(t)
  BY <1>3, <1>5, <1>7, ReportsOf DEF ConnectAndReport, SelectAndReport
<1>8. CASE TransferAndReport(t)
  BY <1>3, <1>5, <1>8, ReportsOf DEF TransferAndReport
<1>9. CASE WriteUnreported(t)
  BY <1>9, ReportsOf DEF WriteUnreported
<1> QED
  BY <1>6, <1>7, <1>8, <1>9, ReportsOf DEF ThreadReports

-----------------------------------------------------------------------------
(* The inductive invariant.                                                *)

ViewTypes ==
  /\ app_receiver \in Seq(UpdateType)
  /\ download_state \in [Users -> Entry \cup {None}]

Starting(u) == {t \in Thread : t[1] = u /\ pc[t] = "init"}
Leaving(u) == {t \in Thread : t[1] = u /\ Alive(t) /\ shutdown[t]}

\* What there is to show of u.  A user without a thread has nothing queued, whatever a
\* request that was refused left in the file.
Backing(u) == IF \E t \in Thread : t[1] = u /\ Alive(t) THEN queue_file[u] ELSE <<>>

\* Of a user with one thread, what the view is going to show agrees with the queue.
Voices ==
  \A u \in OneVoice :
    Foreseen(app_receiver, download_state[u], u, Starting(u), Leaving(u), Backing(u))

\* A thread that has been told to shut down does not come back.
LEMMA ShutdownStays ==
  ASSUME TypeOK, NEW t \in Thread, ThreadNext(t), shutdown[t]
  PROVE  shutdown'[t]
<1>1. CASE ReadReceiver(t)
  <2>1. CASE PollRev(t) \/ PollRxEmpty(t)
    BY <2>1 DEF PollRev, PollRxEmpty, Exit, localVars
  <2>2. CASE OnRemoveUser(t)
    BY <2>2 DEF OnRemoveUser, TypeOK
  <2>3. CASE OnNewDownload(t) \/ OnCancelDownload(t) \/ OnCancelAll(t) \/ OnPause(t)
             \/ OnResume(t) \/ OnNewSharedUser(t) \/ OnRestartConnection(t) \/ OnNewConfig(t)
    BY <2>3 DEF OnNewDownload, OnCancelDownload, OnCancelAll, OnPause, OnResume,
       OnNewSharedUser, OnRestartConnection, OnNewConfig
  <2> QED
    BY <1>1, <2>1, <2>2, <2>3 DEF ReadReceiver
<1>2. CASE StartRun(t) \/ OuterLoop(t) \/ Connect(t) \/ SetEverythingFile(t)
           \/ LookupEverythingFile(t) \/ InnerLoop(t)
  BY <1>2 DEF StartRun, OuterLoop, Connect, SetEverythingFile, LookupEverythingFile, InnerLoop,
     RunFrame, Exit
<1>3. CASE SelectItem(t) \/ Transfer(t)
  BY <1>3 DEF SelectItem, Transfer, TransferStep, AfterTransferPoll, TransferDone, TransferError,
     RunFrame
<1>4. CASE QueueWriteFails(t)
  <2>1. CASE UNCHANGED shutdown
    BY <2>1
  <2>2. CASE shutdown' = [shutdown EXCEPT ![t] = @ \/ Head(receiver[t]).type = "RemoveUser"]
    BY <2>2 DEF TypeOK
  <2> QED
    BY <1>4, <2>1, <2>2, QueueWriteFailsFacts
<1> QED
  BY <1>1, <1>2, <1>3, <1>4 DEF ThreadNext

\* A thread's step, for its own user.
LEMMA ThreadVoice ==
  ASSUME IInv, DiskInv, ActiveQueued, ViewTypes, Voices, TypeOK', DiskInv',
         NEW t \in Thread, ThreadReports(t), t[1] \in OneVoice'
  PROVE  Foreseen(app_receiver', download_state'[t[1]], t[1], Starting(t[1])', Leaving(t[1])',
                  Backing(t[1])')
<1> DEFINE u == t[1]
           d == download_state[u]
           s == app_receiver
           q == Backing(u)
           q2 == Backing(u)'
           st == Starting(u)
           st2 == Starting(u)'
           lv == Leaving(u)
           lv2 == Leaving(u)'
<1>1. /\ ThreadNext(t) /\ TypeOK /\ u \in Users
      /\ download_state' = download_state /\ unheard \subseteq unheard'
      /\ s \in Seq(UpdateType)
  BY ThreadTellsOwn DEF ViewTypes, IInv, Thread
<1>2. /\ overlapped' = overlapped /\ Alive(t) /\ u \notin overlapped /\ u \in OneVoice
      /\ u \notin unheard'
  BY <1>1, ThreadWrites DEF OneVoice
<1>3. Foreseen(s, d, u, st, lv, q)
  BY <1>2 DEF Voices
<1>4. \A o \in Thread \ {t} : o[1] = u => ~ Alive(o) /\ pc[o] # "init" /\ pc'[o] = pc[o]
  BY <1>1, <1>2, ThreadFrameOf DEF DiskInv, OneAlive, Alive
<1>5. /\ st # {} <=> pc[t] = "init"
      /\ st2 # {} <=> pc'[t] = "init"
      /\ lv # {} <=> shutdown[t]
      /\ lv2 # {} <=> Alive(t)' /\ shutdown'[t]
  BY <1>2, <1>4 DEF Starting, Leaving, Alive
<1>6. shutdown[t] => shutdown'[t]
  BY <1>1, ShutdownStays
<1>15. /\ q = queue_file[u]
       /\ Alive(t)' => q2 = queue_file'[u]
       /\ pc'[t] # "dead" => Alive(t)'
  <2>1. pc'[t] # "unborn"
    BY <1>1, ThreadFrameOf
  <2> QED
    BY <1>2, <2>1 DEF Backing, Alive
<1>7. /\ active_download_path'[t] # None => Alive(t)' /\ InSeq(active_download_path'[t], q2)
      /\ pc[t] # "init" /\ pc'[t] # "dead" => q2 = download_queue'[t]
      /\ pc'[t] = "dead" => download_queue'[t] = <<>>
  <2>1. Unfailing(t)
    BY <1>2, ReportsOf
  <2> QED
    BY <1>1, <1>2, <1>15, <2>1, ThreadActive
<1>8. Covers(q, q)
  BY DEF Covers
<1>9. \/ TellsOffline(t)
      \/ pc[t] # "init" /\ (TellsNothing(t) \/ TellsError(t) \/ TellsReports(t))
  BY <1>1, <1>2, ThreadTells DEF ViewTypes
<1> HIDE DEF u, d, s, q, q2, st, st2, lv, lv2
<1>10. ASSUME TellsOffline(t)
       PROVE  Foreseen(app_receiver', d, u, st2, lv2, q2)
  <2>1. /\ Offline(t) \in UpdateType /\ Offline(t).kind = "Offline" /\ Offline(t).user = u
        /\ Offline(t).queue = download_queue'[t]
    BY OfflineOf DEF u
  <2>2. /\ app_receiver' = Append(s, Offline(t)) /\ Alive(t)' /\ q2 = q
        /\ download_queue'[t] = q
    BY <1>10, <1>15 DEF TellsOffline, s, u
  <2>3. lv2 # {} \/ (lv = {} /\ Covers(q2, q))
    BY <1>5, <1>6, <1>8, <2>2
  <2>4. Covers(q2, Offline(t).queue)
    BY <1>8, <2>1, <2>2
  <2>5. Foreseen(Append(s, Offline(t)), d, u, st2, lv2, q2)
    BY <1>1, <1>3, <2>1, <2>3, <2>4, ForeseenOneMore
  <2> QED
    BY <2>2, <2>5
<1>11. ASSUME pc[t] # "init", TellsNothing(t)
       PROVE  Foreseen(app_receiver', d, u, st2, lv2, q2)
  <2>1. app_receiver' = s /\ Alive(t)' /\ (Covers(q2, q) \/ shutdown'[t])
    BY <1>2, <1>11, <1>15 DEF TellsNothing, s, u
  <2>2. lv2 # {} \/ (lv = {} /\ Covers(q2, q))
    BY <1>5, <1>6, <2>1
  <2>3. st = {}
    BY <1>5, <1>11
  <2>4. Foreseen(s, d, u, st2, lv2, q2)
    BY <1>3, <2>2, <2>3, ForeseenStill
  <2> QED
    BY <2>1, <2>4
<1>12. ASSUME pc[t] # "init", TellsError(t)
       PROVE  Foreseen(app_receiver', d, u, st2, lv2, q2)
  <2> DEFINE m == Update("OfflineError", t, None, <<>>)
  <2>1. m \in UpdateType /\ m.kind = "OfflineError" /\ m.user = u
    BY OfflineOf DEF u
  <2>2. app_receiver' = Append(s, m) /\ pc'[t] = "init" /\ q2 = q
    BY <1>12, <1>15 DEF TellsError, s, u, Alive
  <2>3. st2 # {} /\ (lv2 # {} \/ (lv = {} /\ Covers(q2, q)))
    BY <1>5, <1>6, <1>8, <2>2 DEF Alive
  <2> HIDE DEF m
  <2>4. Foreseen(Append(s, m), d, u, st2, lv2, q2)
    BY <1>1, <1>3, <2>1, <2>3, ForeseenOneMore
  <2> QED
    BY <2>2, <2>4
<1>13. ASSUME pc[t] # "init", TellsReports(t)
       PROVE  Foreseen(app_receiver', d, u, st2, lv2, q2)
  <2>1. ASSUME NEW k \in Steady
        PROVE  /\ Report(k, t) \in UpdateType /\ Report(k, t).user = u
               /\ Report(k, t).kind \notin {"Offline", "OfflineError"}
               /\ Covers(q2, Report(k, t).queue)
               /\ Report(k, t).active # None => InSeq(Report(k, t).active, q2)
    <3>1. /\ Report(k, t) \in UpdateType /\ Report(k, t).user = u /\ Report(k, t).kind = k
          /\ Report(k, t).active = active_download_path'[t]
          /\ Covers(download_queue'[t], Report(k, t).queue)
      BY ReportOf DEF u
    <3>2. Covers(q2, Report(k, t).queue)
      <4>1. CASE pc'[t] = "dead"
        BY <1>7, <3>1, <4>1 DEF Covers, InSeq
      <4>2. CASE pc'[t] # "dead"
        BY <1>7, <1>13, <3>1, <4>2
      <4> QED
        BY <4>1, <4>2
    <3> QED
      BY <1>7, <3>1, <3>2 DEF Steady
  <2>2. st = {}
    BY <1>5, <1>13
  <2>3. ASSUME NEW k \in Steady, NEW st3
        PROVE  Foreseen(Append(s, Report(k, t)), d, u, st3, lv2, q2)
    BY <1>1, <1>3, <2>1, <2>2, ForeseenOneMore
  <2>4. CASE \E k \in Steady : app_receiver' = Append(s, Report(k, t))
    BY <2>3, <2>4
  <2>5. ASSUME NEW k \in Steady, NEW l \in Steady,
               app_receiver' = Append(Append(s, Report(k, t)), Report(l, t))
        PROVE  Foreseen(app_receiver', d, u, st2, lv2, q2)
    <3>1. Foreseen(Append(s, Report(k, t)), d, u, {}, lv2, q2)
      BY <2>3
    <3>2. Append(s, Report(k, t)) \in Seq(UpdateType)
      BY <1>1, <2>1
    <3>3. Foreseen(Append(Append(s, Report(k, t)), Report(l, t)), d, u, st2, lv2, q2)
      BY <2>1, <3>1, <3>2, ForeseenOneMore
    <3> QED
      BY <2>5, <3>3
  <2>6. \/ \E k \in Steady : app_receiver' = Append(s, Report(k, t))
        \/ \E k, l \in Steady : app_receiver' = Append(Append(s, Report(k, t)), Report(l, t))
    BY <1>13 DEF TellsReports, s
  <2> QED
    BY <2>4, <2>5, <2>6
<1>14. Foreseen(app_receiver', d, u, st2, lv2, q2)
  BY <1>9, <1>10, <1>11, <1>12, <1>13
<1> QED
  BY <1>1, <1>14 DEF u, d, st2, lv2, q2

\* A thread's step, for another user.
LEMMA OtherVoice ==
  ASSUME IInv, ViewTypes, Voices, TypeOK', NEW t \in Thread, ThreadReports(t),
         NEW u \in OneVoice', u # t[1]
  PROVE  Foreseen(app_receiver', download_state'[u], u, Starting(u)', Leaving(u)',
                  Backing(u)')
<1> DEFINE d == download_state[u]
           s == app_receiver
           q == Backing(u)
           st == Starting(u)
           lv == Leaving(u)
<1>1. /\ ThreadNext(t) /\ TypeOK /\ s \in Seq(UpdateType)
      /\ download_state' = download_state /\ unheard \subseteq unheard'
      /\ \/ app_receiver' = s
         \/ \E m \in UpdateType : m.user = t[1] /\ app_receiver' = Append(s, m)
         \/ \E m, l \in UpdateType : /\ m.user = t[1] /\ l.user = t[1]
                                     /\ app_receiver' = Append(Append(s, m), l)
  BY ThreadTellsOwn DEF ViewTypes, IInv
<1>2. overlapped' = overlapped /\ queue_file'[u] = queue_file[u]
  BY <1>1, ThreadWrites DEF OneVoice
<1>3. Foreseen(s, d, u, st, lv, q)
  BY <1>1, <1>2 DEF Voices, OneVoice
<1>4. \A o \in Thread : o[1] = u => pc'[o] = pc[o] /\ shutdown'[o] = shutdown[o]
  BY <1>1, ThreadFrameOf
<1>6. Starting(u)' = st /\ Leaving(u)' = lv /\ Backing(u)' = q
  BY <1>2, <1>4 DEF Starting, Leaving, Backing, Alive
<1>7. lv # {} \/ (lv = {} /\ Covers(q, q))
  BY DEF Covers
<1> HIDE DEF d, s, q, st, lv
<1>8. ASSUME NEW r \in Seq(UpdateType), Foreseen(r, d, u, st, lv, q),
             NEW m \in UpdateType, m.user = t[1]
      PROVE  Foreseen(Append(r, m), d, u, st, lv, q)
  BY <1>7, <1>8, ForeseenOneMore
<1>9. Foreseen(app_receiver', d, u, st, lv, q)
  <2>1. CASE \E m, l \in UpdateType : /\ m.user = t[1] /\ l.user = t[1]
                                      /\ app_receiver' = Append(Append(s, m), l)
    <3>1. PICK m \in UpdateType, l \in UpdateType :
                 /\ m.user = t[1] /\ l.user = t[1]
                 /\ app_receiver' = Append(Append(s, m), l)
      BY <2>1
    <3>2. Append(s, m) \in Seq(UpdateType) /\ Foreseen(Append(s, m), d, u, st, lv, q)
      BY <1>1, <1>3, <1>8, <3>1
    <3> QED
      BY <1>8, <3>1, <3>2
  <2> QED
    BY <1>1, <1>3, <1>8, <2>1
<1> QED
  BY <1>1, <1>6, <1>9 DEF d

\* A step of the manager: a thread may begin, with whatever is in the file.
LEMMA ManagerVoice ==
  ASSUME TypeOK, ActiveQueued, Voices, ManagerCall \/ MgrTodo \/ ConnNext, Silent
  PROVE  ActiveQueued' /\ Voices'
<1>1. UNCHANGED <<app_receiver, download_state, unheard>>
  BY DEF Silent, viewVars
<1>2. /\ UNCHANGED <<active_download_path, shutdown>> /\ overlapped \subseteq overlapped'
      /\ \A t \in Thread : /\ pc'[t] = pc[t] \/ pc'[t] = "init"
                           /\ Alive(t) /\ t[1] \notin overlapped' =>
                                queue_file'[t[1]] = queue_file[t[1]]
  BY ManagerStep
<1>6. \A t \in Thread : pc'[t] = pc[t] \/ pc'[t] = "init"
  BY <1>2
<1>7. \A t \in Thread : Alive(t) /\ t[1] \notin overlapped' =>
                          queue_file'[t[1]] = queue_file[t[1]]
  BY <1>2
<1>8. \A t \in Thread : Alive(t) => Alive(t)'
  BY <1>6 DEF Alive
<1>9. OneVoice' \subseteq OneVoice
  BY <1>1, <1>2 DEF OneVoice
<1>3. shutdown' = shutdown /\ active_download_path' = active_download_path
  BY <1>2
<1>4. ASSUME NEW u \in OneVoice'
      PROVE  Foreseen(app_receiver', download_state'[u], u, Starting(u)', Leaving(u)', Backing(u)')
  <2> DEFINE a == Starting(u)
             b == Leaving(u)
             q == Backing(u)
             a2 == Starting(u)'
             b2 == Leaving(u)'
             q2 == Backing(u)'
  <2>1. u \in Users /\ u \in OneVoice /\ u \notin overlapped'
    BY <1>9, <1>4 DEF OneVoice
  <2>2. a # {} => a2 # {}
    BY <1>6 DEF Starting
  <2>3. b # {} => b2 # {}
    BY <1>3, <1>8 DEF Leaving
  <2>4. Covers(q2, q)
    <3>1. CASE \E t \in Thread : t[1] = u /\ Alive(t)
      <4>1. q = queue_file[u] /\ q2 = queue_file'[u] /\ queue_file'[u] = queue_file[u]
        BY <1>7, <1>8, <2>1, <3>1 DEF Backing
      <4> QED
        BY <4>1 DEF Covers
    <3>2. CASE ~ \E t \in Thread : t[1] = u /\ Alive(t)
      BY <3>2 DEF Backing, Covers, InSeq
    <3> QED
      BY <3>1, <3>2
  <2>5. Foreseen(app_receiver, download_state[u], u, a, b, q)
    BY <2>1 DEF Voices
  <2> HIDE DEF a, b, q, a2, b2, q2
  <2>6. Foreseen(app_receiver, download_state[u], u, a2, b2, q2)
    BY <2>2, <2>3, <2>4, <2>5, ForeseenStill
  <2> QED
    BY <1>1, <2>6 DEF a2, b2, q2
<1>5. ActiveQueued'
  <2> SUFFICES ASSUME NEW t \in Thread, active_download_path'[t] # None
               PROVE  /\ Alive(t)'
                      /\ t[1] \in OneVoice' => InSeq(active_download_path'[t], queue_file'[t[1]])
    BY DEF ActiveQueued
  <2>1. Alive(t) /\ Alive(t)'
    BY <1>3, <1>8 DEF ActiveQueued
  <2>2. t[1] \in OneVoice' => t[1] \in OneVoice /\ t[1] \notin overlapped'
    BY <1>9 DEF OneVoice
  <2> QED
    BY <1>3, <1>7, <2>1, <2>2 DEF ActiveQueued
<1> QED
  BY <1>4, <1>5 DEF Voices

\* With nothing shown and nothing on its way, all is well.
LEMMA ForeseenNothing ==
  ASSUME NEW u, NEW st, NEW lv, NEW q
  PROVE  Foreseen(<<>>, None, u, st, lv, q)
<1> DEFINE f == [i \in 0 .. 0 |-> None]
<1>1. f \in [0 .. 0 -> Entry \cup {None}] /\ \A i \in 0 .. 0 : f[i] = None
  OBVIOUS
<1>2. Len(<<>>) = 0 /\ 0 \in 0 .. 0 /\ 1 .. 0 = {}
  OBVIOUS
<1> HIDE DEF f
<1>3. Reads(<<>>, None, u, f)
  BY <1>1, <1>2 DEF Reads
<1> QED
  BY <1>1, <1>2, <1>3 DEF Foreseen, Within

\* The app loop reads a message.
LEMMA LoopVoice ==
  ASSUME ActiveQueued, ViewTypes, Voices, app_loop
  PROVE  ActiveQueued' /\ ViewTypes' /\ Voices'
<1> DEFINE m == Head(app_receiver)
           s == IF download_state[m.user] = None THEN DefaultState ELSE download_state[m.user]
<1>1. /\ app_receiver \in Seq(UpdateType) /\ app_receiver # <<>>
      /\ app_receiver' = Tail(app_receiver)
      /\ UNCHANGED <<vars, unheard>>
      /\ download_state \in [Users -> Entry \cup {None}]
      /\ download_state' = [download_state EXCEPT ![m.user] = Shown(s, m)]
  BY DEF ViewTypes, app_loop
<1>2. m \in UpdateType
  BY <1>1
<1>3. m.user \in Users /\ app_receiver' \in Seq(UpdateType)
  BY <1>1, <1>2 DEF UpdateType
<1>4. s \in Entry
  BY <1>1, <1>3, DefaultOf
<1>5. Shown(s, m) \in Entry
  BY <1>2, <1>4, ShownOf
<1>6. ASSUME NEW u \in Users
      PROVE  download_state'[u] = Reading(u, download_state[u], m)
  BY <1>1, <1>6 DEF Reading
<1>7. UNCHANGED <<pc, shutdown, queue_file, overlapped, active_download_path, unheard>>
  BY <1>1 DEF vars, pcVars, localVars, ghostVars
<1> HIDE DEF s
<1>8. ViewTypes'
  BY <1>1, <1>3, <1>5 DEF ViewTypes
<1>9. ASSUME NEW u \in OneVoice'
      PROVE  Foreseen(app_receiver', download_state'[u], u, Starting(u)', Leaving(u)',
                      Backing(u)')
  <2>1. u \in Users /\ u \in OneVoice
    BY <1>1, <1>7 DEF OneVoice
  <2>2. Starting(u)' = Starting(u) /\ Leaving(u)' = Leaving(u) /\ Backing(u)' = Backing(u)
    BY <1>7 DEF Starting, Leaving, Backing, Alive
  <2>3. Foreseen(app_receiver, download_state[u], u, Starting(u), Leaving(u), Backing(u))
    BY <2>1 DEF Voices
  <2>4. Foreseen(Tail(app_receiver), Reading(u, download_state[u], m), u, Starting(u),
                 Leaving(u), Backing(u))
    BY <1>1, <2>3, ForeseenRead
  <2> QED
    BY <1>1, <1>6, <2>1, <2>2, <2>4
<1>10. ActiveQueued'
  BY <1>7 DEF ActiveQueued, OneVoice, Alive
<1> QED
  BY <1>8, <1>9, <1>10 DEF Voices

LEMMA ThreadVoices ==
  ASSUME IInv, DiskInv, ActiveQueued, ViewTypes, Voices, TypeOK', DiskInv',
         NEW t \in Thread, ThreadReports(t)
  PROVE  ActiveQueued' /\ ViewTypes' /\ Voices'
<1>1. ViewTypes'
  <2>1. /\ download_state' = download_state /\ app_receiver \in Seq(UpdateType)
        /\ download_state \in [Users -> Entry \cup {None}]
    BY ThreadTellsOwn DEF ViewTypes
  <2>2. \/ app_receiver' = app_receiver
        \/ \E m \in UpdateType : app_receiver' = Append(app_receiver, m)
        \/ \E m, l \in UpdateType : app_receiver' = Append(Append(app_receiver, m), l)
    BY <2>1, ThreadTellsOwn
  <2>3. app_receiver' \in Seq(UpdateType)
    BY <2>1, <2>2
  <2> QED
    BY <2>1, <2>3 DEF ViewTypes
<1>2. Voices'
  BY ThreadVoice, OtherVoice DEF Voices
<1>3. ActiveQueued'
  BY ThreadTellsOwn, ThreadKeepsActive DEF ViewTypes
<1> QED
  BY <1>1, <1>2, <1>3

\* The steps of ViewNext are steps of Next, and of the app loop.
LEMMA ViewSteps ==
  ASSUME ViewNext
  PROVE  \/ (ManagerCall \/ MgrTodo \/ ConnNext) /\ Silent
         \/ RestartView /\ Restart
         \/ \E t \in Thread : ThreadReports(t) /\ ThreadNext(t)
         \/ app_loop /\ UNCHANGED vars
<1>1. CoreCall => ManagerCall
  BY DEF CoreCall, ManagerCall
<1> QED
  BY <1>1, ReportsOf DEF ViewNext, RestartView, app_loop

\* The manager and its threads do not notice that they are watched.
THEOREM ViewIsDownloader == ViewSpec => Spec
<1>1. ViewInit => Init
  BY DEF ViewInit
<1>2. [ViewNext]_allVars => [Next]_vars
  <2>1. UNCHANGED allVars => UNCHANGED vars
    BY DEF allVars
  <2>2. ViewNext => Next \/ UNCHANGED vars
    BY ViewSteps DEF Next, UserNext, ManagerCall
  <2> QED
    BY <2>1, <2>2
<1> QED
  BY <1>1, <1>2, PTL DEF ViewSpec, Spec

LEMMA ViewStep ==
  ASSUME IInv, DiskInv, ActiveQueued, ViewTypes, Voices, TypeOK', DiskInv', [ViewNext]_allVars
  PROVE  ActiveQueued' /\ ViewTypes' /\ Voices'
<1>0. TypeOK
  BY DEF IInv
<1>1. CASE (ManagerCall \/ MgrTodo \/ ConnNext) /\ Silent
  <2>1. ViewTypes'
    BY <1>1 DEF ViewTypes, Silent, viewVars
  <2> QED
    BY <1>0, <1>1, <2>1, ManagerVoice
<1>2. CASE RestartView
  <2>1. app_receiver' = <<>> /\ download_state' = [u \in Users |-> None]
    BY <1>2 DEF RestartView
  <2>2. ViewTypes'
    BY <2>1 DEF ViewTypes
  <2>3. ASSUME NEW u \in OneVoice'
        PROVE  Foreseen(app_receiver', download_state'[u], u, Starting(u)', Leaving(u)',
                        Backing(u)')
    <3>1. download_state'[u] = None
      BY <2>1 DEF OneVoice
    <3> QED
      BY <2>1, <3>1, ForeseenNothing
  <2>4. ActiveQueued'
    BY <1>2 DEF RestartView, Restart, ActiveQueued
  <2> QED
    BY <2>2, <2>3, <2>4 DEF Voices
<1>3. CASE \E t \in Thread : ThreadReports(t)
  BY <1>3, ThreadVoices
<1>4. CASE app_loop
  BY <1>4, LoopVoice
<1>5. CASE UNCHANGED allVars
  <2>1. UNCHANGED <<app_receiver, download_state, unheard, pc, shutdown, queue_file, overlapped,
                    active_download_path>>
    BY <1>5 DEF allVars, viewVars, vars, pcVars, localVars, ghostVars
  <2>2. OneVoice' = OneVoice
    BY <2>1 DEF OneVoice
  <2>3. \A u : /\ Starting(u)' = Starting(u) /\ Leaving(u)' = Leaving(u)
               /\ Backing(u)' = Backing(u)
    BY <2>1 DEF Starting, Leaving, Backing, Alive
  <2>4. ViewTypes' /\ ActiveQueued'
    BY <2>1, <2>2 DEF ViewTypes, ActiveQueued, Alive
  <2> QED
    BY <2>1, <2>2, <2>3, <2>4 DEF Voices
<1> QED
  BY <1>1, <1>2, <1>3, <1>4, <1>5, ViewSteps

LEMMA ViewInvariant == ViewSpec => [](IInv /\ DiskInv /\ ActiveQueued /\ ViewTypes /\ Voices)
<1>1. ViewInit => ActiveQueued /\ ViewTypes /\ Voices
  <2> SUFFICES ASSUME ViewInit PROVE ActiveQueued /\ ViewTypes /\ Voices
    OBVIOUS
  <2>1. app_receiver = <<>> /\ download_state = [u \in Users |-> None]
    BY DEF ViewInit
  <2>2. ViewTypes
    BY <2>1 DEF ViewTypes
  <2>3. ASSUME NEW u \in OneVoice
        PROVE  Foreseen(app_receiver, download_state[u], u, Starting(u), Leaving(u),
                        Backing(u))
    <3>1. download_state[u] = None
      BY <2>1 DEF OneVoice
    <3> QED
      BY <2>1, <3>1, ForeseenNothing
  <2>4. ActiveQueued
    BY DEF ViewInit, Init, ActiveQueued
  <2> QED
    BY <2>2, <2>3, <2>4 DEF Voices
<1>2. /\ IInv /\ DiskInv /\ ActiveQueued /\ ViewTypes /\ Voices /\ IInv' /\ DiskInv'
      /\ [ViewNext]_allVars
      => ActiveQueued' /\ ViewTypes' /\ Voices'
  <2>1. IInv' => TypeOK'
    BY DEF IInv
  <2> QED
    BY <2>1, ViewStep
<1> QED
  BY <1>1, <1>2, ViewIsDownloader, Invariant, DiskInvariant, PTL DEF ViewSpec

\* What the UI shows of a user agrees with the thread that downloads from the user: what
\* is shown as active or waiting is queued, and an error goes with being offline.
THEOREM ViewIsCorrect == ViewSpec => []ViewAgrees
<1>1. IInv /\ DiskInv /\ ViewTypes /\ Voices => ViewAgrees
  <2> SUFFICES ASSUME IInv, DiskInv, ViewTypes, Voices PROVE ViewAgrees
    OBVIOUS
  <2>1. ASSUME NEW u \in OneVoice
        PROVE  /\ Known(u) /\ download_state[u].online => ~ download_state[u].error
               /\ ReadUpTo(u) /\ Leaving(u) = {} => Within(download_state[u], Backing(u))
    <3> DEFINE s == app_receiver
               d == download_state[u]
    <3>1. PICK f : /\ Reads(s, d, u, f)
                   /\ \A i \in 0 .. Len(s) : f[i] # None /\ f[i].online => ~ f[i].error
                   /\ Leaving(u) = {} =>
                        \A i \in 0 .. Len(s) : Quiet(s, u, i) => Within(f[i], Backing(u))
      BY <2>1 DEF Voices, Foreseen
    <3>2. s \in Seq(UpdateType) /\ 0 \in 0 .. Len(s) /\ f[0] = d
      BY <3>1 DEF Reads, ViewTypes
    <3>3. ReadUpTo(u) => Quiet(s, u, 0)
      BY <3>2 DEF ReadUpTo, Quiet
    <3> QED
      BY <3>1, <3>2, <3>3 DEF Known
  <2>2. ASSUME NEW u \in OneVoice, NEW n \in 1 .. MaxThreads,
               Alive(<<u, n>>), ~ shutdown[<<u, n>>], pc[<<u, n>>] # "init"
        PROVE  Leaving(u) = {} /\ Backing(u) = download_queue[<<u, n>>]
    <3> DEFINE t == <<u, n>>
    <3>1. t \in Thread /\ t[1] = u /\ u \notin overlapped
      BY DEF Thread, OneVoice
    <3>2. \A o \in Thread : o[1] = u /\ Alive(o) => o = t
      BY <2>2, <3>1 DEF DiskInv, OneAlive
    <3> QED
      BY <2>2, <3>1, <3>2 DEF Leaving, Backing, DiskInv, QueueOnDisk
  <2>3. OnlineWithoutError
    BY <2>1 DEF OnlineWithoutError
  <2>4. ShownIsQueued
    BY <2>1, <2>2 DEF ShownIsQueued, Within, Known
  <2> QED
    BY <2>3, <2>4 DEF ViewAgrees
<1> QED
  BY <1>1, ViewInvariant, PTL
=============================================================================
