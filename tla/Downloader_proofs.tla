------------------------- MODULE Downloader_proofs -------------------------
(***************************************************************************)
(* Proofs about Downloader for every set of users and paths and all the    *)
(* bounds.                                                                 *)
(***************************************************************************)
EXTENDS Downloader, SequenceTheorems, WellFoundedInduction, TLAPS

\* Every message the manager sends is one of Message.
LEMMA MessageFacts ==
  /\ \A p \in Paths : /\ PathMsg("NewDownload", p) \in Message
                      /\ PathMsg("CancelDownload", p) \in Message
  /\ \A c \in Config : [type |-> "NewConfig", config |-> c] \in Message
  /\ \A id \in Ids : [type |-> "NewSharedUser", publicId |-> id] \in Message
  /\ \A x \in {"CancelAllDownloads", "PauseDownloads", "ResumeDownloads", "RemoveUser",
               "RestartConnection"} : Msg(x) \in Message
BY DEF Message, PathMsg, Msg

\* Sending keeps the types of the channels and of channel_map.
LEMMA SendToAllType ==
  ASSUME TypeOK, NEW m \in Message, SendToAll(m)
  PROVE  receiver' \in [Thread -> Seq(Message)] /\ channel_map' \in [Users -> 0 .. MaxThreads]
BY ConstantsAssumption DEF TypeOK, SendToAll

LEMMA SendToType ==
  ASSUME TypeOK, NEW u \in Users, NEW m \in Message, SendTo(u, m)
  PROVE  receiver' \in [Thread -> Seq(Message)] /\ channel_map' \in [Users -> 0 .. MaxThreads]
BY ConstantsAssumption DEF TypeOK, SendTo

\* So does starting a thread.
LEMMA SpawnType ==
  ASSUME TypeOK, NEW u \in Users, NEW conn \in Conn \cup {None},
         Spawn(u, conn, config, is_downloading_paused)
  PROVE  /\ spawned' \in [Users -> 0 .. MaxThreads] /\ channel_map' \in [Users -> 0 .. MaxThreads]
         /\ pc' \in [Thread -> PCs] /\ paused' \in [Thread -> BOOLEAN]
         /\ reverse_connection' \in [Thread -> Conn \cup {None}]
         /\ thread_config' \in [Thread -> Config] /\ shared_user' \in [Thread -> Ids]
         /\ overlapped' \in SUBSET Users
PROOF
  <1> DEFINE n == spawned[u] + 1
             t == <<u, n>>
  <1>1. n \in 1 .. MaxThreads /\ t \in Thread
    BY ConstantsAssumption DEF TypeOK, Spawn, Thread
  <1>2. config \in Config /\ config.publicId[u] \in Ids
    BY DEF TypeOK, Config
  <1> QED
    BY <1>1, <1>2 DEF TypeOK, Spawn, PCs
\* A UI command counts.
LEMMA CommandType ==
  ASSUME TypeOK, NEW name, Command(name)
  PROVE  commands' \in 0 .. MaxCommands
BY ConstantsAssumption DEF TypeOK, Command

\* A call that changes the configuration keeps the types if the new one has its type.
LEMMA ReconfigureType ==
  ASSUME TypeOK, NEW c \in Config, NEW rest \in [call: TodoCalls, user: Users \cup {None}],
         Reconfigure(c, rest), commands' \in 0 .. MaxCommands,
         wanted' \in [Users -> SUBSET Paths]
  PROVE  TypeOK'
PROOF
  <1>1. SendToAll([type |-> "NewConfig", config |-> c])
    BY DEF Reconfigure, set_new_config
  <1>2. receiver' \in [Thread -> Seq(Message)] /\ channel_map' \in [Users -> 0 .. MaxThreads]
    BY <1>1, SendToAllType, MessageFacts
  <1>3. config' = c /\ todo' = rest
    BY DEF Reconfigure, set_new_config
  <1>4. refresh_data' \in [Users -> {"absent", "nodata", "data"}]
    BY DEF TypeOK, Reconfigure, set_new_config, RefreshAfter
  <1> QED
    BY <1>2, <1>3, <1>4 DEF TypeOK, Reconfigure, threadUnchanged, pcVars, localVars

\* What may be left to do of a call.
LEMMA TodoType ==
  \A u \in Users \cup {None}, call \in TodoCalls :
    /\ Todo(call, u) \in [call: TodoCalls, user: Users \cup {None}]
    /\ Idle \in [call: TodoCalls, user: Users \cup {None}]
BY DEF Todo, Idle, TodoCalls

-----------------------------------------------------------------------------
\* A queue file that gets a line is one still, and holds what the line asks for unless
\* that runs on from a line without its newline.
LEMMA WithLineFacts ==
  ASSUME TypeOK, NEW u \in Users, NEW p \in Paths, NEW items \in WithLine(u, p)
  PROVE  items \in Seq(Paths) /\ (~ RunsOn(u) => items = Append(queue_file[u], p))
PROOF
  <1>1. queue_file[u] \in Seq(Paths)
    BY DEF TypeOK
  <1>2. CASE RunsOn(u)
    <2>1. PICK x \in Paths : items = [queue_file[u] EXCEPT ![Len(queue_file[u])] = x]
      BY <1>2 DEF WithLine
    <2>2. Len(queue_file[u]) \in 1 .. Len(queue_file[u])
      BY <1>1, <1>2 DEF RunsOn
    <2> QED
      BY <1>1, <1>2, <2>1, <2>2, ExceptSeq
  <1>3. CASE ~ RunsOn(u)
    BY <1>1, <1>3 DEF WithLine
  <1> QED
    BY <1>2, <1>3

\* The UI's commands that download, cancel, pause and resume keep the types.
LEMMA DownloadCommandsType ==
  ASSUME TypeOK,
         \/ \E u \in Users, p \in Paths : download_selected(u, p) \/ downloads_cancel_single(u, p)
         \/ \E u \in Users : download_refused(u)
         \/ downloads_cancel_all \/ downloads_pause_all \/ downloads_resume_all
  PROVE  TypeOK'
PROOF
  <1>1. ASSUME NEW u \in Users, NEW p \in Paths, download_selected(u, p)
        PROVE  TypeOK'
    <2>1. commands' \in 0 .. MaxCommands
      BY <1>1, CommandType DEF download_selected
    <2>2. wanted' \in [Users -> SUBSET Paths]
      BY <1>1 DEF download_selected, TypeOK
    <2>3. CASE Reachable(u)
      <3>1. SendTo(u, PathMsg("NewDownload", p))
        BY <1>1, <2>3 DEF download_selected
      <3>2. receiver' \in [Thread -> Seq(Message)] /\ channel_map' \in [Users -> 0 .. MaxThreads]
        BY <3>1, SendToType, MessageFacts
      <3> QED
        BY <1>1, <2>1, <2>2, <2>3, <3>2
           DEF TypeOK, download_selected, threadUnchanged, pcVars, localVars
    <2>4. CASE ~ Reachable(u)
      <3>1. Spawn(u, None, config, is_downloading_paused) /\ SpawnUnchanged
        BY <1>1, <2>4 DEF download_selected
      <3>2. queue_file' \in [Users -> Seq(Paths)] /\ file_tail' \in [Users -> Tails]
        <4>1. PICK items \in WithLine(u, p) : queue_file' = [queue_file EXCEPT ![u] = items]
          BY <1>1, <2>4 DEF download_selected
        <4>2. items \in Seq(Paths)
          BY WithLineFacts
        <4>3. file_tail' = [file_tail EXCEPT ![u] = "line"]
          BY <1>1, <2>4 DEF download_selected
        <4> QED
          BY <4>1, <4>2, <4>3 DEF TypeOK, Tails
      <3> QED
        BY <1>1, <2>1, <2>2, <3>1, <3>2, SpawnType
           DEF TypeOK, download_selected, SpawnUnchanged, chanVars
    <2> QED
      BY <2>3, <2>4
  <1>2. ASSUME NEW u \in Users, NEW p \in Paths, downloads_cancel_single(u, p)
        PROVE  TypeOK'
    <2>1. receiver' \in [Thread -> Seq(Message)] /\ channel_map' \in [Users -> 0 .. MaxThreads]
      BY <1>2, SendToType, MessageFacts DEF downloads_cancel_single
    <2>2. commands' \in 0 .. MaxCommands
      BY <1>2, CommandType DEF downloads_cancel_single
    <2> QED
      BY <1>2, <2>1, <2>2
         DEF TypeOK, downloads_cancel_single, SendOnlyUnchanged, threadUnchanged, pcVars, localVars
  <1>3. ASSUME downloads_cancel_all
        PROVE  TypeOK'
    <2>1. receiver' \in [Thread -> Seq(Message)] /\ channel_map' \in [Users -> 0 .. MaxThreads]
      BY <1>3, SendToAllType, MessageFacts DEF downloads_cancel_all
    <2>2. commands' \in 0 .. MaxCommands
      BY <1>3, CommandType DEF downloads_cancel_all
    <2> QED
      BY <1>3, <2>1, <2>2
         DEF TypeOK, downloads_cancel_all, SendOnlyUnchanged, threadUnchanged, pcVars, localVars
  <1>4. ASSUME downloads_pause_all
        PROVE  TypeOK'
    <2>1. receiver' \in [Thread -> Seq(Message)] /\ channel_map' \in [Users -> 0 .. MaxThreads]
      BY <1>4, SendToAllType, MessageFacts DEF downloads_pause_all
    <2>2. commands' \in 0 .. MaxCommands
      BY <1>4, CommandType DEF downloads_pause_all
    <2> QED
      BY <1>4, <2>1, <2>2
         DEF TypeOK, downloads_pause_all, SendOnlyUnchanged, threadUnchanged, pcVars, localVars
  <1>5. ASSUME downloads_resume_all
        PROVE  TypeOK'
    <2>1. receiver' \in [Thread -> Seq(Message)] /\ channel_map' \in [Users -> 0 .. MaxThreads]
      BY <1>5, SendToAllType, MessageFacts DEF downloads_resume_all
    <2>2. commands' \in 0 .. MaxCommands
      BY <1>5, CommandType DEF downloads_resume_all
    <2> QED
      BY <1>5, <2>1, <2>2
         DEF TypeOK, downloads_resume_all, SendOnlyUnchanged, threadUnchanged, pcVars, localVars
  <1>6. ASSUME NEW u \in Users, download_refused(u)
        PROVE  TypeOK'
    <2>1. commands' \in 0 .. MaxCommands
      BY <1>6, CommandType DEF download_refused
    <2>2. queue_file' \in [Users -> Seq(Paths)]
      <3>1. CASE \E x \in Paths : \E items \in WithLine(u, x) :
                   queue_file' = [queue_file EXCEPT ![u] = items]
        <4>1. PICK x \in Paths : \E items \in WithLine(u, x) :
                queue_file' = [queue_file EXCEPT ![u] = items]
          BY <3>1
        <4>2. PICK items \in WithLine(u, x) : queue_file' = [queue_file EXCEPT ![u] = items]
          BY <4>1
        <4>3. items \in Seq(Paths)
          BY WithLineFacts
        <4> QED
          BY <4>2, <4>3 DEF TypeOK
      <3> QED
        BY <1>6, <3>1 DEF download_refused, TypeOK
    <2>3. file_tail' \in [Users -> Tails]
      BY <1>6 DEF download_refused, TypeOK, Tails
    <2>4. overlapped' \in SUBSET Users
      BY <1>6 DEF download_refused, TypeOK
    <2>5. UNCHANGED <<mgrVars, refresh_data, pcVars, chanVars, localVars, conns, wanted>>
      BY <1>6 DEF download_refused
    <2> QED
      BY <2>1, <2>2, <2>3, <2>4, <2>5 DEF TypeOK, mgrVars, pcVars, chanVars, localVars
  <1> QED
    BY <1>1, <1>2, <1>3, <1>4, <1>5, <1>6

\* So do the commands that change the configuration.
LEMMA ConfigCommandsType ==
  ASSUME TypeOK,
         \/ \E u \in Users, id \in Ids : add_new_user(u, id) \/ update_user(u, id)
         \/ \E u \in Users : remove_user(u)
         \/ create_new_id \/ set_path_downloads_dir
         \/ \E b \in BOOLEAN : set_ignore_incoming(b)
  PROVE  TypeOK'
PROOF
  <1>0. config \in Config /\ wanted \in [Users -> SUBSET Paths]
    BY DEF TypeOK
  <1>1. ASSUME NEW u \in Users, NEW id \in Ids, add_new_user(u, id)
        PROVE  TypeOK'
    <2>1. [config EXCEPT !.users = @ \cup {u}, !.publicId[u] = id] \in Config
      BY <1>0, <1>1 DEF Config, Ids, add_new_user
    <2>2. commands' \in 0 .. MaxCommands /\ wanted' \in [Users -> SUBSET Paths]
      BY <1>0, <1>1, CommandType DEF add_new_user
    <2>3. Idle \in [call: TodoCalls, user: Users \cup {None}]
      BY TodoType DEF TodoCalls
    <2> QED
      BY <1>1, <2>1, <2>2, <2>3, ReconfigureType DEF add_new_user
  <1>2. ASSUME NEW u \in Users, NEW id \in Ids, update_user(u, id)
        PROVE  TypeOK'
    <2>1. [config EXCEPT !.publicId[u] = id] \in Config
      BY <1>0, <1>2 DEF Config, Ids, update_user
    <2>2. commands' \in 0 .. MaxCommands /\ wanted' \in [Users -> SUBSET Paths]
      BY <1>0, <1>2, CommandType DEF update_user
    <2>3. Todo("send_user", u) \in [call: TodoCalls, user: Users \cup {None}]
      BY TodoType DEF TodoCalls
    <2> QED
      BY <1>2, <2>1, <2>2, <2>3, ReconfigureType DEF update_user
  <1>3. ASSUME NEW u \in Users, remove_user(u)
        PROVE  TypeOK'
    <2>1. [config EXCEPT !.users = @ \ {u}] \in Config
      BY <1>0, <1>3 DEF Config, Ids, remove_user
    <2>2. commands' \in 0 .. MaxCommands /\ wanted' \in [Users -> SUBSET Paths]
      BY <1>0, <1>3, CommandType DEF remove_user
    <2>3. Todo("send_remove", u) \in [call: TodoCalls, user: Users \cup {None}]
      BY TodoType DEF TodoCalls
    <2> QED
      BY <1>3, <2>1, <2>2, <2>3, ReconfigureType DEF remove_user
  <1>4. ASSUME create_new_id
        PROVE  TypeOK'
    <2>1. [config EXCEPT !.localId = @ + 1] \in Config
      BY <1>0, <1>4, ConstantsAssumption DEF Config, Ids, create_new_id
    <2>2. commands' \in 0 .. MaxCommands /\ wanted' \in [Users -> SUBSET Paths]
      BY <1>0, <1>4, CommandType DEF create_new_id
    <2>3. Idle \in [call: TodoCalls, user: Users \cup {None}]
      BY TodoType DEF TodoCalls
    <2> QED
      BY <1>4, <2>1, <2>2, <2>3, ReconfigureType DEF create_new_id
  <1>5. ASSUME set_path_downloads_dir
        PROVE  TypeOK'
    <2>1. config \in Config
      BY <1>0, <1>5 DEF Config, Ids, set_path_downloads_dir
    <2>2. commands' \in 0 .. MaxCommands /\ wanted' \in [Users -> SUBSET Paths]
      BY <1>0, <1>5, CommandType DEF set_path_downloads_dir
    <2>3. Idle \in [call: TodoCalls, user: Users \cup {None}]
      BY TodoType DEF TodoCalls
    <2> QED
      BY <1>5, <2>1, <2>2, <2>3, ReconfigureType DEF set_path_downloads_dir
  <1>6. ASSUME NEW b \in BOOLEAN, set_ignore_incoming(b)
        PROVE  TypeOK'
    <2>1. [config EXCEPT !.ignore_incoming = b] \in Config
      BY <1>0, <1>6 DEF Config, Ids, set_ignore_incoming
    <2>2. commands' \in 0 .. MaxCommands /\ wanted' \in [Users -> SUBSET Paths]
      BY <1>0, <1>6, CommandType DEF set_ignore_incoming
    <2>3. Todo("restart", None) \in [call: TodoCalls, user: Users \cup {None}]
      BY TodoType DEF TodoCalls
    <2> QED
      BY <1>6, <2>1, <2>2, <2>3, ReconfigureType DEF set_ignore_incoming
  <1> QED
    BY <1>1, <1>2, <1>3, <1>4, <1>5, <1>6

\* What is left of a call, a refresh, a reverse connection and a restart.
LEMMA OtherManagerType ==
  ASSUME TypeOK,
         \/ MgrTodo \/ Restart \/ ConnNext
         \/ \E u \in Users : RefreshArrives(u)
  PROVE  TypeOK'
PROOF
  <1> USE DEF SendOnlyUnchanged, threadUnchanged, pcVars, localVars
  <1>0. Idle \in [call: TodoCalls, user: Users \cup {None}]
    BY TodoType DEF TodoCalls
  <1>1. CASE SendRemoveUser
    <2>1. todo' \in [call: TodoCalls, user: Users \cup {None}]
      BY <1>1, TodoType DEF SendRemoveUser, TypeOK, TodoCalls
    <2>2. receiver' \in [Thread -> Seq(Message)]
      BY <1>1, MessageFacts DEF SendRemoveUser, TypeOK
    <2> QED
      BY <1>1, <2>1, <2>2 DEF TypeOK, SendRemoveUser
  <1>2. CASE DropSenders
    <2>1. channel_map' \in [Users -> 0 .. MaxThreads]
      <3>1. 0 \in 0 .. MaxThreads
        BY ConstantsAssumption
      <3>2. channel_map' = [channel_map EXCEPT ![todo.user] = 0]
        BY <1>2 DEF DropSenders
      <3> QED
        BY <3>1, <3>2 DEF TypeOK
    <2> QED
      BY <1>0, <1>2, <2>1 DEF TypeOK, DropSenders
  <1>3. CASE SendSharedUser
    <2>1. todo.user \in Users \cup {None}
      BY DEF TypeOK
    <2>2. receiver' \in [Thread -> Seq(Message)] /\ channel_map' \in [Users -> 0 .. MaxThreads]
      <3>1. CASE todo.user \in Users
        <4>1. config.publicId[todo.user] \in Ids
          BY <3>1 DEF TypeOK, Config
        <4> QED
          BY <1>3, <3>1, <4>1, SendToType, MessageFacts DEF SendSharedUser
      <3>2. CASE todo.user = None
        BY <1>3, <3>2, NoneAssumption DEF SendSharedUser, SendTo, TypeOK, Thread
      <3> QED
        BY <2>1, <3>1, <3>2
    <2> QED
      BY <1>0, <1>3, <2>2 DEF TypeOK, SendSharedUser
  <1>4. CASE restart_connections
    <2>1. receiver' \in [Thread -> Seq(Message)] /\ channel_map' \in [Users -> 0 .. MaxThreads]
      BY <1>4, SendToAllType, MessageFacts DEF restart_connections
    <2> QED
      BY <1>0, <1>4, <2>1 DEF TypeOK, restart_connections
  <1>5. ASSUME NEW u \in Users, RefreshArrives(u)
        PROVE  TypeOK'
    <2>1. commands' \in 0 .. MaxCommands
      BY <1>5, CommandType DEF RefreshArrives
    <2> QED
      BY <1>5, <2>1 DEF TypeOK, RefreshArrives, mgrVars, chanVars, ghostVars
  <1>6. ASSUME NEW u \in Users, NEW conn \in Conn, ReverseConnection(u, conn)
        PROVE  TypeOK'
    <2>1. conns' \in 0 .. MaxConns /\ UNCHANGED <<commands, wanted, queue_file, file_tail>>
      BY <1>6, ConstantsAssumption DEF ReverseConnection, TypeOK
    <2>2. CASE UNCHANGED <<mgrVars, refresh_data, pcVars, chanVars, localVars, overlapped>>
      BY <2>1, <2>2 DEF TypeOK, mgrVars, chanVars
    <2>3. CASE /\ rev_receiver' = [t \in Thread |->
                      IF t[1] = u /\ Registered(t) /\ Alive(t)
                      THEN Append(rev_receiver[t], conn) ELSE rev_receiver[t]]
               /\ threadUnchanged
               /\ UNCHANGED <<mgrVars, refresh_data, receiver, overlapped>>
      <3>1. rev_receiver' \in [Thread -> Seq(Conn)]
        BY <2>3 DEF TypeOK
      <3> QED
        BY <2>1, <2>3, <3>1 DEF TypeOK, mgrVars
    <2>4. CASE Spawn(u, conn, config, is_downloading_paused) /\ SpawnUnchanged
      BY <2>1, <2>4, SpawnType DEF TypeOK, SpawnUnchanged, chanVars
    <2> QED
      BY <1>6, <2>2, <2>3, <2>4 DEF ReverseConnection
  <1>7. CASE Restart
    <2>1. commands' \in 0 .. MaxCommands
      BY <1>7, ConstantsAssumption DEF Restart, TypeOK
    <2>2. /\ spawned' \in [Users -> 0 .. MaxThreads]
          /\ channel_map' \in [Users -> 0 .. MaxThreads]
      BY <1>7, ConstantsAssumption DEF Restart, TypeOK
    <2>3. /\ pc' \in [Thread -> PCs]
          /\ refresh_data' \in [Users -> {"absent", "nodata", "data"}]
      BY <1>7 DEF Restart, TypeOK, PCs
    <2>4. /\ thread_config' \in [Thread -> Config] /\ paused' \in [Thread -> BOOLEAN]
          /\ wanted' \in [Users -> SUBSET Paths]
      BY <1>7 DEF Restart, TypeOK
    <2>5. shared_user' \in [Thread -> Ids]
      <3>1. \A t \in Thread : config.publicId[t[1]] \in Ids
        BY DEF TypeOK, Config, Thread
      <3> QED
        BY <1>7, <3>1 DEF Restart, TypeOK
    <2>6. /\ receiver' \in [Thread -> Seq(Message)] /\ rev_receiver' \in [Thread -> Seq(Conn)]
          /\ download_queue' \in [Thread -> Seq(Paths)]
      BY <1>7 DEF Restart
    <2>7. /\ active_download_path' \in [Thread -> Paths \cup {None}]
          /\ reverse_connection' \in [Thread -> Conn \cup {None}]
          /\ stream' \in [Thread -> Conn \cup {None}]
          /\ stop_downloading' \in [Thread -> BOOLEAN] /\ shutdown' \in [Thread -> BOOLEAN]
          /\ todo' = Idle /\ is_downloading_paused' \in BOOLEAN
          /\ UNCHANGED <<config, ret, queue_file, file_tail, conns, overlapped>>
      BY <1>7 DEF Restart
    <2> QED
      BY <1>0, <2>1, <2>2, <2>3, <2>4, <2>5, <2>6, <2>7 DEF TypeOK
  <1> QED
    BY <1>1, <1>2, <1>3, <1>4, <1>5, <1>6, <1>7 DEF MgrTodo, ConnNext

-----------------------------------------------------------------------------
(* What is left of a queue after a cancel is a queue.  Induction is by     *)
(* minimal counterexample, from the well-foundedness of < on Nat.          *)

\* A set of naturals that is not empty has a least element.
LEMMA NatMin ==
  ASSUME NEW T \in SUBSET Nat, T # {}
  PROVE  \E n \in T : \A m \in T : n <= m
PROOF
  <1>1. PICK x \in T : \A y \in T : ~ (<<y, x>> \in OpToRel(<, Nat))
    BY WFMin, NatLessThanWellFounded
  <1>2. \A a, b \in Nat : a < b => <<a, b>> \in OpToRel(<, Nat)
    BY DEF OpToRel
  <1>3. ASSUME NEW y \in T PROVE x <= y
    <2>1. x \in Nat /\ y \in Nat
      OBVIOUS
    <2>2. ~ (<<y, x>> \in OpToRel(<, Nat))
      BY <1>1
    <2>3. ~ (y < x)
      BY <1>2, <2>1, <2>2
    <2> QED
      BY <2>1, <2>3
  <1> QED
    BY <1>3

\* The i-th value of Retain's recursive function F.
RetainStep(s, p, F, i) ==
  IF i = 0 THEN <<>> ELSE IF s[i] # p THEN Append(F[i - 1], s[i]) ELSE F[i - 1]

\* The functions on 0 .. k that obey its equation.
Solutions(S, s, p, k) ==
  {F \in [0 .. k -> Seq(S)] : F = [i \in 0 .. k |-> RetainStep(s, p, F, i)]}

\* There is one for every k.
LEMMA SolutionExists ==
  ASSUME NEW S, NEW s \in Seq(S), NEW p, NEW k \in 0 .. Len(s)
  PROVE  Solutions(S, s, p, k) # {}
PROOF
  <1> DEFINE T == {j \in 0 .. Len(s) : Solutions(S, s, p, j) = {}}
  <1>1. SUFFICES ASSUME T # {} PROVE FALSE
    OBVIOUS
  <1>2. PICK n \in T : \A m \in T : n <= m
    <2> T \in SUBSET Nat
      OBVIOUS
    <2> HIDE DEF T
    <2> QED
      BY <1>1, NatMin
  <1>3. CASE n = 0
    <2>1. [i \in 0 .. 0 |-> <<>>] \in Solutions(S, s, p, 0)
      BY DEF Solutions, RetainStep
    <2> QED
      BY <1>2, <1>3, <2>1
  <1>4. CASE n > 0
    <2>1. n - 1 \in 0 .. Len(s) /\ n - 1 \notin T
      BY <1>2, <1>4
    <2>2. PICK F : F \in Solutions(S, s, p, n - 1)
      BY <2>1
    <2>3. F \in [0 .. n - 1 -> Seq(S)] /\ \A i \in 0 .. n - 1 : F[i] = RetainStep(s, p, F, i)
      BY <2>2 DEF Solutions
    <2> DEFINE v == RetainStep(s, p, F, n)
               G == [i \in 0 .. n |-> IF i = n THEN v ELSE F[i]]
    <2>4. v \in Seq(S)
      <3>1. F[n - 1] \in Seq(S) /\ s[n] \in S
        BY <2>3, <1>4, <1>2
      <3> QED
        BY <3>1, <1>4 DEF RetainStep
    <2>5. G \in [0 .. n -> Seq(S)]
      BY <2>3, <2>4
    <2>6. \A i \in 0 .. n : G[i] = RetainStep(s, p, G, i)
      <3> SUFFICES ASSUME NEW i \in 0 .. n PROVE G[i] = RetainStep(s, p, G, i)
        OBVIOUS
      <3>1. CASE i = 0
         BY <3>1, <2>3, <1>4 DEF RetainStep
      <3>2. CASE i > 0 /\ i < n
        <4>1. n \in Nat /\ i \in 0 .. n - 1 /\ i - 1 \in 0 .. n - 1 /\ i # 0
          BY <3>2, <1>2, <1>4
        <4>2. G[i] = F[i] /\ G[i - 1] = F[i - 1]
          BY <4>1
        <4>3. F[i] = RetainStep(s, p, F, i)
          BY <4>1, <2>3
        <4> HIDE DEF G
        <4> QED
          BY <4>1, <4>2, <4>3 DEF RetainStep
      <3>3. CASE i > 0 /\ i = n
         BY <3>3, <2>3, <1>4 DEF RetainStep
      <3> QED
        BY <3>1, <3>2, <3>3
    <2>7. G = [i \in 0 .. n |-> RetainStep(s, p, G, i)]
      BY <2>6
    <2>8. G \in Solutions(S, s, p, n)
      <3> HIDE DEF G
      <3> QED
        BY <2>5, <2>7 DEF Solutions
    <2> QED
      BY <2>8, <1>2
  <1> QED
    BY <1>2, <1>3, <1>4

\* Retain goes through the sequence by these steps.
LEMMA RetainRun ==
  ASSUME NEW S, NEW s \in Seq(S), NEW p
  PROVE  \E H : /\ \A i \in 0 .. Len(s) : H[i] \in Seq(S) /\ H[i] = RetainStep(s, p, H, i)
               /\ Retain(s, p) = H[Len(s)]
PROOF
  <1>1. PICK F : F \in Solutions(S, s, p, Len(s))
    BY SolutionExists
  <1> DEFINE H == CHOOSE G : G = [i \in 0 .. Len(s) |->
                    IF i = 0 THEN <<>>
                    ELSE IF s[i] # p THEN Append(G[i - 1], s[i]) ELSE G[i - 1]]
  <1>2. H = [i \in 0 .. Len(s) |-> RetainStep(s, p, H, i)]
    BY <1>1 DEF Solutions, RetainStep
  <1>3. Retain(s, p) = H[Len(s)]
    BY DEF Retain
  <1> HIDE DEF H
  <1> DEFINE T == {j \in 0 .. Len(s) : H[j] \notin Seq(S)}
  <1>4. T = {}
    <2>1. SUFFICES ASSUME T # {} PROVE FALSE
      OBVIOUS
    <2>2. PICK n \in T : \A m \in T : n <= m
      <3> T \in SUBSET Nat
        OBVIOUS
      <3> HIDE DEF T
      <3> QED
        BY <2>1, NatMin
    <2>3. CASE n = 0
      BY <1>2, <2>2, <2>3 DEF RetainStep
    <2>4. CASE n > 0
      <3>1. n - 1 \in 0 .. Len(s) /\ H[n - 1] \in Seq(S)
        BY <2>2, <2>4
      <3>2. s[n] \in S
        BY <2>2, <2>4
      <3>3. H[n] = IF s[n] # p THEN Append(H[n - 1], s[n]) ELSE H[n - 1]
        <4>1. n \in 0 .. Len(s) /\ n # 0
          BY <2>2, <2>4
        <4> HIDE DEF T
        <4>2. \A i \in 0 .. Len(s) : H[i] = RetainStep(s, p, H, i)
          BY <1>2
        <4> QED
          BY <4>1, <4>2 DEF RetainStep
      <3>4. H[n] \in Seq(S)
        <4> HIDE DEF T
        <4>1. Append(H[n - 1], s[n]) \in Seq(S)
           BY <3>1, <3>2
        <4> QED
          BY <3>1, <3>3, <4>1
      <3>5. H[n] \notin Seq(S)
        BY <2>2
      <3> QED
        BY <3>4, <3>5
    <2> QED
      BY <2>2, <2>3, <2>4
  <1>5. \A i \in 0 .. Len(s) : H[i] \in Seq(S) /\ H[i] = RetainStep(s, p, H, i)
    BY <1>2, <1>4
  <1> QED
    BY <1>3, <1>5

\* Retain (VecDeque::retain in CancelDownload) keeps a sequence a sequence.
LEMMA RetainType ==
  ASSUME NEW S, NEW s \in Seq(S), NEW p
  PROVE  Retain(s, p) \in Seq(S)
BY RetainRun

-----------------------------------------------------------------------------
(* The steps of a thread.                                                  *)

\* The message at the head of a channel has the fields of its type.
LEMMA HeadFields ==
  ASSUME TypeOK, NEW t \in Thread, receiver[t] # <<>>
  PROVE  LET m == Head(receiver[t])
         IN /\ m.type \in {"NewDownload", "CancelDownload"} => m.path \in Paths
            /\ m.type = "NewConfig" => m.config \in Config
            /\ m.type = "NewSharedUser" => m.publicId \in Ids
PROOF
  <1>1. Head(receiver[t]) \in Message
    BY DEF TypeOK
  <1> QED
    BY <1>1 DEF Message

\* What ThreadFrame leaves alone keeps its type.
LEMMA ThreadFrameType ==
  ASSUME TypeOK, ThreadFrame
  PROVE  /\ config' \in Config /\ channel_map' \in [Users -> 0 .. MaxThreads]
         /\ is_downloading_paused' \in BOOLEAN
         /\ todo' \in [call: TodoCalls, user: Users \cup {None}]
         /\ spawned' \in [Users -> 0 .. MaxThreads]
         /\ commands' \in 0 .. MaxCommands /\ conns' \in 0 .. MaxConns
         /\ overlapped' \in SUBSET Users
BY DEF TypeOK, ThreadFrame, mgrVars, boundVars

\* The queue in memory and on disk.
LEMMA SetQueueType ==
  ASSUME TypeOK, NEW t \in Thread, NEW q \in Seq(Paths), SetQueue(t, q)
  PROVE  /\ download_queue' \in [Thread -> Seq(Paths)]
         /\ queue_file' \in [Users -> Seq(Paths)] /\ file_tail' \in [Users -> Tails]
<1>1. t[1] \in Users
  BY DEF Thread
<1> QED
  BY <1>1 DEF TypeOK, SetQueue, Tails

LEMMA FinishType ==
  ASSUME TypeOK, NEW t \in Thread, download_queue[t] # <<>>, FinishActive(t)
  PROVE  /\ /\ download_queue' \in [Thread -> Seq(Paths)]
         /\ queue_file' \in [Users -> Seq(Paths)] /\ file_tail' \in [Users -> Tails]
         /\ active_download_path' \in [Thread -> Paths \cup {None}]
         /\ wanted' \in [Users -> SUBSET Paths]
PROOF
  <1>1. Tail(download_queue[t]) \in Seq(Paths)
    BY DEF TypeOK
  <1>2. /\ download_queue' \in [Thread -> Seq(Paths)]
        /\ queue_file' \in [Users -> Seq(Paths)] /\ file_tail' \in [Users -> Tails]
    BY <1>1, SetQueueType DEF FinishActive
  <1>3. wanted' \in [Users -> SUBSET Paths]
    BY DEF FinishActive, TypeOK
  <1> QED
    BY <1>2, <1>3 DEF FinishActive, TypeOK

\* Control moves to a control point.
LEMMA GotoType ==
  ASSUME TypeOK, NEW t \in Thread, NEW label \in PCs, Goto(t, label)
  PROVE  pc' \in [Thread -> PCs]
BY DEF TypeOK, Goto

\* A write that fails leaves a queue file of the same user behind.
LEMMA CutOffType ==
  ASSUME TypeOK, NEW u \in Users, NEW q \in Seq(Paths), WriteCutOff(u, q)
  PROVE  /\ queue_file' \in [Users -> Seq(Paths)] /\ file_tail' \in [Users -> Tails]
         /\ \A v \in Users \ {u} : queue_file'[v] = queue_file[v]
PROOF
  <1>1. \A n \in 0 .. Len(q) - 1 : SubSeq(q, 1, n) \in Seq(Paths)
    OBVIOUS
  <1>2. CASE UNCHANGED <<queue_file, file_tail>>
    BY <1>2 DEF TypeOK
  <1>3. CASE ~ UNCHANGED <<queue_file, file_tail>>
    <2>1. PICK n \in 0 .. Len(q) - 1 :
            \/ /\ queue_file' = [queue_file EXCEPT ![u] = SubSeq(q, 1, n)]
               /\ \E tail \in {IF n = 0 THEN "open" ELSE "line", "cut"} :
                    file_tail' = [file_tail EXCEPT ![u] = tail]
            \/ /\ \E x \in Paths :
                    queue_file' = [queue_file EXCEPT ![u] = Append(SubSeq(q, 1, n), x)]
               /\ file_tail' = [file_tail EXCEPT ![u] = "open"]
      BY <1>3 DEF WriteCutOff
    <2>2. PICK r \in Seq(Paths) : queue_file' = [queue_file EXCEPT ![u] = r]
      <3>1. SubSeq(q, 1, n) \in Seq(Paths)
        BY <1>1
      <3>2. \A x \in Paths : Append(SubSeq(q, 1, n), x) \in Seq(Paths)
        BY <3>1
      <3> QED
        BY <2>1, <3>1, <3>2
    <2>3. PICK tail \in Tails : file_tail' = [file_tail EXCEPT ![u] = tail]
      BY <2>1 DEF Tails
    <2> QED
      BY <2>2, <2>3 DEF TypeOK
  <1> QED
    BY <1>2, <1>3

\* The messages whose arms write the queue.
QueueTypes == {"NewDownload", "CancelDownload", "CancelAllDownloads", "RemoveUser"}

\* A step in which write_queue fails: a message is read or an item is popped, and run
\* begins again.
LEMMA QueueWriteFailsFacts ==
  ASSUME TypeOK, NEW t \in Thread, QueueWriteFails(t)
  PROVE  /\ ThreadFrame /\ Goto(t, "init") /\ GiveUpUnwritten(t)
         /\ pc[t] \in {"poll_rx", "select", "transfer"}
         /\ stream' = [stream EXCEPT ![t] = None]
         /\ \E q \in Seq(Paths) : /\ download_queue' = [download_queue EXCEPT ![t] = q]
                                  /\ WriteCutOff(t[1], q)
         /\ UNCHANGED <<ret, rev_receiver, paused, reverse_connection, thread_config,
                        shared_user, refresh_data>>
         /\ \/ UNCHANGED <<receiver, stop_downloading, shutdown, active_download_path>>
            \/ /\ receiver[t] # <<>> /\ Head(receiver[t]).type \in QueueTypes
               /\ receiver' = [receiver EXCEPT ![t] = Tail(@)]
               /\ \E b \in BOOLEAN : stop_downloading' = [stop_downloading EXCEPT ![t] = b]
               /\ shutdown' = [shutdown EXCEPT ![t] = @ \/ Head(receiver[t]).type = "RemoveUser"]
               /\ \E a \in Paths \cup {None} :
                    active_download_path' = [active_download_path EXCEPT ![t] = a]
PROOF
  <1>0. /\ download_queue[t] \in Seq(Paths) /\ stop_downloading[t] \in BOOLEAN
        /\ active_download_path[t] \in Paths \cup {None}
    BY DEF TypeOK
  <1>1. CASE FinishFails(t)
    <2>1. Tail(download_queue[t]) \in Seq(Paths)
      BY <1>0, <1>1 DEF FinishFails
    <2> QED
      BY <1>1, <2>1 DEF FinishFails, WriteFails, chanVars
  <1>2. CASE ReadFails(t)
    <2> DEFINE m == Head(receiver[t])
               q == CASE m.type = "NewDownload"    -> Append(download_queue[t], m.path)
                      [] m.type = "CancelDownload" -> Retain(download_queue[t], m.path)
                      [] OTHER                     -> <<>>
    <2>1. receiver[t] # <<>> /\ m.type \in QueueTypes
      BY <1>2 DEF ReadFails, QueueTypes
    <2>2. q \in Seq(Paths)
      <3>1. Retain(download_queue[t], m.path) \in Seq(Paths)
        BY <1>0, RetainType
      <3>2. m.type = "NewDownload" => m.path \in Paths
        BY <2>1, HeadFields
      <3> QED
        BY <1>0, <3>1, <3>2
    <2>3. /\ ThreadFrame /\ pc[t] = "poll_rx" /\ receiver' = [receiver EXCEPT ![t] = Tail(@)]
          /\ WriteFails(t, q)
          /\ shutdown' = [shutdown EXCEPT ![t] = @ \/ m.type = "RemoveUser"]
          /\ UNCHANGED <<ret, rev_receiver, paused, reverse_connection, thread_config,
                         shared_user, refresh_data>>
      BY <1>2 DEF ReadFails
    <2>4. \E b \in BOOLEAN : stop_downloading' = [stop_downloading EXCEPT ![t] = b]
      BY <1>0, <1>2 DEF ReadFails
    <2>5. \E a \in Paths \cup {None} :
            active_download_path' = [active_download_path EXCEPT ![t] = a]
      BY <1>0, <1>2 DEF ReadFails
    <2> HIDE DEF q
    <2> QED
      BY <2>1, <2>2, <2>3, <2>4, <2>5 DEF WriteFails
  <1> QED
    BY <1>1, <1>2 DEF QueueWriteFails

\* Such a step keeps the types.
LEMMA QueueWriteFailsType ==
  ASSUME TypeOK, NEW t \in Thread, QueueWriteFails(t)
  PROVE  TypeOK'
PROOF
  <1>1. t[1] \in Users
    BY DEF Thread
  <1>2. PICK q \in Seq(Paths) : /\ download_queue' = [download_queue EXCEPT ![t] = q]
                               /\ WriteCutOff(t[1], q)
    BY QueueWriteFailsFacts
  <1>3. /\ download_queue' \in [Thread -> Seq(Paths)]
        /\ queue_file' \in [Users -> Seq(Paths)] /\ file_tail' \in [Users -> Tails]
    BY <1>1, <1>2, CutOffType DEF TypeOK
  <1>4. /\ receiver' \in [Thread -> Seq(Message)] /\ shutdown' \in [Thread -> BOOLEAN]
        /\ stop_downloading' \in [Thread -> BOOLEAN]
        /\ active_download_path' \in [Thread -> Paths \cup {None}]
    <2>1. CASE UNCHANGED <<receiver, stop_downloading, shutdown, active_download_path>>
      BY <2>1 DEF TypeOK
    <2>2. CASE ~ UNCHANGED <<receiver, stop_downloading, shutdown, active_download_path>>
      <3>1. receiver[t] # <<>> /\ receiver' = [receiver EXCEPT ![t] = Tail(@)]
        BY <2>2, QueueWriteFailsFacts
      <3>2. receiver' \in [Thread -> Seq(Message)]
        BY <3>1 DEF TypeOK
      <3>3. /\ \E b \in BOOLEAN : stop_downloading' = [stop_downloading EXCEPT ![t] = b]
            /\ \E b \in BOOLEAN : shutdown' = [shutdown EXCEPT ![t] = b]
            /\ \E a \in Paths \cup {None} :
                 active_download_path' = [active_download_path EXCEPT ![t] = a]
        BY <2>2, QueueWriteFailsFacts DEF TypeOK
      <3> QED
        BY <3>2, <3>3 DEF TypeOK
    <2> QED
      BY <2>1, <2>2
  <1>5. /\ ThreadFrame /\ pc' \in [Thread -> PCs] /\ stream' \in [Thread -> Conn \cup {None}]
        /\ wanted' \in [Users -> SUBSET Paths]
        /\ UNCHANGED <<ret, rev_receiver, paused, reverse_connection, thread_config,
                       shared_user, refresh_data>>
    <2>1. pc' \in [Thread -> PCs]
      BY QueueWriteFailsFacts, GotoType DEF PCs
    <2>2. wanted' \in [Users -> SUBSET Paths]
      <3>1. GiveUpUnwritten(t)
        BY QueueWriteFailsFacts
      <3> QED
        BY <3>1 DEF GiveUpUnwritten, TypeOK
    <2>3. stream' \in [Thread -> Conn \cup {None}]
      BY QueueWriteFailsFacts DEF TypeOK
    <2> QED
      BY <2>1, <2>2, <2>3, QueueWriteFailsFacts
  <1> QED
    BY <1>3, <1>4, <1>5, ThreadFrameType DEF TypeOK

\* A thread that ends.
LEMMA ExitType ==
  ASSUME TypeOK, NEW t \in Thread, ThreadFrame, Exit(t)
  PROVE  TypeOK'
PROOF
  <1>1. pc' \in [Thread -> PCs]
    BY DEF TypeOK, Exit, Goto, PCs
  <1>2. /\ receiver' \in [Thread -> Seq(Message)] /\ rev_receiver' \in [Thread -> Seq(Conn)]
        /\ download_queue' \in [Thread -> Seq(Paths)]
    BY DEF TypeOK, Exit
  <1>3. /\ active_download_path' \in [Thread -> Paths \cup {None}]
        /\ reverse_connection' \in [Thread -> Conn \cup {None}]
        /\ stream' \in [Thread -> Conn \cup {None}]
    BY DEF TypeOK, Exit
  <1> QED
    BY <1>1, <1>2, <1>3, ThreadFrameType DEF TypeOK, Exit

\* read_receiver is called.
LEMMA PollType ==
  ASSUME TypeOK, NEW t \in Thread, NEW label \in Returns, Poll(t, label)
  PROVE  pc' \in [Thread -> PCs] /\ ret' \in [Thread -> Returns]
BY DEF TypeOK, Poll, Goto, PCs

\* read_receiver keeps the types.
LEMMA ReadReceiverType ==
  ASSUME TypeOK, NEW t \in Thread, ReadReceiver(t)
  PROVE  TypeOK'
PROOF
  <1>1. CASE PollRev(t)
    <2>0. ThreadFrame
      BY <1>1 DEF PollRev
    <2>1. CASE /\ rev_receiver[t] # <<>>
               /\ rev_receiver' = [rev_receiver EXCEPT ![t] = Tail(@)]
               /\ reverse_connection' = [reverse_connection EXCEPT ![t] = Head(rev_receiver[t])]
               /\ stop_downloading' = [stop_downloading EXCEPT ![t] = TRUE]
               /\ Goto(t, "poll_rx")
               /\ UNCHANGED <<ret, receiver, download_queue, active_download_path, paused,
                              shutdown, stream, thread_config, shared_user, refresh_data,
                              queue_file, file_tail, wanted>>
      <3>1. Tail(rev_receiver[t]) \in Seq(Conn) /\ Head(rev_receiver[t]) \in Conn
        BY <2>1 DEF TypeOK
      <3>2. pc' \in [Thread -> PCs]
        BY <2>1, GotoType DEF PCs
      <3>3. /\ rev_receiver' \in [Thread -> Seq(Conn)]
            /\ reverse_connection' \in [Thread -> Conn \cup {None}]
            /\ stop_downloading' \in [Thread -> BOOLEAN]
        BY <2>1, <3>1 DEF TypeOK
      <3> QED
        BY <2>0, <2>1, <3>2, <3>3, ThreadFrameType DEF TypeOK
    <2>2. CASE /\ Goto(t, "poll_rx")
               /\ UNCHANGED <<ret, chanVars, localVars, refresh_data, queue_file, file_tail, wanted>>
      <3>1. pc' \in [Thread -> PCs]
        BY <2>2, GotoType DEF PCs
      <3> QED
        BY <2>0, <2>2, <3>1, ThreadFrameType DEF TypeOK, chanVars, localVars
    <2>3. CASE Exit(t)
      BY <2>0, <2>3, ExitType
    <2> QED
      BY <1>1, <2>1, <2>2, <2>3 DEF PollRev
  <1>2. ASSUME NEW type, Receive(t, type)
        PROVE  /\ ThreadFrame
               /\ receiver' \in [Thread -> Seq(Message)] /\ pc' \in [Thread -> PCs]
               /\ ret' \in [Thread -> Returns] /\ rev_receiver' \in [Thread -> Seq(Conn)]
               /\ reverse_connection' \in [Thread -> Conn \cup {None}]
               /\ stream' \in [Thread -> Conn \cup {None}]
               /\ refresh_data' \in [Users -> {"absent", "nodata", "data"}]
               /\ wanted' \in [Users -> SUBSET Paths]
               /\ receiver[t] # <<>> /\ Head(receiver[t]).type = type
    <2>1. Tail(receiver[t]) \in Seq(Message)
      BY <1>2 DEF Receive, TypeOK
    <2>2. pc' \in [Thread -> PCs]
      BY <1>2, GotoType DEF Receive, PCs
    <2> QED
      BY <1>2, <2>1, <2>2 DEF Receive, TypeOK
  <1>3. Stop(t) => stop_downloading' \in [Thread -> BOOLEAN]
    BY DEF Stop, TypeOK
  <1>4. CASE OnNewDownload(t)
    <2>1. Receive(t, "NewDownload")
      BY <1>4 DEF OnNewDownload
    <2>2. Append(download_queue[t], Head(receiver[t]).path) \in Seq(Paths)
      <3>1. Head(receiver[t]).path \in Paths
        BY <1>2, <2>1, HeadFields
      <3> QED
        BY <3>1 DEF TypeOK
    <2>3. /\ download_queue' \in [Thread -> Seq(Paths)]
          /\ queue_file' \in [Users -> Seq(Paths)] /\ file_tail' \in [Users -> Tails]
      BY <1>4, <2>2, SetQueueType DEF OnNewDownload
    <2> QED
      BY <1>2, <1>4, <2>1, <2>3, ThreadFrameType DEF TypeOK, OnNewDownload
  <1>5. CASE OnCancelDownload(t)
    <2>1. Receive(t, "CancelDownload") /\ Stop(t)
      BY <1>5 DEF OnCancelDownload
    <2>2. Retain(download_queue[t], Head(receiver[t]).path) \in Seq(Paths)
      BY RetainType DEF TypeOK
    <2>3. /\ download_queue' \in [Thread -> Seq(Paths)]
          /\ queue_file' \in [Users -> Seq(Paths)] /\ file_tail' \in [Users -> Tails]
      BY <1>5, <2>2, SetQueueType DEF OnCancelDownload
    <2>4. active_download_path' \in [Thread -> Paths \cup {None}]
      BY <1>5 DEF OnCancelDownload, TypeOK
    <2> QED
      BY <1>2, <1>3, <1>5, <2>1, <2>3, <2>4, ThreadFrameType DEF TypeOK, OnCancelDownload
  <1>6. CASE OnCancelAll(t) \/ OnRemoveUser(t)
    <2>1. (Receive(t, "CancelAllDownloads") \/ Receive(t, "RemoveUser")) /\ Stop(t)
      BY <1>6 DEF OnCancelAll, OnRemoveUser
    <2>2. SetQueue(t, <<>>)
      BY <1>6 DEF OnCancelAll, OnRemoveUser
    <2>3. /\ download_queue' \in [Thread -> Seq(Paths)]
          /\ queue_file' \in [Users -> Seq(Paths)] /\ file_tail' \in [Users -> Tails]
      <3>1. <<>> \in Seq(Paths)
        OBVIOUS
      <3> QED
        BY <2>2, <3>1, SetQueueType
    <2>4. active_download_path' \in [Thread -> Paths \cup {None}]
      BY <1>6 DEF OnCancelAll, OnRemoveUser, TypeOK
    <2>5. shutdown' \in [Thread -> BOOLEAN]
      BY <1>6 DEF OnCancelAll, OnRemoveUser, TypeOK
    <2>6. UNCHANGED <<paused, thread_config, shared_user>>
      BY <1>6 DEF OnCancelAll, OnRemoveUser
    <2> QED
      BY <1>2, <1>3, <2>1, <2>3, <2>4, <2>5, <2>6, ThreadFrameType DEF TypeOK
  <1>7. CASE OnPause(t)
    BY <1>2, <1>3, <1>7, ThreadFrameType DEF OnPause, TypeOK
  <1>8. CASE OnResume(t)
    BY <1>2, <1>8, ThreadFrameType DEF OnResume, TypeOK
  <1>9. CASE OnNewSharedUser(t)
    <2>1. Head(receiver[t]).publicId \in Ids
      BY <1>2, <1>9, HeadFields DEF OnNewSharedUser
    <2>2. shared_user' \in [Thread -> Ids]
      BY <1>9, <2>1 DEF OnNewSharedUser, TypeOK
    <2> QED
      BY <1>2, <1>3, <1>9, <2>2, ThreadFrameType DEF OnNewSharedUser, TypeOK
  <1>10. CASE OnRestartConnection(t)
    BY <1>2, <1>3, <1>10, ThreadFrameType DEF OnRestartConnection, TypeOK
  <1>11. CASE OnNewConfig(t)
    <2>1. Head(receiver[t]).config \in Config
      BY <1>2, <1>11, HeadFields DEF OnNewConfig
    <2>2. thread_config' \in [Thread -> Config]
      BY <1>11, <2>1 DEF OnNewConfig, TypeOK
    <2> QED
      BY <1>2, <1>3, <1>11, <2>2, ThreadFrameType DEF OnNewConfig, TypeOK
  <1>12. CASE PollRxEmpty(t)
    <2>1. CASE Registered(t)
      <3>1. ret[t] \in PCs
        BY DEF TypeOK, Returns, PCs
      <3>2. pc' \in [Thread -> PCs]
        BY <1>12, <2>1, <3>1, GotoType DEF PollRxEmpty
      <3> QED
        BY <1>12, <2>1, <3>2, ThreadFrameType DEF PollRxEmpty, TypeOK, chanVars, localVars
    <2>2. CASE ~ Registered(t)
      BY <1>12, <2>2, ExitType DEF PollRxEmpty
    <2> QED
      BY <2>1, <2>2
  <1> QED
    BY <1>1, <1>4, <1>5, <1>6, <1>7, <1>8, <1>9, <1>10, <1>11, <1>12 DEF ReadReceiver

-----------------------------------------------------------------------------
(* The invariant.  TypeOK alone is not inductive: set_active_download_     *)
(* finished takes the tail of the queue, which is a queue only because a   *)
(* transfer always has its item at the head.                               *)

\* Between the top of run's loop and the first poll of a transfer nothing stops it.
Underway ==
  \A t \in Thread :
    pc[t] \in {"connect", "listing", "lookup", "select", "transfer"} => ~ stop_downloading[t]

\* The thread is inside a transfer and will go on with it if no message stops it.
Transferring(t) ==
  \/ pc[t] = "transfer"
  \/ /\ ~ stop_downloading[t]
     /\ \/ pc[t] = "transferred"
        \/ pc[t] \in {"poll_rev", "poll_rx"} /\ ret[t] = "transferred"

\* What a transfer relies on, kept through every poll of the channels.
TransferOfHead ==
  \A t \in Thread : Transferring(t) =>
    download_queue[t] # <<>> /\ active_download_path[t] = Head(download_queue[t])

IInv == TypeOK /\ Underway /\ TransferOfHead

\* The steps of run keep the types.
LEMMA RunType ==
  ASSUME IInv, NEW t \in Thread,
         \/ StartRun(t) \/ OuterLoop(t) \/ Connect(t) \/ SetEverythingFile(t)
         \/ LookupEverythingFile(t) \/ SelectItem(t) \/ Transfer(t) \/ InnerLoop(t)
  PROVE  TypeOK'
PROOF
  <1>0. TypeOK /\ TransferOfHead
    BY DEF IInv
  <1>r. ASSUME RunFrame
        PROVE  /\ ThreadFrame
               /\ receiver' \in [Thread -> Seq(Message)] /\ rev_receiver' \in [Thread -> Seq(Conn)]
               /\ download_queue' \in [Thread -> Seq(Paths)]
               /\ queue_file' \in [Users -> Seq(Paths)] /\ file_tail' \in [Users -> Tails]
               /\ active_download_path' \in [Thread -> Paths \cup {None}]
               /\ paused' \in [Thread -> BOOLEAN] /\ shutdown' \in [Thread -> BOOLEAN]
               /\ thread_config' \in [Thread -> Config] /\ shared_user' \in [Thread -> Ids]
               /\ wanted' \in [Users -> SUBSET Paths]
    BY <1>0, <1>r DEF RunFrame, chanVars, TypeOK
  <1>p. ASSUME NEW label \in {"outer", "inner", "transferred"}, Poll(t, label)
        PROVE  pc' \in [Thread -> PCs] /\ ret' \in [Thread -> Returns]
    BY <1>0, <1>p, PollType DEF Returns
  <1>g. ASSUME NEW label \in {"init", "connect", "listing", "lookup", "select", "transfer"},
               Goto(t, label)
        PROVE  pc' \in [Thread -> PCs]
    BY <1>0, <1>g, GotoType DEF PCs
  <1>1. CASE StartRun(t)
    <2>1. queue_file[t[1]] \in Seq(Paths)
      BY <1>0 DEF TypeOK, Thread
    <2>2. download_queue' \in [Thread -> Seq(Paths)]
      BY <1>0, <1>1, <2>1 DEF StartRun, TypeOK
    <2> QED
      BY <1>0, <1>1, <1>p, <2>2, ThreadFrameType DEF StartRun, TypeOK, chanVars
  <1>2. CASE OuterLoop(t)
    <2>1. CASE shutdown[t]
      BY <1>0, <1>2, <2>1, ExitType DEF OuterLoop
    <2>2. CASE ~ shutdown[t]
      <3>1. RunFrame /\ UNCHANGED refresh_data
        BY <1>2, <2>2 DEF OuterLoop
      <3>2. stop_downloading' \in [Thread -> BOOLEAN]
        BY <1>0, <1>2, <2>2 DEF OuterLoop, TypeOK
      <3>3. pc' \in [Thread -> PCs] /\ ret' \in [Thread -> Returns]
        BY <1>0, <1>2, <2>2, <1>p, <1>g DEF OuterLoop, TypeOK
      <3>4. /\ reverse_connection' \in [Thread -> Conn \cup {None}]
            /\ stream' \in [Thread -> Conn \cup {None}]
        BY <1>0, <1>2, <2>2 DEF OuterLoop, TypeOK
      <3> QED
        BY <1>0, <1>r, <3>1, <3>2, <3>3, <3>4, ThreadFrameType DEF TypeOK
    <2> QED
      BY <2>1, <2>2
  <1>3. CASE Connect(t)
    <2>1. RunFrame /\ UNCHANGED <<stop_downloading, reverse_connection, refresh_data>>
      BY <1>3 DEF Connect
    <2>2. [localId |-> thread_config[t].localId, publicId |-> shared_user[t],
           ignored |-> FALSE, list |-> FALSE] \in Conn
      BY <1>0 DEF TypeOK, Config, Conn
    <2>3. stream' \in [Thread -> Conn \cup {None}]
      BY <1>0, <1>3, <2>2 DEF Connect, TypeOK
    <2>4. pc' \in [Thread -> PCs] /\ ret' \in [Thread -> Returns]
      BY <1>0, <1>3, <1>p, <1>g DEF Connect, TypeOK
    <2> QED
      BY <1>0, <1>r, <2>1, <2>3, <2>4, ThreadFrameType DEF TypeOK
  <1>4. CASE SetEverythingFile(t)
    <2>1. RunFrame
      BY <1>4 DEF SetEverythingFile
    <2>2. t[1] \in Users
      BY DEF Thread
    <2>3. refresh_data' \in [Users -> {"absent", "nodata", "data"}]
      BY <1>0, <1>4, <2>2 DEF SetEverythingFile, TypeOK
    <2>4. pc' \in [Thread -> PCs] /\ ret' \in [Thread -> Returns]
      BY <1>0, <1>4, <1>g DEF SetEverythingFile, FailRun, TypeOK
    <2>5. /\ reverse_connection' \in [Thread -> Conn \cup {None}]
          /\ stream' \in [Thread -> Conn \cup {None}]
          /\ stop_downloading' \in [Thread -> BOOLEAN]
      BY <1>0, <1>4 DEF SetEverythingFile, FailRun, TypeOK
    <2> QED
      BY <1>0, <1>r, <2>1, <2>3, <2>4, <2>5, ThreadFrameType DEF TypeOK
  <1>5. CASE LookupEverythingFile(t)
    <2>1. RunFrame /\ UNCHANGED <<stop_downloading, reverse_connection, refresh_data>>
      BY <1>5 DEF LookupEverythingFile
    <2>2. stream' \in [Thread -> Conn \cup {None}]
      BY <1>0, <1>5 DEF LookupEverythingFile, TypeOK
    <2>3. pc' \in [Thread -> PCs] /\ ret' \in [Thread -> Returns]
      BY <1>0, <1>5, <1>p, <1>g DEF LookupEverythingFile, TypeOK
    <2> QED
      BY <1>0, <1>r, <2>1, <2>2, <2>3, ThreadFrameType DEF TypeOK
  <1>6. CASE SelectItem(t)
    <2>1. /\ ThreadFrame
          /\ UNCHANGED <<receiver, rev_receiver, paused, stop_downloading, shutdown,
                         reverse_connection, thread_config, shared_user, refresh_data>>
      BY <1>6 DEF SelectItem, chanVars
    <2>2. pc' \in [Thread -> PCs] /\ ret' \in [Thread -> Returns]
      BY <1>0, <1>6, <1>p, <1>g DEF SelectItem, pcVars, TypeOK
    <2>3. stream' \in [Thread -> Conn \cup {None}]
      BY <1>0, <1>6 DEF SelectItem, TypeOK
    <2>4. /\ download_queue' \in [Thread -> Seq(Paths)]
          /\ queue_file' \in [Users -> Seq(Paths)] /\ file_tail' \in [Users -> Tails]
          /\ active_download_path' \in [Thread -> Paths \cup {None}]
          /\ wanted' \in [Users -> SUBSET Paths]
      <3>1. CASE download_queue[t] # <<>> /\ FinishActive(t)
        BY <1>0, <3>1, FinishType
      <3>2. CASE UNCHANGED <<download_queue, active_download_path, queue_file, file_tail, wanted>>
        BY <1>0, <3>2 DEF TypeOK
      <3>3. CASE /\ download_queue[t] # <<>>
                 /\ active_download_path' =
                      [active_download_path EXCEPT ![t] = Head(download_queue[t])]
                 /\ UNCHANGED <<download_queue, queue_file, file_tail, wanted>>
        <4>1. Head(download_queue[t]) \in Paths
          BY <1>0, <3>3 DEF TypeOK
        <4> QED
          BY <1>0, <3>3, <4>1 DEF TypeOK
      <3> QED
        BY <1>6, <3>1, <3>2, <3>3 DEF SelectItem
    <2> QED
      BY <1>0, <2>1, <2>2, <2>3, <2>4, ThreadFrameType DEF TypeOK
  <1>7. CASE TransferStep(t) \/ AfterTransferPoll(t)
    <2>1. RunFrame /\ UNCHANGED <<stop_downloading, reverse_connection, stream, refresh_data>>
      BY <1>7 DEF TransferStep, AfterTransferPoll
    <2>2. pc' \in [Thread -> PCs] /\ ret' \in [Thread -> Returns]
      BY <1>0, <1>7, <1>p, <1>g DEF TransferStep, AfterTransferPoll, TypeOK
    <2> QED
      BY <1>0, <1>r, <2>1, <2>2, ThreadFrameType DEF TypeOK
  <1>8. CASE TransferDone(t)
    <2>1. download_queue[t] # <<>>
      BY <1>0, <1>8 DEF TransferDone, TransferOfHead, Transferring
    <2>2. /\ /\ download_queue' \in [Thread -> Seq(Paths)]
          /\ queue_file' \in [Users -> Seq(Paths)] /\ file_tail' \in [Users -> Tails]
          /\ active_download_path' \in [Thread -> Paths \cup {None}]
          /\ wanted' \in [Users -> SUBSET Paths]
      BY <1>0, <1>8, <2>1, FinishType DEF TransferDone
    <2>3. pc' \in [Thread -> PCs] /\ ret' \in [Thread -> Returns]
      BY <1>8, <1>p DEF TransferDone
    <2> QED
      BY <1>0, <1>8, <2>2, <2>3, ThreadFrameType DEF TransferDone, TypeOK, chanVars
  <1>9. CASE TransferError(t)
    <2>1. download_queue[t] # <<>>
      BY <1>0, <1>9 DEF TransferError, TransferOfHead, Transferring
    <2>2. /\ ThreadFrame /\ FailRun(t)
          /\ UNCHANGED <<receiver, rev_receiver, paused, shutdown, thread_config, shared_user>>
      BY <1>9 DEF TransferError, chanVars
    <2>3. /\ /\ download_queue' \in [Thread -> Seq(Paths)]
          /\ queue_file' \in [Users -> Seq(Paths)] /\ file_tail' \in [Users -> Tails]
          /\ active_download_path' \in [Thread -> Paths \cup {None}]
          /\ wanted' \in [Users -> SUBSET Paths]
      <3>1. CASE FinishActive(t)
        BY <1>0, <2>1, <3>1, FinishType
      <3>2. CASE UNCHANGED <<download_queue, active_download_path, queue_file, file_tail, wanted>>
        BY <1>0, <3>2 DEF TypeOK
      <3> QED
        BY <1>9, <3>1, <3>2 DEF TransferError
    <2>4. refresh_data' \in [Users -> {"absent", "nodata", "data"}]
      <3>1. t[1] \in Users
        BY DEF Thread
      <3> QED
        BY <1>0, <1>9, <3>1 DEF TransferError, TypeOK
    <2>5. pc' \in [Thread -> PCs] /\ ret' \in [Thread -> Returns]
      BY <1>0, <1>g, <2>2 DEF FailRun, TypeOK
    <2>6. /\ reverse_connection' \in [Thread -> Conn \cup {None}]
          /\ stream' \in [Thread -> Conn \cup {None}]
          /\ stop_downloading' \in [Thread -> BOOLEAN]
      BY <1>0, <2>2 DEF FailRun, TypeOK
    <2> QED
      BY <1>0, <2>2, <2>3, <2>4, <2>5, <2>6, ThreadFrameType DEF TypeOK
  <1>10. CASE InnerLoop(t)
    <2>1. RunFrame /\ UNCHANGED <<stop_downloading, reverse_connection, refresh_data>>
      BY <1>10 DEF InnerLoop
    <2>2. stream' \in [Thread -> Conn \cup {None}]
      BY <1>0, <1>10 DEF InnerLoop, TypeOK
    <2>3. pc' \in [Thread -> PCs] /\ ret' \in [Thread -> Returns]
      BY <1>0, <1>10, <1>p, <1>g DEF InnerLoop, TypeOK
    <2> QED
      BY <1>0, <1>r, <2>1, <2>2, <2>3, ThreadFrameType DEF TypeOK
  <1> QED
    BY <1>1, <1>2, <1>3, <1>4, <1>5, <1>6, <1>7, <1>8, <1>9, <1>10 DEF Transfer

\* Both halves of the invariant concern one thread at a time, and a thread changes
\* its own fields only.
Own(t) == <<pc[t], ret[t], stop_downloading[t], download_queue[t], active_download_path[t]>>

ControlOf(t) ==
  /\ pc[t] \in {"connect", "listing", "lookup", "select", "transfer"} => ~ stop_downloading[t]
  /\ Transferring(t) =>
       download_queue[t] # <<>> /\ active_download_path[t] = Head(download_queue[t])

LEMMA ControlIsLocal ==
  ASSUME IInv, NEW t \in Thread, ControlOf(t)',
         \A o \in Thread \ {t} : UNCHANGED Own(o)
  PROVE  (Underway /\ TransferOfHead)'
BY DEF IInv, Underway, TransferOfHead, Transferring, ControlOf, Own

\* A thread's step changes the fields of no other thread.
LEMMA ThreadIsLocal ==
  ASSUME TypeOK, NEW t \in Thread, ThreadNext(t), NEW o \in Thread \ {t}
  PROVE  UNCHANGED Own(o)
PROOF
  <1> USE DEF Own
  <1>1. CASE StartRun(t)
    BY <1>1 DEF TypeOK, StartRun, Poll, Goto
  <1>2. CASE PollRev(t)
    BY <1>2 DEF TypeOK, PollRev, Exit, Goto, localVars
  <1>3. ASSUME NEW type, Receive(t, type)
        PROVE  pc'[o] = pc[o] /\ ret'[o] = ret[o]
    BY <1>3 DEF TypeOK, Receive, Goto
  <1>4. CASE OnNewDownload(t) \/ OnCancelDownload(t)
    BY <1>3, <1>4 DEF TypeOK, OnNewDownload, OnCancelDownload, SetQueue, Stop
  <1>5. CASE OnCancelAll(t) \/ OnRemoveUser(t)
    BY <1>3, <1>5 DEF TypeOK, OnCancelAll, OnRemoveUser, SetQueue, Stop
  <1>6. CASE OnPause(t) \/ OnResume(t) \/ OnNewSharedUser(t)
    BY <1>3, <1>6 DEF TypeOK, OnPause, OnResume, OnNewSharedUser, Stop
  <1>7. CASE OnRestartConnection(t) \/ OnNewConfig(t)
    BY <1>3, <1>7 DEF TypeOK, OnRestartConnection, OnNewConfig, Stop
  <1>8. CASE PollRxEmpty(t)
    BY <1>8 DEF TypeOK, PollRxEmpty, Exit, Goto, localVars
  <1>9. CASE OuterLoop(t)
    BY <1>9 DEF TypeOK, OuterLoop, RunFrame, Exit, Poll, Goto
  <1>10. CASE Connect(t) \/ SetEverythingFile(t) \/ LookupEverythingFile(t) \/ InnerLoop(t)
    BY <1>10 DEF TypeOK, Connect, SetEverythingFile, LookupEverythingFile, InnerLoop, RunFrame,
                 FailRun, Poll, Goto
  <1>11. CASE SelectItem(t)
    BY <1>11 DEF TypeOK, SelectItem, FinishActive, SetQueue, Poll, Goto, pcVars
  <1>12. CASE TransferStep(t) \/ AfterTransferPoll(t)
    BY <1>12 DEF TypeOK, TransferStep, AfterTransferPoll, RunFrame, Poll, Goto
  <1>13. CASE TransferDone(t) \/ TransferError(t)
    BY <1>13 DEF TypeOK, TransferDone, TransferError, FailRun, FinishActive, SetQueue, Poll, Goto
  <1>14. CASE QueueWriteFails(t)
    <2>1. PICK q \in Seq(Paths) : download_queue' = [download_queue EXCEPT ![t] = q]
      BY <1>14, QueueWriteFailsFacts
    <2>2. UNCHANGED <<stop_downloading[o], active_download_path[o]>>
      <3>1. CASE UNCHANGED <<stop_downloading, active_download_path>>
        BY <3>1
      <3>2. CASE /\ \E b \in BOOLEAN : stop_downloading' = [stop_downloading EXCEPT ![t] = b]
                 /\ \E a \in Paths \cup {None} :
                      active_download_path' = [active_download_path EXCEPT ![t] = a]
        BY <3>2 DEF TypeOK
      <3> QED
        BY <1>14, <3>1, <3>2, QueueWriteFailsFacts
    <2>3. pc' = [pc EXCEPT ![t] = "init"] /\ UNCHANGED ret
      BY <1>14, QueueWriteFailsFacts DEF Goto
    <2> QED
      BY <2>1, <2>2, <2>3 DEF TypeOK
  <1> QED
    BY <1>1, <1>2, <1>4, <1>5, <1>6, <1>7, <1>8, <1>9, <1>10, <1>11, <1>12, <1>13, <1>14
       DEF ThreadNext, ReadReceiver, Transfer

\* A message that sets stop_downloading ends the transfer, and a new download goes to
\* the other end of the queue: read_receiver keeps the invariant.
LEMMA ReadReceiverControl ==
  ASSUME IInv, NEW t \in Thread, ReadReceiver(t)
  PROVE  ControlOf(t)'
PROOF
  <1>0. TypeOK /\ ControlOf(t)
    BY DEF IInv, Underway, TransferOfHead, ControlOf
  <1> USE DEF ControlOf, Transferring
  <1>1. CASE PollRev(t)
    BY <1>0, <1>1 DEF TypeOK, PollRev, Exit, Goto, localVars
  <1>2. ASSUME NEW type, Receive(t, type)
        PROVE  pc[t] = "poll_rx" /\ pc'[t] = "poll_rev" /\ ret'[t] = ret[t]
    BY <1>0, <1>2 DEF TypeOK, Receive, Goto
  <1>3. Stop(t) => stop_downloading'[t]
    BY <1>0 DEF TypeOK, Stop
  <1>4. CASE OnNewDownload(t)
    <2>1. Receive(t, "NewDownload")
      BY <1>4 DEF OnNewDownload
    <2>2. Head(receiver[t]).path \in Paths
      BY <1>0, <2>1, HeadFields DEF Receive
    <2>3. download_queue'[t] = Append(download_queue[t], Head(receiver[t]).path)
      BY <1>0, <1>4 DEF TypeOK, OnNewDownload, SetQueue
    <2>4. download_queue[t] \in Seq(Paths)
      BY <1>0 DEF TypeOK
    <2>5. download_queue[t] # <<>> =>
            download_queue'[t] # <<>> /\ Head(download_queue'[t]) = Head(download_queue[t])
      BY <2>2, <2>3, <2>4
    <2> QED
      BY <1>0, <1>2, <1>4, <2>1, <2>5 DEF OnNewDownload
  <1>5. CASE \/ OnCancelDownload(t) \/ OnCancelAll(t) \/ OnRemoveUser(t) \/ OnPause(t)
             \/ OnNewSharedUser(t) \/ OnRestartConnection(t) \/ OnNewConfig(t)
    <2>1. Stop(t) /\ \E type : Receive(t, type)
      BY <1>5 DEF OnCancelDownload, OnCancelAll, OnRemoveUser, OnPause, OnNewSharedUser,
                  OnRestartConnection, OnNewConfig
    <2> QED
      BY <1>2, <1>3, <2>1
  <1>6. CASE OnResume(t)
    BY <1>0, <1>2, <1>6 DEF OnResume
  <1>7. CASE PollRxEmpty(t)
    <2>1. ret[t] \in Returns
      BY <1>0 DEF TypeOK
    <2> QED
      BY <1>0, <1>7, <2>1 DEF TypeOK, PollRxEmpty, Exit, Goto, localVars, Returns
  <1> QED
    BY <1>1, <1>4, <1>5, <1>6, <1>7 DEF ReadReceiver

\* So do the steps of run.
LEMMA RunControl ==
  ASSUME IInv, NEW t \in Thread,
         \/ StartRun(t) \/ OuterLoop(t) \/ Connect(t) \/ SetEverythingFile(t)
         \/ LookupEverythingFile(t) \/ SelectItem(t) \/ Transfer(t) \/ InnerLoop(t)
  PROVE  ControlOf(t)'
PROOF
  <1>0. TypeOK /\ ControlOf(t)
    BY DEF IInv, Underway, TransferOfHead, ControlOf
  <1> USE DEF ControlOf, Transferring
  <1>1. CASE StartRun(t)
    BY <1>0, <1>1 DEF TypeOK, StartRun, Poll, Goto
  <1>2. CASE OuterLoop(t)
    BY <1>0, <1>2 DEF TypeOK, OuterLoop, RunFrame, Exit, Poll, Goto
  <1>3. CASE Connect(t)
    BY <1>0, <1>3 DEF TypeOK, Connect, RunFrame, Poll, Goto
  <1>4. CASE SetEverythingFile(t)
    BY <1>0, <1>4 DEF TypeOK, SetEverythingFile, RunFrame, FailRun, Goto
  <1>5. CASE LookupEverythingFile(t)
    BY <1>0, <1>5 DEF TypeOK, LookupEverythingFile, RunFrame, Poll, Goto
  <1>6. CASE SelectItem(t)
    <2>1. pc[t] = "select" /\ stop_downloading' = stop_downloading /\ ~ stop_downloading[t]
      BY <1>0, <1>6 DEF SelectItem
    <2>2. CASE Poll(t, "outer")
      BY <1>0, <2>2 DEF TypeOK, Poll, Goto
    <2>3. CASE UNCHANGED pcVars
      BY <2>1, <2>3 DEF pcVars
    <2>4. CASE /\ download_queue[t] # <<>>
               /\ active_download_path' =
                    [active_download_path EXCEPT ![t] = Head(download_queue[t])]
               /\ Goto(t, "transfer") /\ UNCHANGED download_queue
      BY <1>0, <2>1, <2>4 DEF TypeOK, Goto
    <2> QED
      BY <1>6, <2>2, <2>3, <2>4 DEF SelectItem
  <1>7. CASE TransferStep(t)
    BY <1>0, <1>7 DEF TypeOK, TransferStep, RunFrame, Poll, Goto
  <1>8. CASE AfterTransferPoll(t)
    BY <1>0, <1>8 DEF TypeOK, AfterTransferPoll, RunFrame, Poll, Goto
  <1>9. CASE TransferDone(t)
    BY <1>0, <1>9 DEF TypeOK, TransferDone, Poll, Goto
  <1>10. CASE TransferError(t)
    BY <1>0, <1>10 DEF TypeOK, TransferError, FailRun, Goto
  <1>11. CASE InnerLoop(t)
    BY <1>0, <1>11 DEF TypeOK, InnerLoop, RunFrame, Poll, Goto
  <1> QED
    BY <1>1, <1>2, <1>3, <1>4, <1>5, <1>6, <1>7, <1>8, <1>9, <1>10, <1>11 DEF Transfer

\* A thread that begins run again is in no transfer.
LEMMA WriteFailsControl ==
  ASSUME TypeOK, NEW t \in Thread, QueueWriteFails(t)
  PROVE  ControlOf(t)'
PROOF
  <1>1. pc'[t] = "init"
    BY QueueWriteFailsFacts DEF Goto, TypeOK
  <1> QED
    BY <1>1 DEF ControlOf, Transferring

\* The manager never touches a running thread; it starts threads at "init", and a
\* restart of the program leaves no thread anywhere else.
LEMMA ManagerControl ==
  ASSUME IInv, UserNext \/ MgrTodo \/ ConnNext
  PROVE  (Underway /\ TransferOfHead)'
PROOF
  <1>0. TypeOK /\ Underway /\ TransferOfHead
    BY DEF IInv
  <1>1. CASE UNCHANGED <<pc, ret, stop_downloading, download_queue, active_download_path>>
    BY <1>0, <1>1 DEF Underway, TransferOfHead, Transferring
  <1>2. ASSUME NEW u \in Users, NEW conn,
               Spawn(u, conn, config, is_downloading_paused), SpawnUnchanged
        PROVE  (Underway /\ TransferOfHead)'
    <2>1. \A t \in Thread : pc'[t] = pc[t] \/ pc'[t] = "init"
      BY <1>0, <1>2 DEF Spawn, TypeOK
    <2> QED
      BY <1>0, <1>2, <2>1 DEF SpawnUnchanged, Underway, TransferOfHead, Transferring
  <1>3. CASE Restart
    <2>1. \A t \in Thread : pc'[t] \in {"init", "unborn", "dead"}
      BY <1>3 DEF Restart
    <2> QED
      BY <2>1 DEF Underway, TransferOfHead, Transferring
  <1> USE DEF threadUnchanged, SendOnlyUnchanged, pcVars, localVars
  <1>4. ASSUME NEW u \in Users, NEW p \in Paths, download_selected(u, p)
        PROVE  (Underway /\ TransferOfHead)'
    BY <1>1, <1>2, <1>4 DEF download_selected
  <1>5. ASSUME NEW u \in Users, NEW conn \in Conn, ReverseConnection(u, conn)
        PROVE  (Underway /\ TransferOfHead)'
    BY <1>1, <1>2, <1>5 DEF ReverseConnection
  <1>6. CASE MgrTodo
    BY <1>1, <1>6 DEF MgrTodo, SendRemoveUser, DropSenders, SendSharedUser, restart_connections
  <1>7. ASSUME NEW c, NEW rest, Reconfigure(c, rest)
        PROVE  (Underway /\ TransferOfHead)'
    BY <1>1, <1>7 DEF Reconfigure
  <1>8. CASE \/ \E u \in Users, id \in Ids : add_new_user(u, id) \/ update_user(u, id)
             \/ \E u \in Users : remove_user(u)
             \/ create_new_id \/ set_path_downloads_dir
             \/ \E b \in BOOLEAN : set_ignore_incoming(b)
    BY <1>7, <1>8 DEF add_new_user, update_user, remove_user, create_new_id,
                      set_path_downloads_dir, set_ignore_incoming
  <1>9. CASE \/ \E u \in Users, p \in Paths : downloads_cancel_single(u, p)
             \/ downloads_cancel_all \/ downloads_pause_all \/ downloads_resume_all
             \/ \E u \in Users : RefreshArrives(u)
    BY <1>1, <1>9 DEF downloads_cancel_single, downloads_cancel_all, downloads_pause_all,
                      downloads_resume_all, RefreshArrives
  <1>10. CASE \E u \in Users : download_refused(u)
    BY <1>1, <1>10 DEF download_refused
  <1> QED
    BY <1>3, <1>4, <1>5, <1>6, <1>8, <1>9, <1>10 DEF UserNext, ConnNext

-----------------------------------------------------------------------------
\* Every step keeps the invariant.
LEMMA InductiveStep == IInv /\ [Next]_vars => IInv'
PROOF
  <1> SUFFICES ASSUME IInv, [Next]_vars PROVE IInv'
    OBVIOUS
  <1>0. TypeOK
    BY DEF IInv
  <1>1. CASE UserNext \/ MgrTodo \/ ConnNext
    <2>1. TypeOK'
      BY <1>0, <1>1, DownloadCommandsType, ConfigCommandsType, OtherManagerType DEF UserNext
    <2> QED
      BY <1>1, <2>1, ManagerControl DEF IInv
  <1>2. ASSUME NEW t \in Thread, ThreadNext(t)
        PROVE  IInv'
    <2>1. TypeOK'
      BY <1>0, <1>2, ReadReceiverType, RunType, QueueWriteFailsType DEF ThreadNext
    <2>2. ControlOf(t)'
      BY <1>0, <1>2, ReadReceiverControl, RunControl, WriteFailsControl DEF ThreadNext
    <2>3. \A o \in Thread \ {t} : UNCHANGED Own(o)
      BY <1>0, <1>2, ThreadIsLocal
    <2> QED
      BY <2>1, <2>2, <2>3, ControlIsLocal DEF IInv
  <1>3. CASE UNCHANGED vars
    BY <1>3 DEF IInv, TypeOK, Underway, TransferOfHead, Transferring, vars, mgrVars, pcVars,
                chanVars, localVars, boundVars, ghostVars
  <1> QED
    BY <1>1, <1>2, <1>3 DEF Next

\* No thread has begun.
LEMMA InitiallyIInv == Init => IInv
PROOF
  <1> SUFFICES ASSUME Init PROVE IInv
    OBVIOUS
  <1>1. config \in Config
    BY ConstantsAssumption DEF Init, Config, Ids
  <1>2. TypeOK
    <2>1. Idle \in [call: TodoCalls, user: Users \cup {None}]
      BY TodoType DEF TodoCalls
    <2>2. 0 \in Ids
      BY ConstantsAssumption DEF Ids
    <2>3. /\ 0 \in 0 .. MaxThreads /\ 0 \in 0 .. MaxCommands /\ 0 \in 0 .. MaxConns
      BY ConstantsAssumption
    <2>4. /\ receiver \in [Thread -> Seq(Message)] /\ rev_receiver \in [Thread -> Seq(Conn)]
          /\ download_queue \in [Thread -> Seq(Paths)] /\ queue_file \in [Users -> Seq(Paths)]
          /\ file_tail \in [Users -> Tails]
      BY DEF Init, Tails
    <2>5. /\ pc \in [Thread -> PCs] /\ ret \in [Thread -> Returns]
          /\ thread_config \in [Thread -> Config] /\ shared_user \in [Thread -> Ids]
      BY <1>1, <2>2 DEF Init, PCs, Returns
    <2> QED
      BY <1>1, <2>1, <2>3, <2>4, <2>5 DEF Init, TypeOK
  <1> QED
    BY <1>2 DEF Init, IInv, Underway, TransferOfHead, Transferring

\* The invariant holds in every reachable state, for all users, paths and bounds.
THEOREM Invariant == Spec => []IInv
BY InitiallyIInv, InductiveStep, PTL DEF Spec

\* Every variable of the manager and of its threads has its type; in particular a
\* queue is always a sequence of paths, so no item is ever popped off an empty queue.
THEOREM TypeCorrect == Spec => []TypeOK
PROOF
  <1>1. IInv => TypeOK
    BY DEF IInv
  <1> QED
    BY <1>1, Invariant, PTL

\* What download_shared_file transfers is at the head of the queue all the while, so
\* that set_active_download_finished pops the item that was transferred.
THEOREM ActiveSafety == Spec => []ActiveIsHead
PROOF
  <1>1. IInv => ActiveIsHead
    BY DEF IInv, Underway, TransferOfHead, Transferring, ActiveIsHead
  <1> QED
    BY <1>1, Invariant, PTL

-----------------------------------------------------------------------------
(* Every channel_map entry leads to a living thread.  RegisteredAlive is   *)
(* not inductive: a thread ends on its own accord only when it has read    *)
(* RemoveUser, which it may have been sent long before, and a number that  *)
(* no thread has yet must not be in channel_map.                           *)

\* Nothing keeps the thread from ending.
Doomed(t) ==
  \/ pc[t] = "dead"
  \/ shutdown[t]
  \/ \E i \in DOMAIN receiver[t] : receiver[t][i].type = "RemoveUser"

\* Numbers are given out in order.
Numbered ==
  /\ \A u \in Users : channel_map[u] <= spawned[u]
  /\ \A t \in Thread : pc[t] = "unborn" <=> t[2] > spawned[t[1]]
  /\ \A t \in Thread : pc[t] = "unborn" => receiver[t] = <<>> /\ ~ shutdown[t]

\* RemoveUser is the last message sent to a thread, in the call that drops its Senders.
DoomedIsRemoved ==
  \A t \in Thread : Registered(t) /\ Doomed(t) => Removing(t[1])

RegInv == Numbered /\ DoomedIsRemoved

\* No call but remove_user's leaves a doomed thread registered.
LEMMA NoneDoomed ==
  ASSUME RegInv, todo.call # "drop_senders", NEW t \in Thread, Registered(t)
  PROVE  ~ Doomed(t)
BY DEF RegInv, DoomedIsRemoved, Removing, Todo

\* Sending any other message dooms no thread, and forgets those it cannot reach.
LEMMA SendKeepsRegInv ==
  ASSUME TypeOK, RegInv, todo.call # "drop_senders", todo'.call # "drop_senders",
         NEW m \in Message, m.type # "RemoveUser",
         \A t \in Thread : receiver'[t] = receiver[t] \/
             (receiver'[t] = Append(receiver[t], m) /\ Registered(t) /\ Alive(t)),
         \A u \in Users : channel_map'[u] \in {0, channel_map[u]},
         UNCHANGED <<pc, shutdown, spawned>>
  PROVE  RegInv'
PROOF
  <1>1. \A u \in Users : channel_map'[u] <= spawned'[u]
    <2> SUFFICES ASSUME NEW u \in Users PROVE channel_map'[u] <= spawned'[u]
      OBVIOUS
    <2>1. spawned[u] \in 0 .. MaxThreads /\ channel_map[u] <= spawned[u]
      BY DEF TypeOK, RegInv, Numbered
    <2>2. spawned'[u] = spawned[u] /\ channel_map'[u] \in {0, channel_map[u]}
      OBVIOUS
    <2> QED
      BY <2>1, <2>2, ConstantsAssumption
  <1>2. ASSUME NEW t \in Thread
        PROVE  /\ pc'[t] = "unborn" <=> t[2] > spawned'[t[1]]
               /\ pc'[t] = "unborn" => receiver'[t] = <<>> /\ ~ shutdown'[t]
    BY DEF RegInv, Numbered, Alive
  <1>3. ASSUME NEW t \in Thread, Registered(t)'
        PROVE  ~ Doomed(t)'
    <2>1. t[1] \in Users /\ t[2] \in 1 .. MaxThreads
      BY DEF Thread
    <2>2. Registered(t)
      BY <1>3, <2>1 DEF Registered
    <2>3. ~ Doomed(t)
      BY <2>2, NoneDoomed
    <2>4. receiver[t] \in Seq(Message)
      BY DEF TypeOK
    <2>5. \A i \in DOMAIN receiver'[t] : receiver'[t][i].type # "RemoveUser"
      BY <2>3, <2>4 DEF Doomed
    <2> QED
      BY <2>3, <2>5 DEF Doomed
  <1> QED
    BY <1>1, <1>2, <1>3 DEF RegInv, Numbered, DoomedIsRemoved

\* The two ways of sending have that form.
LEMMA SendToAllForm ==
  ASSUME TypeOK, NEW m, SendToAll(m)
  PROVE  /\ \A t \in Thread : receiver'[t] = receiver[t] \/
              (receiver'[t] = Append(receiver[t], m) /\ Registered(t) /\ Alive(t))
         /\ \A u \in Users : channel_map'[u] \in {0, channel_map[u]}
BY DEF SendToAll

LEMMA SendToForm ==
  ASSUME TypeOK, NEW v, NEW m, SendTo(v, m)
  PROVE  /\ \A t \in Thread : receiver'[t] = receiver[t] \/
              (receiver'[t] = Append(receiver[t], m) /\ Registered(t) /\ Alive(t))
         /\ \A u \in Users : channel_map'[u] \in {0, channel_map[u]}
BY DEF TypeOK, SendTo

\* A new thread is not doomed; the one whose entry it replaces is no longer registered.
LEMMA SpawnKeepsRegInv ==
  ASSUME TypeOK, RegInv, todo.call # "drop_senders", NEW u \in Users, NEW conn,
         Spawn(u, conn, config, is_downloading_paused), SpawnUnchanged
  PROVE  RegInv'
PROOF
  <1> DEFINE n == spawned[u] + 1
             new == <<u, n>>
  <1>1. n \in 1 .. MaxThreads /\ new \in Thread /\ spawned[u] \in Nat
    BY ConstantsAssumption DEF TypeOK, Spawn, Thread
  <1>2. /\ spawned' = [spawned EXCEPT ![u] = n] /\ channel_map' = [channel_map EXCEPT ![u] = n]
        /\ pc' = [pc EXCEPT ![new] = "init"] /\ UNCHANGED <<receiver, shutdown, todo>>
    BY DEF Spawn, SpawnUnchanged, chanVars
  <1>3. pc[new] = "unborn" /\ receiver[new] = <<>> /\ ~ shutdown[new]
    BY <1>1 DEF RegInv, Numbered
  <1> HIDE DEF n, new
  <1>4. \A v \in Users : channel_map'[v] <= spawned'[v]
    BY <1>1, <1>2 DEF TypeOK, RegInv, Numbered
  <1>5. ASSUME NEW t \in Thread
        PROVE  /\ pc'[t] = "unborn" <=> t[2] > spawned'[t[1]]
               /\ pc'[t] = "unborn" => receiver'[t] = <<>> /\ ~ shutdown'[t]
    <2>1. t = <<t[1], t[2]>> /\ t[1] \in Users /\ t[2] \in 1 .. MaxThreads
      BY DEF Thread
    <2>2. /\ pc[t] = "unborn" <=> t[2] > spawned[t[1]]
          /\ pc[t] = "unborn" => receiver[t] = <<>> /\ ~ shutdown[t]
      BY DEF RegInv, Numbered
    <2>3. CASE t = new
      <3>1. t[1] = u /\ t[2] = n
        BY <2>3 DEF new
      <3>2. pc'[t] = "init" /\ spawned'[t[1]] = n
        BY <1>2, <2>1, <2>3, <3>1 DEF TypeOK
      <3> QED
        BY <1>1, <3>1, <3>2
    <2>4. CASE t # new /\ t[1] = u
      <3>1. t[2] # n
        BY <2>1, <2>4 DEF new
      <3>2. pc'[t] = pc[t] /\ spawned'[t[1]] = n
        BY <1>2, <2>1, <2>4 DEF TypeOK
      <3>3. t[2] > spawned[u] <=> t[2] > n
        BY <1>1, <2>1, <3>1 DEF n
      <3> QED
        BY <1>2, <2>2, <2>4, <3>2, <3>3
    <2>5. CASE t[1] # u
      <3>1. pc'[t] = pc[t] /\ spawned'[t[1]] = spawned[t[1]]
        BY <1>2, <2>1, <2>5 DEF TypeOK, new
      <3> QED
        BY <1>2, <2>2, <3>1
    <2> QED
      BY <2>3, <2>4, <2>5
  <1>6. ASSUME NEW t \in Thread, Registered(t)'
        PROVE  ~ Doomed(t)'
    <2>1. t = <<t[1], t[2]>> /\ t[1] \in Users /\ t[2] \in 1 .. MaxThreads
      BY DEF Thread
    <2>2. CASE t[1] = u
      <3>1. t = new
        BY <1>2, <1>6, <2>1, <2>2 DEF TypeOK, Registered, new
      <3> QED
        BY <1>1, <1>2, <1>3, <3>1 DEF Doomed, TypeOK
    <2>3. CASE t[1] # u
      <3>1. Registered(t)
        BY <1>2, <1>6, <2>1, <2>3 DEF TypeOK, Registered
      <3>2. ~ Doomed(t)
        BY <3>1, NoneDoomed
      <3>3. pc'[t] = pc[t]
        BY <1>2, <2>1, <2>3 DEF TypeOK, new
      <3> QED
        BY <1>2, <3>2, <3>3 DEF Doomed
    <2> QED
      BY <2>2, <2>3
  <1> QED
    BY <1>4, <1>5, <1>6 DEF RegInv, Numbered, DoomedIsRemoved

\* A thread's step concerns no other thread and not the manager.
LEMMA ThreadFrameOf ==
  ASSUME TypeOK, NEW t \in Thread, ThreadNext(t)
  PROVE  /\ ThreadFrame
         /\ \A o \in Thread \ {t} : UNCHANGED <<pc[o], receiver[o], shutdown[o]>>
         /\ pc[t] # "unborn" /\ pc'[t] # "unborn"
PROOF
  <1>1. CASE StartRun(t)
    BY <1>1 DEF TypeOK, StartRun, Poll, Goto, chanVars
  <1>2. CASE PollRev(t)
    BY <1>2 DEF TypeOK, PollRev, Exit, Goto, chanVars, localVars
  <1>3. ASSUME NEW type, Receive(t, type)
        PROVE  /\ ThreadFrame
               /\ \A o \in Thread \ {t} : UNCHANGED <<pc[o], receiver[o]>>
               /\ pc[t] # "unborn" /\ pc'[t] # "unborn"
    BY <1>3 DEF TypeOK, Receive, Goto
  <1>4. CASE \/ OnNewDownload(t) \/ OnCancelDownload(t) \/ OnCancelAll(t) \/ OnPause(t)
             \/ OnResume(t) \/ OnNewSharedUser(t) \/ OnRestartConnection(t) \/ OnNewConfig(t)
    BY <1>3, <1>4 DEF OnNewDownload, OnCancelDownload, OnCancelAll, OnPause, OnResume,
                      OnNewSharedUser, OnRestartConnection, OnNewConfig
  <1>5. CASE OnRemoveUser(t)
    BY <1>3, <1>5 DEF TypeOK, OnRemoveUser
  <1>6. CASE PollRxEmpty(t)
    BY <1>6 DEF TypeOK, PollRxEmpty, Exit, Goto, chanVars, localVars, Returns
  <1>7. CASE OuterLoop(t)
    BY <1>7 DEF TypeOK, OuterLoop, RunFrame, Exit, Poll, Goto, chanVars
  <1>8. CASE Connect(t) \/ SetEverythingFile(t) \/ LookupEverythingFile(t) \/ InnerLoop(t)
    BY <1>8 DEF TypeOK, Connect, SetEverythingFile, LookupEverythingFile, InnerLoop, RunFrame,
                FailRun, Poll, Goto, chanVars
  <1>9. CASE SelectItem(t)
    BY <1>9 DEF TypeOK, SelectItem, Poll, Goto, pcVars, chanVars
  <1>10. CASE TransferStep(t) \/ AfterTransferPoll(t)
    BY <1>10 DEF TypeOK, TransferStep, AfterTransferPoll, RunFrame, Poll, Goto, chanVars
  <1>11. CASE TransferDone(t) \/ TransferError(t)
    BY <1>11 DEF TypeOK, TransferDone, TransferError, FailRun, Poll, Goto, chanVars
  <1>12. CASE QueueWriteFails(t)
    <2>1. ThreadFrame /\ pc' = [pc EXCEPT ![t] = "init"] /\ pc[t] # "unborn"
      BY <1>12, QueueWriteFailsFacts DEF Goto
    <2>2. CASE UNCHANGED <<receiver, shutdown>>
      BY <2>1, <2>2 DEF TypeOK
    <2>3. CASE /\ receiver' = [receiver EXCEPT ![t] = Tail(@)]
               /\ shutdown' = [shutdown EXCEPT ![t] = @ \/ Head(receiver[t]).type = "RemoveUser"]
      BY <2>1, <2>3 DEF TypeOK
    <2> QED
      BY <1>12, <2>2, <2>3, QueueWriteFailsFacts
  <1> QED
    BY <1>1, <1>2, <1>4, <1>5, <1>6, <1>7, <1>8, <1>9, <1>10, <1>11, <1>12
       DEF ThreadNext, ReadReceiver, Transfer

\* A registered thread is not doomed by its own step unless it already was.
LEMMA ThreadDooms ==
  ASSUME TypeOK, NEW t \in Thread, ThreadNext(t), Registered(t), Doomed(t)'
  PROVE  Doomed(t)
PROOF
  <1>0. receiver[t] \in Seq(Message)
    BY DEF TypeOK
  <1>k. ASSUME UNCHANGED <<receiver, shutdown>>, pc'[t] # "dead"
        PROVE  Doomed(t)
    BY <1>k DEF Doomed
  <1>1. CASE StartRun(t)
    BY <1>1, <1>k DEF TypeOK, StartRun, Poll, Goto, chanVars
  <1>2. CASE PollRev(t)
    BY <1>2, <1>k DEF TypeOK, PollRev, Goto, chanVars, localVars
  <1>3. ASSUME NEW type, Receive(t, type)
        PROVE  /\ Head(receiver[t]).type = type /\ receiver[t] # <<>>
               /\ \A i \in DOMAIN receiver'[t] : receiver'[t][i].type = "RemoveUser" => Doomed(t)
               /\ pc'[t] # "dead"
    <2>1. receiver[t] # <<>> /\ receiver'[t] = Tail(receiver[t]) /\ pc'[t] # "dead"
      BY <1>3 DEF TypeOK, Receive, Goto
    <2>2. \A i \in DOMAIN receiver'[t] :
            i + 1 \in DOMAIN receiver[t] /\ receiver'[t][i] = receiver[t][i + 1]
      BY <1>0, <2>1
    <2> QED
      BY <1>3, <2>1, <2>2 DEF Receive, Doomed
  <1>4. CASE \/ OnNewDownload(t) \/ OnCancelDownload(t) \/ OnCancelAll(t) \/ OnPause(t)
             \/ OnResume(t) \/ OnNewSharedUser(t) \/ OnRestartConnection(t) \/ OnNewConfig(t)
    <2>1. UNCHANGED shutdown /\ \E type : Receive(t, type)
      BY <1>4 DEF OnNewDownload, OnCancelDownload, OnCancelAll, OnPause, OnResume,
                  OnNewSharedUser, OnRestartConnection, OnNewConfig
    <2> QED
      BY <1>3, <2>1 DEF Doomed
  <1>5. CASE OnRemoveUser(t)
    <2>1. Head(receiver[t]).type = "RemoveUser" /\ receiver[t] # <<>>
      BY <1>3, <1>5 DEF OnRemoveUser
    <2>2. 1 \in DOMAIN receiver[t] /\ receiver[t][1] = Head(receiver[t])
      BY <1>0, <2>1
    <2> QED
      BY <2>1, <2>2 DEF Doomed
  <1>6. CASE PollRxEmpty(t)
    BY <1>6, <1>k DEF TypeOK, PollRxEmpty, Goto, chanVars, localVars, Returns
  <1>7. CASE OuterLoop(t)
    <2>1. CASE shutdown[t]
      BY <2>1 DEF Doomed
    <2>2. CASE ~ shutdown[t]
      BY <1>7, <1>k, <2>2 DEF TypeOK, OuterLoop, RunFrame, Poll, Goto, chanVars
    <2> QED
      BY <2>1, <2>2
  <1>8. CASE Connect(t) \/ SetEverythingFile(t) \/ LookupEverythingFile(t) \/ InnerLoop(t)
    BY <1>8, <1>k DEF TypeOK, Connect, SetEverythingFile, LookupEverythingFile, InnerLoop,
                      RunFrame, FailRun, Poll, Goto, chanVars
  <1>9. CASE SelectItem(t)
    BY <1>9, <1>k DEF TypeOK, SelectItem, Poll, Goto, pcVars, chanVars
  <1>10. CASE TransferStep(t) \/ AfterTransferPoll(t)
    BY <1>10, <1>k DEF TypeOK, TransferStep, AfterTransferPoll, RunFrame, Poll, Goto, chanVars
  <1>11. CASE TransferDone(t) \/ TransferError(t)
    BY <1>11, <1>k DEF TypeOK, TransferDone, TransferError, FailRun, Poll, Goto, chanVars
  <1>12. CASE QueueWriteFails(t)
    <2>1. pc'[t] # "dead"
      BY <1>12, QueueWriteFailsFacts DEF Goto, TypeOK
    <2>2. CASE UNCHANGED <<receiver, shutdown>>
      BY <1>k, <2>1, <2>2
    <2>3. CASE /\ receiver[t] # <<>> /\ receiver' = [receiver EXCEPT ![t] = Tail(@)]
               /\ shutdown' = [shutdown EXCEPT ![t] = @ \/ Head(receiver[t]).type = "RemoveUser"]
      <3>0. receiver[t] # <<>>
        BY <2>3
      <3>1. 1 \in DOMAIN receiver[t] /\ receiver[t][1] = Head(receiver[t])
        BY <1>0, <3>0
      <3>2. receiver'[t] = Tail(receiver[t])
        BY <2>3 DEF TypeOK
      <3>3. \A i \in DOMAIN receiver'[t] :
              i + 1 \in DOMAIN receiver[t] /\ receiver'[t][i] = receiver[t][i + 1]
        BY <1>0, <3>0, <3>2
      <3>4. shutdown'[t] => shutdown[t] \/ Head(receiver[t]).type = "RemoveUser"
        <4>1. shutdown \in [Thread -> BOOLEAN]
          BY DEF TypeOK
        <4> QED
          BY <2>3, <4>1, Zenon
      <3> QED
        BY <2>1, <3>1, <3>3, <3>4 DEF Doomed
    <2> QED
      BY <1>12, <2>2, <2>3, QueueWriteFailsFacts
  <1> QED
    BY <1>1, <1>2, <1>4, <1>5, <1>6, <1>7, <1>8, <1>9, <1>10, <1>11, <1>12
       DEF ThreadNext, ReadReceiver, Transfer

\* So the steps of threads keep RegInv.
LEMMA ThreadKeepsRegInv ==
  ASSUME TypeOK, RegInv, NEW t \in Thread, ThreadNext(t)
  PROVE  RegInv'
PROOF
  <1>1. /\ UNCHANGED <<channel_map, spawned, todo>>
        /\ \A o \in Thread \ {t} : UNCHANGED <<pc[o], receiver[o], shutdown[o]>>
        /\ pc[t] # "unborn" /\ pc'[t] # "unborn"
    BY ThreadFrameOf DEF ThreadFrame, mgrVars
  <1>2. Numbered'
    BY <1>1 DEF RegInv, Numbered
  <1>3. ASSUME NEW o \in Thread, Registered(o)', Doomed(o)'
        PROVE  Removing(o[1])'
    <2>1. Registered(o)
      BY <1>1, <1>3 DEF Registered
    <2>2. Doomed(o)
      <3>1. CASE o = t
        BY <1>3, <2>1, <3>1, ThreadDooms
      <3>2. CASE o # t
        BY <1>1, <1>3, <3>2 DEF Doomed
      <3> QED
        BY <3>1, <3>2
    <2> QED
      BY <1>1, <2>1, <2>2 DEF RegInv, DoomedIsRemoved, Removing
  <1> QED
    BY <1>2, <1>3 DEF RegInv, DoomedIsRemoved

\* Nothing that RegInv speaks of changes.
LEMMA RegInvStutter ==
  ASSUME RegInv, UNCHANGED <<channel_map, spawned, todo, pc, receiver, shutdown>>
  PROVE  RegInv'
BY DEF RegInv, Numbered, DoomedIsRemoved, Registered, Doomed, Removing

\* A UI command starts when no call is under way.
LEMMA IdleFacts ==
  /\ todo = Idle => todo.call # "drop_senders"
  /\ \A call, u : Todo(call, u).call = call /\ Todo(call, u).user = u
BY DEF Idle, Todo

\* The UI's commands keep RegInv.
LEMMA CommandsKeepRegInv ==
  ASSUME TypeOK, RegInv, UserNext, ~ Restart
  PROVE  RegInv'
PROOF
  <1> USE DEF threadUnchanged, SendOnlyUnchanged, pcVars, localVars
  <1>1. ASSUME NEW name, Command(name)
        PROVE  todo = Idle /\ todo.call # "drop_senders"
    BY <1>1, IdleFacts DEF Command
  <1>2. ASSUME NEW c \in Config, NEW rest, Reconfigure(c, rest), todo.call # "drop_senders",
               rest.call # "drop_senders"
        PROVE  RegInv'
    <2> DEFINE m == [type |-> "NewConfig", config |-> c]
    <2>1. m \in Message /\ m.type # "RemoveUser"
      BY MessageFacts
    <2>2. SendToAll(m) /\ todo' = rest /\ UNCHANGED <<pc, shutdown, spawned>>
      BY <1>2 DEF Reconfigure, set_new_config
    <2> HIDE DEF m
    <2> QED
      BY <1>2, <2>1, <2>2, SendToAllForm, SendKeepsRegInv
  <1>3. ASSUME NEW u \in Users, NEW p \in Paths, download_selected(u, p)
        PROVE  RegInv'
    <2>1. todo.call # "drop_senders"
      BY <1>1, <1>3 DEF download_selected
    <2>2. CASE Reachable(u)
      <3> DEFINE m == PathMsg("NewDownload", p)
      <3>1. m \in Message /\ m.type # "RemoveUser"
        BY MessageFacts DEF PathMsg
      <3>2. SendTo(u, m) /\ UNCHANGED <<todo, pc, shutdown, spawned>>
        BY <1>3, <2>2 DEF download_selected
      <3> HIDE DEF m
      <3> QED
        BY <2>1, <3>1, <3>2, SendToForm, SendKeepsRegInv
    <2>3. CASE ~ Reachable(u)
      BY <1>3, <2>1, <2>3, SpawnKeepsRegInv DEF download_selected
    <2> QED
      BY <2>2, <2>3
  <1>4. ASSUME NEW u \in Users, NEW p \in Paths, downloads_cancel_single(u, p)
        PROVE  RegInv'
    <2> DEFINE m == PathMsg("CancelDownload", p)
    <2>1. m \in Message /\ m.type # "RemoveUser"
      BY MessageFacts DEF PathMsg
    <2>2. SendTo(u, m) /\ UNCHANGED <<todo, pc, shutdown, spawned>> /\ todo.call # "drop_senders"
      BY <1>1, <1>4 DEF downloads_cancel_single
    <2> HIDE DEF m
    <2> QED
      BY <2>1, <2>2, SendToForm, SendKeepsRegInv
  <1>5. CASE downloads_cancel_all \/ downloads_pause_all \/ downloads_resume_all
    <2>1. PICK m \in {Msg("CancelAllDownloads"), Msg("PauseDownloads"), Msg("ResumeDownloads")} :
            SendToAll(m) /\ UNCHANGED <<todo, pc, shutdown, spawned>>
      BY <1>5 DEF downloads_cancel_all, downloads_pause_all, downloads_resume_all
    <2>2. m \in Message /\ m.type # "RemoveUser"
      BY MessageFacts DEF Msg
    <2>3. todo.call # "drop_senders"
      BY <1>1, <1>5 DEF downloads_cancel_all, downloads_pause_all, downloads_resume_all
    <2> QED
      BY <2>1, <2>2, <2>3, SendToAllForm, SendKeepsRegInv
  <1>6. ASSUME NEW u \in Users, RefreshArrives(u)
        PROVE  RegInv'
    BY <1>6, RegInvStutter DEF RefreshArrives, mgrVars, chanVars
  <1>r. ASSUME NEW u \in Users, download_refused(u)
        PROVE  RegInv'
    BY <1>r, RegInvStutter DEF download_refused, mgrVars, chanVars
  <1>7. config \in Config
    BY DEF TypeOK
  <1>8. Idle.call # "drop_senders"
    BY DEF Idle, Todo
  <1>9. ASSUME NEW u \in Users, NEW id \in Ids, add_new_user(u, id)
        PROVE  RegInv'
    <2>1. [config EXCEPT !.users = @ \cup {u}, !.publicId[u] = id] \in Config
      BY <1>7 DEF Config
    <2> QED
      BY <1>1, <1>2, <1>8, <1>9, <2>1 DEF add_new_user
  <1>10. ASSUME NEW u \in Users, NEW id \in Ids, update_user(u, id)
         PROVE  RegInv'
    <2>1. [config EXCEPT !.publicId[u] = id] \in Config
      BY <1>7 DEF Config
    <2> QED
      BY <1>1, <1>2, <1>10, <2>1, IdleFacts DEF update_user
  <1>11. ASSUME NEW u \in Users, remove_user(u)
         PROVE  RegInv'
    <2>1. [config EXCEPT !.users = @ \ {u}] \in Config
      BY <1>7 DEF Config
    <2> QED
      BY <1>1, <1>2, <1>11, <2>1, IdleFacts DEF remove_user
  <1>12. CASE create_new_id
    <2>1. [config EXCEPT !.localId = @ + 1] \in Config
      BY <1>7, <1>12, ConstantsAssumption DEF Config, Ids, create_new_id
    <2> QED
      BY <1>1, <1>2, <1>8, <1>12, <2>1 DEF create_new_id
  <1>13. CASE set_path_downloads_dir
    BY <1>1, <1>2, <1>7, <1>8, <1>13 DEF set_path_downloads_dir
  <1>14. ASSUME NEW b \in BOOLEAN, set_ignore_incoming(b)
         PROVE  RegInv'
    <2>1. [config EXCEPT !.ignore_incoming = b] \in Config
      BY <1>7 DEF Config
    <2> QED
      BY <1>1, <1>2, <1>14, <2>1, IdleFacts DEF set_ignore_incoming
  <1> QED
    BY <1>3, <1>4, <1>5, <1>6, <1>r, <1>9, <1>10, <1>11, <1>12, <1>13, <1>14 DEF UserNext

\* A restart of the program begins with new threads only.
LEMMA RestartKeepsRegInv ==
  ASSUME TypeOK, RegInv, Restart
  PROVE  RegInv'
PROOF
  <1> DEFINE starts(u) == u \in config.users /\ FileExists(u)
             fresh(t)  == starts(t[1]) /\ t[2] = spawned[t[1]] + 1
  <1>1. /\ spawned' = [u \in Users |-> IF starts(u) THEN spawned[u] + 1 ELSE spawned[u]]
        /\ channel_map' = [u \in Users |-> IF starts(u) THEN spawned[u] + 1 ELSE 0]
        /\ pc' = [t \in Thread |-> IF fresh(t) THEN "init"
                                   ELSE IF pc[t] = "unborn" THEN "unborn" ELSE "dead"]
        /\ receiver' = [t \in Thread |-> <<>>] /\ shutdown' = [t \in Thread |-> FALSE]
    BY DEF Restart
  <1>2. \A u \in Users : spawned[u] \in Nat
    BY ConstantsAssumption DEF TypeOK
  <1> HIDE DEF starts
  <1>3. \A u \in Users : channel_map'[u] <= spawned'[u]
    BY <1>1, <1>2
  <1>4. ASSUME NEW t \in Thread
        PROVE  /\ pc'[t] = "unborn" <=> t[2] > spawned'[t[1]]
               /\ Registered(t)' => ~ Doomed(t)'
    <2>1. t[1] \in Users /\ t[2] \in Nat \ {0}
      BY ConstantsAssumption DEF Thread
    <2>2. pc[t] = "unborn" <=> t[2] > spawned[t[1]]
      BY DEF RegInv, Numbered
    <2>3. pc'[t] = "unborn" <=> t[2] > spawned'[t[1]]
      <3>1. CASE fresh(t)
        BY <1>1, <1>2, <2>1, <3>1
      <3>2. CASE ~ fresh(t)
        BY <1>1, <1>2, <2>1, <2>2, <3>2
      <3> QED
        BY <3>1, <3>2
    <2>4. Registered(t)' => fresh(t)
      BY <1>1, <2>1 DEF Registered
    <2>5. fresh(t) => ~ Doomed(t)'
      BY <1>1 DEF Doomed
    <2> QED
      BY <2>3, <2>4, <2>5
  <1> QED
    BY <1>1, <1>3, <1>4 DEF RegInv, Numbered, DoomedIsRemoved

\* The rest of the manager's calls: remove_user dooms the thread and then forgets it.
LEMMA ManagerKeepsRegInv ==
  ASSUME TypeOK, RegInv, MgrTodo \/ ConnNext
  PROVE  RegInv'
PROOF
  <1> USE DEF threadUnchanged, SendOnlyUnchanged, pcVars, localVars
  <1>0. \A t \in Thread : t[1] \in Users /\ t[2] \in Nat \ {0}
    BY ConstantsAssumption DEF Thread
  <1>1. CASE SendRemoveUser
    <2>1. /\ todo.call = "send_remove" /\ todo' = Todo("drop_senders", todo.user)
          /\ UNCHANGED <<channel_map, spawned, pc, shutdown>>
      BY <1>1 DEF SendRemoveUser
    <2>2. \A t \in Thread : receiver'[t] = receiver[t] \/ (t[1] = todo.user /\ Alive(t))
      BY <1>1 DEF SendRemoveUser
    <2>3. Numbered'
      BY <2>1, <2>2 DEF RegInv, Numbered, Alive
    <2>4. ASSUME NEW t \in Thread, Registered(t)', Doomed(t)'
          PROVE  Removing(t[1])'
      <3>1. Registered(t)
        BY <2>1, <2>4 DEF Registered
      <3>2. ~ Doomed(t)
        BY <2>1, <3>1, NoneDoomed
      <3>3. t[1] = todo.user
        BY <2>1, <2>2, <2>4, <3>2 DEF Doomed
      <3> QED
        BY <2>1, <3>3 DEF Removing
    <2> QED
      BY <2>3, <2>4 DEF RegInv, DoomedIsRemoved
  <1>2. CASE DropSenders
    <2>1. /\ todo.call = "drop_senders" /\ channel_map' = [channel_map EXCEPT ![todo.user] = 0]
          /\ UNCHANGED <<receiver, spawned, pc, shutdown>>
      BY <1>2 DEF DropSenders
    <2>2. \A u \in Users : channel_map'[u] <= spawned'[u]
      <3> SUFFICES ASSUME NEW u \in Users PROVE channel_map'[u] <= spawned'[u]
        OBVIOUS
      <3>1. channel_map'[u] \in {0, channel_map[u]}
        BY <2>1 DEF TypeOK
      <3>2. spawned[u] \in Nat /\ channel_map[u] <= spawned[u]
        BY ConstantsAssumption DEF TypeOK, RegInv, Numbered
      <3> QED
        BY <2>1, <3>1, <3>2
    <2>3. Numbered'
      BY <2>1, <2>2 DEF RegInv, Numbered
    <2>4. ASSUME NEW t \in Thread, Registered(t)', Doomed(t)'
          PROVE  FALSE
      <3>1. t[1] # todo.user /\ Registered(t)
        BY <1>0, <2>1, <2>4 DEF Registered, TypeOK
      <3>2. Doomed(t)
        BY <2>1, <2>4 DEF Doomed
      <3> QED
        BY <3>1, <3>2, IdleFacts DEF RegInv, DoomedIsRemoved, Removing
    <2> QED
      BY <2>3, <2>4 DEF RegInv, DoomedIsRemoved
  <1>3. CASE SendSharedUser
    <2> DEFINE m == [type |-> "NewSharedUser", publicId |-> config.publicId[todo.user]]
    <2>1. /\ SendTo(todo.user, m) /\ todo.call = "send_user" /\ todo' = Idle
          /\ UNCHANGED <<pc, shutdown, spawned>>
      BY <1>3 DEF SendSharedUser
    <2>2. Idle.call # "drop_senders" /\ m.type # "RemoveUser"
      BY DEF Idle, Todo
    <2>3. CASE todo.user \in Users
      <3>1. m \in Message
        BY <2>3, MessageFacts DEF TypeOK, Config
      <3> HIDE DEF m
      <3> QED
        BY <2>1, <2>2, <3>1, SendToForm, SendKeepsRegInv
    <2>4. CASE todo.user \notin Users
      <3>1. /\ \A t \in Thread : receiver'[t] = receiver[t]
            /\ \A u \in Users : channel_map'[u] = channel_map[u]
        BY <1>0, <2>1, <2>4 DEF SendTo, TypeOK
      <3>2. \A t \in Thread : Registered(t) => ~ Doomed(t)
        BY <2>1, NoneDoomed
      <3>3. \A t \in Thread : (Registered(t)' => Registered(t)) /\ (Doomed(t)' => Doomed(t))
        BY <1>0, <2>1, <3>1 DEF Registered, Doomed
      <3>4. Numbered'
        BY <2>1, <3>1 DEF RegInv, Numbered
      <3> QED
        BY <3>2, <3>3, <3>4 DEF RegInv, DoomedIsRemoved
    <2> QED
      BY <2>3, <2>4
  <1>4. CASE restart_connections
    <2> DEFINE m == Msg("RestartConnection")
    <2>1. m \in Message /\ m.type # "RemoveUser"
      BY MessageFacts DEF Msg
    <2>2. /\ SendToAll(m) /\ UNCHANGED <<pc, shutdown, spawned>>
          /\ todo.call # "drop_senders" /\ todo'.call # "drop_senders"
      BY <1>4 DEF restart_connections, Idle, Todo
    <2> HIDE DEF m
    <2> QED
      BY <2>1, <2>2, SendToAllForm, SendKeepsRegInv
  <1>5. ASSUME NEW u \in Users, NEW conn \in Conn, ReverseConnection(u, conn)
        PROVE  RegInv'
    <2>1. todo.call # "drop_senders"
      BY <1>5, IdleFacts DEF ReverseConnection
    <2>2. CASE UNCHANGED <<mgrVars, pcVars, receiver, localVars>>
      BY <2>2, RegInvStutter DEF mgrVars
    <2>3. CASE Spawn(u, conn, config, is_downloading_paused) /\ SpawnUnchanged
      BY <2>1, <2>3, SpawnKeepsRegInv
    <2> QED
      BY <1>5, <2>2, <2>3 DEF ReverseConnection, chanVars
  <1> QED
    BY <1>1, <1>2, <1>3, <1>4, <1>5 DEF MgrTodo, ConnNext

\* A thread that was sent RemoveUser, or has read it, is registered only while
\* remove_user goes on, and numbers are given out in order.
LEMMA RegInvariant == Spec => []RegInv
PROOF
  <1>1. Init => RegInv
    <2> SUFFICES ASSUME Init PROVE RegInv
      OBVIOUS
    <2>1. \A t \in Thread : t[1] \in Users /\ t[2] \in Nat \ {0}
      BY ConstantsAssumption DEF Thread
    <2> QED
      BY <2>1 DEF Init, RegInv, Numbered, DoomedIsRemoved, Registered
  <1>2. IInv /\ RegInv /\ [Next]_vars => RegInv'
    <2> SUFFICES ASSUME IInv, RegInv, [Next]_vars PROVE RegInv'
      OBVIOUS
    <2>1. TypeOK
      BY DEF IInv
    <2>2. CASE UNCHANGED vars
      BY <2>2, RegInvStutter DEF vars, mgrVars, pcVars, chanVars, localVars
    <2> QED
      BY <2>1, <2>2, CommandsKeepRegInv, RestartKeepsRegInv, ManagerKeepsRegInv,
         ThreadKeepsRegInv DEF Next
  <1> QED
    BY <1>1, <1>2, Invariant, PTL DEF Spec

\* Between calls, channel_map leads only to living threads that have not been told to
\* shut down.
THEOREM RegisteredSafety == Spec => []RegisteredAlive
PROOF
  <1>1. IInv /\ RegInv => RegisteredAlive
    <2> SUFFICES ASSUME IInv, RegInv, NEW u \in Users, channel_map[u] # 0, ~ Removing(u)
                 PROVE  Alive(<<u, channel_map[u]>>) /\ ~ shutdown[<<u, channel_map[u]>>]
      BY DEF RegisteredAlive
    <2> DEFINE t == <<u, channel_map[u]>>
    <2>1. channel_map[u] \in 1 .. MaxThreads /\ spawned[u] \in Nat
      BY ConstantsAssumption DEF IInv, TypeOK
    <2>2. t \in Thread /\ Registered(t) /\ t[1] = u /\ t[2] = channel_map[u]
      BY <2>1 DEF Thread, Registered
    <2>3. ~ Doomed(t)
      BY <2>2 DEF RegInv, DoomedIsRemoved
    <2>4. pc[t] # "unborn"
      <3>1. channel_map[u] <= spawned[u]
        BY DEF RegInv, Numbered
      <3> QED
        BY <2>1, <2>2, <3>1 DEF RegInv, Numbered
    <2> QED
      BY <2>3, <2>4 DEF Alive, Doomed
  <1> QED
    BY <1>1, Invariant, RegInvariant, PTL

-----------------------------------------------------------------------------
(* What the manager sends reaches the threads.  A thread agrees with the   *)
(* manager once it has read its messages; every step keeps this, since     *)
(* what changes the manager's side also sends the message that carries the *)
(* change to all threads, and what changes the thread's takes the message  *)
(* that carried it out of the channel.                                     *)

FlagTypes == {"PauseDownloads", "ResumeDownloads"}

\* The value that each kind of message carries.
LEMMA ValueFacts ==
  ASSUME NEW m
  PROVE  /\ m.type = "PauseDownloads"  => Value(m) = TRUE
         /\ m.type = "ResumeDownloads" => Value(m) = FALSE
         /\ m.type = "NewConfig"       => Value(m) = m.config
         /\ m.type = "NewSharedUser"   => Value(m) = m.publicId
BY DEF Value

\* A thread that has nothing to read has what it will have.
LEMMA WillHaveEmpty ==
  ASSUME NEW types, NEW own PROVE WillHave(<<>>, types, own, own)
BY DEF WillHave, Unread

\* A message of another kind changes nothing.
LEMMA WillHaveOther ==
  ASSUME NEW s \in Seq(Message), NEW m \in Message, NEW types, NEW own, NEW value,
         WillHave(s, types, own, value), m.type \notin types
  PROVE  WillHave(Append(s, m), types, own, value)
<1>1. \A i \in DOMAIN Append(s, m) : i \in DOMAIN s \/ (i = Len(s) + 1 /\ Append(s, m)[i] = m)
  OBVIOUS
<1>2. \A i \in DOMAIN s : i \in DOMAIN Append(s, m) /\ Append(s, m)[i] = s[i]
  OBVIOUS
<1>3. Unread(Append(s, m), types) = Unread(s, types)
  BY <1>1, <1>2 DEF Unread
<1> QED
  BY <1>2, <1>3 DEF WillHave, Unread

\* A message of this kind settles what the thread will have.
LEMMA WillHaveLast ==
  ASSUME NEW s \in Seq(Message), NEW m \in Message, NEW types, NEW own, m.type \in types
  PROVE  WillHave(Append(s, m), types, own, Value(m))
<1> DEFINE n == Len(s) + 1
<1>1. n \in DOMAIN Append(s, m) /\ Append(s, m)[n] = m
  OBVIOUS
<1>2. \A i \in DOMAIN Append(s, m) : i <= n /\ i \in Int /\ n \in Int
  OBVIOUS
<1>3. n \in Unread(Append(s, m), types)
  BY <1>1 DEF Unread
<1>4. ASSUME NEW i \in Unread(Append(s, m), types),
             \A j \in Unread(Append(s, m), types) : j <= i
      PROVE  Value(Append(s, m)[i]) = Value(m)
  <2>1. i <= n /\ n <= i /\ i \in Int /\ n \in Int
    BY <1>2, <1>3, <1>4 DEF Unread
  <2>2. i = n
    BY <2>1
  <2> QED
    BY <1>1, <2>2
<1> QED
  BY <1>3, <1>4 DEF WillHave

\* Reading a message of this kind takes its value over, any other leaves things as
\* they are.
LEMMA WillHaveTail ==
  ASSUME NEW s \in Seq(Message), s # <<>>, NEW types, NEW own, NEW value,
         WillHave(s, types, own, value)
  PROVE  WillHave(Tail(s), types, IF Head(s).type \in types THEN Value(Head(s)) ELSE own, value)
<1>1. 1 \in DOMAIN s /\ s[1] = Head(s)
  OBVIOUS
<1>2. \A i \in DOMAIN Tail(s) : i \in Nat /\ i + 1 \in DOMAIN s /\ Tail(s)[i] = s[i + 1]
  OBVIOUS
<1>3. \A i \in DOMAIN s : i \in Nat /\ (i = 1 \/ (i - 1 \in DOMAIN Tail(s) /\ s[i] = Tail(s)[i - 1]))
  OBVIOUS
<1>4. \A i \in Unread(Tail(s), types) : i \in Nat /\ i + 1 \in Unread(s, types)
  BY <1>2 DEF Unread
<1>5. \A i \in Unread(s, types) : i = 1 \/ i - 1 \in Unread(Tail(s), types)
  BY <1>3 DEF Unread
<1>6. ASSUME NEW i \in Unread(Tail(s), types), \A j \in Unread(Tail(s), types) : j <= i
      PROVE  Value(Tail(s)[i]) = value
  <2>1. i + 1 \in Unread(s, types) /\ i \in Nat
    BY <1>4
  <2>2. ASSUME NEW j \in Unread(s, types) PROVE j <= i + 1
    <3>1. j \in Nat
      BY <1>3 DEF Unread
    <3>2. CASE j = 1
      BY <2>1, <3>2
    <3>3. CASE j - 1 \in Unread(Tail(s), types)
      <4>1. j - 1 <= i
        BY <1>6, <3>3
      <4> QED
        BY <2>1, <3>1, <4>1
    <3> QED
      BY <1>5, <3>2, <3>3
  <2>3. Value(s[i + 1]) = value
    BY <2>1, <2>2 DEF WillHave
  <2>4. Tail(s)[i] = s[i + 1]
    BY <1>2 DEF Unread
  <2> QED
    BY <2>3, <2>4
<1>7. ASSUME Unread(Tail(s), types) = {}
      PROVE  (IF Head(s).type \in types THEN Value(Head(s)) ELSE own) = value
  <2>1. \A i \in Unread(s, types) : i = 1
    BY <1>5, <1>7
  <2>2. CASE Head(s).type \in types
    <3>1. 1 \in Unread(s, types) /\ \A j \in Unread(s, types) : j <= 1
      BY <1>1, <2>1, <2>2 DEF Unread
    <3> QED
      BY <1>1, <2>2, <3>1 DEF WillHave
  <2>3. CASE Head(s).type \notin types
    <3>1. Unread(s, types) = {}
      BY <1>1, <2>1, <2>3 DEF Unread
    <3> QED
      BY <2>3, <3>1 DEF WillHave
  <2> QED
    BY <2>2, <2>3
<1> QED
  BY <1>6, <1>7 DEF WillHave

\* What a thread will have once it has read its messages is what the manager has.
Agrees(t) ==
  /\ WillHave(receiver[t], FlagTypes, paused[t], is_downloading_paused)
  /\ WillHave(receiver[t], {"NewConfig"}, thread_config[t], config)
  /\ todo # Todo("send_user", t[1]) =>
       WillHave(receiver[t], {"NewSharedUser"}, shared_user[t], config.publicId[t[1]])

\* A user with an entry is in the configuration, but while the user is removed.
EntryConfigured ==
  \A u \in Users : channel_map[u] # 0 =>
    u \in config.users \/ todo \in {Todo("send_remove", u), Todo("drop_senders", u)}

ReachInv ==
  /\ \A t \in Thread : Registered(t) /\ Alive(t) => Agrees(t)
  /\ EntryConfigured

\* Neither side of the agreement moves.
LEMMA AgreesStill ==
  ASSUME NEW t \in Thread, Agrees(t),
         UNCHANGED <<receiver[t], paused[t], thread_config[t], shared_user[t]>>,
         UNCHANGED <<is_downloading_paused, config>>,
         todo = Todo("send_user", t[1]) => todo' = Todo("send_user", t[1])
  PROVE  Agrees(t)'
BY DEF Agrees, WillHave, Unread, Value

\* The manager sends m, and changes what m carries and nothing else.
LEMMA AgreesAppend ==
  ASSUME TypeOK, NEW t \in Thread, Agrees(t), NEW m \in Message,
         receiver'[t] = Append(receiver[t], m),
         UNCHANGED <<paused[t], thread_config[t], shared_user[t]>>,
         is_downloading_paused' = IF m.type \in FlagTypes THEN Value(m) ELSE is_downloading_paused,
         m.type = "NewConfig" => config' = m.config,
         m.type # "NewConfig" => config' = config,
         m.type = "NewSharedUser" => config'.publicId[t[1]] = m.publicId,
         m.type # "NewSharedUser" =>
           todo' = Todo("send_user", t[1]) \/ (/\ todo # Todo("send_user", t[1])
                                               /\ config'.publicId[t[1]] = config.publicId[t[1]])
  PROVE  Agrees(t)'
<1>0. receiver[t] \in Seq(Message)
  BY DEF TypeOK
<1>1. WillHave(Append(receiver[t], m), FlagTypes, paused[t], is_downloading_paused')
  BY <1>0, WillHaveLast, WillHaveOther DEF Agrees
<1>2. WillHave(Append(receiver[t], m), {"NewConfig"}, thread_config[t], config')
  <2>1. CASE m.type = "NewConfig"
    <3>1. config' = Value(m)
      BY <2>1, ValueFacts
    <3> QED
      BY <1>0, <2>1, <3>1, WillHaveLast
  <2>2. CASE m.type # "NewConfig"
    BY <1>0, <2>2, WillHaveOther DEF Agrees
  <2> QED
    BY <2>1, <2>2
<1>3. todo' # Todo("send_user", t[1]) =>
        WillHave(Append(receiver[t], m), {"NewSharedUser"}, shared_user[t], config'.publicId[t[1]])
  <2>1. CASE m.type = "NewSharedUser"
    <3>1. config'.publicId[t[1]] = Value(m)
      BY <2>1, ValueFacts
    <3> QED
      BY <1>0, <2>1, <3>1, WillHaveLast
  <2>2. CASE m.type # "NewSharedUser"
    BY <1>0, <2>2, WillHaveOther DEF Agrees
  <2> QED
    BY <2>1, <2>2
<1>4. (Agrees(t))' <=>
        /\ WillHave(receiver'[t], FlagTypes, paused'[t], is_downloading_paused')
        /\ WillHave(receiver'[t], {"NewConfig"}, thread_config'[t], config')
        /\ todo' # Todo("send_user", t[1]) =>
             WillHave(receiver'[t], {"NewSharedUser"}, shared_user'[t], config'.publicId[t[1]])
  BY DEF Agrees, WillHave, Unread, Value
<1> QED
  BY <1>1, <1>2, <1>3, <1>4

\* The thread reads a message and takes over what it carries.
LEMMA AgreesTail ==
  ASSUME TypeOK, NEW t \in Thread, Agrees(t),
         receiver[t] # <<>>, receiver'[t] = Tail(receiver[t]),
         LET m == Head(receiver[t])
         IN /\ paused'[t] = IF m.type \in FlagTypes THEN Value(m) ELSE paused[t]
            /\ thread_config'[t] = IF m.type \in {"NewConfig"} THEN Value(m) ELSE thread_config[t]
            /\ shared_user'[t] = IF m.type \in {"NewSharedUser"} THEN Value(m) ELSE shared_user[t],
         UNCHANGED <<is_downloading_paused, config, todo>>
  PROVE  Agrees(t)'
<1>0. receiver[t] \in Seq(Message)
  BY DEF TypeOK
<1>1. WillHave(Tail(receiver[t]), FlagTypes, paused'[t], is_downloading_paused)
  BY <1>0, WillHaveTail DEF Agrees
<1>2. WillHave(Tail(receiver[t]), {"NewConfig"}, thread_config'[t], config)
  BY <1>0, WillHaveTail DEF Agrees
<1>3. todo # Todo("send_user", t[1]) =>
        WillHave(Tail(receiver[t]), {"NewSharedUser"}, shared_user'[t], config.publicId[t[1]])
  BY <1>0, WillHaveTail DEF Agrees
<1>4. (Agrees(t))' <=>
        /\ WillHave(receiver'[t], FlagTypes, paused'[t], is_downloading_paused')
        /\ WillHave(receiver'[t], {"NewConfig"}, thread_config'[t], config')
        /\ todo' # Todo("send_user", t[1]) =>
             WillHave(receiver'[t], {"NewSharedUser"}, shared_user'[t], config'.publicId[t[1]])
  BY DEF Agrees, WillHave, Unread, Value
<1> QED
  BY <1>1, <1>2, <1>3, <1>4

\* A thread that is started with what the manager has.
LEMMA AgreesNew ==
  ASSUME NEW t \in Thread, receiver'[t] = <<>>, paused'[t] = is_downloading_paused',
         thread_config'[t] = config', shared_user'[t] = config'.publicId[t[1]]
  PROVE  Agrees(t)'
<1>1. (Agrees(t))' <=>
        /\ WillHave(receiver'[t], FlagTypes, paused'[t], is_downloading_paused')
        /\ WillHave(receiver'[t], {"NewConfig"}, thread_config'[t], config')
        /\ todo' # Todo("send_user", t[1]) =>
             WillHave(receiver'[t], {"NewSharedUser"}, shared_user'[t], config'.publicId[t[1]])
  BY DEF Agrees, WillHave, Unread, Value
<1> QED
  BY <1>1, WillHaveEmpty

\* What a step of thread t does to what t has and to its channel.
LEMMA ThreadReads ==
  ASSUME TypeOK, NEW t \in Thread, ThreadNext(t), Alive(t)'
  PROVE  \/ UNCHANGED <<receiver[t], paused[t], thread_config[t], shared_user[t]>>
         \/ /\ receiver[t] # <<>> /\ receiver'[t] = Tail(receiver[t])
            /\ LET m == Head(receiver[t])
               IN /\ paused'[t] = IF m.type \in FlagTypes THEN Value(m) ELSE paused[t]
                  /\ thread_config'[t] = IF m.type \in {"NewConfig"} THEN Value(m)
                                                                     ELSE thread_config[t]
                  /\ shared_user'[t] = IF m.type \in {"NewSharedUser"} THEN Value(m)
                                                                       ELSE shared_user[t]
<1> DEFINE Same == UNCHANGED <<receiver, paused, thread_config, shared_user>>
<1>0. ~ Exit(t)
  BY DEF Exit, Goto, Alive, TypeOK
<1>1. CASE StartRun(t) \/ PollRev(t) \/ PollRxEmpty(t)
  <2>1. Same
    BY <1>0, <1>1 DEF StartRun, PollRev, PollRxEmpty, chanVars, localVars
  <2> QED
    BY <2>1
<1>2. ASSUME NEW type, Receive(t, type)
      PROVE  receiver[t] # <<>> /\ receiver'[t] = Tail(receiver[t]) /\ Head(receiver[t]).type = type
  BY <1>2 DEF Receive, TypeOK
<1>3. CASE \/ OnNewDownload(t) \/ OnCancelDownload(t) \/ OnCancelAll(t) \/ OnRemoveUser(t)
           \/ OnRestartConnection(t)
  <2>1. \E type \in {"NewDownload", "CancelDownload", "CancelAllDownloads", "RemoveUser",
                     "RestartConnection"} : Receive(t, type)
    BY <1>3 DEF OnNewDownload, OnCancelDownload, OnCancelAll, OnRemoveUser, OnRestartConnection
  <2>2. UNCHANGED <<paused, thread_config, shared_user>>
    BY <1>3 DEF OnNewDownload, OnCancelDownload, OnCancelAll, OnRemoveUser, OnRestartConnection
  <2> QED
    BY <1>2, <2>1, <2>2 DEF FlagTypes
<1>4. CASE OnPause(t)
  <2>1. Receive(t, "PauseDownloads") /\ paused'[t] = TRUE /\ UNCHANGED <<thread_config, shared_user>>
    BY <1>4 DEF OnPause, TypeOK
  <2>2. receiver[t] # <<>> /\ receiver'[t] = Tail(receiver[t])
    BY <1>2, <2>1
  <2>3. Head(receiver[t]).type = "PauseDownloads" /\ Value(Head(receiver[t])) = TRUE
    BY <1>2, <2>1, ValueFacts
  <2> QED
    BY <2>1, <2>2, <2>3 DEF FlagTypes
<1>5. CASE OnResume(t)
  <2>1. Receive(t, "ResumeDownloads") /\ paused'[t] = FALSE /\ UNCHANGED <<thread_config, shared_user>>
    BY <1>5 DEF OnResume, TypeOK
  <2>2. receiver[t] # <<>> /\ receiver'[t] = Tail(receiver[t])
    BY <1>2, <2>1
  <2>3. Head(receiver[t]).type = "ResumeDownloads" /\ Value(Head(receiver[t])) = FALSE
    BY <1>2, <2>1, ValueFacts
  <2> QED
    BY <2>1, <2>2, <2>3 DEF FlagTypes
<1>6. CASE OnNewSharedUser(t)
  <2>1. /\ Receive(t, "NewSharedUser") /\ shared_user'[t] = Head(receiver[t]).publicId
        /\ UNCHANGED <<paused, thread_config>>
    BY <1>6 DEF OnNewSharedUser, TypeOK
  <2>2. receiver[t] # <<>> /\ receiver'[t] = Tail(receiver[t])
    BY <1>2, <2>1
  <2>3. Head(receiver[t]).type = "NewSharedUser" /\ Value(Head(receiver[t])) = Head(receiver[t]).publicId
    BY <1>2, <2>1, ValueFacts
  <2> QED
    BY <2>1, <2>2, <2>3 DEF FlagTypes
<1>7. CASE OnNewConfig(t)
  <2>1. /\ Receive(t, "NewConfig") /\ thread_config'[t] = Head(receiver[t]).config
        /\ UNCHANGED <<paused, shared_user>>
    BY <1>7 DEF OnNewConfig, TypeOK
  <2>2. receiver[t] # <<>> /\ receiver'[t] = Tail(receiver[t])
    BY <1>2, <2>1
  <2>3. Head(receiver[t]).type = "NewConfig" /\ Value(Head(receiver[t])) = Head(receiver[t]).config
    BY <1>2, <2>1, ValueFacts
  <2> QED
    BY <2>1, <2>2, <2>3 DEF FlagTypes
<1>8. CASE \/ OuterLoop(t) \/ Connect(t) \/ SetEverythingFile(t) \/ LookupEverythingFile(t)
           \/ InnerLoop(t) \/ TransferStep(t) \/ AfterTransferPoll(t)
  <2>1. Same
    BY <1>0, <1>8 DEF OuterLoop, Connect, SetEverythingFile, LookupEverythingFile, InnerLoop,
                      TransferStep, AfterTransferPoll, RunFrame, chanVars
  <2> QED
    BY <2>1
<1>9. CASE SelectItem(t) \/ TransferDone(t) \/ TransferError(t)
  <2>1. Same
    BY <1>9 DEF SelectItem, TransferDone, TransferError, chanVars
  <2> QED
    BY <2>1
<1>10. CASE QueueWriteFails(t)
  <2>1. UNCHANGED <<paused, thread_config, shared_user>>
    BY <1>10, QueueWriteFailsFacts
  <2>2. CASE UNCHANGED receiver
    BY <2>1, <2>2
  <2>3. CASE /\ receiver[t] # <<>> /\ Head(receiver[t]).type \in QueueTypes
             /\ receiver' = [receiver EXCEPT ![t] = Tail(@)]
    BY <2>1, <2>3 DEF TypeOK, QueueTypes, FlagTypes
  <2> QED
    BY <1>10, <2>2, <2>3, QueueWriteFailsFacts
<1> QED
  BY <1>1, <1>3, <1>4, <1>5, <1>6, <1>7, <1>8, <1>9, <1>10 DEF ThreadNext, ReadReceiver, Transfer

\* A step of t leaves what the other threads have.
LEMMA OthersKeep ==
  ASSUME TypeOK, NEW t \in Thread, ThreadNext(t), NEW o \in Thread \ {t}
  PROVE  UNCHANGED <<paused[o], thread_config[o], shared_user[o]>>
<1>1. CASE ReadReceiver(t)
  BY <1>1 DEF ReadReceiver, PollRev, PollRxEmpty, Exit, OnNewDownload, OnCancelDownload,
              OnCancelAll, OnRemoveUser, OnPause, OnResume, OnNewSharedUser,
              OnRestartConnection, OnNewConfig, localVars, TypeOK
<1>2. CASE \/ StartRun(t) \/ OuterLoop(t) \/ Connect(t) \/ SetEverythingFile(t)
           \/ LookupEverythingFile(t) \/ SelectItem(t) \/ Transfer(t) \/ InnerLoop(t)
  BY <1>2 DEF StartRun, OuterLoop, Connect, SetEverythingFile, LookupEverythingFile, SelectItem,
              Transfer, TransferStep, AfterTransferPoll, TransferDone, TransferError, InnerLoop,
              RunFrame, Exit
<1>3. CASE QueueWriteFails(t)
  BY <1>3, QueueWriteFailsFacts
<1> QED
  BY <1>1, <1>2, <1>3 DEF ThreadNext

LEMMA ThreadKeepsReachInv ==
  ASSUME TypeOK, ReachInv, NEW t \in Thread, ThreadNext(t)
  PROVE  ReachInv'
<1>1. /\ UNCHANGED <<config, channel_map, is_downloading_paused, todo>>
      /\ \A o \in Thread \ {t} : UNCHANGED <<pc[o], receiver[o]>>
      /\ pc[t] # "unborn"
  BY ThreadFrameOf DEF ThreadFrame, mgrVars
<1>2. EntryConfigured'
  BY <1>1 DEF ReachInv, EntryConfigured
<1>3. ASSUME NEW o \in Thread, Registered(o)', Alive(o)'
      PROVE  Agrees(o)'
  <2>1. Registered(o)
    BY <1>1, <1>3 DEF Registered
  <2>2. CASE o # t
    <3>1. Alive(o)
      BY <1>1, <1>3, <2>2 DEF Alive
    <3> QED
      BY <1>1, <2>1, <2>2, <3>1, OthersKeep, AgreesStill DEF ReachInv
  <2>3. CASE o = t
    <3>1. pc[t] # "dead"
      BY DEF ThreadNext, StartRun, ReadReceiver, PollRev, PollRxEmpty, Receive, OnNewDownload,
             OnCancelDownload, OnCancelAll, OnRemoveUser, OnPause, OnResume, OnNewSharedUser,
             OnRestartConnection, OnNewConfig, OuterLoop, Connect, SetEverythingFile,
             LookupEverythingFile, SelectItem, Transfer, TransferStep, AfterTransferPoll,
             TransferDone, TransferError, InnerLoop, QueueWriteFails, ReadFails, FinishFails
    <3>2. Agrees(t)
      BY <1>1, <2>1, <2>3, <3>1 DEF ReachInv, Alive
    <3> QED
      BY <1>1, <1>3, <2>3, <3>2, ThreadReads, AgreesStill, AgreesTail
  <2> QED
    BY <2>2, <2>3
<1> QED
  BY <1>2, <1>3 DEF ReachInv

\* An entry of channel_map that a send leaves was there before.
LEMMA StillRegistered ==
  ASSUME \A u \in Users : channel_map'[u] \in {0, channel_map[u]}, UNCHANGED pc,
         NEW t \in Thread, Registered(t)', Alive(t)'
  PROVE  Registered(t) /\ Alive(t)
<1>1. t[1] \in Users /\ t[2] # 0
  BY ConstantsAssumption DEF Thread
<1> QED
  BY <1>1 DEF Registered, Alive

\* A message to all threads that carries what changes.
LEMMA SendToAllKeepsReachInv ==
  ASSUME TypeOK, ReachInv, NEW m \in Message, SendToAll(m),
         UNCHANGED <<pc, paused, thread_config, shared_user>>,
         is_downloading_paused' = IF m.type \in FlagTypes THEN Value(m) ELSE is_downloading_paused,
         config' = IF m.type = "NewConfig" THEN m.config ELSE config,
         m.type # "NewSharedUser",
         \A t \in Thread : Registered(t) =>
           todo' = Todo("send_user", t[1]) \/ (/\ todo # Todo("send_user", t[1])
                                               /\ config'.publicId[t[1]] = config.publicId[t[1]]),
         \A u \in Users : channel_map[u] # 0 =>
           u \in config'.users \/ todo' \in {Todo("send_remove", u), Todo("drop_senders", u)}
  PROVE  ReachInv'
<1>1. \A u \in Users : channel_map'[u] \in {0, channel_map[u]}
  BY SendToAllForm
<1>2. EntryConfigured'
  BY <1>1 DEF EntryConfigured
<1>3. ASSUME NEW t \in Thread, Registered(t)', Alive(t)'
      PROVE  Agrees(t)'
  <2>1. Registered(t) /\ Alive(t)
    BY <1>1, <1>3, StillRegistered
  <2>2. receiver'[t] = Append(receiver[t], m)
    BY <2>1 DEF SendToAll
  <2>3. Agrees(t)
    BY <2>1 DEF ReachInv
  <2> QED
    BY <2>1, <2>2, <2>3, AgreesAppend
<1> QED
  BY <1>2, <1>3 DEF ReachInv

\* A message to one user's thread that carries nothing a thread keeps.
LEMMA SendToKeepsReachInv ==
  ASSUME TypeOK, ReachInv, NEW m \in Message,
         \A t \in Thread : receiver'[t] \in {receiver[t], Append(receiver[t], m)},
         \A u \in Users : channel_map'[u] \in {0, channel_map[u]},
         UNCHANGED <<pc, paused, thread_config, shared_user, is_downloading_paused, config>>,
         m.type \notin FlagTypes \cup {"NewConfig", "NewSharedUser"},
         \A u \in Users : todo # Todo("send_user", u),
         \A u \in Users : channel_map'[u] # 0 =>
           u \in config.users \/ todo' \in {Todo("send_remove", u), Todo("drop_senders", u)}
  PROVE  ReachInv'
<1>1. EntryConfigured'
  BY DEF EntryConfigured
<1>2. ASSUME NEW t \in Thread, Registered(t)', Alive(t)'
      PROVE  Agrees(t)'
  <2>1. Registered(t) /\ Alive(t) /\ t[1] \in Users
    BY <1>2, StillRegistered DEF Thread
  <2>2. Agrees(t)
    BY <2>1 DEF ReachInv
  <2>3. CASE receiver'[t] = receiver[t]
    BY <2>1, <2>2, <2>3, AgreesStill
  <2>4. CASE receiver'[t] = Append(receiver[t], m)
    BY <2>1, <2>2, <2>4, AgreesAppend
  <2> QED
    BY <2>3, <2>4
<1> QED
  BY <1>1, <1>2 DEF ReachInv

\* Nothing that a thread is told of changes, and no call begins or ends.
LEMMA ReachInvStutter ==
  ASSUME ReachInv,
         UNCHANGED <<channel_map, pc, receiver, paused, thread_config, shared_user,
                     is_downloading_paused, config, todo>>
  PROVE  ReachInv'
<1>1. EntryConfigured'
  BY DEF ReachInv, EntryConfigured
<1>2. ASSUME NEW t \in Thread, Registered(t)', Alive(t)'
      PROVE  Agrees(t)'
  BY <1>2, AgreesStill DEF ReachInv, Registered, Alive
<1> QED
  BY <1>1, <1>2 DEF ReachInv

\* A new thread begins with copies of what the manager has, and an empty channel.
LEMMA SpawnKeepsReachInv ==
  ASSUME TypeOK, RegInv, ReachInv, todo = Idle, NEW u \in Users, NEW conn, u \in config.users,
         Spawn(u, conn, config, is_downloading_paused), SpawnUnchanged
  PROVE  ReachInv'
<1> DEFINE n == spawned[u] + 1
           new == <<u, n>>
<1>1. n \in 1 .. MaxThreads /\ new \in Thread /\ spawned[u] \in Nat
  BY ConstantsAssumption DEF TypeOK, Spawn, Thread
<1>2. /\ channel_map' = [channel_map EXCEPT ![u] = n]
      /\ pc' = [pc EXCEPT ![new] = "init"]
      /\ paused' = [paused EXCEPT ![new] = is_downloading_paused]
      /\ thread_config' = [thread_config EXCEPT ![new] = config]
      /\ shared_user' = [shared_user EXCEPT ![new] = config.publicId[u]]
      /\ UNCHANGED <<receiver, todo, config, is_downloading_paused>>
  BY DEF Spawn, SpawnUnchanged, chanVars
<1>3. receiver[new] = <<>> /\ new[1] = u
  BY <1>1 DEF RegInv, Numbered
<1> HIDE DEF n, new
<1>4. EntryConfigured'
  BY <1>2 DEF ReachInv, EntryConfigured, TypeOK
<1>5. ASSUME NEW t \in Thread, Registered(t)', Alive(t)'
      PROVE  Agrees(t)'
  <2>1. t = <<t[1], t[2]>> /\ t[1] \in Users /\ t[2] \in 1 .. MaxThreads
    BY DEF Thread
  <2>2. CASE t[1] = u
    <3>1. t = new
      BY <1>2, <1>5, <2>1, <2>2 DEF TypeOK, Registered, new
    <3>2. /\ receiver'[t] = <<>> /\ paused'[t] = is_downloading_paused'
          /\ thread_config'[t] = config' /\ shared_user'[t] = config'.publicId[t[1]]
      BY <1>1, <1>2, <1>3, <3>1 DEF TypeOK
    <3> QED
      BY <3>2, AgreesNew
  <2>3. CASE t[1] # u
    <3>1. t # new
      BY <2>3 DEF new
    <3>2. Registered(t) /\ Alive(t)
      BY <1>2, <1>5, <2>1, <2>3, <3>1 DEF TypeOK, Registered, Alive
    <3>3. Agrees(t)
      BY <3>2 DEF ReachInv
    <3>4. UNCHANGED <<receiver[t], paused[t], thread_config[t], shared_user[t]>>
      BY <1>2, <3>1 DEF TypeOK
    <3> QED
      BY <1>2, <3>3, <3>4, AgreesStill
  <2> QED
    BY <2>2, <2>3
<1> QED
  BY <1>4, <1>5 DEF ReachInv

\* Which calls are under way.
LEMMA TodoFacts ==
  /\ \A u : /\ Idle # Todo("send_user", u) /\ Idle # Todo("send_remove", u)
            /\ Idle # Todo("drop_senders", u)
            /\ Todo("restart", None) # Todo("send_user", u)
  /\ \A u, v : /\ Todo("send_remove", u) # Todo("send_user", v)
               /\ Todo("drop_senders", u) # Todo("send_user", v)
               /\ Todo("send_user", u) = Todo("send_user", v) => u = v
BY IdleFacts DEF Idle

\* Between calls every entry is that of a configured user.
LEMMA IdleConfigured ==
  ASSUME ReachInv, todo = Idle, NEW u \in Users, channel_map[u] # 0
  PROVE  u \in config.users
BY TodoFacts DEF ReachInv, EntryConfigured

\* The calls that change the configuration.
LEMMA ReconfigureKeepsReachInv ==
  ASSUME TypeOK, ReachInv, todo = Idle, NEW c \in Config, NEW rest, Reconfigure(c, rest),
         \A u \in Users : channel_map[u] # 0 =>
           /\ u \in c.users \/ rest = Todo("send_remove", u)
           /\ rest = Todo("send_user", u) \/ c.publicId[u] = config.publicId[u]
  PROVE  ReachInv'
<1> DEFINE m == [type |-> "NewConfig", config |-> c]
<1>1. m \in Message /\ m.type = "NewConfig" /\ m.config = c
  BY MessageFacts
<1>2. /\ SendToAll(m) /\ todo' = rest /\ config' = c
      /\ UNCHANGED <<pc, paused, thread_config, shared_user, is_downloading_paused>>
  BY DEF Reconfigure, set_new_config, threadUnchanged, pcVars, localVars
<1> HIDE DEF m
<1>3. ASSUME NEW t \in Thread, Registered(t)
      PROVE  rest = Todo("send_user", t[1]) \/ (/\ todo # Todo("send_user", t[1])
                                                /\ c.publicId[t[1]] = config.publicId[t[1]])
  <2>1. t[1] \in Users /\ channel_map[t[1]] # 0
    BY <1>3, ConstantsAssumption DEF Thread, Registered
  <2> QED
    BY <2>1, TodoFacts
<1>4. m.type \notin FlagTypes /\ m.type # "NewSharedUser"
  BY <1>1 DEF FlagTypes
<1> QED
  BY <1>1, <1>2, <1>3, <1>4, SendToAllKeepsReachInv

LEMMA ConfigCommandsKeepReachInv ==
  ASSUME TypeOK, ReachInv,
         \/ \E u \in Users, id \in Ids : add_new_user(u, id) \/ update_user(u, id)
         \/ \E u \in Users : remove_user(u)
         \/ create_new_id \/ set_path_downloads_dir
         \/ \E b \in BOOLEAN : set_ignore_incoming(b)
  PROVE  ReachInv'
<1>0. config \in Config
  BY DEF TypeOK
<1>1. ASSUME NEW name, Command(name)
      PROVE  todo = Idle /\ \A u \in Users : channel_map[u] # 0 => u \in config.users
  BY <1>1, IdleConfigured DEF Command
<1>2. ASSUME NEW u \in Users, NEW id \in Ids, add_new_user(u, id)
      PROVE  ReachInv'
  <2> DEFINE c == [config EXCEPT !.users = @ \cup {u}, !.publicId[u] = id]
  <2>1. /\ c \in Config
        /\ \A v \in Users : v \in config.users => v \in c.users
        /\ \A v \in Users \ {u} : c.publicId[v] = config.publicId[v]
    BY <1>0 DEF Config
  <2>2. Reconfigure(c, Idle) /\ Command("add") /\ u \notin config.users
    BY <1>2 DEF add_new_user
  <2> HIDE DEF c
  <2> QED
    BY <1>1, <2>1, <2>2, ReconfigureKeepsReachInv
<1>3. ASSUME NEW u \in Users, NEW id \in Ids, update_user(u, id)
      PROVE  ReachInv'
  <2> DEFINE c == [config EXCEPT !.publicId[u] = id]
  <2>1. /\ c \in Config
        /\ c.users = config.users
        /\ \A v \in Users \ {u} : c.publicId[v] = config.publicId[v]
    BY <1>0 DEF Config
  <2>2. Reconfigure(c, Todo("send_user", u)) /\ Command("update")
    BY <1>3 DEF update_user
  <2> HIDE DEF c
  <2> QED
    BY <1>1, <2>1, <2>2, ReconfigureKeepsReachInv
<1>4. ASSUME NEW u \in Users, remove_user(u)
      PROVE  ReachInv'
  <2> DEFINE c == [config EXCEPT !.users = @ \ {u}]
  <2>1. /\ c \in Config
        /\ \A v \in Users \ {u} : v \in config.users => v \in c.users
        /\ c.publicId = config.publicId
    BY <1>0 DEF Config
  <2>2. Reconfigure(c, Todo("send_remove", u)) /\ Command("remove")
    BY <1>4 DEF remove_user
  <2> HIDE DEF c
  <2> QED
    BY <1>1, <2>1, <2>2, ReconfigureKeepsReachInv
<1>5. CASE create_new_id
  <2> DEFINE c == [config EXCEPT !.localId = @ + 1]
  <2>1. c \in Config /\ c.users = config.users /\ c.publicId = config.publicId
    BY <1>0, <1>5, ConstantsAssumption DEF Config, Ids, create_new_id
  <2>2. Reconfigure(c, Idle) /\ Command("new_id")
    BY <1>5 DEF create_new_id
  <2> HIDE DEF c
  <2> QED
    BY <1>1, <2>1, <2>2, ReconfigureKeepsReachInv
<1>6. CASE set_path_downloads_dir
  BY <1>0, <1>1, <1>6, ReconfigureKeepsReachInv DEF set_path_downloads_dir
<1>7. ASSUME NEW b \in BOOLEAN, set_ignore_incoming(b)
      PROVE  ReachInv'
  <2> DEFINE c == [config EXCEPT !.ignore_incoming = b]
  <2>1. c \in Config /\ c.users = config.users /\ c.publicId = config.publicId
    BY <1>0 DEF Config
  <2>2. Reconfigure(c, Todo("restart", None)) /\ Command("ignore_incoming")
    BY <1>7 DEF set_ignore_incoming
  <2> HIDE DEF c
  <2> QED
    BY <1>1, <2>1, <2>2, ReconfigureKeepsReachInv
<1> QED
  BY <1>2, <1>3, <1>4, <1>5, <1>6, <1>7

LEMMA DownloadCommandsKeepReachInv ==
  ASSUME TypeOK, RegInv, ReachInv,
         \/ \E u \in Users, p \in Paths : download_selected(u, p) \/ downloads_cancel_single(u, p)
         \/ downloads_cancel_all \/ downloads_pause_all \/ downloads_resume_all
         \/ \E u \in Users : RefreshArrives(u) \/ download_refused(u)
  PROVE  ReachInv'
<1> USE DEF threadUnchanged, SendOnlyUnchanged, pcVars, localVars
<1>1. ASSUME NEW name, Command(name)
      PROVE  /\ todo = Idle
             /\ \A u \in Users : channel_map[u] # 0 => u \in config.users
             /\ \A u : todo # Todo("send_user", u)
  BY <1>1, IdleConfigured, TodoFacts DEF Command
<1>2. ASSUME NEW u \in Users, NEW m \in Message, SendTo(u, m),
             m.type \in {"NewDownload", "CancelDownload"}, UNCHANGED todo,
             UNCHANGED <<pc, paused, thread_config, shared_user, is_downloading_paused, config>>,
             NEW name, Command(name)
      PROVE  ReachInv'
  <2>1. /\ \A t \in Thread : receiver'[t] \in {receiver[t], Append(receiver[t], m)}
        /\ \A v \in Users : channel_map'[v] \in {0, channel_map[v]}
    BY <1>2, SendToForm
  <2>2. m.type \notin FlagTypes \cup {"NewConfig", "NewSharedUser"}
    BY <1>2 DEF FlagTypes
  <2> QED
    BY <1>1, <1>2, <2>1, <2>2, SendToKeepsReachInv
<1>3. ASSUME NEW m \in Message, SendToAll(m),
             m.type \in FlagTypes \cup {"CancelAllDownloads"},
             is_downloading_paused' = IF m.type \in FlagTypes THEN Value(m)
                                                              ELSE is_downloading_paused,
             UNCHANGED <<pc, paused, thread_config, shared_user, config, todo>>,
             NEW name, Command(name)
      PROVE  ReachInv'
  <2>1. m.type # "NewConfig" /\ m.type # "NewSharedUser"
    BY <1>3 DEF FlagTypes
  <2> QED
    BY <1>1, <1>3, <2>1, SendToAllKeepsReachInv
<1>4. ASSUME NEW u \in Users, NEW p \in Paths, download_selected(u, p)
      PROVE  ReachInv'
  <2> DEFINE m == PathMsg("NewDownload", p)
  <2>1. Command("download") /\ u \in config.users /\ m \in Message /\ m.type = "NewDownload"
    BY <1>4, MessageFacts DEF download_selected, PathMsg
  <2>2. CASE Reachable(u)
    <3>1. /\ SendTo(u, m)
          /\ UNCHANGED <<pc, paused, thread_config, shared_user, is_downloading_paused, config,
                         todo>>
      BY <1>4, <2>2 DEF download_selected
    <3> HIDE DEF m
    <3> QED
      BY <1>2, <2>1, <3>1
  <2>3. CASE ~ Reachable(u)
    <3>1. Spawn(u, None, config, is_downloading_paused) /\ SpawnUnchanged
      BY <1>4, <2>3 DEF download_selected
    <3> QED
      BY <1>1, <2>1, <3>1, SpawnKeepsReachInv
  <2> QED
    BY <2>2, <2>3
<1>5. ASSUME NEW u \in Users, NEW p \in Paths, downloads_cancel_single(u, p)
      PROVE  ReachInv'
  <2> DEFINE m == PathMsg("CancelDownload", p)
  <2>1. Command("cancel") /\ m \in Message /\ m.type = "CancelDownload"
    BY <1>5, MessageFacts DEF downloads_cancel_single, PathMsg
  <2>2. /\ SendTo(u, m)
        /\ UNCHANGED <<pc, paused, thread_config, shared_user, is_downloading_paused, config,
                       todo>>
    BY <1>5 DEF downloads_cancel_single
  <2> HIDE DEF m
  <2> QED
    BY <1>2, <2>1, <2>2
<1>6. CASE downloads_cancel_all
  <2> DEFINE m == Msg("CancelAllDownloads")
  <2>1. m \in Message /\ m.type = "CancelAllDownloads" /\ m.type \notin FlagTypes
    BY MessageFacts DEF Msg, FlagTypes
  <2>2. /\ SendToAll(m) /\ Command("cancel_all")
        /\ UNCHANGED <<pc, paused, thread_config, shared_user, config, todo,
                       is_downloading_paused>>
    BY <1>6 DEF downloads_cancel_all
  <2> HIDE DEF m
  <2> QED
    BY <1>3, <2>1, <2>2
<1>7. CASE downloads_pause_all
  <2> DEFINE m == Msg("PauseDownloads")
  <2>1. m \in Message /\ m.type = "PauseDownloads"
    BY MessageFacts DEF Msg
  <2>2. /\ SendToAll(m) /\ Command("pause") /\ is_downloading_paused' = TRUE
        /\ UNCHANGED <<pc, paused, thread_config, shared_user, config, todo>>
    BY <1>7 DEF downloads_pause_all
  <2> HIDE DEF m
  <2>3. m.type \in FlagTypes /\ is_downloading_paused' = Value(m)
    BY <2>1, <2>2, ValueFacts DEF FlagTypes
  <2> QED
    BY <1>3, <2>1, <2>2, <2>3
<1>8. CASE downloads_resume_all
  <2> DEFINE m == Msg("ResumeDownloads")
  <2>1. m \in Message /\ m.type = "ResumeDownloads"
    BY MessageFacts DEF Msg
  <2>2. /\ SendToAll(m) /\ Command("pause") /\ is_downloading_paused' = FALSE
        /\ UNCHANGED <<pc, paused, thread_config, shared_user, config, todo>>
    BY <1>8 DEF downloads_resume_all
  <2> HIDE DEF m
  <2>3. m.type \in FlagTypes /\ is_downloading_paused' = Value(m)
    BY <2>1, <2>2, ValueFacts DEF FlagTypes
  <2> QED
    BY <1>3, <2>1, <2>2, <2>3
<1>9. ASSUME NEW u \in Users, RefreshArrives(u)
      PROVE  ReachInv'
  BY <1>9, ReachInvStutter DEF RefreshArrives, mgrVars, chanVars
<1>10. ASSUME NEW u \in Users, download_refused(u)
       PROVE  ReachInv'
  BY <1>10, ReachInvStutter DEF download_refused, mgrVars, chanVars
<1> QED
  BY <1>4, <1>5, <1>6, <1>7, <1>8, <1>9, <1>10

\* The rest of the manager's calls, and reverse connections.
LEMMA ManagerKeepsReachInv ==
  ASSUME TypeOK, RegInv, ReachInv, MgrTodo \/ ConnNext
  PROVE  ReachInv'
<1> USE DEF threadUnchanged, SendOnlyUnchanged, pcVars, localVars
<1>1. CASE SendRemoveUser
  <2> DEFINE m == Msg("RemoveUser")
  <2>1. m \in Message /\ m.type \notin FlagTypes \cup {"NewConfig", "NewSharedUser"}
    BY MessageFacts DEF Msg, FlagTypes
  <2>2. todo = Todo("send_remove", todo.user) /\ todo' = Todo("drop_senders", todo.user)
    BY <1>1 DEF SendRemoveUser, TypeOK, Todo
  <2>3. \A t \in Thread : receiver'[t] \in {receiver[t], Append(receiver[t], m)}
    BY <1>1 DEF SendRemoveUser
  <2>4. UNCHANGED <<pc, paused, thread_config, shared_user, is_downloading_paused, config,
                    channel_map>>
    BY <1>1 DEF SendRemoveUser
  <2>5. \A u \in Users : channel_map[u] # 0 => u \in config.users \/ u = todo.user
    BY <2>2, IdleFacts DEF ReachInv, EntryConfigured
  <2>6. \A u \in Users : todo # Todo("send_user", u)
    BY <2>2, TodoFacts
  <2> HIDE DEF m
  <2> QED
    BY <2>1, <2>2, <2>3, <2>4, <2>5, <2>6, SendToKeepsReachInv
<1>2. CASE DropSenders
  <2>1. todo = Todo("drop_senders", todo.user) /\ todo' = Idle
    BY <1>2 DEF DropSenders, TypeOK, Todo
  <2>2. /\ channel_map' = [channel_map EXCEPT ![todo.user] = 0]
        /\ UNCHANGED <<pc, receiver, paused, thread_config, shared_user, is_downloading_paused,
                       config>>
    BY <1>2 DEF DropSenders
  <2>3. \A u \in Users : /\ channel_map'[u] \in {0, channel_map[u]}
                         /\ channel_map'[u] # 0 => u # todo.user
    BY <2>2 DEF TypeOK
  <2>4. EntryConfigured'
    BY <2>1, <2>2, <2>3, IdleFacts DEF ReachInv, EntryConfigured
  <2>5. ASSUME NEW t \in Thread, Registered(t)', Alive(t)'
        PROVE  Agrees(t)'
    <3>1. Registered(t) /\ Alive(t)
      BY <2>2, <2>3, <2>5, StillRegistered
    <3>2. todo # Todo("send_user", t[1])
      BY <2>1, TodoFacts
    <3> QED
      BY <2>2, <3>1, <3>2, AgreesStill DEF ReachInv
  <2> QED
    BY <2>4, <2>5 DEF ReachInv
<1>3. CASE SendSharedUser
  <2> DEFINE m == [type |-> "NewSharedUser", publicId |-> config.publicId[todo.user]]
  <2>1. todo = Todo("send_user", todo.user) /\ todo' = Idle
    BY <1>3 DEF SendSharedUser, TypeOK, Todo
  <2>2. /\ SendTo(todo.user, m)
        /\ UNCHANGED <<pc, paused, thread_config, shared_user, is_downloading_paused, config>>
    BY <1>3 DEF SendSharedUser
  <2>3. \A u \in Users : channel_map'[u] \in {0, channel_map[u]}
    BY <2>2, SendToForm
  <2>4. EntryConfigured'
    BY <2>1, <2>2, <2>3, TodoFacts DEF ReachInv, EntryConfigured
  <2>5. ASSUME NEW t \in Thread, Registered(t)', Alive(t)'
        PROVE  Agrees(t)'
    <3>1. Registered(t) /\ Alive(t) /\ t[1] \in Users
      BY <2>2, <2>3, <2>5, StillRegistered DEF Thread
    <3>2. Agrees(t)
      BY <3>1 DEF ReachInv
    <3>3. CASE t[1] = todo.user
      <4>1. /\ m \in Message /\ m.type = "NewSharedUser" /\ m.type \notin FlagTypes
            /\ m.publicId = config.publicId[t[1]]
        BY <3>1, <3>3, MessageFacts DEF TypeOK, Config, FlagTypes
      <4>2. receiver'[t] = Append(receiver[t], m)
        BY <2>2, <3>1, <3>3 DEF SendTo
      <4> HIDE DEF m
      <4> QED
        BY <2>2, <3>2, <4>1, <4>2, AgreesAppend
    <3>4. CASE t[1] # todo.user
      <4>1. receiver'[t] = receiver[t]
        BY <2>2, <3>4 DEF SendTo
      <4>2. todo # Todo("send_user", t[1])
        BY <2>1, <3>4, TodoFacts
      <4> QED
        BY <2>2, <3>2, <4>1, <4>2, AgreesStill
    <3> QED
      BY <3>3, <3>4
  <2> QED
    BY <2>4, <2>5 DEF ReachInv
<1>4. CASE restart_connections
  <2> DEFINE m == Msg("RestartConnection")
  <2>1. m \in Message /\ m.type \notin FlagTypes \cup {"NewConfig", "NewSharedUser"}
    BY MessageFacts DEF Msg, FlagTypes
  <2>2. /\ SendToAll(m) /\ todo.call = "restart" /\ todo' = Idle
        /\ UNCHANGED <<pc, paused, thread_config, shared_user, is_downloading_paused, config>>
    BY <1>4 DEF restart_connections
  <2>3. \A u \in Users : /\ todo # Todo("send_user", u) /\ todo # Todo("send_remove", u)
                         /\ todo # Todo("drop_senders", u)
    BY <2>2, IdleFacts
  <2>4. \A u \in Users : channel_map[u] # 0 => u \in config.users
    BY <2>3 DEF ReachInv, EntryConfigured
  <2>5. \A t \in Thread : todo # Todo("send_user", t[1])
    BY <2>3 DEF Thread
  <2> HIDE DEF m
  <2> QED
    BY <2>1, <2>2, <2>4, <2>5, SendToAllKeepsReachInv
<1>5. ASSUME NEW u \in Users, NEW conn \in Conn, ReverseConnection(u, conn)
      PROVE  ReachInv'
  <2>1. CASE UNCHANGED <<mgrVars, pcVars, receiver, localVars>>
    BY <2>1, ReachInvStutter DEF mgrVars
  <2>2. CASE /\ u \in config.users
             /\ Spawn(u, conn, config, is_downloading_paused) /\ SpawnUnchanged
    BY <1>5, <2>2, SpawnKeepsReachInv DEF ReverseConnection
  <2> QED
    BY <1>5, <2>1, <2>2 DEF ReverseConnection, chanVars
<1> QED
  BY <1>1, <1>2, <1>3, <1>4, <1>5 DEF MgrTodo, ConnNext

\* A restart leaves threads with copies of what the new manager has.
LEMMA RestartKeepsReachInv ==
  ASSUME TypeOK, Restart
  PROVE  ReachInv'
<1> DEFINE starts(u) == u \in config.users /\ FileExists(u)
           fresh(t)  == starts(t[1]) /\ t[2] = spawned[t[1]] + 1
<1>1. /\ channel_map' = [u \in Users |-> IF starts(u) THEN spawned[u] + 1 ELSE 0]
      /\ receiver' = [t \in Thread |-> <<>>]
      /\ thread_config' = [t \in Thread |-> IF fresh(t) THEN config ELSE thread_config[t]]
      /\ shared_user' = [t \in Thread |-> IF fresh(t) THEN config.publicId[t[1]]
                                                      ELSE shared_user[t]]
      /\ paused' = [t \in Thread |-> IF fresh(t) THEN FALSE ELSE paused[t]]
      /\ is_downloading_paused' = FALSE /\ todo' = Idle /\ config' = config
  BY DEF Restart
<1>2. EntryConfigured'
  BY <1>1 DEF EntryConfigured
<1>3. ASSUME NEW t \in Thread, Registered(t)'
      PROVE  Agrees(t)'
  <2>1. t[1] \in Users /\ t[2] # 0
    BY ConstantsAssumption DEF Thread
  <2>2. fresh(t)
    BY <1>1, <1>3, <2>1 DEF Registered
  <2>3. /\ receiver'[t] = <<>> /\ paused'[t] = is_downloading_paused'
        /\ thread_config'[t] = config' /\ shared_user'[t] = config'.publicId[t[1]]
    BY <1>1, <2>2
  <2> QED
    BY <2>3, AgreesNew
<1> QED
  BY <1>2, <1>3 DEF ReachInv

\* For any users and commands, every thread agrees with the manager once it has read
\* its messages, and only configured users have one.
THEOREM ReachInvariant == Spec => [](IInv /\ RegInv /\ ReachInv)
<1>1. Init => ReachInv
  <2> SUFFICES ASSUME Init PROVE ReachInv
    OBVIOUS
  <2>1. \A t \in Thread : ~ Alive(t)
    BY DEF Init, Alive
  <2>2. EntryConfigured
    BY DEF Init, EntryConfigured
  <2> QED
    BY <2>1, <2>2 DEF ReachInv
<1>2. IInv /\ RegInv /\ ReachInv /\ [Next]_vars => ReachInv'
  <2> SUFFICES ASSUME IInv, RegInv, ReachInv, [Next]_vars PROVE ReachInv'
    OBVIOUS
  <2>1. TypeOK
    BY DEF IInv
  <2>2. CASE UNCHANGED vars
    BY <2>2, ReachInvStutter DEF vars, mgrVars, pcVars, chanVars, localVars
  <2>3. CASE UserNext
    BY <2>1, <2>3, DownloadCommandsKeepReachInv, ConfigCommandsKeepReachInv,
       RestartKeepsReachInv DEF UserNext
  <2>4. CASE MgrTodo \/ ConnNext
    BY <2>1, <2>4, ManagerKeepsReachInv
  <2>5. ASSUME NEW t \in Thread, ThreadNext(t) PROVE ReachInv'
    BY <2>1, <2>5, ThreadKeepsReachInv
  <2> QED
    BY <2>2, <2>3, <2>4, <2>5 DEF Next
<1> QED
  BY <1>1, <1>2, Invariant, RegInvariant, PTL DEF Spec

\* Pause and resume reach every downloader that channel_map knows, whatever it is doing
\* and whenever it was started (downloads_pause_all, SingleDownloader::new).
THEOREM PauseReaches == Spec => []PauseReachesThreads
<1>1. ReachInv => PauseReachesThreads
  BY DEF ReachInv, Agrees, FlagTypes, PauseReachesThreads
<1> QED
  BY <1>1, ReachInvariant, PTL

\* So does every configuration that set_new_config hands out.
THEOREM ConfigReaches == Spec => []ConfigReachesThreads
<1>1. ReachInv => ConfigReachesThreads
  BY DEF ReachInv, Agrees, ConfigReachesThreads
<1> QED
  BY <1>1, ReachInvariant, PTL

\* And every public ID that update_user or add_new_user sets.
THEOREM SharedUserReaches == Spec => []SharedUserReachesThreads
<1>1. ReachInv => SharedUserReachesThreads
  BY DEF ReachInv, Agrees, SharedUserReachesThreads
<1> QED
  BY <1>1, ReachInvariant, PTL

-----------------------------------------------------------------------------
(* The queue file.  A thread that has changed its queue goes on only if it *)
(* has written the file, and begins run again otherwise; what a thread     *)
(* finds there is its queue as soon as it has begun.  For this the file    *)
(* must be its own.                                                        *)

\* A user who is not in overlapped never had two threads alive at once.
OneAlive ==
  \A t, o \in Thread :
    t[1] = o[1] /\ Alive(t) /\ Alive(o) /\ t[1] \notin overlapped => t = o

DiskInv == OneAlive /\ QueueOnDisk

\* No thread begins or ends and no queue changes.
LEMMA DiskInvStutter ==
  ASSUME DiskInv, UNCHANGED <<pc, download_queue, queue_file, overlapped>>
  PROVE  DiskInv'
BY DEF DiskInv, OneAlive, QueueOnDisk, Alive

\* A step of thread t leaves the files of other users alone, and t with the queue that
\* is in its file, unless run is about to read it from there.
LEMMA ThreadWrites ==
  ASSUME TypeOK, NEW t \in Thread, ThreadNext(t)
  PROVE  /\ Alive(t)
         /\ overlapped' = overlapped
         /\ \A u \in Users \ {t[1]} : queue_file'[u] = queue_file[u]
         /\ \/ pc'[t] \in {"init", "dead"}
            \/ queue_file'[t[1]] = download_queue'[t]
            \/ pc[t] # "init" /\ UNCHANGED <<queue_file[t[1]], download_queue[t]>>
<1>0. t[1] \in Users
  BY DEF Thread
<1> USE DEF Alive, ThreadFrame
<1>1. CASE StartRun(t)
  BY <1>0, <1>1 DEF StartRun, TypeOK
<1>2. CASE PollRev(t) \/ PollRxEmpty(t) \/ OuterLoop(t)
  BY <1>2 DEF PollRev, PollRxEmpty, OuterLoop, RunFrame, Exit, Goto, localVars, TypeOK
<1>3. ASSUME NEW q, SetQueue(t, q)
      PROVE  /\ \A u \in Users \ {t[1]} : queue_file'[u] = queue_file[u]
             /\ queue_file'[t[1]] = download_queue'[t]
  <2>1. queue_file'[t[1]] = q /\ download_queue'[t] = q
    BY <1>0, <1>3 DEF SetQueue, TypeOK
  <2> QED
    BY <1>3, <2>1 DEF SetQueue, TypeOK
<1>4. CASE OnNewDownload(t) \/ OnCancelDownload(t) \/ OnCancelAll(t) \/ OnRemoveUser(t)
  <2>1. \E q : SetQueue(t, q)
    BY <1>4 DEF OnNewDownload, OnCancelDownload, OnCancelAll, OnRemoveUser
  <2>2. pc[t] = "poll_rx" /\ overlapped' = overlapped
    BY <1>4 DEF OnNewDownload, OnCancelDownload, OnCancelAll, OnRemoveUser, Receive
  <2> QED
    BY <1>3, <2>1, <2>2
<1>5. CASE OnPause(t) \/ OnResume(t) \/ OnNewSharedUser(t) \/ OnRestartConnection(t)
           \/ OnNewConfig(t)
  BY <1>5 DEF OnPause, OnResume, OnNewSharedUser, OnRestartConnection, OnNewConfig, Receive
<1>6. CASE \/ Connect(t) \/ SetEverythingFile(t) \/ LookupEverythingFile(t) \/ InnerLoop(t)
           \/ TransferStep(t) \/ AfterTransferPoll(t)
  BY <1>6 DEF Connect, SetEverythingFile, LookupEverythingFile, InnerLoop, TransferStep,
              AfterTransferPoll, RunFrame
<1>7. CASE SelectItem(t) \/ TransferDone(t) \/ TransferError(t)
  <2>1. pc[t] \in {"select", "transfer"} /\ overlapped' = overlapped
    BY <1>7 DEF SelectItem, TransferDone, TransferError
  <2>2. FinishActive(t) \/ UNCHANGED <<queue_file, download_queue>>
    BY <1>7 DEF SelectItem, TransferDone, TransferError
  <2>3. FinishActive(t) => SetQueue(t, Tail(download_queue[t]))
    BY DEF FinishActive
  <2> QED
    BY <1>3, <2>1, <2>2, <2>3
<1>8. CASE QueueWriteFails(t)
  <2>1. PICK q \in Seq(Paths) : WriteCutOff(t[1], q)
    BY <1>8, QueueWriteFailsFacts
  <2>2. \A u \in Users \ {t[1]} : queue_file'[u] = queue_file[u]
    BY <1>0, <2>1, CutOffType
  <2>3. pc'[t] = "init" /\ pc[t] \notin {"unborn", "dead"} /\ overlapped' = overlapped
    <3>1. /\ pc' = [pc EXCEPT ![t] = "init"] /\ pc[t] \in {"poll_rx", "select", "transfer"}
          /\ overlapped' = overlapped
      BY <1>8, QueueWriteFailsFacts DEF Goto
    <3> QED
      BY <3>1 DEF TypeOK
  <2> QED
    BY <2>2, <2>3
<1> QED
  BY <1>1, <1>2, <1>4, <1>5, <1>6, <1>7, <1>8 DEF ThreadNext, ReadReceiver, Transfer

LEMMA ThreadKeepsDiskInv ==
  ASSUME TypeOK, DiskInv, NEW t \in Thread, ThreadNext(t)
  PROVE  DiskInv'
<1>1. \A o \in Thread \ {t} : pc'[o] = pc[o] /\ download_queue'[o] = download_queue[o]
  BY ThreadIsLocal DEF Own
<1>2. \A o \in Thread : Alive(o)' => Alive(o)
  BY <1>1, ThreadWrites DEF Alive
<1>3. OneAlive'
  BY <1>2, ThreadWrites DEF DiskInv, OneAlive
<1>4. ASSUME NEW o \in Thread, Alive(o)', pc'[o] # "init", o[1] \notin overlapped'
      PROVE  queue_file'[o[1]] = download_queue'[o]
  <2>1. CASE o = t
    BY <1>2, <1>4, <2>1, ThreadWrites DEF DiskInv, QueueOnDisk, Alive
  <2>2. CASE o # t
    <3>1. o[1] # t[1] /\ o[1] \in Users
      BY <1>2, <1>4, <2>2, ThreadWrites DEF DiskInv, OneAlive, Thread
    <3>2. queue_file'[o[1]] = queue_file[o[1]]
      BY <3>1, ThreadWrites
    <3> QED
      BY <1>1, <1>2, <1>4, <2>2, <3>2, ThreadWrites DEF DiskInv, QueueOnDisk
  <2> QED
    BY <2>1, <2>2
<1> QED
  BY <1>3, <1>4 DEF DiskInv, QueueOnDisk

\* A new thread of u begins by reading the file, which may have got a new line for it;
\* if an old one still uses the file, overlapped says so.
LEMMA SpawnKeepsDiskInv ==
  ASSUME TypeOK, DiskInv, NEW u \in Users, NEW conn, NEW cfg, NEW isPaused,
         Spawn(u, conn, cfg, isPaused), download_queue' = download_queue,
         \A v \in Users \ {u} : queue_file'[v] = queue_file[v]
  PROVE  DiskInv'
<1> DEFINE n == spawned[u] + 1
           new == <<u, n>>
<1>1. /\ n \in 1 .. MaxThreads /\ new \in Thread
      /\ pc' = [pc EXCEPT ![new] = "init"]
      /\ overlapped' = IF \E m \in 1 .. MaxThreads : Alive(<<u, m>>)
                       THEN overlapped \cup {u} ELSE overlapped
  <2>1. n \in 1 .. MaxThreads
    BY ConstantsAssumption DEF Spawn, TypeOK
  <2> QED
    BY <2>1 DEF Spawn, Thread
<1>2. pc'[new] = "init" /\ \A o \in Thread \ {new} : pc'[o] = pc[o]
  BY <1>1 DEF TypeOK
<1> HIDE DEF new, n
<1>3. ASSUME NEW o \in Thread, o[1] = u, Alive(o)
      PROVE  u \in overlapped'
  <2>1. o = <<u, o[2]>> /\ o[2] \in 1 .. MaxThreads
    BY <1>3 DEF Thread
  <2> QED
    BY <1>1, <1>3, <2>1
<1>4. new[1] = u
  BY DEF new
<1>5. ASSUME NEW o \in Thread, o # new, Alive(o)', o[1] \notin overlapped'
      PROVE  o[1] # u /\ Alive(o) /\ o[1] \in Users /\ o[1] \notin overlapped
  BY <1>1, <1>2, <1>3, <1>5 DEF Alive, Thread
<1>6. OneAlive'
  BY <1>4, <1>5 DEF DiskInv, OneAlive
<1>7. ASSUME NEW o \in Thread, Alive(o)', pc'[o] # "init", o[1] \notin overlapped'
      PROVE  queue_file'[o[1]] = download_queue'[o]
  <2>1. o # new
    BY <1>2, <1>7
  <2>2. o[1] # u /\ Alive(o) /\ o[1] \in Users /\ o[1] \notin overlapped
    BY <1>5, <1>7, <2>1
  <2> QED
    BY <1>2, <1>7, <2>1, <2>2 DEF DiskInv, QueueOnDisk
<1> QED
  BY <1>6, <1>7 DEF DiskInv, QueueOnDisk

\* After a restart a user has one thread at most, and it has not read the file yet.
LEMMA RestartKeepsDiskInv ==
  ASSUME TypeOK, Restart
  PROVE  DiskInv'
<1> DEFINE fresh(t) == /\ t[1] \in config.users /\ FileExists(t[1])
                       /\ t[2] = spawned[t[1]] + 1
<1>1. pc' = [t \in Thread |-> IF fresh(t) THEN "init"
                              ELSE IF pc[t] = "unborn" THEN "unborn" ELSE "dead"]
  BY DEF Restart
<1>2. \A t \in Thread : Alive(t)' => t[2] = spawned[t[1]] + 1 /\ pc'[t] = "init"
  BY <1>1 DEF Alive
<1>3. \A t \in Thread : t = <<t[1], t[2]>>
  BY DEF Thread
<1>4. OneAlive'
  <2> SUFFICES ASSUME NEW t \in Thread, NEW o \in Thread, t[1] = o[1], Alive(t)', Alive(o)'
               PROVE  t = o
    BY DEF OneAlive
  <2>1. t[2] = o[2]
    BY <1>2
  <2> QED
    BY <1>3, <2>1
<1>5. QueueOnDisk'
  BY <1>2 DEF QueueOnDisk
<1> QED
  BY <1>4, <1>5 DEF DiskInv

\* A line that add_to_queue_file could not write whole is in the file of a user whose
\* threads are all gone; if one is not, overlapped says so.
LEMMA RefusedKeepsDiskInv ==
  ASSUME TypeOK, DiskInv, NEW u \in Users, download_refused(u)
  PROVE  DiskInv'
<1>1. /\ UNCHANGED <<pc, download_queue>>
      /\ overlapped' = IF \E m \in 1 .. MaxThreads : Alive(<<u, m>>)
                       THEN overlapped \cup {u} ELSE overlapped
  BY DEF download_refused, pcVars, localVars
<1>2. \A v \in Users \ {u} : queue_file'[v] = queue_file[v]
  BY DEF download_refused, TypeOK
<1>3. ASSUME NEW o \in Thread, o[1] = u, Alive(o)
      PROVE  u \in overlapped'
  <2>1. o = <<u, o[2]>> /\ o[2] \in 1 .. MaxThreads
    BY <1>3 DEF Thread
  <2> QED
    BY <1>1, <1>3, <2>1
<1>4. OneAlive'
  BY <1>1 DEF DiskInv, OneAlive, Alive
<1>5. ASSUME NEW o \in Thread, Alive(o)', pc'[o] # "init", o[1] \notin overlapped'
      PROVE  queue_file'[o[1]] = download_queue'[o]
  <2>1. Alive(o) /\ o[1] \notin overlapped /\ o[1] \in Users
    BY <1>1, <1>5 DEF Alive, Thread
  <2>2. o[1] # u
    BY <1>3, <1>5, <2>1
  <2> QED
    BY <1>1, <1>2, <1>5, <2>1, <2>2 DEF DiskInv, QueueOnDisk
<1> QED
  BY <1>4, <1>5 DEF DiskInv, QueueOnDisk

\* The manager touches a queue file only where it starts a thread, or fails to.
LEMMA ManagerKeepsDiskInv ==
  ASSUME TypeOK, DiskInv, UserNext \/ MgrTodo \/ ConnNext, ~ Restart
  PROVE  DiskInv'
<1> DEFINE Same == UNCHANGED <<pc, download_queue, queue_file, overlapped>>
<1> USE DEF threadUnchanged, SendOnlyUnchanged, pcVars, localVars
<1>1. ASSUME NEW u \in Users, NEW p \in Paths, download_selected(u, p)
      PROVE  DiskInv'
  <2>1. CASE Reachable(u)
    BY <1>1, <2>1, DiskInvStutter DEF download_selected
  <2>2. CASE ~ Reachable(u)
    <3>1. /\ Spawn(u, None, config, is_downloading_paused) /\ download_queue' = download_queue
          /\ \E items \in WithLine(u, p) : queue_file' = [queue_file EXCEPT ![u] = items]
      BY <1>1, <2>2 DEF download_selected, SpawnUnchanged
    <3>2. \A v \in Users \ {u} : queue_file'[v] = queue_file[v]
      BY <3>1 DEF TypeOK
    <3> QED
      BY <3>1, <3>2, SpawnKeepsDiskInv
  <2> QED
    BY <2>1, <2>2
<1>2. ASSUME NEW u \in Users, NEW conn \in Conn, ReverseConnection(u, conn)
      PROVE  DiskInv'
  <2>1. CASE Same
    BY <2>1, DiskInvStutter
  <2>2. CASE Spawn(u, conn, config, is_downloading_paused) /\ SpawnUnchanged
    BY <1>2, <2>2, SpawnKeepsDiskInv DEF ReverseConnection, SpawnUnchanged
  <2> QED
    BY <1>2, <2>1, <2>2 DEF ReverseConnection
<1>3. CASE \/ \E u \in Users, p \in Paths : downloads_cancel_single(u, p)
           \/ downloads_cancel_all \/ downloads_pause_all \/ downloads_resume_all
           \/ \E u \in Users : RefreshArrives(u)
  BY <1>3, DiskInvStutter DEF downloads_cancel_single, downloads_cancel_all, downloads_pause_all,
     downloads_resume_all, RefreshArrives, ghostVars
<1>4. CASE \/ \E u \in Users, id \in Ids : add_new_user(u, id) \/ update_user(u, id)
           \/ \E u \in Users : remove_user(u)
           \/ create_new_id \/ set_path_downloads_dir
           \/ \E b \in BOOLEAN : set_ignore_incoming(b)
  <2>1. Same
    BY <1>4 DEF add_new_user, update_user, remove_user, create_new_id, set_path_downloads_dir,
       set_ignore_incoming, Reconfigure
  <2> QED
    BY <2>1, DiskInvStutter
<1>5. CASE MgrTodo
  BY <1>5, DiskInvStutter DEF MgrTodo, SendRemoveUser, DropSenders, SendSharedUser,
     restart_connections
<1> QED
  BY <1>1, <1>2, <1>3, <1>4, <1>5, RefusedKeepsDiskInv DEF UserNext, ConnNext

\* Files and queues agree in every reachable state.
LEMMA DiskInvariant == Spec => []DiskInv
<1>1. Init => DiskInv
  BY DEF Init, DiskInv, OneAlive, QueueOnDisk, Alive
<1>2. IInv /\ DiskInv /\ [Next]_vars => DiskInv'
  <2> SUFFICES ASSUME IInv, DiskInv, [Next]_vars PROVE DiskInv'
    OBVIOUS
  <2>1. TypeOK
    BY DEF IInv
  <2>2. CASE UNCHANGED vars
    BY <2>2, DiskInvStutter DEF vars, pcVars, localVars, ghostVars
  <2>3. ASSUME NEW t \in Thread, ThreadNext(t) PROVE DiskInv'
    BY <2>1, <2>3, ThreadKeepsDiskInv
  <2> QED
    BY <2>1, <2>2, <2>3, ManagerKeepsDiskInv, RestartKeepsDiskInv DEF Next
<1> QED
  BY <1>1, <1>2, Invariant, PTL DEF Spec

\* Outside write_queue and the beginning of run, the queue of a thread that has the file
\* to itself is in the file, whichever writes have failed before and wherever they were
\* cut off (write_queue with its "?" after every change of download_queue): for any
\* users, paths, threads and commands.
THEOREM QueueIsOnDisk == Spec => []QueueOnDisk
<1>1. DiskInv => QueueOnDisk
  BY DEF DiskInv
<1> QED
  BY <1>1, DiskInvariant, PTL

-----------------------------------------------------------------------------
(* No download is lost.  What is wanted of a user is in the file of the    *)
(* user's thread or in a message that it will read: a thread that serves   *)
(* a user has the file to itself, takes nothing from it but what it        *)
(* reports, what a message cancels and what a failed write cut off, and    *)
(* does not end while the user stays.                                      *)

\* Does message m decide whether p will be downloaded?
Concerns(m, p) ==
  \/ m.type = "CancelAllDownloads"
  \/ m = PathMsg("NewDownload", p)
  \/ m = PathMsg("CancelDownload", p)

About(s, p) == {i \in DOMAIN s : Concerns(s[i], p)}

\* Once channel s has been read, p is in the queue that was q before.
Wants(s, p, q) ==
  \/ \E i \in About(s, p) : (\A j \in About(s, p) : j <= i) /\ s[i].type = "NewDownload"
  \/ About(s, p) = {} /\ InSeq(p, q)

\* Queues keep what is not taken from them.
LEMMA AppendKeeps ==
  ASSUME NEW S, NEW q \in Seq(S), NEW x
  PROVE  InSeq(x, Append(q, x)) /\ \A p : InSeq(p, q) => InSeq(p, Append(q, x))
<1>1. /\ Len(q) + 1 \in DOMAIN Append(q, x) /\ Append(q, x)[Len(q) + 1] = x
      /\ \A i \in DOMAIN q : i \in DOMAIN Append(q, x) /\ Append(q, x)[i] = q[i]
  OBVIOUS
<1> QED
  BY <1>1 DEF InSeq

LEMMA TailKeeps ==
  ASSUME NEW S, NEW q \in Seq(S), NEW p, InSeq(p, q), p # Head(q)
  PROVE  InSeq(p, Tail(q))
<1>1. PICK i \in DOMAIN q : q[i] = p
  BY DEF InSeq
<1>2. q # <<>> /\ i # 1
  BY <1>1
<1>3. i - 1 \in DOMAIN Tail(q) /\ Tail(q)[i - 1] = p
  BY <1>1, <1>2
<1> QED
  BY <1>3 DEF InSeq

LEMMA RetainKeeps ==
  ASSUME NEW S, NEW s \in Seq(S), NEW x, NEW p, InSeq(p, s), p # x
  PROVE  InSeq(p, Retain(s, x))
<1>1. PICK H : /\ \A i \in 0 .. Len(s) : H[i] \in Seq(S) /\ H[i] = RetainStep(s, x, H, i)
               /\ Retain(s, x) = H[Len(s)]
  BY RetainRun
<1>2. PICK k \in 1 .. Len(s) : s[k] = p
  BY DEF InSeq
<1> DEFINE T == {j \in k .. Len(s) : ~ InSeq(p, H[j])}
<1>3. T = {}
  <2>1. SUFFICES ASSUME T # {} PROVE FALSE
    OBVIOUS
  <2>2. PICK n \in T : \A m \in T : n <= m
    <3> T \in SUBSET Nat
      OBVIOUS
    <3> HIDE DEF T
    <3> QED
      BY <2>1, NatMin
  <2>3. /\ n \in k .. Len(s) /\ n \in 0 .. Len(s) /\ n - 1 \in 0 .. Len(s) /\ n # 0
        /\ ~ InSeq(p, H[n])
    BY <2>2
  <2>4. n # k => n - 1 \in k .. Len(s) /\ n - 1 \notin T
    BY <2>2
  <2>5. n # k => InSeq(p, H[n - 1])
    BY <2>4
  <2> HIDE DEF T
  <2>6. H[n] = IF s[n] # x THEN Append(H[n - 1], s[n]) ELSE H[n - 1]
    BY <1>1, <2>3 DEF RetainStep
  <2>7. H[n - 1] \in Seq(S)
    BY <1>1, <2>3
  <2>8. InSeq(s[n], Append(H[n - 1], s[n]))
        /\ (InSeq(p, H[n - 1]) => InSeq(p, Append(H[n - 1], s[n])))
    BY <2>7, AppendKeeps
  <2>9. CASE n = k
    BY <1>2, <2>3, <2>6, <2>8, <2>9
  <2>10. CASE n # k
    BY <2>3, <2>5, <2>6, <2>8, <2>10
  <2> QED
    BY <2>9, <2>10
<1>4. Len(s) \in k .. Len(s)
  OBVIOUS
<1> QED
  BY <1>1, <1>3, <1>4

\* Another message does not change what a thread will have.
LEMMA WantsOther ==
  ASSUME NEW s \in Seq(Message), NEW m \in Message, NEW p, NEW q,
         Wants(s, p, q), ~ Concerns(m, p)
  PROVE  Wants(Append(s, m), p, q)
<1>1. \A i \in DOMAIN Append(s, m) : i \in DOMAIN s \/ (i = Len(s) + 1 /\ Append(s, m)[i] = m)
  OBVIOUS
<1>2. \A i \in DOMAIN s : i \in DOMAIN Append(s, m) /\ Append(s, m)[i] = s[i]
  OBVIOUS
<1>3. About(Append(s, m), p) = About(s, p)
  BY <1>1, <1>2 DEF About
<1> QED
  BY <1>2, <1>3 DEF Wants, About

\* A request that is sent will be carried out.
LEMMA WantsNew ==
  ASSUME NEW s \in Seq(Message), NEW p \in Paths, NEW q
  PROVE  Wants(Append(s, PathMsg("NewDownload", p)), p, q)
<1> DEFINE m == PathMsg("NewDownload", p)
           n == Len(s) + 1
<1>1. m \in Message /\ m.type = "NewDownload" /\ Concerns(m, p)
  BY MessageFacts DEF Concerns, PathMsg
<1> HIDE DEF m
<1>2. n \in DOMAIN Append(s, m) /\ Append(s, m)[n] = m
  BY <1>1
<1>3. \A i \in DOMAIN Append(s, m) : i <= n
  BY <1>1
<1>4. n \in About(Append(s, m), p) /\ \A j \in About(Append(s, m), p) : j <= n
  BY <1>1, <1>2, <1>3 DEF About
<1> QED
  BY <1>1, <1>2, <1>4 DEF Wants, m

\* A thread reads a message, and its queue becomes r.
LEMMA WantsTail ==
  ASSUME NEW s \in Seq(Message), s # <<>>, NEW p, NEW q, NEW r, Wants(s, p, q),
         LET m == Head(s)
         IN \/ ~ Concerns(m, p) /\ (InSeq(p, q) => InSeq(p, r))
            \/ Concerns(m, p) /\ InSeq(p, r)
            \/ Concerns(m, p) /\ m.type # "NewDownload"
  PROVE  Wants(Tail(s), p, r)
<1>1. 1 \in DOMAIN s /\ s[1] = Head(s)
  OBVIOUS
<1>2. \A i \in DOMAIN Tail(s) : i \in Nat /\ i + 1 \in DOMAIN s /\ Tail(s)[i] = s[i + 1]
  OBVIOUS
<1>3. \A i \in DOMAIN s : i \in Nat /\ (i = 1 \/ (i - 1 \in DOMAIN Tail(s) /\ s[i] = Tail(s)[i - 1]))
  OBVIOUS
<1>4. \A i \in About(Tail(s), p) : i \in Nat /\ i + 1 \in About(s, p)
  BY <1>2 DEF About
<1>5. \A i \in About(s, p) : i \in Nat /\ (i = 1 \/ i - 1 \in About(Tail(s), p))
  BY <1>3 DEF About
<1>6. ASSUME NEW i \in About(s, p), \A j \in About(s, p) : j <= i, s[i].type = "NewDownload",
             i # 1
      PROVE  Wants(Tail(s), p, r)
  <2>1. i - 1 \in About(Tail(s), p) /\ i \in Nat
    BY <1>5, <1>6
  <2>2. ASSUME NEW j \in About(Tail(s), p) PROVE j <= i - 1
    <3>1. j \in Nat /\ j + 1 <= i
      BY <1>4, <1>6, <2>2
    <3> QED
      BY <2>1, <3>1
  <2>3. Tail(s)[i - 1].type = "NewDownload"
    BY <1>3, <1>6 DEF About
  <2> QED
    BY <2>1, <2>2, <2>3 DEF Wants
<1>7. ASSUME About(Tail(s), p) = {}
      PROVE  InSeq(p, r)
  <2>1. \A i \in About(s, p) : i = 1
    BY <1>5, <1>7
  <2>2. CASE ~ Concerns(Head(s), p)
    <3>1. About(s, p) = {}
      BY <1>1, <2>1, <2>2 DEF About
    <3> QED
      BY <2>2, <3>1 DEF Wants
  <2>3. CASE Concerns(Head(s), p)
    <3>1. 1 \in About(s, p)
      BY <1>1, <2>3 DEF About
    <3>2. Head(s).type = "NewDownload"
      BY <1>1, <2>1, <3>1 DEF Wants
    <3> QED
      BY <2>3, <3>2
  <2> QED
    BY <2>2, <2>3
<1>8. ASSUME About(Tail(s), p) # {}
      PROVE  \E i \in About(s, p) : i # 1 /\ (\A j \in About(s, p) : j <= i)
                                    /\ s[i].type = "NewDownload"
  <2>1. PICK k \in About(Tail(s), p) : TRUE
    BY <1>8
  <2>2. k \in Nat /\ k >= 1 /\ k + 1 \in About(s, p)
    BY <1>4, <2>1 DEF About
  <2>3. PICK i \in About(s, p) : (\A j \in About(s, p) : j <= i) /\ s[i].type = "NewDownload"
    BY <2>2 DEF Wants
  <2>4. k + 1 <= i /\ i \in Nat
    BY <1>5, <2>2, <2>3
  <2> QED
    BY <2>2, <2>3, <2>4
<1> QED
  BY <1>6, <1>7, <1>8 DEF Wants

\* Only users who stay are wanted anything of.
WantedOfUsers ==
  \A u \in Users : wanted[u] # {} =>
    u \in config.users /\ todo \notin {Todo("send_remove", u), Todo("drop_senders", u)}

\* The thread that serves u, if there is one.
Server(u) == <<u, channel_map[u]>>

Kept ==
  \A u \in Users \ overlapped : \A p \in wanted[u] :
    channel_map[u] # 0 /\ Wants(receiver[Server(u)], p, queue_file[u])

KeptInv == WantedOfUsers /\ Kept

\* As long as anything is wanted of u, its thread lives and is not told to end.
LEMMA ServerLives ==
  ASSUME TypeOK, RegInv, KeptInv, NEW u \in Users \ overlapped, wanted[u] # {}
  PROVE  /\ channel_map[u] # 0 /\ Server(u) \in Thread /\ Registered(Server(u))
         /\ Alive(Server(u)) /\ ~ Doomed(Server(u)) /\ Reachable(u)
<1>1. channel_map[u] \in 1 .. MaxThreads /\ channel_map[u] <= spawned[u] /\ spawned[u] \in Nat
  BY ConstantsAssumption DEF TypeOK, KeptInv, Kept, RegInv, Numbered
<1>2. /\ Server(u) \in Thread /\ Server(u)[1] = u /\ Server(u)[2] = channel_map[u]
      /\ Registered(Server(u))
  BY <1>1 DEF Server, Thread, Registered
<1>3. ~ Removing(u)
  BY DEF KeptInv, WantedOfUsers, Removing
<1>4. ~ Doomed(Server(u))
  BY <1>2, <1>3 DEF RegInv, DoomedIsRemoved
<1>5. pc[Server(u)] # "unborn"
  BY <1>1, <1>2 DEF RegInv, Numbered
<1> QED
  BY <1>1, <1>2, <1>4, <1>5 DEF Doomed, Alive, Reachable, Server

\* A step of a thread takes nothing up that was not wanted before.
LEMMA ThreadWants ==
  ASSUME TypeOK, NEW t \in Thread, ThreadNext(t)
  PROVE  \A u \in Users : wanted'[u] \subseteq wanted[u]
<1> DEFINE Goal == \A u \in Users : wanted'[u] \subseteq wanted[u]
<1>1. CASE ReadReceiver(t)
  BY <1>1 DEF ReadReceiver, PollRev, PollRxEmpty, Exit, OnNewDownload, OnCancelDownload,
              OnCancelAll, OnRemoveUser, OnPause, OnResume, OnNewSharedUser,
              OnRestartConnection, OnNewConfig, Receive
<1>4. CASE QueueWriteFails(t)
  <2>1. GiveUpUnwritten(t)
    BY <1>4, QueueWriteFailsFacts
  <2> QED
    BY <2>1 DEF GiveUpUnwritten, TypeOK
<1>2. CASE \/ StartRun(t) \/ OuterLoop(t) \/ Connect(t) \/ SetEverythingFile(t)
           \/ LookupEverythingFile(t) \/ TransferStep(t) \/ AfterTransferPoll(t) \/ InnerLoop(t)
  BY <1>2 DEF StartRun, OuterLoop, Connect, SetEverythingFile, LookupEverythingFile, TransferStep,
              AfterTransferPoll, InnerLoop, RunFrame, Exit
<1>3. CASE SelectItem(t) \/ TransferDone(t) \/ TransferError(t)
  <2>1. FinishActive(t) \/ UNCHANGED wanted
    BY <1>3 DEF SelectItem, TransferDone, TransferError
  <2>2. FinishActive(t) => Goal
    BY DEF FinishActive, TypeOK
  <2> QED
    BY <2>1, <2>2
<1> QED
  BY <1>1, <1>2, <1>3, <1>4 DEF ThreadNext, Transfer

\* A message that t reads changes the file of its user in one of these ways.
LEMMA ReceiveWrites ==
  ASSUME TypeOK, NEW t \in Thread, ReadReceiver(t), ~ PollRev(t), ~ PollRxEmpty(t)
  PROVE  /\ pc[t] = "poll_rx" /\ receiver[t] # <<>> /\ receiver'[t] = Tail(receiver[t])
         /\ LET m == Head(receiver[t])
                q == download_queue[t]
            IN \/ m.type \in {"CancelAllDownloads", "RemoveUser"}
               \/ /\ m.type = "NewDownload" /\ m = PathMsg("NewDownload", m.path)
                  /\ queue_file'[t[1]] = Append(q, m.path)
               \/ /\ m.type = "CancelDownload" /\ m = PathMsg("CancelDownload", m.path)
                  /\ queue_file'[t[1]] = Retain(q, m.path)
               \/ /\ m.type \notin {"NewDownload", "CancelDownload", "CancelAllDownloads"}
                  /\ queue_file' = queue_file
<1>1. ASSUME NEW type, Receive(t, type)
      PROVE  /\ pc[t] = "poll_rx" /\ receiver[t] # <<>> /\ receiver'[t] = Tail(receiver[t])
             /\ Head(receiver[t]).type = type
  BY <1>1 DEF Receive, TypeOK
<1>2. t[1] \in Users
  BY DEF Thread
<1>3. \A q : SetQueue(t, q) => queue_file'[t[1]] = q
  BY <1>2 DEF SetQueue, TypeOK
<1>4. receiver[t] # <<>> => Head(receiver[t]) \in Message
  BY DEF TypeOK
<1>5. \A m \in Message : m.type \in {"NewDownload", "CancelDownload"} => m = PathMsg(m.type, m.path)
  BY DEF Message, PathMsg
<1>6. CASE OnNewDownload(t)
  BY <1>1, <1>3, <1>4, <1>5, <1>6 DEF OnNewDownload
<1>7. CASE OnCancelDownload(t)
  BY <1>1, <1>3, <1>4, <1>5, <1>7 DEF OnCancelDownload
<1>8. CASE OnCancelAll(t) \/ OnRemoveUser(t)
  <2>1. Receive(t, "CancelAllDownloads") \/ Receive(t, "RemoveUser")
    BY <1>8 DEF OnCancelAll, OnRemoveUser
  <2> QED
    BY <1>1, <2>1
<1>9. CASE OnPause(t) \/ OnResume(t) \/ OnNewSharedUser(t) \/ OnRestartConnection(t)
           \/ OnNewConfig(t)
  <2>1. \E type \in {"PauseDownloads", "ResumeDownloads", "NewSharedUser", "RestartConnection",
                     "NewConfig"} : Receive(t, type)
    BY <1>9 DEF OnPause, OnResume, OnNewSharedUser, OnRestartConnection, OnNewConfig
  <2>2. queue_file' = queue_file
    BY <1>9 DEF OnPause, OnResume, OnNewSharedUser, OnRestartConnection, OnNewConfig
  <2> QED
    BY <1>1, <2>1, <2>2
<1> QED
  BY <1>6, <1>7, <1>8, <1>9 DEF ReadReceiver

\* What a failed write leaves wanted of t's user is in the file or in a message.
LEMMA CutOffServes ==
  ASSUME TypeOK, NEW t \in Thread, QueueWriteFails(t),
         NEW p \in wanted'[t[1]], NEW q, Wants(receiver[t], p, q)
  PROVE  Wants(receiver'[t], p, queue_file'[t[1]])
<1> DEFINE r == queue_file'[t[1]]
           new == PathMsg("NewDownload", p)
<1>1. \/ InSeq(p, r)
      \/ \E i \in DOMAIN receiver'[t] : receiver'[t][i] = new
  <2>1. GiveUpUnwritten(t) /\ t[1] \in Users
    BY QueueWriteFailsFacts DEF Thread
  <2> QED
    BY <2>1 DEF GiveUpUnwritten, TypeOK
<1>2. InSeq(p, r) \/ About(receiver'[t], p) # {}
  BY <1>1 DEF About, Concerns
<1>3. \A x : InSeq(x, <<x>>)
  BY DEF InSeq
<1>4. CASE UNCHANGED receiver
  <2>1. receiver'[t] = receiver[t]
    BY <1>4
  <2> HIDE DEF r
  <2> QED
    BY <1>2, <2>1 DEF Wants, r
<1>5. CASE receiver[t] # <<>> /\ receiver' = [receiver EXCEPT ![t] = Tail(@)]
  <2>1. receiver[t] \in Seq(Message) /\ receiver'[t] = Tail(receiver[t])
    BY <1>5 DEF TypeOK
  <2>2. Wants(Tail(receiver[t]), p, <<p>>)
    BY <1>3, <1>5, <2>1, WantsTail
  <2> HIDE DEF r
  <2> QED
    BY <1>2, <2>1, <2>2 DEF Wants, r
<1> QED
  BY <1>4, <1>5, QueueWriteFailsFacts

\* What a thread's own step makes of a download that is still wanted afterwards.
LEMMA ThreadServes ==
  ASSUME TypeOK, NEW t \in Thread, ThreadNext(t), Registered(t), ~ Doomed(t),
         pc[t] # "init" => queue_file[t[1]] = download_queue[t],
         NEW p \in wanted'[t[1]], Wants(receiver[t], p, queue_file[t[1]])
  PROVE  Wants(receiver'[t], p, queue_file'[t[1]])
<1>0. /\ receiver[t] \in Seq(Message) /\ download_queue[t] \in Seq(Paths) /\ t[1] \in Users
  BY DEF TypeOK, Thread
<1>1. ASSUME UNCHANGED <<receiver, queue_file>>
      PROVE  Wants(receiver'[t], p, queue_file'[t[1]])
  BY <1>1
<1>2. CASE StartRun(t) \/ PollRev(t) \/ PollRxEmpty(t) \/ OuterLoop(t)
  <2>1. UNCHANGED <<receiver, queue_file>>
    BY <1>2 DEF StartRun, PollRev, PollRxEmpty, OuterLoop, RunFrame, chanVars, Doomed
  <2> QED
    BY <1>1, <2>1
<1>3. CASE \/ Connect(t) \/ SetEverythingFile(t) \/ LookupEverythingFile(t)
           \/ TransferStep(t) \/ AfterTransferPoll(t) \/ InnerLoop(t)
  <2>1. UNCHANGED <<receiver, queue_file>>
    BY <1>3 DEF Connect, SetEverythingFile, LookupEverythingFile, TransferStep, AfterTransferPoll,
                InnerLoop, RunFrame, chanVars
  <2> QED
    BY <1>1, <2>1
<1>4. CASE SelectItem(t) \/ TransferDone(t) \/ TransferError(t)
  <2>1. receiver' = receiver /\ pc[t] # "init"
    BY <1>4 DEF SelectItem, TransferDone, TransferError, chanVars
  <2>2. FinishActive(t) \/ queue_file' = queue_file
    BY <1>4 DEF SelectItem, TransferDone, TransferError
  <2>3. CASE FinishActive(t)
    <3>1. queue_file'[t[1]] = Tail(queue_file[t[1]]) /\ p # Head(queue_file[t[1]])
      BY <1>0, <2>1, <2>3 DEF FinishActive, SetQueue, TypeOK
    <3>2. InSeq(p, queue_file[t[1]]) => InSeq(p, queue_file'[t[1]])
      BY <1>0, <2>1, <3>1, TailKeeps
    <3> QED
      BY <2>1, <3>2 DEF Wants
  <2> QED
    BY <1>1, <2>1, <2>2, <2>3
<1>5. CASE ReadReceiver(t) /\ ~ PollRev(t) /\ ~ PollRxEmpty(t)
  <2> DEFINE m == Head(receiver[t])
             q == download_queue[t]
             r == queue_file'[t[1]]
  <2>1. /\ receiver[t] # <<>> /\ receiver'[t] = Tail(receiver[t]) /\ queue_file[t[1]] = q
        /\ m.type # "RemoveUser"
    <3>1. pc[t] = "poll_rx" /\ receiver[t] # <<>> /\ receiver'[t] = Tail(receiver[t])
      BY <1>5, ReceiveWrites
    <3>2. 1 \in DOMAIN receiver[t] /\ receiver[t][1] = m
      BY <1>0, <3>1
    <3> QED
      BY <3>1, <3>2 DEF Doomed
  <2>2. \/ m.type = "CancelAllDownloads"
        \/ m = PathMsg("NewDownload", m.path) /\ r = Append(q, m.path)
        \/ /\ m.type = "CancelDownload" /\ m = PathMsg("CancelDownload", m.path)
           /\ r = Retain(q, m.path)
        \/ m.type \notin {"NewDownload", "CancelDownload", "CancelAllDownloads"} /\ r = q
    BY <1>5, <2>1, ReceiveWrites
  <2>3. \A type, x : PathMsg(type, x).type = type /\ PathMsg(type, x).path = x
    BY DEF PathMsg
  <2>4. InSeq(m.path, Append(q, m.path)) /\ (InSeq(p, q) => InSeq(p, Append(q, m.path)))
    BY <1>0, AppendKeeps
  <2>5. InSeq(p, q) /\ p # m.path => InSeq(p, Retain(q, m.path))
    BY <1>0, RetainKeeps
  <2> HIDE DEF m, q, r
  <2>6. \/ ~ Concerns(m, p) /\ (InSeq(p, q) => InSeq(p, r))
        \/ Concerns(m, p) /\ InSeq(p, r)
        \/ Concerns(m, p) /\ m.type # "NewDownload"
    <3>1. CASE m.type = "CancelAllDownloads"
      BY <3>1 DEF Concerns
    <3>2. CASE m = PathMsg("NewDownload", m.path) /\ r = Append(q, m.path)
      BY <2>3, <2>4, <3>2 DEF Concerns
    <3>3. CASE /\ m.type = "CancelDownload" /\ m = PathMsg("CancelDownload", m.path)
               /\ r = Retain(q, m.path)
      BY <2>3, <2>5, <3>3 DEF Concerns
    <3>4. CASE m.type \notin {"NewDownload", "CancelDownload", "CancelAllDownloads"} /\ r = q
      BY <2>3, <3>4 DEF Concerns
    <3> QED
      BY <2>2, <3>1, <3>2, <3>3, <3>4
  <2>7. Wants(Tail(receiver[t]), p, r)
    BY <1>0, <2>1, <2>6, WantsTail DEF m
  <2> QED
    BY <2>1, <2>7 DEF r
<1>6. CASE QueueWriteFails(t)
  BY <1>6, CutOffServes
<1> QED
  BY <1>2, <1>3, <1>4, <1>5, <1>6 DEF ThreadNext, ReadReceiver, Transfer

LEMMA ThreadKeepsKept ==
  ASSUME TypeOK, RegInv, DiskInv, KeptInv, NEW t \in Thread, ThreadNext(t)
  PROVE  KeptInv'
<1>1. /\ UNCHANGED <<config, channel_map, todo, overlapped>>
      /\ \A o \in Thread \ {t} : receiver'[o] = receiver[o]
      /\ Alive(t) /\ t[1] \in Users
  BY ThreadFrameOf, ThreadWrites DEF ThreadFrame, mgrVars, Thread
<1>2. WantedOfUsers'
  BY <1>1, ThreadWants DEF KeptInv, WantedOfUsers
<1>3. ASSUME NEW u \in Users \ overlapped, NEW p \in wanted'[u]
      PROVE  channel_map[u] # 0 /\ Wants(receiver'[Server(u)], p, queue_file'[u])
  <2>1. p \in wanted[u]
    BY <1>3, ThreadWants
  <2>2. /\ channel_map[u] # 0 /\ Server(u) \in Thread /\ Registered(Server(u))
        /\ Alive(Server(u)) /\ ~ Doomed(Server(u)) /\ Server(u)[1] = u
    BY <2>1, ServerLives DEF Server
  <2>3. Wants(receiver[Server(u)], p, queue_file[u])
    BY <2>1 DEF KeptInv, Kept
  <2>4. CASE Server(u) = t
    <3>1. pc[t] # "init" => queue_file[t[1]] = download_queue[t]
      BY <1>1, <2>2, <2>4 DEF DiskInv, QueueOnDisk
    <3> QED
      BY <1>3, <2>2, <2>3, <2>4, <3>1, ThreadServes
  <2>5. CASE Server(u) # t
    <3>1. t[1] # u
      BY <1>1, <2>2, <2>5 DEF DiskInv, OneAlive
    <3>2. queue_file'[u] = queue_file[u]
      BY <3>1, ThreadWrites
    <3> QED
      BY <1>1, <2>2, <2>3, <2>5, <3>2
  <2> QED
    BY <2>4, <2>5
<1>4. Kept'
  BY <1>1, <1>3 DEF Kept, Server
<1> QED
  BY <1>2, <1>4 DEF KeptInv

\* The manager sends m to some threads, and m concerns nothing that stays wanted of a
\* user it is sent to.
LEMMA SendKeepsKept ==
  ASSUME TypeOK, RegInv, KeptInv, NEW m \in Message,
         SendToAll(m) \/ \E v \in Users : SendTo(v, m),
         \A u \in Users : wanted'[u] \subseteq wanted[u],
         \A u \in Users : \A p \in wanted'[u] :
           Concerns(m, p) /\ Server(u) \in Thread => receiver'[Server(u)] = receiver[Server(u)],
         UNCHANGED <<queue_file, overlapped>>
  PROVE  Kept'
<1>1. ASSUME NEW u \in Users \ overlapped, NEW p \in wanted'[u]
      PROVE  channel_map'[u] # 0 /\ Wants(receiver'[<<u, channel_map'[u]>>], p, queue_file'[u])
  <2>1. p \in wanted[u]
    BY <1>1
  <2>2. channel_map[u] # 0 /\ Server(u) \in Thread /\ Reachable(u)
    BY <2>1, ServerLives
  <2>3. channel_map'[u] = channel_map[u]
    BY <2>2 DEF SendToAll, SendTo, TypeOK
  <2>4. receiver'[Server(u)] = receiver[Server(u)]
        \/ receiver'[Server(u)] = Append(receiver[Server(u)], m)
    BY <2>2, SendToAllForm, SendToForm
  <2>5. Wants(receiver[Server(u)], p, queue_file[u])
    BY <2>1 DEF KeptInv, Kept
  <2>6. receiver[Server(u)] \in Seq(Message)
    BY <2>2 DEF TypeOK
  <2>7. Wants(receiver'[Server(u)], p, queue_file[u])
    <3>1. CASE receiver'[Server(u)] = receiver[Server(u)]
      BY <2>5, <3>1
    <3>2. CASE ~ Concerns(m, p) /\ receiver'[Server(u)] = Append(receiver[Server(u)], m)
      BY <2>5, <2>6, <3>2, WantsOther
    <3> QED
      BY <1>1, <2>2, <2>4, <3>1, <3>2
  <2> QED
    BY <2>2, <2>3, <2>7 DEF Server
<1> QED
  BY <1>1 DEF Kept, Server

\* Nothing that is wanted, and nothing that serves it, changes.
LEMMA KeptStutter ==
  ASSUME Kept, UNCHANGED <<channel_map, receiver, queue_file, wanted, overlapped>>
  PROVE  Kept'
BY DEF Kept, Server

\* A thread is started for a user only if nothing was wanted of that user, or for p.
LEMMA SpawnKeepsKept ==
  ASSUME TypeOK, RegInv, KeptInv, NEW u \in Users, NEW conn, NEW cfg, NEW isPaused,
         Spawn(u, conn, cfg, isPaused), SpawnUnchanged, ~ Reachable(u),
         \A v \in Users \ {u} : wanted'[v] = wanted[v] /\ queue_file'[v] = queue_file[v],
         \A p \in wanted'[u] : p \in wanted[u] \/ InSeq(p, queue_file'[u])
  PROVE  Kept'
<1> DEFINE n == spawned[u] + 1
           new == <<u, n>>
<1>1. n \in 1 .. MaxThreads /\ new \in Thread /\ spawned[u] \in Nat
  BY ConstantsAssumption DEF TypeOK, Spawn, Thread
<1>2. /\ channel_map' = [channel_map EXCEPT ![u] = n] /\ receiver' = receiver
      /\ overlapped' \in {overlapped, overlapped \cup {u}}
  BY DEF Spawn, SpawnUnchanged, chanVars
<1>3. receiver[new] = <<>>
  BY <1>1 DEF RegInv, Numbered
<1> HIDE DEF new, n
<1>4. ASSUME NEW v \in Users \ overlapped', NEW p \in wanted'[v]
      PROVE  channel_map'[v] # 0 /\ Wants(receiver'[<<v, channel_map'[v]>>], p, queue_file'[v])
  <2>1. v \notin overlapped
    BY <1>2, <1>4
  <2>2. CASE v = u
    <3>1. wanted[u] = {}
      BY <2>1, <2>2, ServerLives
    <3>2. channel_map'[v] = n /\ n # 0
      BY <1>1, <1>2, <2>2 DEF TypeOK
    <3>3. receiver'[<<v, channel_map'[v]>>] = <<>>
      BY <1>2, <1>3, <2>2, <3>2 DEF new
    <3>4. InSeq(p, queue_file'[v])
      BY <1>4, <2>2, <3>1
    <3>5. About(<<>>, p) = {}
      BY DEF About
    <3> QED
      BY <3>2, <3>3, <3>4, <3>5 DEF Wants
  <2>3. CASE v # u
    <3>1. channel_map'[v] = channel_map[v] /\ p \in wanted[v] /\ queue_file'[v] = queue_file[v]
      BY <1>2, <1>4, <2>3 DEF TypeOK
    <3> QED
      BY <1>2, <2>1, <3>1 DEF KeptInv, Kept, Server
  <2> QED
    BY <2>2, <2>3
<1> QED
  BY <1>4 DEF Kept, Server

LEMMA DownloadKeepsKept ==
  ASSUME TypeOK, RegInv, KeptInv, NEW u \in Users, NEW p \in Paths, download_selected(u, p)
  PROVE  KeptInv'
<1>1. /\ todo = Idle /\ u \in config.users /\ UNCHANGED <<config, todo>>
      /\ wanted' = [wanted EXCEPT ![u] = IF ~ Reachable(u) /\ RunsOn(u) THEN @ ELSE @ \cup {p}]
  BY DEF download_selected, Command, SpawnUnchanged
<1>2. \A v \in Users : v # u => wanted'[v] = wanted[v]
  BY <1>1 DEF TypeOK
<1>3. /\ wanted'[u] = wanted[u] \/ wanted'[u] = wanted[u] \cup {p}
      /\ ~ Reachable(u) /\ RunsOn(u) => wanted'[u] = wanted[u]
  BY <1>1 DEF TypeOK
<1>4. WantedOfUsers'
  BY <1>1, <1>2, TodoFacts DEF KeptInv, WantedOfUsers
<1>5. CASE Reachable(u)
  <2> DEFINE m == PathMsg("NewDownload", p)
  <2>1. SendTo(u, m) /\ UNCHANGED <<queue_file, overlapped>>
    BY <1>5 DEF download_selected
  <2>2. m \in Message /\ \A x : Concerns(m, x) => x = p
    BY MessageFacts DEF Concerns, PathMsg
  <2>3. \A v \in Users : Reachable(v) => channel_map'[v] = channel_map[v]
    BY <2>1, <1>5 DEF SendTo, TypeOK
  <2>4. channel_map[u] # 0 /\ Alive(Server(u)) /\ Server(u) \in Thread
    BY <1>5 DEF Reachable, Server, TypeOK, Thread
  <2>5. receiver'[Server(u)] = Append(receiver[Server(u)], m)
    BY <2>1, <2>4 DEF SendTo, Registered, Server
  <2> HIDE DEF m
  <2>6. ASSUME NEW v \in Users \ overlapped, NEW x \in wanted'[v]
        PROVE  channel_map'[v] # 0 /\ Wants(receiver'[<<v, channel_map'[v]>>], x, queue_file'[v])
    <3>1. CASE v = u /\ x = p
      <4>1. receiver[Server(u)] \in Seq(Message)
        BY <2>4 DEF TypeOK
      <4>2. Wants(receiver'[Server(u)], p, queue_file'[u])
        BY <2>5, <4>1, WantsNew DEF m
      <4> QED
        BY <1>5, <2>3, <2>4, <3>1, <4>2 DEF Server
    <3>2. CASE v # u \/ x # p
      <4>1. x \in wanted[v]
        BY <1>2, <1>3, <2>6, <3>2
      <4>2. channel_map[v] # 0 /\ Server(v) \in Thread /\ Reachable(v) /\ Server(v)[1] = v
        BY <2>6, <4>1, ServerLives DEF Server
      <4>3. Wants(receiver[Server(v)], x, queue_file[v])
        BY <2>6, <4>1 DEF KeptInv, Kept
      <4>4. receiver[Server(v)] \in Seq(Message)
        BY <4>2 DEF TypeOK
      <4>5. \/ receiver'[Server(v)] = receiver[Server(v)]
            \/ v = u /\ receiver'[Server(v)] = Append(receiver[Server(v)], m)
        BY <2>1, <4>2 DEF SendTo
      <4>6. Wants(receiver'[Server(v)], x, queue_file[v])
        <5>1. CASE receiver'[Server(v)] = receiver[Server(v)]
          BY <4>3, <5>1
        <5>2. CASE v = u /\ receiver'[Server(v)] = Append(receiver[Server(v)], m)
          BY <2>2, <3>2, <4>3, <4>4, <5>2, WantsOther
        <5> QED
          BY <4>5, <5>1, <5>2
      <4> QED
        BY <2>1, <2>3, <4>2, <4>6 DEF Server
    <3> QED
      BY <3>1, <3>2
  <2>7. Kept'
    BY <2>1, <2>6 DEF Kept, Server
  <2> QED
    BY <1>4, <2>7 DEF KeptInv
<1>6. CASE ~ Reachable(u)
  <2>1. /\ Spawn(u, None, config, is_downloading_paused) /\ SpawnUnchanged
        /\ \E items \in WithLine(u, p) : queue_file' = [queue_file EXCEPT ![u] = items]
    BY <1>6 DEF download_selected
  <2>2. \A v \in Users \ {u} : queue_file'[v] = queue_file[v]
    BY <2>1 DEF TypeOK
  <2>3. queue_file'[u] \in WithLine(u, p) /\ queue_file[u] \in Seq(Paths)
    BY <2>1 DEF TypeOK
  <2>4. ~ RunsOn(u) => InSeq(p, queue_file'[u])
    BY <2>3, WithLineFacts, AppendKeeps
  <2>5. \A x \in wanted'[u] : x \in wanted[u] \/ InSeq(x, queue_file'[u])
    BY <1>3, <1>6, <2>4
  <2>6. Kept'
    BY <1>2, <1>6, <2>1, <2>2, <2>5, SpawnKeepsKept
  <2> QED
    BY <1>4, <2>6 DEF KeptInv
<1> QED
  BY <1>5, <1>6

\* A request that is refused is not wanted; and of a user without a thread nothing was.
LEMMA RefusedKeepsKept ==
  ASSUME TypeOK, RegInv, KeptInv, NEW u \in Users, download_refused(u)
  PROVE  KeptInv'
<1>1. /\ ~ Reachable(u) /\ UNCHANGED <<channel_map, receiver, wanted, config, todo>>
      /\ overlapped' \in {overlapped, overlapped \cup {u}}
  BY DEF download_refused, mgrVars, chanVars
<1>2. \A v \in Users \ {u} : queue_file'[v] = queue_file[v]
  BY DEF download_refused, TypeOK
<1>3. WantedOfUsers'
  BY <1>1 DEF KeptInv, WantedOfUsers
<1>4. \A v \in Users \ overlapped : wanted[v] # {} => v # u
  BY <1>1, ServerLives
<1>5. Kept'
  BY <1>1, <1>2, <1>4 DEF KeptInv, Kept, Server
<1> QED
  BY <1>3, <1>5 DEF KeptInv

\* The calls that send one message to all threads, or cancel something.
LEMMA CommandsKeepKept ==
  ASSUME TypeOK, RegInv, KeptInv,
         \/ \E u \in Users, p \in Paths : downloads_cancel_single(u, p)
         \/ downloads_cancel_all \/ downloads_pause_all \/ downloads_resume_all
         \/ \E u \in Users : RefreshArrives(u)
  PROVE  KeptInv'
<1> USE DEF SendOnlyUnchanged
<1>1. \A type \in {"PauseDownloads", "ResumeDownloads"} : \A p : ~ Concerns(Msg(type), p)
  BY DEF Concerns, Msg, PathMsg
<1>2. ASSUME NEW u \in Users, NEW p \in Paths, downloads_cancel_single(u, p)
      PROVE  KeptInv'
  <2> DEFINE m == PathMsg("CancelDownload", p)
  <2>1. /\ SendTo(u, m) /\ UNCHANGED <<queue_file, overlapped, config, todo>>
        /\ wanted' = [wanted EXCEPT ![u] = @ \ {p}]
    BY <1>2 DEF downloads_cancel_single
  <2>2. /\ \A v \in Users : wanted'[v] \subseteq wanted[v]
        /\ p \notin wanted'[u]
    BY <2>1 DEF TypeOK
  <2>3. m \in Message /\ \A x : Concerns(m, x) => x = p
    BY MessageFacts DEF Concerns, PathMsg
  <2> HIDE DEF m
  <2>4. ASSUME NEW v \in Users, NEW x \in wanted'[v]
        PROVE  Concerns(m, x) /\ Server(v) \in Thread => receiver'[Server(v)] = receiver[Server(v)]
    <3>1. CASE v = u
      BY <2>2, <2>3, <2>4, <3>1
    <3>2. CASE v # u
      <4>1. Server(v)[1] = v
        BY DEF Server
      <4> QED
        BY <2>1, <3>2, <4>1 DEF SendTo
    <3> QED
      BY <3>1, <3>2
  <2>5. Kept'
    BY <2>1, <2>2, <2>3, <2>4, SendKeepsKept
  <2> QED
    BY <2>1, <2>2, <2>5 DEF KeptInv, WantedOfUsers
<1>3. CASE downloads_cancel_all
  <2>1. wanted' = [u \in Users |-> {}]
    BY <1>3 DEF downloads_cancel_all
  <2> QED
    BY <2>1 DEF KeptInv, Kept, WantedOfUsers
<1>4. CASE downloads_pause_all \/ downloads_resume_all
  <2>1. PICK type \in {"PauseDownloads", "ResumeDownloads"} : SendToAll(Msg(type))
    BY <1>4 DEF downloads_pause_all, downloads_resume_all
  <2>2. UNCHANGED <<queue_file, overlapped, config, todo, wanted>>
    BY <1>4 DEF downloads_pause_all, downloads_resume_all
  <2>3. Kept'
    BY <1>1, <2>1, <2>2, MessageFacts, SendKeepsKept
  <2> QED
    BY <2>2, <2>3 DEF KeptInv, WantedOfUsers
<1>5. ASSUME NEW u \in Users, RefreshArrives(u)
      PROVE  KeptInv'
  <2>1. UNCHANGED <<channel_map, receiver, queue_file, wanted, overlapped, config, todo>>
    BY <1>5 DEF RefreshArrives, mgrVars, chanVars, ghostVars
  <2> QED
    BY <2>1, KeptStutter DEF KeptInv, WantedOfUsers
<1> QED
  BY <1>2, <1>3, <1>4, <1>5

\* A new configuration is sent to all threads; what is wanted is wanted of users who are
\* in it, and whose removal does not begin.
LEMMA ReconfigureKeepsKept ==
  ASSUME TypeOK, RegInv, KeptInv, NEW c \in Config, NEW rest, Reconfigure(c, rest),
         \A u \in Users : /\ wanted'[u] \subseteq wanted[u]
                          /\ wanted'[u] # {} /\ u \in config.users => u \in c.users,
         \A u \in Users : wanted'[u] # {} =>
           rest # Todo("send_remove", u) /\ rest # Todo("drop_senders", u)
  PROVE  KeptInv'
<1> DEFINE m == [type |-> "NewConfig", config |-> c]
<1>1. /\ SendToAll(m) /\ config' = c /\ todo' = rest /\ UNCHANGED <<queue_file, overlapped>>
  BY DEF Reconfigure, set_new_config
<1>2. m \in Message /\ \A p : ~ Concerns(m, p)
  BY MessageFacts DEF Concerns, PathMsg
<1> HIDE DEF m
<1>3. Kept'
  BY <1>1, <1>2, SendKeepsKept
<1>4. WantedOfUsers'
  BY <1>1 DEF KeptInv, WantedOfUsers
<1> QED
  BY <1>3, <1>4 DEF KeptInv

LEMMA ConfigCommandsKeepKept ==
  ASSUME TypeOK, RegInv, KeptInv,
         \/ \E u \in Users, id \in Ids : add_new_user(u, id) \/ update_user(u, id)
         \/ \E u \in Users : remove_user(u)
         \/ create_new_id \/ set_path_downloads_dir
         \/ \E b \in BOOLEAN : set_ignore_incoming(b)
  PROVE  KeptInv'
<1>0. config \in Config /\ config.users \in SUBSET Users /\ config.publicId \in [Users -> Ids]
  BY DEF TypeOK, Config
<1>1. ASSUME NEW c \in Config, NEW rest, Reconfigure(c, rest), UNCHANGED wanted,
             config.users \subseteq c.users,
             rest = Idle \/ (\E u : rest = Todo("send_user", u)) \/ rest = Todo("restart", None)
      PROVE  KeptInv'
  <2>1. \A u : rest # Todo("send_remove", u) /\ rest # Todo("drop_senders", u)
    BY <1>1 DEF Idle, Todo
  <2> QED
    BY <1>1, <2>1, ReconfigureKeepsKept
<1>2. ASSUME NEW u \in Users, NEW id \in Ids, add_new_user(u, id)
      PROVE  KeptInv'
  <2> DEFINE c == [config EXCEPT !.users = @ \cup {u}, !.publicId[u] = id]
  <2>1. c \in Config /\ \A v \in Users : v \in config.users => v \in c.users
    BY <1>0 DEF Config
  <2>2. Reconfigure(c, Idle) /\ UNCHANGED wanted
    BY <1>2 DEF add_new_user
  <2> HIDE DEF c
  <2> QED
    BY <1>0, <1>1, <2>1, <2>2
<1>3. ASSUME NEW u \in Users, NEW id \in Ids, update_user(u, id)
      PROVE  KeptInv'
  <2> DEFINE c == [config EXCEPT !.publicId[u] = id]
  <2>1. c \in Config /\ c.users = config.users
    BY <1>0 DEF Config
  <2>2. Reconfigure(c, Todo("send_user", u)) /\ UNCHANGED wanted
    BY <1>3 DEF update_user
  <2> HIDE DEF c
  <2> QED
    BY <1>1, <2>1, <2>2
<1>4. ASSUME NEW u \in Users, remove_user(u)
      PROVE  KeptInv'
  <2> DEFINE c == [config EXCEPT !.users = @ \ {u}]
             rest == Todo("send_remove", u)
  <2>1. c \in Config /\ \A v \in Users \ {u} : v \in config.users => v \in c.users
    BY <1>0 DEF Config
  <2>2. Reconfigure(c, rest) /\ wanted' = [wanted EXCEPT ![u] = {}]
    BY <1>4 DEF remove_user
  <2>3. \A v \in Users : /\ wanted'[v] \subseteq wanted[v]
                         /\ wanted'[v] # {} => v # u
    BY <2>2 DEF TypeOK
  <2>4. \A v : v # u => rest # Todo("send_remove", v) /\ rest # Todo("drop_senders", v)
    BY DEF Todo
  <2> HIDE DEF c, rest
  <2> QED
    BY <2>1, <2>2, <2>3, <2>4, ReconfigureKeepsKept
<1>5. CASE create_new_id
  <2> DEFINE c == [config EXCEPT !.localId = @ + 1]
  <2>1. c \in Config /\ c.users = config.users
    BY <1>0, <1>5, ConstantsAssumption DEF Config, Ids, create_new_id
  <2>2. Reconfigure(c, Idle) /\ UNCHANGED wanted
    BY <1>5 DEF create_new_id
  <2> HIDE DEF c
  <2> QED
    BY <1>1, <2>1, <2>2
<1>6. CASE set_path_downloads_dir
  BY <1>0, <1>1, <1>6 DEF set_path_downloads_dir
<1>7. ASSUME NEW b \in BOOLEAN, set_ignore_incoming(b)
      PROVE  KeptInv'
  <2> DEFINE c == [config EXCEPT !.ignore_incoming = b]
  <2>1. c \in Config /\ c.users = config.users
    BY <1>0 DEF Config
  <2>2. Reconfigure(c, Todo("restart", None)) /\ UNCHANGED wanted
    BY <1>7 DEF set_ignore_incoming
  <2> HIDE DEF c
  <2> QED
    BY <1>1, <2>1, <2>2
<1> QED
  BY <1>2, <1>3, <1>4, <1>5, <1>6, <1>7

\* The rest of the manager's calls, and reverse connections.
LEMMA ManagerKeepsKept ==
  ASSUME TypeOK, RegInv, KeptInv, MgrTodo \/ ConnNext
  PROVE  KeptInv'
<1> USE DEF SendOnlyUnchanged
<1>0. \A type, p : type # "CancelAllDownloads" => ~ Concerns(Msg(type), p)
  BY DEF Concerns, Msg, PathMsg
<1>1. CASE SendRemoveUser
  <2> DEFINE m == Msg("RemoveUser")
  <2>1. todo = Todo("send_remove", todo.user) /\ todo' = Todo("drop_senders", todo.user)
    BY <1>1 DEF SendRemoveUser, TypeOK, Todo
  <2>2. UNCHANGED <<channel_map, queue_file, wanted, overlapped, config>>
    BY <1>1 DEF SendRemoveUser
  <2>3. WantedOfUsers'
    BY <2>1, <2>2 DEF KeptInv, WantedOfUsers, Todo
  <2>4. m \in Message /\ \A p : ~ Concerns(m, p)
    BY <1>0, MessageFacts
  <2>5. \A t \in Thread : receiver'[t] \in {receiver[t], Append(receiver[t], m)}
    BY <1>1 DEF SendRemoveUser
  <2> HIDE DEF m
  <2>6. ASSUME NEW u \in Users \ overlapped, NEW p \in wanted[u]
        PROVE  channel_map[u] # 0 /\ Wants(receiver'[Server(u)], p, queue_file[u])
    <3>1. channel_map[u] # 0 /\ Server(u) \in Thread
      BY <2>6, ServerLives
    <3>2. Wants(receiver[Server(u)], p, queue_file[u]) /\ receiver[Server(u)] \in Seq(Message)
      BY <2>6, <3>1 DEF KeptInv, Kept, TypeOK
    <3> QED
      BY <2>4, <2>5, <3>1, <3>2, WantsOther
  <2>7. Kept'
    BY <2>2, <2>6 DEF Kept, Server
  <2> QED
    BY <2>3, <2>7 DEF KeptInv
<1>2. CASE DropSenders
  <2>1. todo = Todo("drop_senders", todo.user) /\ todo' = Idle
    BY <1>2 DEF DropSenders, TypeOK, Todo
  <2>2. /\ channel_map' = [channel_map EXCEPT ![todo.user] = 0]
        /\ UNCHANGED <<receiver, queue_file, wanted, overlapped, config>>
    BY <1>2 DEF DropSenders
  <2>3. WantedOfUsers'
    BY <2>1, <2>2, TodoFacts DEF KeptInv, WantedOfUsers
  <2>4. \A u \in Users : wanted[u] # {} => u # todo.user /\ channel_map'[u] = channel_map[u]
    BY <2>1, <2>2 DEF KeptInv, WantedOfUsers, TypeOK
  <2>5. Kept'
    BY <2>2, <2>4 DEF KeptInv, Kept, Server
  <2> QED
    BY <2>3, <2>5 DEF KeptInv
<1>3. CASE SendSharedUser
  <2> DEFINE m == [type |-> "NewSharedUser", publicId |-> config.publicId[todo.user]]
  <2>1. /\ todo.call = "send_user" /\ todo' = Idle /\ SendTo(todo.user, m)
        /\ UNCHANGED <<queue_file, wanted, overlapped, config>>
    BY <1>3 DEF SendSharedUser
  <2>2. \A p : ~ Concerns(m, p)
    BY DEF Concerns, PathMsg
  <2>3. WantedOfUsers'
    BY <2>1, TodoFacts DEF KeptInv, WantedOfUsers
  <2>4. CASE todo.user \in Users
    <3>1. m \in Message
      BY <2>4, MessageFacts DEF TypeOK, Config
    <3> HIDE DEF m
    <3>2. Kept'
      BY <2>1, <2>2, <2>4, <3>1, SendKeepsKept
    <3> QED
      BY <2>3, <3>2 DEF KeptInv
  <2>5. CASE todo.user \notin Users
    <3>1. receiver' = receiver /\ channel_map' = channel_map
      BY <2>1, <2>5 DEF SendTo, TypeOK, Thread
    <3> QED
      BY <2>1, <2>3, <3>1, KeptStutter DEF KeptInv
  <2> QED
    BY <2>4, <2>5
<1>4. CASE restart_connections
  <2>1. /\ SendToAll(Msg("RestartConnection")) /\ todo' = Idle
        /\ UNCHANGED <<queue_file, wanted, overlapped, config>>
    BY <1>4 DEF restart_connections
  <2>2. WantedOfUsers'
    BY <2>1, TodoFacts DEF KeptInv, WantedOfUsers
  <2>3. Kept'
    BY <1>0, <2>1, MessageFacts, SendKeepsKept
  <2> QED
    BY <2>2, <2>3 DEF KeptInv
<1>5. ASSUME NEW u \in Users, NEW conn \in Conn, ReverseConnection(u, conn)
      PROVE  KeptInv'
  <2>1. UNCHANGED <<wanted, queue_file, config, todo>>
    BY <1>5 DEF ReverseConnection, mgrVars, SpawnUnchanged
  <2>2. CASE UNCHANGED <<mgrVars, receiver, overlapped>>
    BY <2>1, <2>2, KeptStutter DEF mgrVars, KeptInv, WantedOfUsers
  <2>3. CASE /\ channel_map[u] = 0
             /\ Spawn(u, conn, config, is_downloading_paused) /\ SpawnUnchanged
    <3>1. ~ Reachable(u)
      BY <2>3 DEF Reachable
    <3>2. Kept'
      BY <2>1, <2>3, <3>1, SpawnKeepsKept
    <3> QED
      BY <2>1, <3>2 DEF KeptInv, WantedOfUsers
  <2> QED
    BY <1>5, <2>2, <2>3 DEF ReverseConnection, chanVars
<1> QED
  BY <1>1, <1>2, <1>3, <1>4, <1>5 DEF MgrTodo, ConnNext

\* After a restart what is still wanted is what was in the files, for each of which a
\* thread is started.
LEMMA RestartKeepsKept ==
  ASSUME TypeOK, RegInv, KeptInv, Restart
  PROVE  KeptInv'
<1> DEFINE starts(u) == u \in config.users /\ FileExists(u)
<1>1. /\ channel_map' = [u \in Users |-> IF starts(u) THEN spawned[u] + 1 ELSE 0]
      /\ receiver' = [t \in Thread |-> <<>>]
      /\ wanted' = [u \in Users |-> {p \in wanted[u] :
           \A t \in Thread : t[1] = u =>
             \A i \in DOMAIN receiver[t] : receiver[t][i] # PathMsg("NewDownload", p)}]
      /\ todo' = Idle /\ UNCHANGED <<config, queue_file, overlapped>>
      /\ \A u \in Users : starts(u) => spawned[u] < MaxThreads
  BY DEF Restart
<1>2. WantedOfUsers'
  BY <1>1, TodoFacts DEF KeptInv, WantedOfUsers
<1>3. ASSUME NEW u \in Users \ overlapped, NEW p \in wanted'[u]
      PROVE  channel_map'[u] # 0 /\ Wants(receiver'[<<u, channel_map'[u]>>], p, queue_file'[u])
  <2>1. /\ p \in wanted[u]
        /\ \A t \in Thread : t[1] = u =>
             \A i \in DOMAIN receiver[t] : receiver[t][i] # PathMsg("NewDownload", p)
    BY <1>1, <1>3
  <2>2. Server(u) \in Thread /\ Server(u)[1] = u
    BY <2>1, ServerLives DEF Server
  <2>3. Wants(receiver[Server(u)], p, queue_file[u])
    BY <2>1 DEF KeptInv, Kept
  <2>4. \A i \in About(receiver[Server(u)], p) : receiver[Server(u)][i].type # "NewDownload"
    BY <2>1, <2>2 DEF About, Concerns, PathMsg
  <2>5. InSeq(p, queue_file[u])
    BY <2>3, <2>4 DEF Wants
  <2>6. u \in config.users /\ FileExists(u)
    BY <2>1, <2>5 DEF KeptInv, WantedOfUsers, InSeq, FileExists
  <2>7. channel_map'[u] = spawned[u] + 1 /\ spawned[u] + 1 \in 1 .. MaxThreads
    BY <1>1, <2>6, ConstantsAssumption DEF TypeOK
  <2>8. receiver'[<<u, channel_map'[u]>>] = <<>>
    BY <1>1, <2>7 DEF Thread
  <2>9. About(<<>>, p) = {}
    BY DEF About
  <2> QED
    BY <1>1, <2>5, <2>7, <2>8, <2>9 DEF Wants
<1>4. Kept'
  BY <1>1, <1>3 DEF Kept, Server
<1> QED
  BY <1>2, <1>4 DEF KeptInv

\* A download that was asked for, and neither cancelled nor reported, is still going to
\* happen (download_selected, add_to_queue_file_and_start_downloader, the arms of
\* read_receiver, set_active_download_finished, start_downloading), for any users, paths,
\* threads, commands, restarts and failed writes.  What is lost is what the property
\* names: requests that a failed write left out of the file (write_queue truncates it
\* first), and at a restart those that no thread had read.
THEOREM NothingIsLost == Spec => []NoLostDownload
<1>1. Init => KeptInv
  BY DEF Init, KeptInv, Kept, WantedOfUsers
<1>2. IInv /\ RegInv /\ DiskInv /\ KeptInv /\ [Next]_vars => KeptInv'
  <2> SUFFICES ASSUME IInv, RegInv, DiskInv, KeptInv, [Next]_vars PROVE KeptInv'
    OBVIOUS
  <2>1. TypeOK
    BY DEF IInv
  <2>2. CASE UNCHANGED vars
    BY <2>2, KeptStutter DEF vars, mgrVars, chanVars, ghostVars, KeptInv, WantedOfUsers
  <2>3. CASE UserNext
    BY <2>1, <2>3, DownloadKeepsKept, RefusedKeepsKept, CommandsKeepKept,
       ConfigCommandsKeepKept, RestartKeepsKept DEF UserNext
  <2>4. CASE MgrTodo \/ ConnNext
    BY <2>1, <2>4, ManagerKeepsKept
  <2>5. ASSUME NEW t \in Thread, ThreadNext(t) PROVE KeptInv'
    BY <2>1, <2>5, ThreadKeepsKept
  <2> QED
    BY <2>2, <2>3, <2>4, <2>5 DEF Next
<1>3. IInv /\ RegInv /\ DiskInv /\ KeptInv => NoLostDownload
  <2> SUFFICES ASSUME IInv, RegInv, DiskInv, KeptInv,
                      NEW u \in Users \ overlapped, NEW p \in wanted[u]
               PROVE  Pending(u, p)
    BY DEF NoLostDownload
  <2>1. channel_map[u] # 0 /\ Server(u) \in Thread /\ Alive(Server(u)) /\ Server(u)[1] = u
    BY ServerLives DEF IInv, Server
  <2>2. pc[Server(u)] # "init" => queue_file[u] = download_queue[Server(u)]
    BY <2>1 DEF DiskInv, QueueOnDisk
  <2>3. Wants(receiver[Server(u)], p, queue_file[u])
    BY DEF KeptInv, Kept
  <2> QED
    BY <2>1, <2>2, <2>3 DEF Pending, Wants, About, Concerns, Server
<1> QED
  BY <1>1, <1>2, <1>3, Invariant, RegInvariant, DiskInvariant, PTL DEF Spec

=============================================================================
