----------------------------- MODULE Downloader -----------------------------
(***************************************************************************)
(* The outgoing side of transmitic-core (outgoing_downloader.rs): the      *)
(* manager OutgoingDownloader, called under its mutex by the UI thread and *)
(* by the app loop, and one SingleDownloader thread per user, which it     *)
(* commands through two mpsc channels.  The n-th thread ever started for   *)
(* user u is <<u, n>>.  Dropping a user from channel_map drops both        *)
(* Senders: the thread it leaves behind is an orphan until it polls.       *)
(*                                                                         *)
(* The bytes of a transfer are abstracted (see FileTransfer): here a       *)
(* transfer is a run of steps, each followed by the code's poll of its     *)
(* channels, that ends in completion, in rejection or in an error.         *)
(***************************************************************************)
EXTENDS Integers, Sequences, FiniteSets

CONSTANTS
  Users,        \* nicknames that may appear in the configuration
  Paths,        \* paths offered by the remote users
  None,         \* Rust's Option::None
  Commands,     \* the UI commands that this instance enables
  MaxCommands,  \* bound: UI commands in a behaviour
  MaxConns,     \* bound: reverse connections handed over in a behaviour
  MaxThreads,   \* bound: threads started for one user
  MaxId,        \* bound: identities (private and public IDs are 0 .. MaxId)
  DiskFails     \* whether writes of a queue file may fail or be interrupted

ASSUME ConstantsAssumption ==
  /\ MaxCommands \in Nat /\ MaxConns \in Nat
  /\ MaxThreads \in Nat /\ MaxId \in Nat
  /\ DiskFails \in BOOLEAN
ASSUME NoneAssumption == None \notin Paths /\ None \notin Users

VARIABLES
  \* OutgoingDownloader
  config,                 \* the manager's Config
  channel_map,            \* u -> number of the thread its Senders reach, 0 if no entry
  is_downloading_paused,
  refresh_data,           \* u -> "absent", "nodata" or "data"
  todo,                   \* what is left of a call that holds the manager's mutex
  spawned,                \* u -> threads started so far
  \* one entry per SingleDownloader thread
  pc, ret,                \* control point, and where read_receiver returns to
  receiver, rev_receiver, \* the two channels
  download_queue, active_download_path,
  paused, stop_downloading, shutdown,
  reverse_connection,     \* the stored reverse connection, or None
  stream,                 \* the connection in use, or None
  thread_config, shared_user,
  \* disk
  queue_file,             \* u -> items in <nickname>.txt, one per line
  file_tail,              \* u -> how that file ends, see Tails
  \* bounds and history
  commands, conns,
  wanted,                 \* u -> paths asked for, not cancelled and not reported yet
  overlapped              \* users whose file was once used beside a living thread

mgrVars    == <<config, channel_map, is_downloading_paused, todo, spawned>>
localVars  == <<download_queue, active_download_path, paused, stop_downloading,
                shutdown, reverse_connection, stream, thread_config, shared_user>>
chanVars   == <<receiver, rev_receiver>>
pcVars     == <<pc, ret>>
boundVars  == <<commands, conns>>
ghostVars  == <<wanted, overlapped>>
vars == <<mgrVars, refresh_data, pcVars, chanVars, localVars, queue_file, file_tail,
          boundVars, ghostVars>>

Ids == 0 .. MaxId
Thread == Users \X (1 .. MaxThreads)

\* The parts of config.rs's Config that downloads depend on.
Config == [users: SUBSET Users, localId: Ids, publicId: [Users -> Ids],
           ignore_incoming: BOOLEAN]

\* An EncryptedStream: the IDs of its handshake, whether only Ignore Incoming let
\* it in, and whether its first message was MSG_REVERSE (fetch the file list).
Conn == [localId: Ids, publicId: Ids, ignored: BOOLEAN, list: BOOLEAN]

Message ==
  [type: {"NewDownload", "CancelDownload"}, path: Paths]
    \cup [type: {"NewConfig"}, config: Config]
    \cup [type: {"NewSharedUser"}, publicId: Ids]
    \cup [type: {"CancelAllDownloads", "PauseDownloads", "ResumeDownloads",
                 "RemoveUser", "RestartConnection"}]

\* How a queue file ends: with a whole line (or there is no file), with a line that
\* lacks its newline (or the file is empty), or with a piece of a line that does not
\* parse ("Failed to parse queue file").  Failed writes leave the last two.
Tails == {"line", "open", "cut"}
FileExists(u) == queue_file[u] # <<>> \/ file_tail[u] # "line"

\* The items once a line of p is appended.  Without a newline between them the last
\* line and the new one make one, of some path x.  (A new line also continues the
\* digits of a "cut" one: an item of another size, see FileTransfer.)
RunsOn(u) == file_tail[u] = "open" /\ queue_file[u] # <<>>
WithLine(u, p) ==
  IF RunsOn(u) THEN {[queue_file[u] EXCEPT ![Len(queue_file[u])] = x] : x \in Paths}
  ELSE {Append(queue_file[u], p)}

\* A call of the manager can have one or two sends left to do when others take steps.
Todo(call, u) == [call |-> call, user |-> u]
Idle == Todo("none", None)
TodoCalls == {"none", "send_remove", "drop_senders", "send_user", "restart"}

Msg(type) == [type |-> type]
PathMsg(type, p) == [type |-> type, path |-> p]

\* Control points.  run() starts at "init"; read_receiver is the loop of the two
\* polls "poll_rev", "poll_rx" and returns to ret: "outer" is the top of run's
\* loop, "transferred" a poll inside download_shared_file, "inner" the poll
\* after each queue item.
PCs == {"unborn", "init", "poll_rev", "poll_rx", "outer", "connect", "listing",
        "lookup", "select", "transfer", "transferred", "inner", "dead"}
Returns == {"outer", "transferred", "inner"}

Alive(t) == pc[t] \notin {"unborn", "dead"}
Registered(t) == channel_map[t[1]] = t[2]

\* Sender::send succeeds while the receiving thread holds its Receiver.
Reachable(u) == channel_map[u] # 0 /\ Alive(<<u, channel_map[u]>>)

Init ==
  /\ config = [users |-> Users, localId |-> 0, publicId |-> [u \in Users |-> 0],
               ignore_incoming |-> FALSE]
  /\ channel_map = [u \in Users |-> 0]
  /\ is_downloading_paused = FALSE
  /\ refresh_data = [u \in Users |-> "nodata"]
  /\ todo = Idle
  /\ spawned = [u \in Users |-> 0]
  /\ pc = [t \in Thread |-> "unborn"]
  /\ ret = [t \in Thread |-> "outer"]
  /\ receiver = [t \in Thread |-> <<>>]
  /\ rev_receiver = [t \in Thread |-> <<>>]
  /\ download_queue = [t \in Thread |-> <<>>]
  /\ active_download_path = [t \in Thread |-> None]
  /\ paused = [t \in Thread |-> FALSE]
  /\ stop_downloading = [t \in Thread |-> FALSE]
  /\ shutdown = [t \in Thread |-> FALSE]
  /\ reverse_connection = [t \in Thread |-> None]
  /\ stream = [t \in Thread |-> None]
  /\ thread_config = [t \in Thread |-> config]
  /\ shared_user = [t \in Thread |-> 0]
  /\ queue_file = [u \in Users |-> <<>>]
  /\ file_tail = [u \in Users |-> "line"]
  /\ commands = 0 /\ conns = 0
  /\ wanted = [u \in Users |-> {}]
  /\ overlapped = {}

-----------------------------------------------------------------------------
(* The manager: one action per call, made with the mutex held.             *)

\* A UI command of the given name starts; the mutex is free.
Command(name) ==
  /\ name \in Commands
  /\ todo = Idle
  /\ commands < MaxCommands
  /\ commands' = commands + 1

\* send_message_to_all_downloads: threads whose send fails lose their entry.
SendToAll(m) ==
  /\ receiver' = [t \in Thread |->
        IF Registered(t) /\ Alive(t) THEN Append(receiver[t], m) ELSE receiver[t]]
  /\ channel_map' = [u \in Users |-> IF Reachable(u) THEN channel_map[u] ELSE 0]

\* One Sender::send to the thread of u; a failed send removes the entry.
SendTo(u, m) ==
  /\ receiver' = [t \in Thread |->
        IF t[1] = u /\ Registered(t) /\ Alive(t)
        THEN Append(receiver[t], m) ELSE receiver[t]]
  /\ channel_map' = [channel_map EXCEPT ![u] = IF Reachable(u) THEN @ ELSE 0]

\* set_refresh_data: add entries for new users, drop those of removed ones.
RefreshAfter(users) ==
  [u \in Users |-> IF u \notin users THEN "absent"
                   ELSE IF refresh_data[u] = "absent" THEN "nodata"
                   ELSE refresh_data[u]]

set_new_config(c) ==
  /\ config' = c
  /\ SendToAll([type |-> "NewConfig", config |-> c])
  /\ refresh_data' = RefreshAfter(c.users)

\* Mutant of Spawn: the new thread does not take over the manager's pause flag.
SpawnNotPaused(u, conn, cfg, isPaused) ==
  LET n == spawned[u] + 1
      t == <<u, n>>
  IN /\ n <= MaxThreads
     /\ spawned' = [spawned EXCEPT ![u] = n]
     /\ channel_map' = [channel_map EXCEPT ![u] = n]
     /\ pc' = [pc EXCEPT ![t] = "init"]
     /\ reverse_connection' = [reverse_connection EXCEPT ![t] = conn]
     /\ thread_config' = [thread_config EXCEPT ![t] = cfg]
     /\ shared_user' = [shared_user EXCEPT ![t] = cfg.publicId[u]]
     /\ UNCHANGED <<paused, overlapped>>

\* thread::spawn of a SingleDownloader for u with snapshots of the manager's
\* state; the channel_map entry is replaced, and an old one's Senders dropped.
Spawn(u, conn, cfg, isPaused) ==
  LET n == spawned[u] + 1
      t == <<u, n>>
  IN /\ n <= MaxThreads
     /\ spawned' = [spawned EXCEPT ![u] = n]
     /\ channel_map' = [channel_map EXCEPT ![u] = n]
     /\ pc' = [pc EXCEPT ![t] = "init"]
     /\ paused' = [paused EXCEPT ![t] = isPaused]
     /\ reverse_connection' = [reverse_connection EXCEPT ![t] = conn]
     /\ thread_config' = [thread_config EXCEPT ![t] = cfg]
     /\ shared_user' = [shared_user EXCEPT ![t] = cfg.publicId[u]]
     /\ overlapped' = IF \E m \in 1 .. MaxThreads : Alive(<<u, m>>)
                      THEN overlapped \cup {u} ELSE overlapped

SpawnUnchanged ==
  UNCHANGED <<config, is_downloading_paused, refresh_data, todo, ret, chanVars,
              download_queue, active_download_path, stop_downloading, shutdown,
              stream>>

threadUnchanged == UNCHANGED <<pcVars, localVars>>

\* download_selected: to the thread of u, or, if there is none, through the queue
\* file to a new thread (add_to_queue_file_and_start_downloader).  A request that runs
\* on from an open line is lost, and not counted as wanted.
download_selected(u, p) ==
  /\ Command("download")
  /\ u \in config.users
  /\ wanted' = [wanted EXCEPT ![u] = IF ~ Reachable(u) /\ RunsOn(u) THEN @ ELSE @ \cup {p}]
  /\ UNCHANGED conns
  /\ \/ /\ Reachable(u)
        /\ SendTo(u, PathMsg("NewDownload", p))
        /\ threadUnchanged
        /\ UNCHANGED <<config, is_downloading_paused, todo, spawned, refresh_data,
                       rev_receiver, queue_file, file_tail, overlapped>>
     \/ /\ ~ Reachable(u)
        /\ \E items \in WithLine(u, p) : queue_file' = [queue_file EXCEPT ![u] = items]
        /\ file_tail' = [file_tail EXCEPT ![u] = "line"]
        /\ Spawn(u, None, config, is_downloading_paused)
        /\ SpawnUnchanged

\* download_selected when the file cannot be opened or takes a part of the line only, of
\* which the path may be cut short: the UI gets an error, no thread is started.
download_refused(u) ==
  /\ Command("download")
  /\ DiskFails
  /\ u \in config.users
  /\ ~ Reachable(u)
  /\ \/ UNCHANGED <<queue_file, file_tail>>
     \/ /\ file_tail' = [file_tail EXCEPT ![u] = IF RunsOn(u) THEN "open" ELSE "cut"]
        /\ UNCHANGED queue_file
     \/ /\ \E x \in Paths : \E items \in WithLine(u, x) :
             queue_file' = [queue_file EXCEPT ![u] = items]
        /\ file_tail' = [file_tail EXCEPT ![u] = "open"]
     \/ /\ ~ FileExists(u)      \* created, and nothing written
        /\ file_tail' = [file_tail EXCEPT ![u] = "open"]
        /\ UNCHANGED queue_file
  /\ overlapped' = IF \E m \in 1 .. MaxThreads : Alive(<<u, m>>)
                   THEN overlapped \cup {u} ELSE overlapped
  /\ UNCHANGED <<mgrVars, refresh_data, pcVars, chanVars, localVars, conns, wanted>>

\* Calls that only send one message and forget.
SendOnlyUnchanged ==
  /\ threadUnchanged
  /\ UNCHANGED <<config, spawned, rev_receiver, queue_file, file_tail, conns, overlapped,
                 refresh_data>>

downloads_cancel_single(u, p) ==
  /\ Command("cancel")
  /\ SendTo(u, PathMsg("CancelDownload", p))
  /\ wanted' = [wanted EXCEPT ![u] = @ \ {p}]
  /\ SendOnlyUnchanged
  /\ UNCHANGED <<todo, is_downloading_paused>>

downloads_cancel_all ==
  /\ Command("cancel_all")
  /\ SendToAll(Msg("CancelAllDownloads"))
  /\ wanted' = [u \in Users |-> {}]
  /\ SendOnlyUnchanged
  /\ UNCHANGED <<todo, is_downloading_paused>>

downloads_pause_all ==
  /\ Command("pause")
  /\ is_downloading_paused' = TRUE
  /\ SendToAll(Msg("PauseDownloads"))
  /\ SendOnlyUnchanged
  /\ UNCHANGED <<todo, wanted>>

downloads_resume_all ==
  /\ Command("pause")
  /\ is_downloading_paused' = FALSE
  /\ SendToAll(Msg("ResumeDownloads"))
  /\ SendOnlyUnchanged
  /\ UNCHANGED <<todo, wanted>>

\* The TransmiticCore calls that change the configuration: set_new_config, then
\* the calls left in todo while the mutex is still held.
Reconfigure(c, rest) ==
  /\ set_new_config(c)
  /\ todo' = rest
  /\ threadUnchanged
  /\ UNCHANGED <<is_downloading_paused, spawned, rev_receiver, queue_file, file_tail, conns,
                 overlapped>>

add_new_user(u, id) ==
  /\ Command("add")
  /\ u \notin config.users
  /\ Reconfigure([config EXCEPT !.users = @ \cup {u}, !.publicId[u] = id], Idle)
  /\ UNCHANGED wanted

remove_user(u) ==
  /\ Command("remove")
  /\ u \in config.users
  /\ Reconfigure([config EXCEPT !.users = @ \ {u}],
                 Todo("send_remove", u))
  /\ wanted' = [wanted EXCEPT ![u] = {}]

\* Mutant of update_user: only the configuration is sent, not the shared user.
UpdateConfigOnly(u, id) ==
  /\ Command("update")
  /\ u \in config.users
  /\ Reconfigure([config EXCEPT !.publicId[u] = id], Idle)
  /\ UNCHANGED wanted

update_user(u, id) ==
  /\ Command("update")
  /\ u \in config.users
  /\ Reconfigure([config EXCEPT !.publicId[u] = id], Todo("send_user", u))
  /\ UNCHANGED wanted

create_new_id ==
  /\ Command("new_id")
  /\ config.localId < MaxId
  /\ Reconfigure([config EXCEPT !.localId = @ + 1], Idle)
  /\ UNCHANGED wanted

set_ignore_incoming(b) ==
  /\ Command("ignore_incoming")
  /\ Reconfigure([config EXCEPT !.ignore_incoming = b], Todo("restart", None))
  /\ UNCHANGED wanted

\* The downloads directory is not part of Config here: what is left is NewConfig.
set_path_downloads_dir ==
  /\ Command("set_dir")
  /\ Reconfigure(config, Idle)
  /\ UNCHANGED wanted

\* OutgoingDownloader::remove_user: RemoveUser is sent, then the entry removed and
\* both Senders dropped.  The thread runs between the two.
SendRemoveUser ==
  /\ todo.call = "send_remove"
  /\ todo' = Todo("drop_senders", todo.user)
  /\ receiver' = [t \in Thread |->
       IF t[1] = todo.user /\ Registered(t) /\ Alive(t)
       THEN Append(receiver[t], Msg("RemoveUser")) ELSE receiver[t]]
  /\ SendOnlyUnchanged
  /\ UNCHANGED <<channel_map, is_downloading_paused, commands, wanted>>

DropSenders ==
  /\ todo.call = "drop_senders"
  /\ todo' = Idle
  /\ channel_map' = [channel_map EXCEPT ![todo.user] = 0]
  /\ SendOnlyUnchanged
  /\ UNCHANGED <<receiver, is_downloading_paused, commands, wanted>>

\* OutgoingDownloader::update_user
SendSharedUser ==
  /\ todo.call = "send_user"
  /\ todo' = Idle
  /\ SendTo(todo.user, [type |-> "NewSharedUser", publicId |-> config.publicId[todo.user]])
  /\ SendOnlyUnchanged
  /\ UNCHANGED <<is_downloading_paused, commands, wanted>>

restart_connections ==
  /\ todo.call = "restart"
  /\ todo' = Idle
  /\ SendToAll(Msg("RestartConnection"))
  /\ SendOnlyUnchanged
  /\ UNCHANGED <<is_downloading_paused, commands, wanted>>

MgrTodo == SendRemoveUser \/ DropSenders \/ SendSharedUser \/ restart_connections

\* get_shared_with_me_data stores a file list that a refresh thread fetched.
RefreshArrives(u) ==
  /\ Command("refresh")
  /\ refresh_data[u] # "absent"
  /\ refresh_data' = [refresh_data EXCEPT ![u] = "data"]
  /\ UNCHANGED <<mgrVars, pcVars, chanVars, localVars, queue_file, file_tail, conns, ghostVars>>

\* start_downloading_single_user for a reverse connection that the app loop got
\* from an uploader thread.  That thread matched it against the configuration it
\* was started with, so the IDs of the handshake may be old ones.
ReverseConnection(u, conn) ==
  /\ todo = Idle
  /\ conns < MaxConns
  /\ conns' = conns + 1
  /\ conn.ignored => config.ignore_incoming
  /\ UNCHANGED <<commands, wanted, queue_file, file_tail>>
  /\ LET matches == /\ u \in config.users
                    /\ config.publicId[u] = conn.publicId
                    /\ config.localId = conn.localId
     IN \/ /\ ~ matches   \* "Reverse Connection recheck failed"
           /\ UNCHANGED <<mgrVars, refresh_data, pcVars, chanVars, localVars,
                          overlapped>>
        \/ /\ matches /\ channel_map[u] # 0
           /\ rev_receiver' = [t \in Thread |->
                IF t[1] = u /\ Registered(t) /\ Alive(t)
                THEN Append(rev_receiver[t], conn) ELSE rev_receiver[t]]
           /\ threadUnchanged
           /\ UNCHANGED <<mgrVars, refresh_data, receiver, overlapped>>
        \/ /\ matches /\ channel_map[u] = 0
           /\ Spawn(u, conn, config, is_downloading_paused)
           /\ SpawnUnchanged

\* The process ends, at any point, and is started again: every thread is gone,
\* start_downloading starts one for each user who has a queue file.
Restart ==
  LET starts(u) == u \in config.users /\ FileExists(u)
      fresh(t)  == starts(t[1]) /\ t[2] = spawned[t[1]] + 1
  IN /\ "restart" \in Commands
     /\ commands < MaxCommands
     /\ commands' = commands + 1
     /\ \A u \in Users : starts(u) => spawned[u] < MaxThreads
     /\ todo' = Idle
     /\ is_downloading_paused' = FALSE
     /\ refresh_data' = [u \in Users |-> IF u \in config.users THEN "nodata" ELSE "absent"]
     /\ spawned' = [u \in Users |-> IF starts(u) THEN spawned[u] + 1 ELSE spawned[u]]
     /\ channel_map' = [u \in Users |-> IF starts(u) THEN spawned[u] + 1 ELSE 0]
     /\ pc' = [t \in Thread |-> IF fresh(t) THEN "init"
                                ELSE IF pc[t] = "unborn" THEN "unborn" ELSE "dead"]
     /\ thread_config' = [t \in Thread |-> IF fresh(t) THEN config ELSE thread_config[t]]
     /\ shared_user' = [t \in Thread |-> IF fresh(t) THEN config.publicId[t[1]]
                                                     ELSE shared_user[t]]
     /\ paused' = [t \in Thread |-> IF fresh(t) THEN FALSE ELSE paused[t]]
     \* requests that no thread has read yet are lost with their channel
     /\ wanted' = [u \in Users |-> {p \in wanted[u] :
          \A t \in Thread : t[1] = u =>
             \A i \in DOMAIN receiver[t] : receiver[t][i] # PathMsg("NewDownload", p)}]
     /\ receiver' = [t \in Thread |-> <<>>]
     /\ rev_receiver' = [t \in Thread |-> <<>>]
     /\ download_queue' = [t \in Thread |-> <<>>]
     /\ active_download_path' = [t \in Thread |-> None]
     /\ reverse_connection' = [t \in Thread |-> None]
     /\ stream' = [t \in Thread |-> None]
     /\ stop_downloading' = [t \in Thread |-> FALSE]
     /\ shutdown' = [t \in Thread |-> FALSE]
     /\ UNCHANGED <<config, ret, queue_file, file_tail, conns, overlapped>>

-----------------------------------------------------------------------------
(* A SingleDownloader thread.                                              *)

\* What no step of a thread touches.
ThreadFrame ==
  UNCHANGED <<mgrVars, boundVars, overlapped>>

Goto(t, label) == pc' = [pc EXCEPT ![t] = label]

\* read_receiver is called; it will return to label.
Poll(t, label) ==
  /\ Goto(t, "poll_rev")
  /\ ret' = [ret EXCEPT ![t] = label]

\* The thread function returns: its channels and its SingleDownloader are dropped.
Exit(t) ==
  /\ Goto(t, "dead")
  /\ receiver' = [receiver EXCEPT ![t] = <<>>]
  /\ rev_receiver' = [rev_receiver EXCEPT ![t] = <<>>]
  /\ download_queue' = [download_queue EXCEPT ![t] = <<>>]
  /\ active_download_path' = [active_download_path EXCEPT ![t] = None]
  /\ reverse_connection' = [reverse_connection EXCEPT ![t] = None]
  /\ stream' = [stream EXCEPT ![t] = None]
  /\ UNCHANGED <<ret, paused, stop_downloading, shutdown, thread_config,
                 shared_user, refresh_data, queue_file, file_tail, wanted>>

\* The queue becomes q in memory, and write_queue succeeds.  An empty queue removes the
\* file, or if that fails leaves it empty.
SetQueue(t, q) ==
  /\ download_queue' = [download_queue EXCEPT ![t] = q]
  /\ queue_file' = [queue_file EXCEPT ![t[1]] = q]
  /\ \E tail \in {"line", "open"} :
       /\ tail = "open" => DiskFails /\ q = <<>>
       /\ file_tail' = [file_tail EXCEPT ![t[1]] = tail]

InSeq(p, s) == \E i \in DOMAIN s : s[i] = p

\* write_queue has failed for the queue q of u.  The file is as it was if it could not
\* be opened (or removed); otherwise it was truncated, and holds the first n lines and
\* perhaps a part of the next one, whose path may be cut short.  A process that ends
\* within write_queue leaves the same: then Restart follows this step.
WriteCutOff(u, q) ==
  \/ UNCHANGED <<queue_file, file_tail>>
  \/ \E n \in 0 .. Len(q) - 1 :
       \/ /\ queue_file' = [queue_file EXCEPT ![u] = SubSeq(q, 1, n)]
          /\ \E tail \in {IF n = 0 THEN "open" ELSE "line", "cut"} :
               file_tail' = [file_tail EXCEPT ![u] = tail]
       \/ /\ \E x \in Paths :
               queue_file' = [queue_file EXCEPT ![u] = Append(SubSeq(q, 1, n), x)]
          /\ file_tail' = [file_tail EXCEPT ![u] = "open"]

\* What the file and the messages on their way to the thread still hold is wanted.
GiveUpUnwritten(t) ==
  wanted' = [wanted EXCEPT ![t[1]] =
    {p \in @ : \/ InSeq(p, queue_file'[t[1]])
               \/ \E i \in DOMAIN receiver'[t] : receiver'[t][i] = PathMsg("NewDownload", p)}]

\* Mutant of WriteFails: the error is not returned ("?" left out), the thread goes on.
WriteErrorDropped(t, q) ==
  /\ DiskFails
  /\ download_queue' = [download_queue EXCEPT ![t] = q]
  /\ WriteCutOff(t[1], q)
  /\ GiveUpUnwritten(t)
  /\ UNCHANGED <<pc, stream>>

\* The queue becomes q in memory and "write_queue()?" fails: run ends with the error
\* and is called again, to read the file.
WriteFails(t, q) ==
  /\ DiskFails
  /\ download_queue' = [download_queue EXCEPT ![t] = q]
  /\ WriteCutOff(t[1], q)
  /\ GiveUpUnwritten(t)
  /\ Goto(t, "init")
  /\ stream' = [stream EXCEPT ![t] = None]

\* set_active_download_finished, and the report that follows it.
FinishActive(t) ==
  /\ SetQueue(t, Tail(download_queue[t]))
  /\ active_download_path' = [active_download_path EXCEPT ![t] = None]
  /\ wanted' = [wanted EXCEPT ![t[1]] = @ \ {Head(download_queue[t])}]

\* set_active_download_finished fails: nothing is reported, and active_download_path
\* stays.
FinishFails(t) ==
  /\ pc[t] \in {"select", "transfer"}
  /\ download_queue[t] # <<>>
  /\ ThreadFrame
  /\ UNCHANGED <<ret, chanVars, active_download_path, paused, stop_downloading, shutdown,
                 reverse_connection, thread_config, shared_user, refresh_data>>
  /\ WriteFails(t, Tail(download_queue[t]))

\* run: initialize_download_queue, which for ever fails on a line it cannot parse.
\* After an error the old run's fields stay.
StartRun(t) ==
  /\ pc[t] = "init"
  /\ file_tail[t[1]] # "cut"
  /\ download_queue' = [download_queue EXCEPT ![t] = queue_file[t[1]]]
  /\ Poll(t, "outer")
  /\ ThreadFrame
  /\ UNCHANGED <<chanVars, active_download_path, paused, stop_downloading, shutdown,
                 reverse_connection, stream, thread_config, shared_user,
                 refresh_data, queue_file, file_tail, wanted>>

\* read_receiver, first half of an iteration: rev_receiver.try_recv().
PollRev(t) ==
  /\ pc[t] = "poll_rev"
  /\ ThreadFrame
  /\ \/ /\ rev_receiver[t] # <<>>
        /\ rev_receiver' = [rev_receiver EXCEPT ![t] = Tail(@)]
        /\ reverse_connection' = [reverse_connection EXCEPT ![t] = Head(rev_receiver[t])]
        /\ stop_downloading' = [stop_downloading EXCEPT ![t] = TRUE]
        /\ Goto(t, "poll_rx")
        /\ UNCHANGED <<ret, receiver, download_queue, active_download_path, paused,
                       shutdown, stream, thread_config, shared_user, refresh_data,
                       queue_file, file_tail, wanted>>
     \/ /\ rev_receiver[t] = <<>> /\ Registered(t)    \* Empty
        /\ Goto(t, "poll_rx")
        /\ UNCHANGED <<ret, chanVars, localVars, refresh_data, queue_file, file_tail, wanted>>
     \/ /\ rev_receiver[t] = <<>> /\ ~ Registered(t)  \* Disconnected
        /\ Exit(t)

\* read_receiver, second half: receiver.try_recv() has a message to handle.
Receive(t, type) ==
  /\ pc[t] = "poll_rx"
  /\ receiver[t] # <<>>
  /\ Head(receiver[t]).type = type
  /\ receiver' = [receiver EXCEPT ![t] = Tail(@)]
  /\ Goto(t, "poll_rev")
  /\ ThreadFrame
  /\ UNCHANGED <<ret, rev_receiver, reverse_connection, stream, refresh_data, wanted>>

Stop(t) == stop_downloading' = [stop_downloading EXCEPT ![t] = TRUE]

\* Mutant of OnNewDownload: the longer queue is not written to the queue file.
NewDownloadUnwritten(t) ==
  /\ Receive(t, "NewDownload")
  /\ download_queue' = [download_queue EXCEPT ![t] = Append(@, Head(receiver[t]).path)]
  /\ UNCHANGED <<queue_file, file_tail, active_download_path, paused, stop_downloading, shutdown,
                 thread_config, shared_user>>

OnNewDownload(t) ==
  /\ Receive(t, "NewDownload")
  /\ SetQueue(t, Append(download_queue[t], Head(receiver[t]).path))
  /\ UNCHANGED <<active_download_path, paused, stop_downloading, shutdown,
                 thread_config, shared_user>>

\* VecDeque::retain: what is left of s without p.  (SelectSeq as a recursive
\* function, which the proofs can expand.)
Retain(s, p) ==
  LET F[i \in 0 .. Len(s)] == IF i = 0 THEN <<>>
                              ELSE IF s[i] # p THEN Append(F[i - 1], s[i]) ELSE F[i - 1]
  IN F[Len(s)]

OnCancelDownload(t) ==
  LET p == Head(receiver[t]).path
  IN /\ Receive(t, "CancelDownload")
     /\ Stop(t)
     /\ SetQueue(t, Retain(download_queue[t], p))
     /\ active_download_path' = [active_download_path EXCEPT ![t] = IF @ = p THEN None ELSE @]
     /\ UNCHANGED <<paused, shutdown, thread_config, shared_user>>

OnCancelAll(t) ==
  /\ Receive(t, "CancelAllDownloads")
  /\ Stop(t)
  /\ SetQueue(t, <<>>)
  /\ active_download_path' = [active_download_path EXCEPT ![t] = None]
  /\ UNCHANGED <<paused, shutdown, thread_config, shared_user>>

OnRemoveUser(t) ==
  /\ Receive(t, "RemoveUser")
  /\ shutdown' = [shutdown EXCEPT ![t] = TRUE]
  /\ Stop(t)
  /\ SetQueue(t, <<>>)
  /\ active_download_path' = [active_download_path EXCEPT ![t] = None]
  /\ UNCHANGED <<paused, thread_config, shared_user>>

\* Mutant of OnPause: the flag is set, a running transfer is not stopped.
PauseWithoutStop(t) ==
  /\ Receive(t, "PauseDownloads")
  /\ paused' = [paused EXCEPT ![t] = TRUE]
  /\ UNCHANGED <<download_queue, queue_file, file_tail, active_download_path, stop_downloading,
                 shutdown, thread_config, shared_user>>

OnPause(t) ==
  /\ Receive(t, "PauseDownloads")
  /\ Stop(t)
  /\ paused' = [paused EXCEPT ![t] = TRUE]
  /\ UNCHANGED <<download_queue, queue_file, file_tail, active_download_path, shutdown,
                 thread_config, shared_user>>

\* Mutant of OnResume: the message is read and the flag left as it is.
ResumeIgnored(t) ==
  /\ Receive(t, "ResumeDownloads")
  /\ UNCHANGED <<download_queue, queue_file, file_tail, active_download_path, paused,
                 stop_downloading, shutdown, thread_config, shared_user>>

OnResume(t) ==
  /\ Receive(t, "ResumeDownloads")
  /\ paused' = [paused EXCEPT ![t] = FALSE]
  /\ UNCHANGED <<download_queue, queue_file, file_tail, active_download_path, stop_downloading,
                 shutdown, thread_config, shared_user>>

OnNewSharedUser(t) ==
  /\ Receive(t, "NewSharedUser")
  /\ Stop(t)
  /\ shared_user' = [shared_user EXCEPT ![t] = Head(receiver[t]).publicId]
  /\ UNCHANGED <<download_queue, queue_file, file_tail, active_download_path, paused, shutdown,
                 thread_config>>

OnRestartConnection(t) ==
  /\ Receive(t, "RestartConnection")
  /\ Stop(t)
  /\ UNCHANGED <<download_queue, queue_file, file_tail, active_download_path, paused, shutdown,
                 thread_config, shared_user>>

\* Mutant of OnNewConfig: the transfer stops and the old configuration stays.
NewConfigIgnored(t) ==
  /\ Receive(t, "NewConfig")
  /\ Stop(t)
  /\ UNCHANGED <<download_queue, queue_file, file_tail, active_download_path, paused, shutdown,
                 thread_config, shared_user>>

OnNewConfig(t) ==
  /\ Receive(t, "NewConfig")
  /\ Stop(t)
  /\ thread_config' = [thread_config EXCEPT ![t] = Head(receiver[t]).config]
  /\ UNCHANGED <<download_queue, queue_file, file_tail, active_download_path, paused, shutdown,
                 shared_user>>

\* The arms that write the queue, when write_queue fails.
ReadFails(t) ==
  LET m == Head(receiver[t])
      stops == m.type # "NewDownload"
  IN /\ pc[t] = "poll_rx"
     /\ receiver[t] # <<>>
     /\ m.type \in {"NewDownload", "CancelDownload", "CancelAllDownloads", "RemoveUser"}
     /\ ThreadFrame
     /\ receiver' = [receiver EXCEPT ![t] = Tail(@)]
     /\ WriteFails(t, CASE m.type = "NewDownload"    -> Append(download_queue[t], m.path)
                        [] m.type = "CancelDownload" -> Retain(download_queue[t], m.path)
                        [] OTHER                     -> <<>>)
     /\ stop_downloading' = [stop_downloading EXCEPT ![t] = @ \/ stops]
     /\ shutdown' = [shutdown EXCEPT ![t] = @ \/ m.type = "RemoveUser"]
     /\ active_download_path' = [active_download_path EXCEPT ![t] =
          IF stops /\ ~ (m.type = "CancelDownload" /\ @ # m.path) THEN None ELSE @]
     /\ UNCHANGED <<ret, rev_receiver, paused, reverse_connection, thread_config, shared_user,
                    refresh_data>>

\* write_queue_file or remove_file fails.
QueueWriteFails(t) == ReadFails(t) \/ FinishFails(t)

\* read_receiver, second half: nothing to receive.
PollRxEmpty(t) ==
  /\ pc[t] = "poll_rx"
  /\ receiver[t] = <<>>
  /\ ThreadFrame
  /\ \/ /\ Registered(t)      \* Empty: read_receiver returns
        /\ Goto(t, ret[t])
        /\ UNCHANGED <<ret, chanVars, localVars, refresh_data, queue_file, file_tail, wanted>>
     \/ /\ ~ Registered(t)    \* Disconnected
        /\ Exit(t)

ReadReceiver(t) ==
  \/ PollRev(t)
  \/ OnNewDownload(t) \/ OnCancelDownload(t) \/ OnCancelAll(t) \/ OnRemoveUser(t)
  \/ OnPause(t) \/ OnResume(t) \/ OnNewSharedUser(t) \/ OnRestartConnection(t)
  \/ OnNewConfig(t)
  \/ PollRxEmpty(t)

\* Steps of run that leave queue, disk and channels alone.
RunFrame == 
  /\ ThreadFrame
  /\ UNCHANGED <<chanVars, download_queue, active_download_path, paused, shutdown,
                 thread_config, shared_user, queue_file, file_tail, wanted>>

\* Mutant of OuterLoop: a downloader ends when its queue is empty.
OuterLoopExitsIdle(t) ==
  /\ pc[t] = "outer"
  /\ download_queue[t] = <<>> /\ reverse_connection[t] = None
  /\ ThreadFrame
  /\ Exit(t)

\* The top of run's loop, once read_receiver has returned.
OuterLoop(t) ==
  /\ pc[t] = "outer"
  /\ \/ /\ shutdown[t]
        /\ ThreadFrame
        /\ Exit(t)
     \/ /\ ~ shutdown[t]
        /\ RunFrame
        /\ stop_downloading' = [stop_downloading EXCEPT ![t] = FALSE]
        /\ UNCHANGED refresh_data
        /\ \/ /\ \/ paused[t]
                 \/ download_queue[t] = <<>> /\ reverse_connection[t] = None
              /\ Poll(t, "outer")
              /\ UNCHANGED <<reverse_connection, stream>>
           \/ /\ ~ paused[t]
              /\ reverse_connection[t] # None
              /\ stream' = [stream EXCEPT ![t] = reverse_connection[t]]
              /\ reverse_connection' = [reverse_connection EXCEPT ![t] = None]
              /\ Goto(t, "listing")
              /\ UNCHANGED ret
           \/ /\ ~ paused[t]
              /\ reverse_connection[t] = None /\ download_queue[t] # <<>>
              /\ Goto(t, "connect")
              /\ UNCHANGED <<ret, reverse_connection, stream>>
           \/ /\ ~ paused[t]         \* there is no downloads directory: run fails
              /\ download_queue[t] # <<>> \/ reverse_connection[t] # None
              /\ Goto(t, "init")
              /\ UNCHANGED <<ret, reverse_connection, stream>>

\* tcp_connect and TransmiticStream::connect: a stream, a failed TCP connection
\* (offline, sleep and loop) or an error that restarts run.
Connect(t) ==
  /\ pc[t] = "connect"
  /\ RunFrame
  /\ UNCHANGED <<stop_downloading, reverse_connection, refresh_data>>
  /\ \/ /\ stream' = [stream EXCEPT ![t] =
              [localId |-> thread_config[t].localId, publicId |-> shared_user[t],
               ignored |-> FALSE, list |-> FALSE]]
        /\ Goto(t, "listing")
        /\ UNCHANGED ret
     \/ /\ Poll(t, "outer")
        /\ UNCHANGED stream
     \/ /\ Goto(t, "init")
        /\ UNCHANGED <<ret, stream>>

\* The stream is dropped and run ends with an error: the thread calls run again.
FailRun(t) ==
  /\ Goto(t, "init")
  /\ stream' = [stream EXCEPT ![t] = None]
  /\ UNCHANGED <<ret, stop_downloading, reverse_connection>>

\* set_everything_file(false): a connection that began with MSG_REVERSE, or a user
\* without data, makes it fetch the file list and store it.
SetEverythingFile(t) ==
  LET u == t[1]
      fetch == stream[t].list \/ refresh_data[u] = "nodata"
  IN /\ pc[t] = "listing"
     /\ RunFrame
     /\ \/ /\ fetch
           /\ refresh_data' = [refresh_data EXCEPT ![u] = "data"]
           /\ Goto(t, "lookup")
           /\ UNCHANGED <<ret, stream, stop_downloading, reverse_connection>>
        \/ /\ ~ fetch /\ refresh_data[u] = "data"
           /\ Goto(t, "lookup")
           /\ UNCHANGED <<ret, stream, stop_downloading, reverse_connection, refresh_data>>
        \/ /\ \/ fetch                          \* the connection fails
              \/ refresh_data[u] = "absent"     \* "Cache missing"
           /\ FailRun(t)
           /\ UNCHANGED refresh_data

\* The look-up of its result, the mutex having been free in between: "Everything
\* file unexpectedly missing" goes back to the top of run's loop.
LookupEverythingFile(t) ==
  /\ pc[t] = "lookup"
  /\ RunFrame
  /\ UNCHANGED <<stop_downloading, reverse_connection, refresh_data>>
  /\ \/ /\ refresh_data[t[1]] = "data"
        /\ Goto(t, "select")
        /\ UNCHANGED <<ret, stream>>
     \/ /\ refresh_data[t[1]] # "data"
        /\ Poll(t, "outer")
        /\ stream' = [stream EXCEPT ![t] = None]

\* The head of the queue becomes the active download, unless it is no longer in
\* the file list.
SelectItem(t) ==
  /\ pc[t] = "select"
  /\ ThreadFrame
  /\ UNCHANGED <<chanVars, paused, stop_downloading, shutdown, reverse_connection,
                 thread_config, shared_user, refresh_data>>
  /\ \/ /\ download_queue[t] = <<>>
        /\ Poll(t, "outer")
        /\ stream' = [stream EXCEPT ![t] = None]
        /\ UNCHANGED <<download_queue, active_download_path, queue_file, file_tail, wanted>>
     \/ /\ download_queue[t] # <<>>           \* "No longer shared with you"
        /\ FinishActive(t)
        /\ UNCHANGED <<pcVars, stream>>
     \/ /\ download_queue[t] # <<>>
        /\ active_download_path' =
             [active_download_path EXCEPT ![t] = Head(download_queue[t])]
        /\ Goto(t, "transfer")
        /\ UNCHANGED <<ret, download_queue, queue_file, file_tail, stream, wanted>>

\* Mutants of TransferStep: a poll that returns into the transfer, past the check of
\* stop_downloading; and no poll at all.
TransferStepUnchecked(t) ==
  /\ pc[t] = "transfer"
  /\ RunFrame
  /\ Poll(t, "transfer")
  /\ UNCHANGED <<stop_downloading, reverse_connection, stream, refresh_data>>

TransferStepUnpolled(t) ==
  /\ pc[t] = "transfer"
  /\ RunFrame
  /\ Goto(t, "transferred")
  /\ UNCHANGED <<ret, stop_downloading, reverse_connection, stream, refresh_data>>

\* download_shared_file, a chunk or a subfile of a directory: then it polls.
TransferStep(t) ==
  /\ pc[t] = "transfer"
  /\ RunFrame
  /\ Poll(t, "transferred")
  /\ UNCHANGED <<stop_downloading, reverse_connection, stream, refresh_data>>

\* Mutant of AfterTransferPoll: stop_downloading is not checked.
TransferIgnoresStop(t) ==
  /\ pc[t] = "transferred"
  /\ RunFrame
  /\ Goto(t, "transfer")
  /\ UNCHANGED <<ret, stop_downloading, reverse_connection, stream, refresh_data>>

\* After that poll: go on, or return to run's loop, which reports and polls.
AfterTransferPoll(t) ==
  /\ pc[t] = "transferred"
  /\ RunFrame
  /\ UNCHANGED <<stop_downloading, reverse_connection, stream, refresh_data>>
  /\ \/ /\ ~ stop_downloading[t]
        /\ Goto(t, "transfer")
        /\ UNCHANGED ret
     \/ /\ stop_downloading[t]
        /\ Poll(t, "inner")

\* The item is done, completed or rejected (size changed, too large): it is popped
\* off the queue and reported, and the loop over the queue polls.
TransferDone(t) ==
  /\ pc[t] = "transfer"
  /\ ThreadFrame
  /\ FinishActive(t)
  /\ Poll(t, "inner")
  /\ UNCHANGED <<chanVars, paused, stop_downloading, shutdown, reverse_connection,
                 stream, thread_config, shared_user, refresh_data>>

\* An error ends run: the connection broke, or the file list was out of date and
\* was fetched again, or the item was popped first (directory too large, remote
\* and local disagree on the end of the file).
TransferError(t) ==
  /\ pc[t] = "transfer"
  /\ ThreadFrame
  /\ FailRun(t)
  /\ UNCHANGED <<chanVars, paused, shutdown, thread_config, shared_user>>
  /\ \/ UNCHANGED <<download_queue, active_download_path, queue_file, file_tail, wanted, refresh_data>>
     \/ /\ refresh_data' = [refresh_data EXCEPT ![t[1]] = "data"]
        /\ UNCHANGED <<download_queue, active_download_path, queue_file, file_tail, wanted>>
     \/ /\ FinishActive(t)
        /\ UNCHANGED refresh_data

\* After the poll that follows each queue item.
InnerLoop(t) ==
  /\ pc[t] = "inner"
  /\ RunFrame
  /\ UNCHANGED <<stop_downloading, reverse_connection, refresh_data>>
  /\ \/ /\ stop_downloading[t]
        /\ stream' = [stream EXCEPT ![t] = None]
        /\ Poll(t, "outer")
     \/ /\ ~ stop_downloading[t]
        /\ Goto(t, "select")
        /\ UNCHANGED <<ret, stream>>

\* download_shared_file is an action per way it can go on.
Transfer(t) == TransferStep(t) \/ AfterTransferPoll(t) \/ TransferDone(t) \/ TransferError(t)

ThreadNext(t) ==
  \/ StartRun(t) \/ ReadReceiver(t) \/ OuterLoop(t) \/ Connect(t)
  \/ SetEverythingFile(t) \/ LookupEverythingFile(t) \/ SelectItem(t) \/ Transfer(t)
  \/ InnerLoop(t) \/ QueueWriteFails(t)

-----------------------------------------------------------------------------
UserNext ==
  \/ \E u \in Users, p \in Paths : download_selected(u, p)
  \/ \E u \in Users : download_refused(u)
  \/ \E u \in Users, p \in Paths : downloads_cancel_single(u, p)
  \/ downloads_cancel_all \/ downloads_pause_all \/ downloads_resume_all
  \/ \E u \in Users, id \in Ids : add_new_user(u, id)
  \/ \E u \in Users : remove_user(u)
  \/ \E u \in Users, id \in Ids : update_user(u, id)
  \/ create_new_id
  \/ \E b \in BOOLEAN : set_ignore_incoming(b)
  \/ set_path_downloads_dir
  \/ \E u \in Users : RefreshArrives(u)
  \/ Restart

ConnNext == \E u \in Users, c \in Conn : ReverseConnection(u, c)

Next ==
  \/ UserNext
  \/ MgrTodo
  \/ ConnNext
  \/ \E t \in Thread : ThreadNext(t)

Spec == Init /\ [][Next]_vars

\* The scheduler runs every thread, and a thread blocked in a network call gets an
\* answer or an error in the end.
ThreadFairness == \A t \in Thread : WF_vars(ThreadNext(t))

FairSpec == Spec /\ ThreadFairness /\ WF_vars(MgrTodo)

\* An attempt comes to nothing, or goes on with the same item: no downloads directory,
\* a remote user who is away, a broken connection, a file that does not end.  Every
\* error of a transfer counts, also one that the two programs make themselves (of
\* those FileTransfer has finding 3).
Setback(t) ==
  \/ pc[t] = "outer"    /\ pc'[t] = "init"
  \/ pc[t] = "connect"  /\ pc'[t] \notin {"connect", "listing"}
  \/ pc[t] = "listing"  /\ pc'[t] = "init" /\ refresh_data[t[1]] # "absent"
  \/ pc[t] = "transfer" /\ pc'[t] # "transfer" /\ ~ TransferDone(t)

\* Attempts do not fail for ever.
PeerFairness == \A t \in Thread : <>[][~ Setback(t)]_vars

-----------------------------------------------------------------------------
(* Properties.                                                             *)

\* Every variable has its type.
TypeOK ==
  /\ config \in Config
  /\ channel_map \in [Users -> 0 .. MaxThreads]
  /\ is_downloading_paused \in BOOLEAN
  /\ refresh_data \in [Users -> {"absent", "nodata", "data"}]
  /\ todo \in [call: TodoCalls, user: Users \cup {None}]
  /\ spawned \in [Users -> 0 .. MaxThreads]
  /\ pc \in [Thread -> PCs]
  /\ ret \in [Thread -> Returns]
  /\ receiver \in [Thread -> Seq(Message)]
  /\ rev_receiver \in [Thread -> Seq(Conn)]
  /\ download_queue \in [Thread -> Seq(Paths)]
  /\ active_download_path \in [Thread -> Paths \cup {None}]
  /\ paused \in [Thread -> BOOLEAN]
  /\ stop_downloading \in [Thread -> BOOLEAN]
  /\ shutdown \in [Thread -> BOOLEAN]
  /\ reverse_connection \in [Thread -> Conn \cup {None}]
  /\ stream \in [Thread -> Conn \cup {None}]
  /\ thread_config \in [Thread -> Config]
  /\ shared_user \in [Thread -> Ids]
  /\ queue_file \in [Users -> Seq(Paths)]
  /\ file_tail \in [Users -> Tails]
  /\ commands \in 0 .. MaxCommands
  /\ conns \in 0 .. MaxConns
  /\ wanted \in [Users -> SUBSET Paths]
  /\ overlapped \in SUBSET Users

\* The user whose removal is under way, whose thread may already have gone.
Removing(u) == todo = Todo("drop_senders", u)

\* Between manager calls every channel_map entry leads to a living thread that has
\* not been told to shut down: the arms for a dead downloader ("Downloader died,
\* remove it", "Thread shutdown") of cancel_single, update_user and
\* download_selected are never needed.
RegisteredAlive ==
  \A u \in Users : channel_map[u] # 0 /\ ~ Removing(u) =>
     Alive(<<u, channel_map[u]>>) /\ ~ shutdown[<<u, channel_map[u]>>]

\* The positions of the messages of these types in a channel, and the value a
\* message carries.
Unread(s, types) == {i \in DOMAIN s : s[i].type \in types}
Value(m) == CASE m.type = "PauseDownloads"  -> TRUE
              [] m.type = "ResumeDownloads" -> FALSE
              [] m.type = "NewConfig"       -> m.config
              [] m.type = "NewSharedUser"   -> m.publicId

\* Once a thread whose field is `own` has read all of channel s, it has `value`: the
\* last unread message of these types carries it or, if there is none, own is it.
WillHave(s, types, own, value) ==
  /\ Unread(s, types) = {} => own = value
  /\ \A i \in Unread(s, types) :
       (\A j \in Unread(s, types) : j <= i) => Value(s[i]) = value

\* Pause and resume reach every downloader, whatever it is doing and whenever it was
\* started: with its unread messages applied, it agrees with is_downloading_paused.
PauseReachesThreads ==
  \A t \in Thread : Registered(t) /\ Alive(t) =>
    WillHave(receiver[t], {"PauseDownloads", "ResumeDownloads"}, paused[t],
             is_downloading_paused)

\* The same for the configuration, which holds the private ID that a downloader
\* proves who it is with.
ConfigReachesThreads ==
  \A t \in Thread : Registered(t) /\ Alive(t) =>
    WillHave(receiver[t], {"NewConfig"}, thread_config[t], config)

\* The same for the public ID a downloader expects of its user, but for the moment
\* between set_new_config and update_user's message.
SharedUserReachesThreads ==
  \A t \in Thread : Registered(t) /\ Alive(t) /\ todo # Todo("send_user", t[1]) =>
    WillHave(receiver[t], {"NewSharedUser"}, shared_user[t], config.publicId[t[1]])

\* While a transfer goes on its item is at the head of the queue, so that
\* set_active_download_finished pops that item and no other, and
\* download_shared_file's active_download_path.clone().unwrap() cannot panic:
\* whatever removes the item while it is being transferred also stops the transfer.
ActiveIsHead ==
  \A t \in Thread : pc[t] = "transfer" =>
    /\ download_queue[t] # <<>>
    /\ active_download_path[t] = Head(download_queue[t])
    /\ ~ stop_downloading[t]

\* Outside write_queue and the beginning of run, the queue in memory and the queue file
\* agree, though a write may fail at any time and leave the file as it was, or cut off:
\* no thread goes on with a queue that it could not write.  Excepted are threads that
\* do not have the file to themselves.
QueueOnDisk ==
  \A t \in Thread : Alive(t) /\ pc[t] # "init" /\ t[1] \notin overlapped =>
    queue_file[t[1]] = download_queue[t]

\* Will p still be downloaded from u: what the unread messages that concern p make
\* of it, or else the queue of u's thread, or else the queue file.
Pending(u, p) ==
  LET t == <<u, channel_map[u]>>
      about == {i \in DOMAIN receiver[t] :
                  \/ receiver[t][i].type = "CancelAllDownloads"
                  \/ receiver[t][i] = PathMsg("NewDownload", p)
                  \/ receiver[t][i] = PathMsg("CancelDownload", p)}
  IN IF channel_map[u] = 0 THEN InSeq(p, queue_file[u])
     ELSE \/ \E i \in about : /\ \A j \in about : j <= i
                              /\ receiver[t][i].type = "NewDownload"
          \/ /\ about = {}
             /\ InSeq(p, IF pc[t] = "init" THEN queue_file[u] ELSE download_queue[t])

\* A download that was asked for, not cancelled and not yet reported as completed or
\* invalid is still going to happen, over errors that restart run, pauses, changes of
\* the configuration, reverse connections, restarts of the program and failed writes
\* of the queue.  Two things do lose a request: a write that fails loses those that it
\* leaves out of the file (GiveUpUnwritten), whether the process goes on or not; a
\* restart loses those that no thread had read.  A thread that finds a cut line in its
\* file never gets as far as its messages: their requests wait, in the file and the
\* channel.
NoLostDownload ==
  \A u \in Users \ overlapped : \A p \in wanted[u] : Pending(u, p)

\* A thread that has lost its Senders ends.
OrphansExit ==
  \A t \in Thread : (Alive(t) /\ ~ Registered(t)) ~> ~ Alive(t)

\* Once downloads are paused every thread comes to rest at the top of run's loop,
\* with no connection in use, unless downloads are resumed.
PauseTakesEffect ==
  \A t \in Thread :
    is_downloading_paused ~>
      (~ is_downloading_paused \/ ~ Alive(t) \/ (paused[t] /\ stream[t] = None))

\* If the remote user can be reached again and again, every download that was asked
\* for is reported or cancelled in the end, unless downloads are paused or an orphan
\* shares the queue file.
DownloadsSettle ==
  PeerFairness => \A u \in Users, p \in Paths :
    (p \in wanted[u]) ~> (p \notin wanted[u] \/ is_downloading_paused \/ u \in overlapped)

-----------------------------------------------------------------------------
(* What comments in the code say and the code does not do.                 *)

\* downloads_cancel_single, when channel_map has no entry: "Downloader already gone
\* so there is nothing cancel".  The queue file of a user without any thread would
\* then be empty.
NothingLeftToCancel ==
  \A u \in Users :
    (todo = Idle /\ channel_map[u] = 0 /\ \A n \in 1 .. MaxThreads : ~ Alive(<<u, n>>))
      => queue_file[u] = <<>>

\* start_downloading_single_user: "Reverse Connection was matched, but we check again
\* due to race of new config".  A connection would then be put to use only under the
\* configuration it was matched with.
ReverseConnectionMatches ==
  \A t \in Thread : pc[t] = "listing" =>
    /\ stream[t].localId = thread_config[t].localId
    /\ stream[t].publicId = shared_user[t]
=============================================================================
