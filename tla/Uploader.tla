------------------------------ MODULE Uploader ------------------------------
(***************************************************************************)
(* The incoming side of transmitic-core (incoming_uploader.rs): the        *)
(* UploaderManager thread, which listens for connections or, in Reverse    *)
(* Connection mode, opens them, and one SingleUploader thread per          *)
(* connection.  The UI commands the manager through a channel; every       *)
(* command makes it forget its uploaders (reset_connections), and an       *)
(* uploader finds out when it next polls.  The i-th uploader ever started  *)
(* is i.                                                                   *)
(*                                                                         *)
(* A reset also gives the manager a new reverse_file_list_cache; uploaders *)
(* keep the one they were started with, so caches are numbered.            *)
(***************************************************************************)
EXTENDS Integers, Sequences, FiniteSets

CONSTANTS
  Users,        \* nicknames in the configuration
  None,         \* Rust's Option::None
  Commands,     \* the UI commands that this instance enables
  MaxCommands,  \* bound: UI commands in a behaviour
  MaxUploaders, \* bound: uploader threads in a behaviour
  MaxErrors     \* bound: failures to bind in a behaviour

ASSUME ConstantsAssumption ==
  MaxCommands \in Nat /\ MaxUploaders \in Nat /\ MaxErrors \in Nat
ASSUME NoneAssumption == None \notin Users

VARIABLES
  \* TransmiticCore and the app loop
  core_config, core_sharing_state,
  app_errors,           \* UploadError messages on their way to the app loop
  incoming_uploader_error, \* TRUE while the UI has an error to fetch
  \* UploaderManager
  receiver, mpc, mret, stop_incoming, config, sharing_state,
  single_uploaders,     \* the threads whose Senders it holds: single_uploaders for those
                        \* that listening started, single_uploaders_rev for the reverse
                        \* ones (a map: it has one Sender for a nickname)
  cache,                \* number of the current reverse_file_list_cache
  caches,               \* cache -> the nicknames in it
  \* SingleUploader threads
  started, upc, user, reverse, thread_config, thread_cache, should_shutdown,
  \* bounds and history
  commands, errors,
  late,                 \* uploader -> its writes since the manager forgot it
  listed                \* <<user, config.version>> of the file lists sent to the end

coreVars   == <<core_config, core_sharing_state>>
errVars    == <<app_errors, incoming_uploader_error>>
mgrVars    == <<mpc, mret, stop_incoming, config, sharing_state, single_uploaders, cache>>
threadVars == <<started, upc, user, reverse, thread_config, thread_cache,
                should_shutdown>>
histVars   == <<late, listed>>
vars == <<coreVars, errVars, receiver, mgrVars, caches, threadVars, commands, errors,
          histVars>>

SharingState == {"Off", "Local", "Internet"}
Uploaders == 1 .. MaxUploaders
Versions == 0 .. MaxCommands
\* A failure resets twice: the manager's own Off and the one the UI answers with.
Caches == 0 .. MaxCommands + 2 * MaxErrors

\* What uploads depend on.  The version stands for the shared files, the users'
\* addresses and everything else; remote is set of users not on this machine.
Config == [version: Versions, reverse_connection: BOOLEAN, allowed: SUBSET Users,
           remote: SUBSET Users]

Message == [type: {"SharingStateMsg"}, state: SharingState]
             \cup [type: {"NewConfig"}, config: Config]

MPCs == {"top", "poll", "mode", "listen", "reverse", "failed", "report"}
MRets == {"mode", "listen", "reverse"}
\* A request is one for the file list ("list"), for a file ("file"), or another.
Requests == {"list", "file", "other"}
UPCs == Requests \cup {"unborn", "cached", "connect", "connect_no_list", "loop", "read",
                        "request", "wrote_piece", "wrote_final", "wrote_chunk", "push",
                        "dead"}

Alive(i) == upc[i] \notin {"unborn", "dead"}

Init ==
  /\ core_config \in [version: {0}, reverse_connection: BOOLEAN, allowed: {Users},
                      remote: SUBSET Users]
  /\ core_sharing_state = "Off"
  /\ app_errors = 0 /\ incoming_uploader_error = FALSE
  /\ receiver = <<>>
  /\ mpc = "top" /\ mret = "mode" /\ stop_incoming = FALSE
  /\ config = core_config
  /\ sharing_state = "Off"
  /\ single_uploaders = {}
  /\ cache = 0
  /\ caches = [c \in Caches |-> {}]
  /\ started = 0
  /\ upc = [i \in Uploaders |-> "unborn"]
  /\ user = [i \in Uploaders |-> None]
  /\ reverse = [i \in Uploaders |-> FALSE]
  /\ thread_config = [i \in Uploaders |-> config]
  /\ thread_cache = [i \in Uploaders |-> 0]
  /\ should_shutdown = [i \in Uploaders |-> FALSE]
  /\ commands = 0 /\ errors = 0
  /\ late = [i \in Uploaders |-> 0]
  /\ listed = {}

-----------------------------------------------------------------------------
(* TransmiticCore: what the UI asks for, and the app loop.                 *)

Command(name) ==
  /\ name \in Commands
  /\ commands < MaxCommands
  /\ commands' = commands + 1

set_my_sharing_state(s) ==
  /\ receiver' = Append(receiver, [type |-> "SharingStateMsg", state |-> s])
  /\ core_sharing_state' = s

SetSharing(s) ==
  /\ Command("sharing")
  /\ set_my_sharing_state(s)
  /\ UNCHANGED <<core_config, errVars, mgrVars, caches, threadVars, errors, histVars>>

\* Every change of the configuration that is sent to the uploader.
Reconfigure(c) ==
  /\ core_config' = [c EXCEPT !.version = commands + 1]
  /\ receiver' = Append(receiver, [type |-> "NewConfig", config |-> core_config'])
  /\ UNCHANGED <<core_sharing_state, errVars, mgrVars, caches, threadVars, errors,
                 histVars>>

\* add_user_to_shared, remove_file_from_sharing, set_port, update_user, ...
ChangeSharing ==
  /\ Command("change")
  /\ Reconfigure(core_config)

set_user_is_allowed_state(u, b) ==
  /\ Command("allow")
  /\ Reconfigure([core_config EXCEPT !.allowed = IF b THEN @ \cup {u} ELSE @ \ {u}])

set_reverse_connection(b) ==
  /\ Command("reverse")
  /\ Reconfigure([core_config EXCEPT !.reverse_connection = b])

\* The app loop stores the error of UploadErrorGeneric for the UI to fetch.
StoreError ==
  /\ app_errors > 0
  /\ app_errors' = app_errors - 1
  /\ incoming_uploader_error' = TRUE
  /\ UNCHANGED <<coreVars, receiver, mgrVars, caches, threadVars, commands, errors,
                 histVars>>

\* Mutant of get_and_reset_my_sharing_error: sharing is not turned off.
FetchErrorOnly ==
  /\ incoming_uploader_error
  /\ incoming_uploader_error' = FALSE
  /\ UNCHANGED <<coreVars, receiver, app_errors, mgrVars, caches, threadVars, commands,
                 errors, histVars>>

\* The UI polls for an error; one turns sharing off.
get_and_reset_my_sharing_error ==
  /\ incoming_uploader_error
  /\ incoming_uploader_error' = FALSE
  /\ set_my_sharing_state("Off")
  /\ UNCHANGED <<core_config, app_errors, mgrVars, caches, threadVars, commands, errors,
                 histVars>>

-----------------------------------------------------------------------------
(* The UploaderManager thread.                                             *)

MgrFrame ==
  UNCHANGED <<coreVars, incoming_uploader_error, caches, commands, histVars>>

\* Mutant of reset_connections: the cache is cleared in place, and shared with the
\* uploaders that were started before.
ResetInPlace ==
  /\ stop_incoming' = TRUE
  /\ single_uploaders' = {}
  /\ caches' = [caches EXCEPT ![cache] = {}]
  /\ UNCHANGED cache

\* reset_connections: ShutdownConn to every uploader, whose Senders are then dropped,
\* and a new cache.
reset_connections ==
  /\ stop_incoming' = TRUE
  /\ single_uploaders' = {}
  /\ cache' = cache + 1
  /\ UNCHANGED caches

\* The top of run's loop.
RunTop ==
  /\ mpc = "top"
  /\ stop_incoming' = FALSE
  /\ mpc' = "poll" /\ mret' = "mode"
  /\ MgrFrame
  /\ UNCHANGED <<app_errors, receiver, config, sharing_state, single_uploaders, cache,
                 threadVars, errors>>

\* Mutant of ReadMessage: a new configuration does not reset the connections.
ReadKeepsUploaders ==
  /\ mpc = "poll"
  /\ receiver # <<>>
  /\ receiver' = Tail(receiver)
  /\ LET m == Head(receiver)
     IN /\ sharing_state' = IF m.type = "SharingStateMsg" THEN m.state ELSE sharing_state
        /\ config' = IF m.type = "NewConfig" THEN m.config ELSE config
        /\ IF m.type = "SharingStateMsg" THEN reset_connections
           ELSE UNCHANGED <<stop_incoming, single_uploaders, cache, caches>>
  /\ UNCHANGED <<coreVars, errVars, mpc, mret, threadVars, commands, errors, histVars>>

\* read_receiver: one message, or its end.
ReadMessage ==
  /\ mpc = "poll"
  /\ receiver # <<>>
  /\ receiver' = Tail(receiver)
  /\ LET m == Head(receiver)
     IN \/ /\ m.type = "SharingStateMsg"
           /\ sharing_state' = m.state
           /\ UNCHANGED config
        \/ /\ m.type = "NewConfig"
           /\ config' = m.config
           /\ UNCHANGED sharing_state
  /\ reset_connections
  /\ UNCHANGED <<coreVars, errVars, mpc, mret, threadVars, commands, errors, histVars>>

\* read_receiver returns; inside the two modes stop_incoming leaves to run's loop.
ReadEmpty ==
  /\ mpc = "poll"
  /\ receiver = <<>>
  /\ mpc' = IF mret # "mode" /\ stop_incoming THEN "top" ELSE mret
  /\ MgrFrame
  /\ UNCHANGED <<app_errors, receiver, mret, stop_incoming, config, sharing_state,
                 single_uploaders, cache, threadVars, errors>>

\* Off: sleep.  Otherwise listen, if some socket can be bound, or reverse mode.
ChooseMode ==
  /\ mpc = "mode"
  /\ MgrFrame
  /\ UNCHANGED <<app_errors, receiver, stop_incoming, config, sharing_state,
                 single_uploaders, cache, threadVars>>
  /\ \/ /\ sharing_state = "Off"
        /\ mpc' = "top"
        /\ UNCHANGED <<mret, errors>>
     \/ /\ sharing_state # "Off" /\ config.reverse_connection
        /\ mpc' = "poll" /\ mret' = "reverse"
        /\ UNCHANGED errors
     \/ /\ sharing_state # "Off" /\ ~ config.reverse_connection
        /\ mpc' = "poll" /\ mret' = "listen"
        /\ UNCHANGED errors
     \/ /\ sharing_state # "Off" /\ ~ config.reverse_connection
        /\ errors < MaxErrors               \* "All TcpListeners failed"
        /\ errors' = errors + 1
        /\ mpc' = "failed"
        /\ UNCHANGED mret

\* run has failed: the manager tells itself that sharing is off ...
TurnSelfOff ==
  /\ mpc = "failed"
  /\ receiver' = Append(receiver, [type |-> "SharingStateMsg", state |-> "Off"])
  /\ mpc' = "report"
  /\ MgrFrame
  /\ UNCHANGED <<app_errors, mret, stop_incoming, config, sharing_state,
                 single_uploaders, cache, threadVars, errors>>

\* ... tells the app loop, and runs again.
ReportError ==
  /\ mpc = "report"
  /\ app_errors' = app_errors + 1
  /\ mpc' = "top"
  /\ MgrFrame
  /\ UNCHANGED <<receiver, mret, stop_incoming, config, sharing_state,
                 single_uploaders, cache, threadVars, errors>>

\* Mutant of Listen: a connection is served before the handshake has told who it is.
ListenUnverified ==
  /\ mpc = "listen"
  /\ mpc' = "poll"
  /\ MgrFrame
  /\ UNCHANGED <<app_errors, receiver, mret, stop_incoming, config, sharing_state, cache,
                 errors, user, should_shutdown, reverse>>
  /\ started < MaxUploaders
  /\ started' = started + 1
  /\ single_uploaders' = single_uploaders \cup {started'}
  /\ upc' = [upc EXCEPT ![started'] = "loop"]
  /\ thread_config' = [thread_config EXCEPT ![started'] = config]
  /\ thread_cache' = [thread_cache EXCEPT ![started'] = cache]

\* Listening: nothing to accept, or a connection and a thread for it.
\* remove_dead_uploaders has dropped the Senders of threads that have ended.
Listen ==
  /\ mpc = "listen"
  /\ mpc' = "poll"
  /\ MgrFrame
  /\ UNCHANGED <<app_errors, receiver, mret, stop_incoming, config, sharing_state, cache,
                 errors, user, should_shutdown>>
  /\ \/ UNCHANGED <<single_uploaders, started, upc, reverse, thread_config, thread_cache>>
     \/ /\ started < MaxUploaders
        /\ started' = started + 1
        /\ single_uploaders' = {i \in single_uploaders : Alive(i)} \cup {started'}
        /\ upc' = [upc EXCEPT ![started'] = "connect"]
        /\ reverse' = [reverse EXCEPT ![started'] = FALSE]
        /\ thread_config' = [thread_config EXCEPT ![started'] = config]
        /\ thread_cache' = [thread_cache EXCEPT ![started'] = cache]

\* Mutant of ToConnect: the connections in progress are not looked at.
ToConnectAll(live) ==
  {u \in Users : ~ (sharing_state = "Local" /\ u \in config.remote)}

\* The users whom a round of reverse mode connects to: those without a connection
\* in progress and, when sharing locally, only those on this machine.
ToConnect(live) ==
  {u \in Users : /\ \A i \in live : reverse[i] => user[i] # u
                 /\ ~ (sharing_state = "Local" /\ u \in config.remote)}

\* One round of reverse mode (the wait before it is the polls that go on): a thread
\* for each user to connect to, as far as the bound on threads allows.  Its insert into
\* single_uploaders_rev would drop the Sender of an earlier one for the user.
ConnectReverse ==
  /\ mpc = "reverse"
  /\ MgrFrame
  /\ UNCHANGED <<app_errors, receiver, mret, stop_incoming, config, sharing_state, cache,
                 errors, should_shutdown>>
  /\ LET live == {i \in single_uploaders : Alive(i)}
     IN \/ /\ ToConnect(live) = {} \/ started = MaxUploaders
           /\ mpc' = "poll"
           /\ single_uploaders' = live
           /\ UNCHANGED <<started, upc, user, reverse, thread_config, thread_cache>>
        \/ /\ started < MaxUploaders
           /\ started' = started + 1
           /\ \E u \in ToConnect(live) :
                /\ single_uploaders' =
                     {i \in live : ~ (reverse[i] /\ user[i] = u)} \cup {started'}
                /\ user' = [user EXCEPT ![started'] = u]
                /\ mpc' = IF ToConnect(live) = {u} THEN "poll" ELSE "reverse"
           /\ upc' = [upc EXCEPT ![started'] = "cached"]
           /\ reverse' = [reverse EXCEPT ![started'] = TRUE]
           /\ thread_config' = [thread_config EXCEPT ![started'] = config]
           /\ thread_cache' = [thread_cache EXCEPT ![started'] = cache]

ManagerNext ==
  \/ RunTop \/ ReadMessage \/ ReadEmpty \/ ChooseMode \/ TurnSelfOff \/ ReportError
  \/ Listen \/ ConnectReverse

-----------------------------------------------------------------------------
(* A SingleUploader thread.                                                *)

UploaderFrame ==
  UNCHANGED <<coreVars, errVars, receiver, mgrVars, started, reverse, thread_config,
              thread_cache, commands, errors>>

Goto(i, label) == upc' = [upc EXCEPT ![i] = label]

\* The manager holds no Sender for i: the poll finds ShutdownConn or Disconnected.
Forgotten(i) == i \notin single_uploaders

\* EncryptedStream::write.  History counts late writes up to TooLate.
TooLate == 2
Write(i) == late' = [late EXCEPT ![i] = IF Forgotten(i) /\ @ < TooLate THEN @ + 1 ELSE @]

\* read_receiver: go on to label, or stop.
PollThen(i, stopped, label) ==
  /\ should_shutdown' = [should_shutdown EXCEPT ![i] = @ \/ Forgotten(i)]
  /\ Goto(i, IF should_shutdown'[i] THEN stopped ELSE label)

\* A reverse uploader looks its user up in the cache before it connects.
ReadCache(i) ==
  /\ upc[i] = "cached"
  /\ Goto(i, IF user[i] \in caches[thread_cache[i]] THEN "connect_no_list" ELSE "connect")
  /\ UploaderFrame
  /\ UNCHANGED <<user, should_shutdown, caches, histVars>>

\* The handshake: it fails, or it settles who the peer is.  A reverse uploader then
\* writes MSG_REVERSE or MSG_REVERSE_NO_LIST.  A blocked user goes no further.
Handshake(i) ==
  /\ upc[i] \in {"connect", "connect_no_list"}
  /\ UploaderFrame
  /\ UNCHANGED <<should_shutdown, caches, listed>>
  /\ \/ /\ Goto(i, "dead")
        /\ UNCHANGED <<user, late>>
     \/ \E u \in Users :
          /\ reverse[i] => u = user[i]
          /\ user' = [user EXCEPT ![i] = u]
          /\ IF reverse[i] THEN Write(i) ELSE UNCHANGED late
          /\ Goto(i, IF u \in thread_config[i].allowed THEN "loop" ELSE "dead")

\* The top of run's loop over requests.
PollLoop(i) ==
  /\ upc[i] = "loop"
  /\ PollThen(i, "dead", "read")
  /\ UploaderFrame
  /\ UNCHANGED <<user, caches, histVars>>

\* run_loop: the blocking read of the next request, or the end of the connection.
ReadRequest(i) ==
  /\ upc[i] = "read"
  /\ \E label \in {"dead", "request"} : Goto(i, label)
  /\ UploaderFrame
  /\ UNCHANGED <<user, should_shutdown, caches, histVars>>

\* The poll after the read, and what the request was.
PollRequest(i) ==
  /\ upc[i] = "request"
  /\ \E m \in Requests : PollThen(i, "loop", m)
  /\ UploaderFrame
  /\ UNCHANGED <<user, caches, histVars>>

\* MSG_FILE_LIST: one write, of a piece or of the last piece.
ServeList(i) ==
  /\ upc[i] = "list"
  /\ UploaderFrame
  /\ UNCHANGED <<user, should_shutdown, caches>>
  /\ \/ /\ Goto(i, "dead")                     \* the write fails
        /\ UNCHANGED histVars
     \/ /\ Write(i)
        /\ \/ /\ Goto(i, "wrote_piece")
              /\ UNCHANGED listed
           \/ /\ Goto(i, "wrote_final")
              /\ listed' = listed \cup {<<user[i], thread_config[i].version>>}

PollAfterPiece(i) ==
  /\ upc[i] = "wrote_piece"
  /\ PollThen(i, "loop", "list")
  /\ UploaderFrame
  /\ UNCHANGED <<user, caches, histVars>>

PollAfterFinal(i) ==
  /\ upc[i] = "wrote_final"
  /\ PollThen(i, "loop", "push")
  /\ UploaderFrame
  /\ UNCHANGED <<user, caches, histVars>>

\* The whole list is out: the nickname goes into the cache of the thread.
PushToCache(i) ==
  /\ upc[i] = "push"
  /\ caches' = [caches EXCEPT ![thread_cache[i]] = @ \cup {user[i]}]
  /\ Goto(i, "loop")
  /\ UploaderFrame
  /\ UNCHANGED <<user, should_shutdown, histVars>>

\* MSG_FILE_SELECTION_CONTINUE: the file cannot be opened or the write fails; or a
\* refusal or the last chunk is written; or a chunk that others follow.
ServeFile(i) ==
  /\ upc[i] = "file"
  /\ UploaderFrame
  /\ UNCHANGED <<user, should_shutdown, caches, listed>>
  /\ \/ /\ Goto(i, "dead")
        /\ UNCHANGED late
     \/ /\ Write(i)
        /\ Goto(i, "loop")
     \/ /\ Write(i)
        /\ Goto(i, "wrote_chunk")

\* Mutant of PollAfterChunk: what the poll found is not looked at.
SendUnpolled(i) ==
  /\ upc[i] = "wrote_chunk"
  /\ Goto(i, "file")
  /\ UploaderFrame
  /\ UNCHANGED <<user, should_shutdown, caches, histVars>>

\* The poll between two chunks.
PollAfterChunk(i) ==
  /\ upc[i] = "wrote_chunk"
  /\ PollThen(i, "loop", "file")
  /\ UploaderFrame
  /\ UNCHANGED <<user, caches, histVars>>

\* The stream is handed to the app loop (MSG_REVERSE, MSG_REVERSE_NO_LIST), or the
\* request is not known: either way the thread ends.
ServeOther(i) ==
  /\ upc[i] = "other"
  /\ Goto(i, "dead")
  /\ UploaderFrame
  /\ UNCHANGED <<user, should_shutdown, caches, histVars>>

UploaderNext(i) ==
  \/ ReadCache(i) \/ Handshake(i) \/ PollLoop(i) \/ ReadRequest(i) \/ PollRequest(i)
  \/ ServeList(i) \/ PollAfterPiece(i) \/ PollAfterFinal(i) \/ PushToCache(i)
  \/ ServeFile(i) \/ PollAfterChunk(i) \/ ServeOther(i)

-----------------------------------------------------------------------------
CoreNext ==
  \/ \E s \in SharingState : SetSharing(s)
  \/ ChangeSharing
  \/ \E u \in Users, b \in BOOLEAN : set_user_is_allowed_state(u, b)
  \/ \E b \in BOOLEAN : set_reverse_connection(b)
  \/ StoreError
  \/ get_and_reset_my_sharing_error

Next == CoreNext \/ ManagerNext \/ \E i \in Uploaders : UploaderNext(i)

Spec == Init /\ [][Next]_vars

\* The manager and the app loop are scheduled, the UI polls for errors, and a write or a
\* handshake of an uploader ends in the end.  The read of the next request need not: it
\* has no timeout, and the other end may have nothing to ask (a downloader that has an
\* open connection and is paused).
FairSpec ==
  /\ Spec
  /\ WF_vars(ManagerNext) /\ WF_vars(StoreError) /\ WF_vars(get_and_reset_my_sharing_error)
  /\ \A i \in Uploaders : WF_vars(upc[i] # "read" /\ UploaderNext(i))

-----------------------------------------------------------------------------
(* Properties.                                                             *)

\* Every variable has its type.
TypeOK ==
  /\ core_config \in Config /\ core_sharing_state \in SharingState
  /\ app_errors \in Nat /\ incoming_uploader_error \in BOOLEAN
  /\ receiver \in Seq(Message)
  /\ mpc \in MPCs /\ mret \in MRets /\ stop_incoming \in BOOLEAN
  /\ config \in Config /\ sharing_state \in SharingState
  /\ single_uploaders \in SUBSET Uploaders
  /\ cache \in Caches
  /\ caches \in [Caches -> SUBSET Users]
  /\ started \in 0 .. MaxUploaders
  /\ upc \in [Uploaders -> UPCs]
  /\ user \in [Uploaders -> Users \cup {None}]
  /\ reverse \in [Uploaders -> BOOLEAN]
  /\ thread_config \in [Uploaders -> Config]
  /\ thread_cache \in [Uploaders -> Caches]
  /\ should_shutdown \in [Uploaders -> BOOLEAN]
  /\ commands \in 0 .. MaxCommands /\ errors \in 0 .. MaxErrors
  /\ late \in [Uploaders -> 0 .. TooLate]
  /\ listed \in SUBSET (Users \X Versions)

\* Every uploader the manager knows works for the configuration and the cache the
\* manager has now, and there is none while sharing is off: a change that revokes
\* access leaves no uploader behind that would not be told.
UploadersCurrent ==
  \A i \in single_uploaders :
    /\ thread_config[i] = config
    /\ thread_cache[i] = cache
    /\ sharing_state # "Off"

\* Revocation is prompt: once the manager has reset its connections, an uploader of
\* before writes at most one more message to its peer (the one it was about to
\* write), whatever it was doing.
AtMostOneLateWrite == \A i \in Uploaders : late[i] <= 1

\* A user is connected to once: two reverse connections to the same user would each
\* start a download there and take it over from the other.  Two are alive together only
\* if a reset came between them, by which the older one was told to end: it works with
\* an older cache.  What it may still write is in AtMostOneLateWrite.
OneReverseConnectionPerUser ==
  \A i, j \in Uploaders :
    (i < j /\ Alive(i) /\ Alive(j) /\ reverse[i] /\ reverse[j] /\ user[i] = user[j]) =>
      Forgotten(i) /\ thread_cache[i] < thread_cache[j]

\* A user in the manager's cache, whom the next reverse connection tells not to fetch
\* the file list, was sent all of the list that the present configuration gives:
\* "We set a _new_ Vec, not just clear it, so that existing threads won't update it
\* out of sync".
CacheIsCurrent ==
  \A u \in caches[cache] : <<u, config.version>> \in listed

\* Sharing that was turned off stays off until the UI turns it on: uploads end, or have
\* been told to and find out when the read of the next request returns.
OffStopsUploads ==
  \A i \in Uploaders :
    (core_sharing_state = "Off" /\ Alive(i)) ~>
      \/ core_sharing_state # "Off"
      \/ ~ Alive(i)
      \/ upc[i] = "read" /\ Forgotten(i)

\* In the end the manager does what the UI shows.
SharingConverges ==
  \A s \in SharingState :
    (core_sharing_state = s) ~> (core_sharing_state # s \/ sharing_state = s)
=============================================================================
