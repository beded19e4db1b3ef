# A TLA+ model of transmitic-core

transmitic-core is the library behind Transmitic, a program that shares files between
users who know each other's public IDs. This directory models what runs concurrently in
it and what has to survive interruptions: the downloading side with its queues, the
uploading side with its revocation of access, the transfer of a file between them, and the
encrypted stream they share. Source references are to `src/src/`.

## The system

| Component | State | Operations | Talks to |
|---|---|---|---|
| `TransmiticCore` (transmitic_core.rs) | Config, sharing state, handles of the others | the API that the UI thread calls | locks the `OutgoingDownloader`, sends to the uploader manager |
| `OutgoingDownloader` (outgoing_downloader.rs) | `channel_map`, pause flag, `refresh_data` | download, cancel, pause, config changes, reverse connections | two mpsc channels to each downloader thread |
| `SingleDownloader` thread, one per remote user | queue, active item, flags, stored reverse connection, queue file | `run`, `read_receiver`, `download_shared_file` | the remote uploader over an `EncryptedStream` |
| refresh threads | a list per user, on its way | fetch a file list | `refresh_data` |
| `UploaderManager` thread (incoming_uploader.rs) | sharing state, config, uploader channels, cache of served users | listen, or connect in reverse mode; reset | one channel to each uploader thread; errors to the app loop |
| `SingleUploader` thread, one per connection | own config, own cache handle, shutdown flag | handshake, file list, file chunks, hand-over of a reverse stream | the remote downloader |
| `EncryptedStream` (encrypted_stream.rs) | key, one nonce counter | read, write | a TCP stream |
| `TransmiticStream` (transmitic_stream.rs) | DH secrets | handshake as either end | a TCP stream |
| `Config` (config.rs) | the configuration, its file | setters that verify and write; file lists | disk |
| app loop (app_aggregator.rs) | view of all downloads for the UI | merges messages of every thread | the UI, `OutgoingDownloader` for reverse connections |
| base64.rs, logger.rs, shared_file.rs, utils.rs | none or a list of log lines | conversions | - |

What is hard here: every thread polls its channels at points in the middle of its work and
whatever it reads may replace the state it works on; threads start with copies of state
that messages then have to keep current; channels are dropped as a way of telling a
thread to end; connections are matched at one time and used at another; downloads resume
from whatever an interruption left on disk; sizes are known from four sources of
different age; and both directions of a stream count nonces with one counter.

What makes each component correct:

- *OutgoingDownloader, SingleDownloader*: no requested download is lost or done under
  another's name; queue file and memory agree; pause, config and user changes reach every
  thread; threads without a manager end; downloads settle. Writes that fail or are
  interrupted lose no more than what they leave out of the file.
- *Transfer*: bytes land at their offsets; what is reported complete is whole; what did not
  change is not rejected; every item is settled.
- *Uploader*: revocation is complete and prompt; the cache never tells a user to skip a list
  it has not had; the UI and the manager agree whether sharing is on.
- *EncryptedStream, TransmiticStream*: no nonce twice; each read decrypts what it expects;
  who has a stream knows who is at the other end; the ends never wait for each other.
- *Config*: what a call says it did is on the disk, and what it says failed is not; a change
  of password never loses the configuration; the nonce moves; access can always be taken
  away; uploader and downloader work with the configuration that was written.
- *Refresh threads*: an answer is never older than the last request; every refresh ends; the
  program is not killed for a missing entry.
- *AppAggregator*: what is done or cancelled does not stay on the screen.
- *Base64*: an ID that was written is the ID that is read.

## Modules

| Module | Models | Builds on |
|---|---|---|
| `Downloader` | manager and downloader threads | - |
| `AppAggregator` | the UI's view of the downloads | extends `Downloader`: each thread step is joined with the messages it sends |
| `Refresh` | `refresh_data` and everyone who writes it | - |
| `FileTransfer` | one queue item between the disks of two users | implements `Download` |
| `Download` | abstract: what an attempt at an item promises | - |
| `Uploader` | uploader manager and threads, the way of an error to the UI | - |
| `TransmiticStream` | the handshake of a connection, and its stream | extends `EncryptedStream`, and implements it |
| `EncryptedStream` | frames and nonces of an open stream | - |
| `ConfigFile` | the configuration in memory, on disk, and with the components | - |
| `Base64` | encode and decode | - |

`MCDownloader`, `MCAppAggregator`, `MCUploader` and `MCConfigFile` hold symmetry and the values of
constants; the other modules are checked as they are. `Downloader_proofs`, `AppAggregator_proofs`,
`Uploader_proofs`, `FileTransfer_proofs`, `TransmiticStream_proofs` (which has those about
`EncryptedStream`, too), `Refresh_proofs`, `ConfigFile_proofs` and `Base64_proofs` hold the
theorems.

Download's *attempt* is the control point `transfer` of Downloader: `TransferStep`,
`TransferDone` and `TransferError` there are `Progress`, `Report` and `Break`. Downloader thus
uses of a transfer what FileTransfer is shown to implement. In the same way Uploader and
Downloader use of a connection that it fails or settles who the peer is, which is
TransmiticStream's `PeersAgree`, and Downloader has a list arrive in one step that Refresh
takes apart.

Definitions whose comment begins with "Mutant of" are deliberate errors: each shows that a
property would notice such an error in the code. No `Next` uses them.

### Downloader

A thread is `<<user, n>>`, the n-th started for the user; `channel_map[u] = n` says which one
the manager's Senders reach. Dropping the entry drops both Senders, so a thread with
`~Registered(t)` finds its channels disconnected once they are drained.

Each UI call is an action made with the mutex free. `remove_user`, `update_user` and
`set_ignore_incoming` do several things to the threads under one lock; the threads run in
between, so these calls leave the rest in `todo`, and `SendRemoveUser`, `DropSenders`,
`SendSharedUser`, `restart_connections` carry it out. `Restart` ends the process at any
point and starts it again from the queue files.

Control points of a thread (`pc`): `init` (run begins, the queue is read from the queue
file), `poll_rev` and `poll_rx` (one iteration of `read_receiver`, which returns to the
label in `ret`), `outer` (top of run's loop), `connect`, `listing` (`set_everything_file`),
`lookup`, `select`, `transfer` (inside `download_shared_file`), `transferred` and `inner`
(the checks after a poll), `dead`. One action per arm of `read_receiver` (`OnPause`, ...).
An error goes to `init`: the thread's outer loop calls `run` again, and the fields of
`SingleDownloader` keep their values.

Every change of `download_queue` is followed by `write_queue()?`. `SetQueue` is the change with
a write that succeeds, `WriteFails` the change with one that does not (`ReadFails` in the arms of
`read_receiver`, `FinishFails` in `set_active_download_finished`): the queue is changed in memory,
the file is as it was if it could not be opened, and otherwise holds the first lines of the new
queue and perhaps a part of the next (`WriteCutOff`); the error ends `run`, which begins
again with what is in the file. A process that ends within `write_queue` leaves the same file, so
this crash is `WriteFails` followed by `Restart`: no other thread or call sees the file in
between, and the process's memory is gone. `file_tail` says how the file ends: a line without its
newline runs into the next request that `add_to_queue_file_and_start_downloader` appends
(`RunsOn`), and a line cut off before its path is "Failed to parse queue file" on every later run,
so that its thread stays at `init` (`StartRun`). A path that is cut short is some path of `Paths`.
That append can fail as well (`download_refused`). `DiskFails` says whether an instance has such
failures.

`wanted` and `overlapped` are history: downloads that were asked for and neither cancelled
nor reported, and users for whom an orphan was alive when a new thread started (both
threads then use one queue file, and the properties about it make no claim). A failed write
takes from `wanted` what is then neither in the file nor in an unread message (`GiveUpUnwritten`):
the program has lost it, and nothing else may be.

### Uploader

`mpc` follows `UploaderManager::run`: `top`, `poll` (returning to `mret`), `mode`, `listen`,
`reverse`, and `failed` / `report` for the loop around it. `single_uploaders` are the threads
whose Sender the manager holds; `reset_connections` sends ShutdownConn and drops them, so a
thread's poll finds out from `i \notin single_uploaders`. The code has them in a Vec and, for
reverse connections, in a HashMap by nickname: `ConnectReverse` replaces the user's entry, as
`HashMap::insert` does, and the thread that loses it lives on as a forgotten one. So what could be wrong
is not two entries but two threads of one user, one of which nobody told to end, or which
was replaced without a reset: that is what `OneReverseConnectionPerUser` excludes. The cache is an `Arc<Mutex<Vec>>`
that a reset *replaces*: `cache` is the manager's, `thread_cache[i]` the one a thread was
given, `caches` their contents. `late[i]` counts the messages a thread wrote after it was
forgotten and `listed` who was sent all of the list of which version.

### FileTransfer

A byte is (edit that wrote it, position), so a file is right if its bytes are in place.
`expected` is the size in the queue file, `listing` the cached list, `served` the list of
the connection's uploader, `remote` the owner's files. One connection carries at most one
message (`wire`): the uploader waits for nothing, but a second chunk under way would differ
only in being read later. `Serve` may read short, as `File::read` may. `Drop` stands for a
broken connection and for `stop_downloading`; `Crash` and `StorePart` for the end of the
process, between and in the middle of writes.

### EncryptedStream

An end is at `write`, `write_payload`, `read`, `read_payload` or `closed`. The turn-taking
is the callers': requests and answers of `download_shared_file`, `set_everything_file` and
`run_loop`. `Close` covers every return of a caller that drops the stream; that callers drop
it when they stop in the middle of an answer is what the mutant `InterruptKeepsStream`
denies.

### TransmiticStream

`Steps(e)` is the order in which each end sends and receives headers and keys, `stage` how
many of them it has made, `mail` the handshake messages on their way. An end is `Open` when its
steps are over; from then on it does what EncryptedStream allows it (`Converse`), and a step of
the handshake leaves EncryptedStream's variables alone or closes the end. A key is represented
by the identity that signed it: a signature verifies under the public ID that belongs to the
private one and no other. IDs, versions and lists of users are chosen in the initial states, so
that changed IDs, removed users and strangers are all there.

### ConfigFile

`phase` is where the process is in a call: `open` (before fs::write), `write` (the file is
truncated), `remove` (the file of the other kind is to be deleted), `create` (the first start
writes its file), `idle`, `down`. Each call computes a new configuration from the
one in memory, and `Save` is the part of `write_and_set_config` that they share: bump the
nonce, sanitize, verify. `json` and `etrc` are the files; a file is absent, torn, or written
with a configuration, a password and a nonce. A call's `notify` names the components it passes
the result on to. `Crash` ends the process in any phase and `Start` reads what is there; which
of the two files a start looks at is decided by the program around the library (`Preferred`).
Strings are names with the blanks and the `file://` that `sanitize_config` takes away, because
it sorts before it trims and compares after it.

### Refresh

A list is the number of changes its owner had made. `refresh_data[u].recv` is the number
of the refresh whose Receiver the entry holds, `channel` what a refresh thread has sent. Threads that fetch
a list for themselves (`download_everything_file`, `set_everything_file`) insert it whether or
not their user is still there.

### AppAggregator

`app_receiver` is the one channel to the app loop. A step of a thread and its messages are one
action, because a Sender never blocks; the app loop reads later. `unheard` are the users
with a thread that ended without its last update, or had a queue that it could not write (the report
that follows the write is then not sent, and the UI shows what is no longer so until the next one); of
these the property says nothing.

### Base64

Characters are indices into the table. The loops of the source are written as what they put at
each position of their result, so that no recursion is needed; where the loop of `decode` ends, and
what it refuses before it comes there, is explicit.

## Runs

Every passing run explores its instance completely; the `bug_` runs stop at the violation.

| Run | Instance | Distinct states | Shows |
|---|---|---|---|
| `manager` | 1 user, 2 paths, 2 threads, 1 reverse connection, 2 identities, any 3 of the 12 commands, failing writes of the queue | 0.7 M | `PauseReachesThreads`, `ActiveIsHead`, `QueueOnDisk`, `NoLostDownload`, `RegisteredAlive`, `ConfigReachesThreads`, `SharedUserReachesThreads`, types |
| `downloader_live` | 1 user, 1 path, 2 threads, 1 reverse connection, 4 commands (download, cancel, pause, remove), no failing writes | 0.1 M | `OrphansExit`, `PauseTakesEffect`, `DownloadsSettle` |
| `view` | 1 user, 2 paths, 2 threads, 3 commands, 3 unread messages, failing writes of the queue, no reverse connection | 2.1 M | `ViewAgrees` |
| `refresh` | 1 user, 3 refreshes, 2 changes of the files, 3 of the configuration | 0.2 M | `NeverKilled`, `FreshAnswer`, `RefreshEnds`, types |
| `transfer` | a file or a directory of 2, up to 2 bytes each, up to 2 per message, 2 edits, 2 interruptions | 1.6 M | `BytesInPlace`, `OffsetsAgree`, `CompletedWhole`, `RejectedOnlyIfChanged`, `ItemSettles`, `ImplementsDownload`, types |
| `uploader_safety` | 2 users, 2 uploader threads, any 2 of the commands, 1 failure to listen | 4.3 M | `UploadersCurrent`, `AtMostOneLateWrite`, `CacheIsCurrent`, `OneReverseConnectionPerUser`, types |
| `uploader_live` | 1 user, 1 uploader thread, 3 commands (sharing, reverse), 2 failures to listen | 0.4 M | `OffStopsUploads`, `SharingConverges` |
| `session` | 3 identities, 2 versions, lists of up to 2 users, nonces up to 7 | 0.5 M | `NonceNeverReused`, `ReadsDecrypt`, `PeersAgree`, `NeverBothWaiting` |
| `config_file` | 3 nicknames (2 equal but for case), 1 path, 2 public IDs, 1 password, nonces up to 4, 3 calls, 1 failed access, 1 crash | 0.1 M | `Durable`, `SwitchKeepsConfig`, `NonceMoves`, `RemovalsAccepted`, `CopiesCurrent`, types; and, by the assumptions of `MCConfigFile`, Base64 on up to 5 bytes |
| `bug_cancel`, `bug_race` | 1 user, 1 path, 3 commands | - | findings 1 and 2 |
| `bug_reject` | a directory of 2 files, 1 edit, 1 interruption | - | finding 3 |

Why the bounds are enough: every safety property of these runs is also a theorem for all values
of the constants (see "Proofs"), so that the runs have to be large enough to show that the
properties can be broken at all, which the mutants do, and that what they speak of happens; for the
liveness properties the instance is all there is. The manager treats users independently and
threads of different users share only the manager and `refresh_data`, whose entries are per user, so
one user with two successive threads contains the interactions in Downloader; two paths make order in
a queue matter; a stored and a replaced reverse connection need one hand-over. Three commands
are a download, what changes it (pause, cancel, a new identity, a removal) and what undoes that
or restarts the program. For liveness there are four, so that a resume, or a second download into a
thread that was told to end, comes on top.

In the uploader two users are needed for the choice in reverse mode and two threads for an old
one beside a new one; two commands turn sharing on and then off, or change what is shared, while
connections of the first are in all their stages. A file of two bytes in messages of one or two has a
first and a last chunk, or one that is both, and can be interrupted in each; two edits make a list
stale, and stale again; two interruptions resume what was resumed. Nonces up to 7 hold two rounds of
request and answer and the limit; three identities hold the expected peer, another one that is known,
and a stranger. Nonces of the configuration up to 4 with an old file under 3 pass the limit within a
run. Three refreshes are an old, a replaced and a current one. Three unread messages are those of a
finished transfer and one more.

Downloader, AppAggregator, EncryptedStream, TransmiticStream, FileTransfer, Refresh and ConfigFile run without
deadlock checking because they do stop: at the command bound with every thread ended or every
call made, when both ends are closed, when the item is settled. Uploader never stops and is checked.

### Fairness

- Threads are scheduled (`WF` of each thread and of the rest of a manager call). A step that
  contains a network call ends in some way: the code sets no read timeout, so that a silent
  peer eventually fails or answers is an assumption on the network (TCP) and, for a downloader,
  on the uploader at the other end, which answers every request.
- An uploader's read of the next request (724) is different: the downloader at the other end owes it
  nothing, and one that is paused keeps a stored reverse connection silent for as long as it is paused.
  The fairness of `UploaderNext` therefore leaves `read` out, and `OffStopsUploads` claims of an uploader
  that is in this read only that it is forgotten: it ends once the read returns.
- The liveness of Downloader is claimed for a disk that works (`DiskFails = FALSE`): a thread whose
  queue file does not parse begins `run` again for ever without polling.
- `DownloadsSettle` additionally assumes `PeerFairness`: from some point on a thread meets no more
  setbacks (peer offline, connection broken, no downloads directory, an error of a transfer). It is a
  hypothesis of that property alone. Errors that the two programs make themselves count as
  well, because Downloader cannot tell them apart: it is FileTransfer that shows whether attempts
  repeat for ever without a cause outside (`ItemSettles`), and finding 3 is such a case. What
  `DownloadsSettle` is about is the thread's own loop: pauses, resumptions, idle rounds and stops
  do not make it lose its turn.
- In FileTransfer, interruptions are bounded by `MaxFailures` instead.
- The uploader's liveness assumes the app loop and the UI's polling for errors are scheduled.
- In Refresh, threads are scheduled, a connection ends in some way, and the UI polls
  `get_shared_with_me_data`, as it does for as long as it is shown. Nothing is assumed of the
  commands, the other owners and the downloader threads.

### Findings

1. **A removed user's queue file may survive** (`bug_cancel`). `remove_user` sends RemoveUser
   and drops the Senders; `read_receiver` looks at `rev_receiver` first, finds it
   disconnected and returns without reading RemoveUser. Once the nickname is added again, the
   next download from it, or a restart of the program, resumes the old queue.
2. **A stored reverse connection outlives the IDs it was matched with** (`bug_race`). The
   recheck of line 153 is made at hand-over; NewConfig and NewSharedUser do not drop
   `reverse_connection`. RestartConnection does not drop it either, so a connection stored
   before Ignore Incoming is turned on is still used.
3. **A directory with a truncated file blocks its queue** (`bug_reject`). The mismatch of a
   subfile is reported and is an error, but the directory is not taken off the queue: the
   thread reconnects at once and meets the same mismatch for ever, until the list is
   refreshed.

Behaviours met on the way that no comment or document speaks of.

Transfers and downloads:

- A write of the queue file that is cut off within the size of an item leaves a file that no run accepts: the
  thread fails, begins again at once and for ever, and polls no channel, so that neither a pause nor the
  removal of the user reaches it. Nothing but deleting the file helps.
- A paused downloader that was handed a reverse connection keeps the uploader at the other end in a read,
  and its thread alive, also after sharing was turned off there.
- A file that grew after the list was made is downloaded beyond its expected size until the
  remote end says FINISHED, because the local check is for equality, and is rejected then.
- A directory may be reported complete with a subfile that was reported as too large.
- An edit that keeps the size, made between an interruption and the resumption, leaves a file
  mixed from two versions.
- A thread that outlives its user puts the user's list back into `refresh_data` (line 1156),
  where it stays until the next change of the configuration; a refresh of it ends with
  "Channel disconnected".
- `set_everything_file` resets `recv`: a refresh under way is forgotten, and the list shown may
  be older than the request (`FreshAnswer` is about answers to requests, not about these).
- A removed user's thread usually finds its channel disconnected before it would send its
  shutdown update, so the UI keeps showing that user's last active download. NewDownload sends
  no update: what is queued during a pause is not shown until the next report.

Configuration:

- Users are sorted before their nicknames are trimmed: a nickname typed with a leading blank is
  stored out of order until the next write.
- Sanitizing is not idempotent: `file://` followed by a blank, or twice, leaves something for the next
  write to remove. Two paths that are accepted as different may then become the same, and
  every later write is refused. `RemovalsAccepted` is stated of configurations that sanitizing leaves alone.
- A refused call still bumps the nonce in memory. Each encrypted write draws a new salt, so that a nonce
  that did repeat would not by itself repeat a key with it.
- A failed write of an encrypted configuration leaves a torn `.etrc` behind; a failed removal after
  `decrypt_config` leaves the old one, and the password change stays although an error is
  returned.
- `add_files` leaves out what was shared before the call, but the same path twice in one call is
  refused although the comment says "don't readd it".

Base64: `decode` panics on lengths 5, 9, ... and, where assertions are compiled in, on strings such
as `AB=C` whose capacity is not used up. `AA==` and `AB==` decode alike, so comparing public IDs as strings
misses equal keys.

## Proofs

TLAPS checks these for every value of the constants, under the named assumptions of the
modules (`ConstantsAssumption` and `NoneAssumption` of Downloader and of Uploader, `NonceMaxAssumption`, `HandshakeAssumption`,
`RefreshAssumption`, `ConfigAssumption`, and `FilesAssumption`, `SizesAssumption`, `BoundsAssumption`,
`ValuesAssumption` of FileTransfer: bounds are naturals; a directory has a file and a message holds a
byte; `None` and `NoFile` are none of the values they stand apart from; and fewer calls are made in the life
of a configuration file than there are nonces). All safety properties of the passing runs are among them.

**Downloader** (any sets of users and paths, any number of threads and commands).

- `TypeCorrect`, `ActiveSafety`: from the inductive invariant `IInv = TypeOK /\ Underway /\
  TransferOfHead`. `ActiveIsHead` alone is not inductive, because the poll in the middle of a
  transfer leaves and re-enters it: `TransferOfHead` says of every control point from which the
  thread will go back into the transfer (`Transferring`: inside it, or in a poll that returns
  to it, with `stop_downloading` unset) that the active item is the head of the queue.
  `Underway` says that no attempt is under way with `stop_downloading` set. Every arm of
  `read_receiver` that changes the head of the queue sets the flag: that is what the proof
  comes down to. `Own` and `ThreadIsLocal` confine a thread's step to the thread, so the
  argument is made for one thread (`ControlOf`).
- `RegisteredSafety`: `RegInv` adds that threads are numbered in the order they are started and
  `channel_map` names none that was not (`Numbered`) and that a thread with RemoveUser unread, or
  with `shutdown` set, belongs to a user whose removal is under way or done (`DoomedIsRemoved`).
  A thread ends only by itself when it is in one of these states, so a registered one lives.
- `PauseReaches`, `ConfigReaches`, `SharedUserReaches`: `ReachInv` says of every registered living
  thread that its pause flag, configuration and public ID will be the manager's once it has read
  its messages (`WillHave`: the last unread message of the kind carries the manager's value, or there
  is none and the thread has it). Whatever changes the manager's side also sends the message, and
  what changes the thread's side takes that message off its channel. `EntryConfigured` is
  needed for new threads: they start with the ID that the configuration gives.
- `QueueIsOnDisk`: a user who is not in `overlapped` has at most one living thread (`OneAlive`); that
  thread leaves `read_receiver` or a finished item with its queue in the file, or goes to `init`, where it
  takes from the file what a failed write left there (`ThreadWrites`).
- `NothingIsLost`: `Kept` says where a wanted download is: in the last unread message that
  concerns it, or, if there is none, in the queue file (`Wants`). The induction takes the other
  invariants together: a user of whom something is wanted has a registered thread that lives and is not told
  to end (`ServerLives`, from `RegInv`), which alone writes the file (`OneAlive`) and holds in memory what is in
  it (`QueueOnDisk`), and takes from it only what it reports, what a message cancels and what a failed
  write cuts off, which is then no longer wanted (`CutOffServes`). That cancelling one path
  keeps the others is `RetainKeeps`; that a report is about the head is `ActiveIsHead`.
- `RetainType`: what CancelDownload leaves of the queue is a queue. `Retain` is a recursive
  function; that it is defined on every length is proved from a least counterexample.

**AppAggregator** (any users, paths, threads, commands and unread messages).

- `ViewIsDownloader`: a step with its messages is a step of Downloader, the app loop's a stutter, so
  that `IInv`, `OneAlive` and `QueueOnDisk` hold of the threads that are watched.
- `ViewIsCorrect`: `ViewAgrees` speaks of a view that has read everything, so its invariant speaks of
  every view that is going to be: `Foreseen` says that there is a sequence of entries, each made
  from the one before it by the arm of the app loop for the next unread message, in which nobody is
  online with an error, and which shows from the user's last message on what is in the queue file.
  Adding a message makes the sequence longer (`ForeseenOneMore`), reading one takes its first entry
  away (`ForeseenRead`). That an error is told last only by a thread that is about to start `run` again,
  whose first message takes it back, is the part with `Starting`. `ActiveQueued` is
  why what a report calls active is queued: an active item stays in the queue file over errors. What there
  is to show of a user without a living thread is nothing (`Backing`), whatever a refused request
  left in the file.

**EncryptedStream** (any nonce limit; in `TransmiticStream_proofs`).

- `NonceSafety`, `ReadSafety`, `TypeCorrect`: the invariant says that at most one end writes
  and has then read everything (`OneWriter`), that frames travel one way (`OneWay`), that both
  ends reach the same number counting what is on the wire (`InStep`), that the wire carries
  consecutive nonces (`Consecutive`) and everything encrypted lies below (`Fresh`); and that
  headers and payloads alternate as announced. No weaker statement is inductive: that a
  nonce is fresh at the writer depends on where the reader is.

**TransmiticStream** (any identities, versions, lists of users and nonce limit).

- `SessionImplementsStream`: initial states and steps of a session are initial states and steps,
  or stutters, of EncryptedStream. `SessionNonceSafety` and `SessionReadSafety` follow from it without
  another induction.
- `PeersAgreement`, `NoMutualWait`: the invariant `SInv` relates the stages of the two ends to what is in
  each other's mail, to what was matched from it, and, once a stream is open, to the
  turn of the conversation. `NeverBothWaiting` needs all of it: at the border, the acceptor
  already reads frames while the connector still waits for the last key.

**Refresh** (any users, refreshes, changes).

- `RefreshTypeCorrect`, `NeverKills`, `FreshAnswers`: a receiver in an entry is always that of the refresh
  started last (`LastReceiver`), and whatever that refresh has in hand or in its channel is no
  older than the request (`LastFresh`). `FreshAnswer` needs only the latter, but that the receiver is
  the last one is what makes it about the right request.

**ConfigFile** (any names, configurations, number of crashes and failures).

- `DurableConfig`, `SwitchIsSafe`, `NonceAlwaysMoves`: `FilesMatch` says that each file is of its kind (a
  written `json` has no password, a written `etrc` has one); `CallSafe` what the expected file
  holds in each phase, and during a change of password that the file of the other kind is the one of
  the old password; `KeptSafe` that the configuration to be kept is in the file not written to
  until the other is complete; `NonceAhead` that the nonce in memory is ahead of the one in the
  encrypted file by at most the number of calls made, around the return to 0, which is why fewer calls
  than nonces suffices. None of this depends on what `sanitize_config` and `verify_config` do.
- `ConfigTypes`, `CopiesAreCurrent`: these do. `Retained` and `SortedOf` say what the recursive
  functions of the model return (the elements that pass, in their order; the same elements, in order of
  their keys), `SanitizeOf` what a write makes of a configuration, and `Strings` that trimming twice is
  trimming once. The invariant `CInv` is `TypeOK` with three facts: what is in force has been verified
  and stripped (`Accepted`), the copies agree with it at every step of a call
  (`CopiesFollow`), and whom a call does not tell has nothing to learn from it (`Told`). There is one
  lemma per call (`remove_user_Copies`, ...), because that is where `notify` could be wrong.
- `RemovalsAreAccepted`: a removal leaves users and files that were there (`TakenFrom`), and
  `verify_config` accepts with less what it accepted (`StaysValid`), if sanitizing changes nothing else
  (`CanonicalOf`).

**Base64** (byte strings of any length).

- `RoundTrips`, `PaddingIsOptional`, `CapacityIsUsed`: by cases on the length modulo 3, from the
  position-wise definitions; the bits of a byte are recovered with division and remainder.

**Uploader** (any users, uploader threads, commands and failures to listen).

- `RevocationIsComplete`, `RevocationIsPrompt`, `CacheCorrect`, `ReverseConnectionsDiffer`,
  `UploaderTypeCorrect`: one inductive invariant. `CacheInv` says that whoever holds the manager's present cache works
  for its present configuration, because the two are replaced together; with `Serving` (after the last piece
  a user has the list of the uploader's own version) this is why `push` adds nobody wrongly. `LateInv`
  says at which control points a thread that was forgotten may have written once. `Modes` is why nothing
  is accepted after Off: connections are only made when nothing was read since the mode was chosen.
  `Account` bounds the caches used up by the resets asked for, so that the model's caches suffice.

**FileTransfer** (any number of files, lengths, message sizes, edits and interruptions).

- `PlacesAreKept`, `OffsetsAlwaysAgree`: the invariant follows the bytes from the owner's file over wire and
  message to the disk; each is at its place counted from the end of what is before it (`WayInPlace`).
  `Stage` adds that what is under way belongs to one file, and that a last message has nothing behind it.
- `CompletedIsWhole`: a directory's files are gone through in order, so that those before the current one
  are settled (`InOrder`); a single file is transferred only if the queue file and the list agree on its
  size. That the list of a single file names no other (`ListsKnown`) has to be known of every list.
- `TransferTypes`: the size of a directory is the recursive sum `SizesAdded` over its files; that it is
  defined, and is what was added file by file (`SizesAddedRun`), is proved from a least counterexample.
- `UntouchedIsNotRejected`: as long as nobody edits (`Untouched`), the lists of the uploader and of the
  downloader and the size in the queue file are those of the owner's files (`SameLists`), what was downloaded is at most the sum
  of the files gone through (`InBounds`) and uploader and downloader agree on what is missing of the
  current one (`EndsAgree`), so that none of the checks that reject an item can fail.
- `TransferImplementsDownload`: initial states and steps of the transfer are initial states and steps, or
  stutters, of Download.

Only model-checked are all liveness properties, which are out of this prover's reach, with the fairness
they need; and what `decode` does with texts that `encode` does not write, which the assumptions of
`MCConfigFile` evaluate for short ones.

## Not modelled

- Queue files that cannot be read: one with a byte sequence that is not UTF-8, which a write that is
  cut within a character would leave (paths are ASCII in the model), or without permission, is
  taken for an empty one by `initialize_download_queue`. The size in front of a path is not part of a
  queue item in Downloader (FileTransfer has it).
- The IP address and port of a `SharedUser`, of which Downloader has the public ID. A thread that is started
  for a reverse connection takes them from the uploader thread's copy, and the recheck of 154-163 does
  not compare them, so its later connections may go to an address that `update_user` has replaced.
- Who asks for a refresh: `start_refresh_single_user` is called for configured users or for those whose
  list is shown. The code at 441-457 does not check this, and ends the program otherwise.
- The contents of messages below the frame: padding, CRC, JSON, TCP segmentation; the ciphers and
  signatures, which are perfect.
- Edits that leave the size of a file unchanged are in the model (a byte carries its edit),
  but no property forbids mixing versions: nothing in the program could notice.
- Deleting a file that the uploader holds open; names that collide after sanitizing;
  symbolic links; reading a directory into a file list (`process_shared_file`) beyond its sizes.
- In the configuration: the character tests behind a valid name, port or address (`ValidNames`), reading of
  versions other than the current one, and getters.
- In the app loop: percentages, sizes, local paths, lists of finished downloads, and the view of
  the uploads, each a copy of a message.
- `logger.rs`: formatting and output; no other component reads its state.
- Sleeps and back-off, other than as scheduling; formatting for the UI.

## What is left

1. `get_file_by_path`, the splitting of file lists into pieces and the padding of payloads as
   operators against reference definitions.
2. The view of the uploads, when there is a property that needs it.
3. For the liveness properties, the invariants about progress that a proof of them by hand would use.
