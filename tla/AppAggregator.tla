--------------------------- MODULE AppAggregator ---------------------------
(***************************************************************************)
(* What the UI shows of the downloads: download_state, which the app loop  *)
(* (app_aggregator.rs) makes out of the messages of all downloader         *)
(* threads.  The module extends Downloader: each step of a thread is       *)
(* joined with the messages it sends through the one channel to the app    *)
(* loop, which reads them later.  Kept of a SingleDownloadState are the    *)
(* fields that say what is being downloaded; percentages, sizes, local     *)
(* paths and the lists of finished downloads are left out.                 *)
(***************************************************************************)
EXTENDS Downloader

CONSTANT MaxUnread     \* bound: messages the app loop has not read

ASSUME UnreadAssumption == MaxUnread \in Nat

VARIABLES
    app_receiver,      \* the channel to the app loop
    download_state,    \* u -> SingleDownloadState, or None
    unheard            \* history: users a thread of whom ended without its last update, or
                       \* had a queue that it could not write

viewVars == <<app_receiver, download_state, unheard>>
allVars == <<vars, viewVars>>

\* SingleDownloadState::default
DefaultState == [active |-> None, queue |-> <<>>, online |-> TRUE, error |-> FALSE]

WithoutActive(q, active) == IF active = None THEN q ELSE Retain(q, active)

Update(kind, t, active, queue) ==
    [kind |-> kind, user |-> t[1], active |-> active, queue |-> queue]

\* app_update_offline, and the others (in progress, completed, invalid file), with the
\* fields as the step that sends them leaves them.
Offline(t) == Update("Offline", t, None, download_queue'[t])
Report(kind, t) ==
    Update(kind, t, active_download_path'[t],
           WithoutActive(download_queue'[t], active_download_path'[t]))
InProgress(t) == Report("InProgress", t)

\* Sender::send on the channel to the app loop.
Send(ms) ==
    /\ Len(app_receiver) + Len(ms) <= MaxUnread
    /\ app_receiver' = app_receiver \o ms
    /\ UNCHANGED <<download_state, unheard>>

Silent == UNCHANGED viewVars

Cancels(t) ==
    /\ pc[t] = "poll_rx" /\ receiver[t] # <<>>
    /\ Head(receiver[t]).type \in {"CancelDownload", "CancelAllDownloads"}

\* Mutant of ReadAndReport: what is cancelled is left to the next report of progress.
ReadUnreported(t) ==
    /\ ReadReceiver(t)
    /\ unheard' = IF Alive(t)' THEN unheard ELSE unheard \cup {t[1]}
    /\ UNCHANGED <<app_receiver, download_state>>

\* read_receiver reports what it cancels, and nothing else; an orphan ends in silence.
ReadAndReport(t) ==
    /\ ReadReceiver(t)
    /\ IF Cancels(t) THEN Send(<<InProgress(t)>>)
       ELSE /\ unheard' = IF Alive(t)' THEN unheard ELSE unheard \cup {t[1]}
            /\ UNCHANGED <<app_receiver, download_state>>

\* A connection that could not be made; the wrapper of run tells of an ID mismatch.
ConnectAndReport(t) ==
    /\ Connect(t)
    /\ \/ pc'[t] = "poll_rev" /\ Send(<<Offline(t)>>)
       \/ pc'[t] = "init" /\ Send(<<Update("OfflineError", t, None, <<>>)>>)
       \/ pc'[t] \in {"init", "listing"} /\ Silent

\* "No longer shared with you", or the item that is going to be downloaded.
SelectAndReport(t) ==
    /\ SelectItem(t)
    /\ \/ download_queue'[t] # download_queue[t] /\ Send(<<Report("InvalidFile", t)>>)
       \/ pc'[t] = "transfer" /\ Send(<<InProgress(t)>>)
       \/ pc'[t] = "poll_rev" /\ Silent

\* Progress now and then, files of a directory that are invalid, and the end.
TransferAndReport(t) ==
    \/ /\ TransferStep(t)
       /\ \/ \E kind \in {"InProgress", "InvalidFile"} : Send(<<Report(kind, t)>>)
          \/ Silent
    \/ AfterTransferPoll(t) /\ IF stop_downloading[t] THEN Send(<<InProgress(t)>>) ELSE Silent
    \/ /\ TransferDone(t)
       /\ \E kind \in {"Completed", "InvalidFile"} : Send(<<Report(kind, t), InProgress(t)>>)
    \/ /\ TransferError(t)
       /\ \/ Send(<<Report("InvalidFile", t)>>)
          \/ download_queue'[t] = download_queue[t] /\ Silent

\* run ends before the report.  The UI shows what it did, until a later one.
WriteUnreported(t) ==
    /\ QueueWriteFails(t)
    /\ unheard' = unheard \cup {t[1]}
    /\ UNCHANGED <<app_receiver, download_state>>

\* run, with what it sends.  A thread that shuts down sends a last update.
ThreadReports(t) ==
    \/ StartRun(t) /\ Send(<<Offline(t)>>)
    \/ ReadAndReport(t)
    \/ OuterLoop(t) /\ IF shutdown[t] THEN Send(<<InProgress(t)>>) ELSE Silent
    \/ ConnectAndReport(t)
    \/ (SetEverythingFile(t) \/ LookupEverythingFile(t) \/ InnerLoop(t)) /\ Silent
    \/ SelectAndReport(t)
    \/ TransferAndReport(t)
    \/ WriteUnreported(t)

-----------------------------------------------------------------------------
\* The arms of app_loop for a user it knows.  That a user has gone offline does not
\* take the active download away, nor does a new message of progress take the error.
Shown(s, m) ==
    CASE m.kind = "Offline" ->
           [active |-> s.active, queue |-> m.queue, online |-> FALSE, error |-> FALSE]
      [] m.kind = "OfflineError" ->
           [active |-> s.active, queue |-> s.queue, online |-> FALSE, error |-> TRUE]
      [] OTHER ->
           [active |-> m.active, queue |-> m.queue, online |-> TRUE, error |-> s.error]

\* The app loop reads a message; of a user it does not know it makes an entry first.
app_loop ==
    /\ app_receiver # <<>>
    /\ LET m == Head(app_receiver)
           s == IF download_state[m.user] = None THEN DefaultState ELSE download_state[m.user]
       IN  download_state' = [download_state EXCEPT ![m.user] = Shown(s, m)]
    /\ app_receiver' = Tail(app_receiver)
    /\ UNCHANGED <<vars, unheard>>

\* With the process, its view and the messages on the way to it are gone.
RestartView ==
    /\ Restart
    /\ app_receiver' = <<>>
    /\ download_state' = [u \in Users |-> None]
    /\ unheard' = {}

\* The calls that change what is queued.  The others only stop a transfer, as a pause does.
CoreCall ==
    \/ \E u \in Users, p \in Paths : download_selected(u, p) \/ downloads_cancel_single(u, p)
    \/ downloads_cancel_all \/ downloads_pause_all \/ downloads_resume_all
    \/ \E u \in Users : download_refused(u) \/ remove_user(u) \/ \E id \in Ids : add_new_user(u, id)

ViewInit ==
    /\ Init
    /\ app_receiver = <<>>
    /\ download_state = [u \in Users |-> None]
    /\ unheard = {}

ViewNext ==
    \/ (CoreCall \/ MgrTodo \/ ConnNext) /\ Silent
    \/ RestartView
    \/ \E t \in Thread : ThreadReports(t)
    \/ app_loop

ViewSpec == ViewInit /\ [][ViewNext]_allVars

-----------------------------------------------------------------------------
Known(u) == download_state[u] # None

\* Users whose messages come from one thread at a time, each of which said goodbye and
\* wrote its queue whenever it had to.
OneVoice == Users \ (overlapped \cup unheard)

\* Nothing from the threads of u is on its way.
ReadUpTo(u) == \A i \in DOMAIN app_receiver : app_receiver[i].user # u

\* What is shown as active or waiting is in the queue of the user's thread: a download
\* that is done, invalid or cancelled does not stay on the screen, over errors that
\* start run again and over restarts of the program.
ShownIsQueued ==
    \A u \in OneVoice : \A n \in 1 .. MaxThreads :
        LET t == <<u, n>> IN
        Registered(t) /\ Alive(t) /\ ~ shutdown[t] /\ pc[t] # "init" /\ Known(u) /\ ReadUpTo(u) =>
            /\ download_state[u].active # None => InSeq(download_state[u].active, download_queue[t])
            /\ \A i \in DOMAIN download_state[u].queue :
                  InSeq(download_state[u].queue[i], download_queue[t])

\* A user who is shown as online is not shown with the error of an earlier attempt,
\* though no message but Offline takes an error away.
OnlineWithoutError ==
    \A u \in OneVoice : Known(u) /\ download_state[u].online => ~ download_state[u].error

\* The view agrees with the threads that send it.
ViewAgrees == ShownIsQueued /\ OnlineWithoutError
=============================================================================
