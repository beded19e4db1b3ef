------------------------------ MODULE Refresh ------------------------------
(***************************************************************************)
(* The file lists of other users that the UI shows: refresh_data of        *)
(* OutgoingDownloader with everyone who writes it.  The UI thread starts   *)
(* refreshes, each a thread with a channel of its own, and polls their     *)
(* answers; the configuration adds and removes entries; downloader threads *)
(* store the lists they fetched for themselves, also when their user has   *)
(* been removed in the meantime.                                           *)
(*                                                                         *)
(* A list is the number of changes its owner had made when the connection  *)
(* was set up.  The mutex of OutgoingDownloader makes each call of the UI  *)
(* one step.                                                               *)
(***************************************************************************)
EXTENDS Naturals, FiniteSets

CONSTANTS
    Users,
    None,           \* no list, no receiver
    MaxRefreshes,   \* bound: refreshes of one user
    MaxChanges,     \* bound: changes of one owner's files
    MaxConfigs      \* bound: changes of the configuration

ASSUME RefreshAssumption ==
    /\ None \notin Nat
    /\ {MaxRefreshes, MaxChanges, MaxConfigs} \subseteq Nat

VARIABLES
    users,          \* nicknames of the configuration
    refresh_data,   \* user -> InternalRefreshData, or Absent
    remote,         \* user -> changes of the files the user shares
    started,        \* user -> how many refreshes were started
    refresh,        \* <<user, n>> -> where its thread is, and the list it is sent
    channel,        \* <<user, n>> -> what its channel holds
    listing,        \* user -> the list a downloader thread of the user is fetching
    killed,         \* AppFailedKill has ended the program
    asked,          \* history: user -> remote[user] when the last refresh was started
    configs         \* how often the configuration was changed

vars == <<users, refresh_data, remote, started, refresh, channel, listing, killed, asked, configs>>

Refreshes == Users \X (1..MaxRefreshes)

Absent == [error |-> FALSE, data |-> None, recv |-> None, present |-> FALSE]

\* InternalRefreshData::new: no list, and "Refresh" in place of an error.
NewEntry == [error |-> TRUE, data |-> None, recv |-> None, present |-> TRUE]

NoThread == [at |-> "ended", list |-> None]

Nothing == [holds |-> "nothing", list |-> None]

Keys == {u \in Users : refresh_data[u].present}

\* Mutant of set_refresh_data: users that are new get no entry.
SetRefreshDataRetain(now) ==
    refresh_data' = [u \in Users |-> IF u \in now THEN refresh_data[u] ELSE Absent]

\* Mutant of set_refresh_data: a removed user's entry is hidden, with what it holds.
SetRefreshDataHide(now) ==
    refresh_data' = [u \in Users |->
        IF u \notin now THEN [refresh_data[u] EXCEPT !.present = FALSE]
        ELSE IF u \in Keys THEN refresh_data[u] ELSE NewEntry]

\* Missing users are added, users who no longer exist removed.
set_refresh_data(now) ==
    refresh_data' = [u \in Users |->
        IF u \notin now THEN Absent
        ELSE IF u \in Keys THEN refresh_data[u] ELSE NewEntry]

\* OutgoingDownloader::set_new_config after add_new_user or remove_user.
set_new_config(u) ==
    /\ ~killed
    /\ configs < MaxConfigs
    /\ configs' = configs + 1
    /\ users' = IF u \in users THEN users \ {u} ELSE users \cup {u}
    /\ set_refresh_data(users')
    /\ UNCHANGED <<remote, started, refresh, channel, listing, killed, asked>>

\* Mutant of Receive: a receiver that is there is kept.
ReceiveFirst(u, n) ==
    refresh_data' = [refresh_data EXCEPT ![u].recv = IF @ = None THEN n ELSE @]

\* The new receiver replaces that of a refresh that is still running.
Receive(u, n) == refresh_data' = [refresh_data EXCEPT ![u].recv = n]

\* A refresh thread works on a copy of the configuration: without its user it ends.
Spawn(u, n) ==
    /\ started' = [started EXCEPT ![u] = n]
    /\ asked' = [asked EXCEPT ![u] = remote[u]]
    /\ refresh' = [refresh EXCEPT ![<<u, n>>].at = IF u \in users THEN "connect" ELSE "ended"]
    /\ channel' = [channel EXCEPT ![<<u, n>>].holds =
                                     IF u \in users THEN "nothing" ELSE "disconnected"]

\* start_refresh_shared_with_me_single_user.  The UI asks for a user it is shown: one
\* of the configuration, or one that has an entry.
start_refresh_single_user(u) ==
    /\ ~killed
    /\ started[u] < MaxRefreshes
    /\ u \in users \cup Keys
    /\ Spawn(u, started[u] + 1)
    /\ \/ u \in Keys /\ Receive(u, started[u] + 1) /\ UNCHANGED killed
       \/ u \notin Keys /\ killed' = TRUE /\ UNCHANGED refresh_data
    /\ UNCHANGED <<users, remote, listing, configs>>

\* refresh_single_user connects and has the uploader make its list, or fails.
connect(r) ==
    /\ refresh[r].at = "connect"
    /\ \/ /\ refresh' = [refresh EXCEPT ![r] = [at |-> "fetch", list |-> remote[r[1]]]]
          /\ UNCHANGED channel
       \/ /\ refresh' = [refresh EXCEPT ![r].at = "ended"]
          /\ channel' = [channel EXCEPT ![r].holds = "error"]
    /\ UNCHANGED <<users, refresh_data, remote, started, listing, killed, asked, configs>>

\* The list has been received, or the connection is lost: the thread sends what it
\* has, to no effect if its receiver is gone, and ends.
answer(r) ==
    /\ refresh[r].at = "fetch"
    /\ \/ channel' = [channel EXCEPT ![r] = [holds |-> "list", list |-> refresh[r].list]]
       \/ channel' = [channel EXCEPT ![r].holds = "error"]
    /\ refresh' = [refresh EXCEPT ![r] = NoThread]
    /\ UNCHANGED <<users, refresh_data, remote, started, listing, killed, asked, configs>>

\* Mutant of Polled: a channel that is disconnected is taken for an empty one.
PolledPatient(entry, c) ==
    CASE entry.recv = None \/ c.holds \in {"nothing", "disconnected"} -> entry
      [] entry.recv # None /\ c.holds = "error" -> [entry EXCEPT !.error = TRUE, !.recv = None]
      [] entry.recv # None /\ c.holds = "list" ->
            [entry EXCEPT !.error = FALSE, !.data = c.list, !.recv = None]

\* The arms of try_recv: nothing yet; an error, which leaves the old list; a list.
Polled(entry, c) ==
    CASE entry.recv = None \/ c.holds = "nothing" -> entry
      [] entry.recv # None /\ c.holds \in {"error", "disconnected"} ->
            [entry EXCEPT !.error = TRUE, !.recv = None]
      [] entry.recv # None /\ c.holds = "list" ->
            [entry EXCEPT !.error = FALSE, !.data = c.list, !.recv = None]

\* What try_recv on the receiver of an entry finds.
Answer(u) == IF refresh_data[u].recv = None THEN Nothing ELSE channel[<<u, refresh_data[u].recv>>]

\* The UI polls for answers, of every user at once.
get_shared_with_me_data ==
    /\ ~killed
    /\ refresh_data' = [u \in Users |-> Polled(refresh_data[u], Answer(u))]
    /\ refresh_data' # refresh_data
    /\ UNCHANGED <<users, remote, started, refresh, channel, listing, killed, asked, configs>>

\* A downloader thread of the user connects and asks for the list, and ...
download_everything_file(u) ==
    /\ ~killed
    /\ u \in users
    /\ listing[u] = None
    /\ listing' = [listing EXCEPT ![u] = remote[u]]
    /\ UNCHANGED <<users, refresh_data, remote, started, refresh, channel, killed, asked, configs>>

\* ... stores it, in an entry of its own: whatever happened to the user, and with no
\* receiver, so that a refresh under way is forgotten.
set_everything_file(u) ==
    /\ ~killed
    /\ listing[u] # None
    /\ refresh_data' = [refresh_data EXCEPT ![u] =
          [error |-> FALSE, data |-> listing[u], recv |-> None, present |-> TRUE]]
    /\ listing' = [listing EXCEPT ![u] = None]
    /\ UNCHANGED <<users, remote, started, refresh, channel, killed, asked, configs>>

\* The owner of the files changes them.
Change(u) ==
    /\ remote[u] < MaxChanges
    /\ remote' = [remote EXCEPT ![u] = @ + 1]
    /\ UNCHANGED <<users, refresh_data, started, refresh, channel, listing, killed, asked, configs>>

Init ==
    /\ users \in SUBSET Users
    /\ refresh_data = [u \in Users |-> IF u \in users THEN NewEntry ELSE Absent]
    /\ remote = [u \in Users |-> 0]
    /\ started = [u \in Users |-> 0]
    /\ refresh = [r \in Refreshes |-> NoThread]
    /\ channel = [r \in Refreshes |-> Nothing]
    /\ listing = [u \in Users |-> None]
    /\ killed = FALSE
    /\ asked = [u \in Users |-> 0]
    /\ configs = 0

Next ==
    \/ \E u \in Users :
          \/ set_new_config(u)
          \/ start_refresh_single_user(u)
          \/ download_everything_file(u)
          \/ set_everything_file(u)
          \/ Change(u)
    \/ \E r \in Refreshes : connect(r) \/ answer(r)
    \/ get_shared_with_me_data

Spec == Init /\ [][Next]_vars

\* Refresh threads are scheduled and their connections end in some way; the UI polls.
FairSpec ==
    /\ Spec
    /\ WF_vars(get_shared_with_me_data)
    /\ \A r \in Refreshes : WF_vars(connect(r)) /\ WF_vars(answer(r))

-----------------------------------------------------------------------------
List == 0..MaxChanges

InProgress(u) == refresh_data[u].recv # None

\* Every variable has its type; what is not an entry holds nothing, and a receiver is
\* that of a refresh that was started.
TypeOK ==
    /\ users \subseteq Users
    /\ refresh_data \in [Users -> [error : BOOLEAN, data : List \cup {None},
                                   recv : (1..MaxRefreshes) \cup {None}, present : BOOLEAN]]
    /\ \A u \in Users : u \in Keys \/ refresh_data[u] = Absent
    /\ \A u \in Users : InProgress(u) => refresh_data[u].recv <= started[u]
    /\ remote \in [Users -> List]
    /\ started \in [Users -> 0..MaxRefreshes]
    /\ refresh \in [Refreshes -> [at : {"connect", "fetch", "ended"}, list : List \cup {None}]]
    /\ channel \in [Refreshes -> [holds : {"nothing", "error", "disconnected", "list"},
                                   list : List \cup {None}]]
    /\ listing \in [Users -> List \cup {None}]
    /\ killed \in BOOLEAN
    /\ asked \in [Users -> List]
    /\ configs \in 0..MaxConfigs

\* Asking for a refresh never ends the program ("Start refresh with missing key"):
\* every user of the configuration has an entry, whatever threads insert and
\* configurations remove.
NeverKilled == ~killed /\ users \subseteq Keys

\* The list that ends a refresh was made after that refresh was asked for: the answer
\* of an older one that is still running is never taken for it.
FreshAnswer ==
    [][\A u \in Users :
         get_shared_with_me_data /\ InProgress(u) /\ ~InProgress(u)' =>
             refresh_data'[u].error \/ refresh_data'[u].data >= asked[u]]_vars

\* "in_progress" does not stay on for ever: every refresh is answered, fails, is taken
\* over by another list or goes with its user.
RefreshEnds == \A u \in Users : InProgress(u) ~> ~InProgress(u)
=============================================================================
