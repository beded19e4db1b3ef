--------------------------- MODULE Refresh_proofs ---------------------------
(***************************************************************************)
(* Theorems about Refresh, for any users and any number of refreshes,      *)
(* changes and configurations: asking for a refresh never ends the program,*)
(* and an answer is never older than the request it is taken for.          *)
(***************************************************************************)
EXTENDS Refresh, TLAPS

Entry == [error : BOOLEAN, data : List \cup {None}, recv : (1..MaxRefreshes) \cup {None},
          present : BOOLEAN]
RefreshType == [at : {"connect", "fetch", "ended"}, list : List \cup {None}]
ChannelType == [holds : {"nothing", "error", "disconnected", "list"}, list : List \cup {None}]

\* The types of the variables alone.
Types ==
    /\ users \subseteq Users
    /\ refresh_data \in [Users -> Entry]
    /\ remote \in [Users -> List]
    /\ started \in [Users -> 0..MaxRefreshes]
    /\ refresh \in [Refreshes -> RefreshType]
    /\ channel \in [Refreshes -> ChannelType]
    /\ listing \in [Users -> List \cup {None}]
    /\ killed \in BOOLEAN
    /\ asked \in [Users -> List]
    /\ configs \in 0..MaxConfigs

\* Only an entry of the map holds something.
Entries == \A u \in Users : refresh_data[u].present \/ refresh_data[u] = Absent

\* The receiver of an entry is that of the refresh that was started last.
LastReceiver == \A u \in Users : InProgress(u) => refresh_data[u].recv = started[u]

\* What the refresh that was started last is sent, or has answered, is no older than
\* the request.
LastFresh ==
    \A u \in Users :
        /\ asked[u] <= remote[u]
        /\ started[u] # 0 =>
            LET r == <<u, started[u]>>
            IN  /\ refresh[r].at = "fetch" =>
                     refresh[r].list \in List /\ refresh[r].list >= asked[u]
                /\ channel[r].holds = "list" =>
                     channel[r].list \in List /\ channel[r].list >= asked[u]

IInv == Types /\ Entries /\ NeverKilled /\ LastReceiver /\ LastFresh

LEMMA Bounds == MaxRefreshes \in Nat /\ MaxChanges \in Nat /\ MaxConfigs \in Nat /\ None \notin Nat
BY RefreshAssumption

LEMMA AbsentEntry == Absent \in Entry /\ NewEntry \in Entry
BY DEF Absent, NewEntry, Entry

LEMMA InitInv == Init => IInv
<1> SUFFICES ASSUME Init PROVE IInv
  OBVIOUS
<1> USE DEF Init
<1>1. Types
  <2>1. refresh_data \in [Users -> Entry]
    BY AbsentEntry
  <2>2. refresh \in [Refreshes -> RefreshType] /\ channel \in [Refreshes -> ChannelType]
    BY DEF NoThread, Nothing, RefreshType, ChannelType
  <2>3. users \subseteq Users /\ remote \in [Users -> List] /\ asked \in [Users -> List]
    BY Bounds DEF List
  <2>4. started \in [Users -> 0..MaxRefreshes] /\ configs \in 0..MaxConfigs
    BY Bounds
  <2>5. listing \in [Users -> List \cup {None}] /\ killed \in BOOLEAN
    OBVIOUS
  <2> QED
    BY <2>1, <2>2, <2>3, <2>4, <2>5 DEF Types
<1>2. Entries
  BY DEF Entries, NewEntry, Absent
<1>3. NeverKilled
  BY DEF NeverKilled, Keys, NewEntry
<1>4. LastReceiver
  BY DEF LastReceiver, InProgress, NewEntry, Absent
<1>5. LastFresh
  BY DEF LastFresh
<1> QED
  BY <1>1, <1>2, <1>3, <1>4, <1>5 DEF IInv

-----------------------------------------------------------------------------
LEMMA SetNewConfigInv ==
  ASSUME IInv, NEW u \in Users, set_new_config(u)
  PROVE  IInv'
<1> USE DEF set_new_config, IInv
<1>1. users' \subseteq Users
  BY DEF Types
<1>2. refresh_data' = [v \in Users |->
        IF v \notin users' THEN Absent ELSE IF v \in Keys THEN refresh_data[v] ELSE NewEntry]
  BY DEF set_refresh_data
<1>3. refresh_data' \in [Users -> Entry]
  BY <1>2, AbsentEntry DEF Types
<1>4. Types'
  BY <1>1, <1>3, Bounds DEF Types
<1>5. Entries'
  BY <1>2 DEF Entries, NewEntry, Absent, Keys
<1>6. \A v \in users' : refresh_data'[v].present
  BY <1>1, <1>2 DEF Keys, NewEntry
<1>7. NeverKilled'
  BY <1>1, <1>6 DEF NeverKilled, Keys
<1>8. LastReceiver'
  BY <1>2 DEF LastReceiver, InProgress, NewEntry, Absent
<1>9. LastFresh'
  BY DEF LastFresh
<1> QED
  BY <1>4, <1>5, <1>7, <1>8, <1>9

LEMMA StartRefreshInv ==
  ASSUME IInv, NEW u \in Users, start_refresh_single_user(u)
  PROVE  IInv'
<1> DEFINE n == started[u] + 1
           r == <<u, n>>
<1> USE DEF start_refresh_single_user, IInv
<1>1. u \in Keys /\ Receive(u, n) /\ Spawn(u, n) /\ UNCHANGED killed
  BY DEF NeverKilled
<1>2. n \in 1..MaxRefreshes /\ n \in 0..MaxRefreshes /\ r \in Refreshes /\ n \in Nat
  BY Bounds DEF Types, Refreshes
<1>3. /\ started' = [started EXCEPT ![u] = n]
      /\ asked' = [asked EXCEPT ![u] = remote[u]]
      /\ refresh' = [refresh EXCEPT ![r].at = IF u \in users THEN "connect" ELSE "ended"]
      /\ channel' = [channel EXCEPT ![r].holds = IF u \in users THEN "nothing" ELSE "disconnected"]
      /\ refresh_data' = [refresh_data EXCEPT ![u].recv = n]
  BY <1>1 DEF Spawn, Receive
<1>4. Types'
  <2>1. refresh_data' \in [Users -> Entry]
    BY <1>2, <1>3 DEF Types, Entry
  <2>2. refresh' \in [Refreshes -> RefreshType]
    BY <1>2, <1>3 DEF Types, RefreshType
  <2>3. channel' \in [Refreshes -> ChannelType]
    BY <1>2, <1>3 DEF Types, ChannelType
  <2>4. started' \in [Users -> 0..MaxRefreshes] /\ asked' \in [Users -> List]
    BY <1>2, <1>3 DEF Types
  <2> QED
    BY <1>1, <2>1, <2>2, <2>3, <2>4 DEF Types
<1>5. \A v \in Users : refresh_data'[v].present = refresh_data[v].present
                        /\ (v # u => refresh_data'[v] = refresh_data[v])
  BY <1>3 DEF Types, Entry
<1>6. Entries'
  BY <1>1, <1>5 DEF Entries, Keys
<1>7. NeverKilled'
  BY <1>1, <1>5 DEF NeverKilled, Keys
<1>8. LastReceiver'
  <2>1. refresh_data'[u].recv = n /\ started'[u] = n
    BY <1>3 DEF Types, Entry
  <2>2. \A v \in Users : v # u => started'[v] = started[v]
    BY <1>3 DEF Types
  <2> QED
    BY <1>5, <2>1, <2>2 DEF LastReceiver, InProgress
<1>9. LastFresh'
  <2> SUFFICES ASSUME NEW v \in Users
               PROVE  /\ asked'[v] <= remote'[v]
                      /\ started'[v] # 0 =>
                          LET q == <<v, started'[v]>>
                          IN  /\ refresh'[q].at = "fetch" =>
                                   refresh'[q].list \in List /\ refresh'[q].list >= asked'[v]
                              /\ channel'[q].holds = "list" =>
                                   channel'[q].list \in List /\ channel'[q].list >= asked'[v]
    BY DEF LastFresh
  <2>1. CASE v = u
    <3>1. started'[v] = n /\ asked'[v] = remote[v] /\ remote' = remote /\ remote[v] \in Nat
      BY <2>1, <1>3, Bounds DEF Types, List
    <3>2. refresh'[r].at # "fetch" /\ channel'[r].holds # "list"
      BY <1>2, <1>3 DEF Types, RefreshType, ChannelType
    <3> QED
      BY <2>1, <3>1, <3>2
  <2>2. CASE v # u
    <3>1. started'[v] = started[v] /\ asked'[v] = asked[v] /\ remote' = remote
      BY <2>2, <1>3 DEF Types
    <3>2. started[v] # 0 => refresh'[<<v, started[v]>>] = refresh[<<v, started[v]>>]
                            /\ channel'[<<v, started[v]>>] = channel[<<v, started[v]>>]
      <4>1. started[v] # 0 => <<v, started[v]>> \in Refreshes /\ <<v, started[v]>> # r
        BY <2>2, Bounds DEF Types, Refreshes
      <4> QED
        BY <4>1, <1>3 DEF Types
    <3> QED
      BY <3>1, <3>2 DEF LastFresh
  <2> QED
    BY <2>1, <2>2
<1> QED
  BY <1>4, <1>6, <1>7, <1>8, <1>9

\* A step of one refresh thread, which is not that of a refresh still to be started.
LEMMA ThreadStep ==
  ASSUME IInv, NEW r \in Refreshes,
         refresh' \in [Refreshes -> RefreshType], channel' \in [Refreshes -> ChannelType],
         \A q \in Refreshes : q # r => refresh'[q] = refresh[q] /\ channel'[q] = channel[q],
         refresh'[r].at = "fetch" => refresh'[r].list = remote[r[1]],
         channel'[r].holds = "list" =>
            \/ channel'[r] = channel[r]
            \/ refresh[r].at = "fetch" /\ channel'[r].list = refresh[r].list,
         UNCHANGED <<users, refresh_data, remote, started, listing, killed, asked, configs>>
  PROVE  IInv'
<1> USE DEF IInv
<1>1. Types'
  BY DEF Types
<1>2. Entries' /\ NeverKilled' /\ LastReceiver'
  BY DEF Entries, NeverKilled, Keys, LastReceiver, InProgress
<1>3. LastFresh'
  <2> SUFFICES ASSUME NEW v \in Users
               PROVE  /\ asked[v] <= remote[v]
                      /\ started[v] # 0 =>
                          LET q == <<v, started[v]>>
                          IN  /\ refresh'[q].at = "fetch" =>
                                   refresh'[q].list \in List /\ refresh'[q].list >= asked[v]
                              /\ channel'[q].holds = "list" =>
                                   channel'[q].list \in List /\ channel'[q].list >= asked[v]
    BY DEF LastFresh
  <2>1. asked[v] <= remote[v] /\ remote[v] \in List /\ asked[v] \in Nat /\ remote[v] \in Nat
    <3>1. asked[v] <= remote[v]
      BY DEF LastFresh
    <3>2. remote[v] \in List /\ asked[v] \in List
      BY DEF Types
    <3> QED
      BY <3>1, <3>2, Bounds DEF List
  <2>2. started[v] # 0 => <<v, started[v]>> \in Refreshes
    BY Bounds DEF Types, Refreshes
  <2>3. CASE <<v, started[v]>> = r
    <3>1. r[1] = v
      BY <2>3
    <3> QED
      BY <3>1, <2>1, <2>3 DEF LastFresh
  <2>4. CASE <<v, started[v]>> # r
    BY <2>1, <2>2, <2>4 DEF LastFresh
  <2> QED
    BY <2>3, <2>4
<1> QED
  BY <1>1, <1>2, <1>3

LEMMA ConnectInv ==
  ASSUME IInv, NEW r \in Refreshes, connect(r)
  PROVE  IInv'
<1>1. refresh[r] \in RefreshType /\ channel[r] \in ChannelType /\ remote[r[1]] \in List
  BY DEF IInv, Types, Refreshes
<1>2. CASE refresh' = [refresh EXCEPT ![r] = [at |-> "fetch", list |-> remote[r[1]]]]
           /\ UNCHANGED channel
  <2>1. refresh' \in [Refreshes -> RefreshType]
    BY <1>1, <1>2 DEF IInv, Types, RefreshType
  <2>2. channel' \in [Refreshes -> ChannelType]
    BY <1>2 DEF IInv, Types
  <2>3. \A q \in Refreshes : q # r => refresh'[q] = refresh[q] /\ channel'[q] = channel[q]
    BY <1>2 DEF IInv, Types
  <2>4. refresh'[r].list = remote[r[1]] /\ channel'[r] = channel[r]
    BY <1>2 DEF IInv, Types
  <2> QED
    BY <2>1, <2>2, <2>3, <2>4, ThreadStep DEF connect
<1>3. CASE /\ refresh' = [refresh EXCEPT ![r].at = "ended"]
           /\ channel' = [channel EXCEPT ![r].holds = "error"]
  <2>1. refresh' \in [Refreshes -> RefreshType]
    BY <1>1, <1>3 DEF IInv, Types, RefreshType
  <2>2. channel' \in [Refreshes -> ChannelType]
    BY <1>1, <1>3 DEF IInv, Types, ChannelType
  <2>3. \A q \in Refreshes : q # r => refresh'[q] = refresh[q] /\ channel'[q] = channel[q]
    BY <1>3 DEF IInv, Types
  <2>4. refresh'[r].at # "fetch" /\ channel'[r].holds # "list"
    BY <1>1, <1>3 DEF IInv, Types, RefreshType, ChannelType
  <2> QED
    BY <2>1, <2>2, <2>3, <2>4, ThreadStep DEF connect
<1> QED
  BY <1>2, <1>3 DEF connect

LEMMA AnswerInv ==
  ASSUME IInv, NEW r \in Refreshes, answer(r)
  PROVE  IInv'
<1>1. refresh[r] \in RefreshType /\ channel[r] \in ChannelType
  BY DEF IInv, Types
<1>2. refresh' = [refresh EXCEPT ![r] = NoThread]
  BY DEF answer
<1>3. refresh' \in [Refreshes -> RefreshType] /\ refresh'[r].at # "fetch"
  BY <1>2 DEF IInv, Types, RefreshType, NoThread
<1>4. CASE channel' = [channel EXCEPT ![r] = [holds |-> "list", list |-> refresh[r].list]]
  <2>1. channel' \in [Refreshes -> ChannelType]
    BY <1>1, <1>4 DEF IInv, Types, ChannelType, RefreshType
  <2>2. \A q \in Refreshes : q # r => refresh'[q] = refresh[q] /\ channel'[q] = channel[q]
    BY <1>2, <1>4 DEF IInv, Types
  <2>3. channel'[r].list = refresh[r].list /\ refresh[r].at = "fetch"
    BY <1>4 DEF IInv, Types, answer
  <2> QED
    BY <1>3, <2>1, <2>2, <2>3, ThreadStep DEF answer
<1>5. CASE channel' = [channel EXCEPT ![r].holds = "error"]
  <2>1. channel' \in [Refreshes -> ChannelType]
    BY <1>1, <1>5 DEF IInv, Types, ChannelType
  <2>2. \A q \in Refreshes : q # r => refresh'[q] = refresh[q] /\ channel'[q] = channel[q]
    BY <1>2, <1>5 DEF IInv, Types
  <2>3. channel'[r].holds # "list"
    BY <1>1, <1>5 DEF IInv, Types, ChannelType
  <2> QED
    BY <1>3, <2>1, <2>2, <2>3, ThreadStep DEF answer
<1> QED
  BY <1>4, <1>5 DEF answer

\* What the UI's poll makes of the entry of one user.
LEMMA PolledEntry ==
  ASSUME IInv, NEW u \in Users
  PROVE  LET e == Polled(refresh_data[u], Answer(u))
         IN  /\ e \in Entry
             /\ e.present = refresh_data[u].present
             /\ e.recv \in {None, refresh_data[u].recv}
             /\ refresh_data[u].recv = None => e = refresh_data[u]
             /\ InProgress(u) /\ e.recv = None => e.error \/ (e.data \in List /\ e.data >= asked[u])
<1> DEFINE entry == refresh_data[u]
           c == Answer(u)
           e == Polled(entry, c)
<1>1. entry \in Entry /\ None \notin List
  BY Bounds DEF IInv, Types, List
<1>2. c \in ChannelType
  BY <1>1 DEF Answer, Nothing, ChannelType, IInv, Types, Refreshes, Entry
<1>3. InProgress(u) /\ c.holds = "list" => c.list \in List /\ c.list >= asked[u]
  <2> SUFFICES ASSUME InProgress(u), c.holds = "list"
               PROVE  c.list \in List /\ c.list >= asked[u]
    OBVIOUS
  <2>1. entry.recv = started[u] /\ entry.recv # None /\ entry.recv \in 1..MaxRefreshes
    BY <1>1 DEF InProgress, IInv, LastReceiver, Entry
  <2>2. c = channel[<<u, started[u]>>]
    BY <2>1 DEF Answer
  <2>3. started[u] # 0
    BY <2>1, Bounds
  <2> QED
    BY <2>2, <2>3 DEF IInv, LastFresh
<1>4. CASE entry.recv = None \/ c.holds = "nothing"
  <2>1. e = entry
    BY <1>4 DEF Polled
  <2> QED
    BY <2>1, <1>1, <1>4 DEF InProgress
<1>5. CASE entry.recv # None /\ c.holds \in {"error", "disconnected"}
  <2>1. e = [entry EXCEPT !.error = TRUE, !.recv = None]
    BY <1>5 DEF Polled
  <2> QED
    BY <2>1, <1>1, <1>5 DEF Entry
<1>6. CASE entry.recv # None /\ c.holds = "list"
  <2>1. e = [entry EXCEPT !.error = FALSE, !.data = c.list, !.recv = None]
    BY <1>6 DEF Polled
  <2>2. c.list \in List /\ c.list >= asked[u]
    BY <1>3, <1>6 DEF InProgress
  <2> QED
    BY <2>1, <2>2, <1>1, <1>6 DEF Entry
<1> QED
  BY <1>2, <1>4, <1>5, <1>6 DEF ChannelType

LEMMA PollInv ==
  ASSUME IInv, get_shared_with_me_data
  PROVE  IInv'
<1> USE DEF IInv
<1>1. refresh_data' = [u \in Users |-> Polled(refresh_data[u], Answer(u))]
  BY DEF get_shared_with_me_data
<1>2. UNCHANGED <<users, remote, started, refresh, channel, listing, killed, asked, configs>>
  BY DEF get_shared_with_me_data
<1>3. Types'
  BY <1>1, <1>2, PolledEntry DEF Types
<1>4. \A u \in Users : refresh_data'[u].present = refresh_data[u].present
  BY <1>1, PolledEntry
<1>5. Entries'
  <2> SUFFICES ASSUME NEW u \in Users, ~ refresh_data[u].present
               PROVE  refresh_data'[u] = Absent
    BY <1>4 DEF Entries
  <2>1. refresh_data[u] = Absent
    BY DEF Entries
  <2>2. refresh_data[u].recv = None
    BY <2>1 DEF Absent
  <2> QED
    BY <2>1, <2>2, <1>1, PolledEntry
<1>6. NeverKilled'
  BY <1>2, <1>4 DEF NeverKilled, Keys
<1>7. LastReceiver'
  BY <1>1, <1>2, PolledEntry DEF LastReceiver, InProgress
<1>8. LastFresh'
  BY <1>2 DEF LastFresh
<1> QED
  BY <1>3, <1>5, <1>6, <1>7, <1>8

LEMMA DownloadInv ==
  ASSUME IInv, NEW u \in Users, download_everything_file(u)
  PROVE  IInv'
<1> USE DEF IInv, download_everything_file
<1>1. Types'
  BY DEF Types
<1>2. Entries' /\ NeverKilled' /\ LastReceiver'
  BY DEF Entries, NeverKilled, Keys, LastReceiver, InProgress
<1>3. LastFresh'
  BY DEF LastFresh
<1> QED
  BY <1>1, <1>2, <1>3

LEMMA SetEverythingInv ==
  ASSUME IInv, NEW u \in Users, set_everything_file(u)
  PROVE  IInv'
<1> USE DEF IInv, set_everything_file
<1>1. [error |-> FALSE, data |-> listing[u], recv |-> None, present |-> TRUE] \in Entry
  BY DEF Types, Entry
<1>2. Types'
  BY <1>1 DEF Types
<1>3. \A v \in Users : refresh_data'[v] = refresh_data[v]
                      \/ (refresh_data'[v].present /\ refresh_data'[v].recv = None)
  <2>1. refresh_data' = [refresh_data EXCEPT ![u] =
          [error |-> FALSE, data |-> listing[u], recv |-> None, present |-> TRUE]]
    OBVIOUS
  <2>2. refresh_data \in [Users -> Entry]
    BY DEF Types
  <2> DEFINE e == [error |-> FALSE, data |-> listing[u], recv |-> None, present |-> TRUE]
  <2>3. refresh_data'[u] = e /\ e.present /\ e.recv = None
    BY <2>1, <2>2
  <2>4. \A v \in Users : v # u => refresh_data'[v] = refresh_data[v]
    BY <2>1, <2>2
  <2>5. refresh_data'[u].present /\ refresh_data'[u].recv = None
    BY <2>3
  <2> QED
    BY <2>4, <2>5, Zenon
<1>4. Entries' /\ NeverKilled'
  BY <1>3 DEF Entries, NeverKilled, Keys, Types
<1>5. LastReceiver'
  BY <1>3 DEF LastReceiver, InProgress
<1>6. LastFresh'
  BY DEF LastFresh
<1> QED
  BY <1>2, <1>4, <1>5, <1>6

LEMMA ChangeInv ==
  ASSUME IInv, NEW u \in Users, Change(u)
  PROVE  IInv'
<1> USE DEF IInv, Change
<1>1. remote[u] \in Nat /\ remote[u] + 1 \in List
  BY Bounds DEF Types, List
<1>2. Types'
  BY <1>1 DEF Types
<1>3. Entries' /\ NeverKilled' /\ LastReceiver'
  BY DEF Entries, NeverKilled, Keys, LastReceiver, InProgress
<1>4. \A v \in Users : asked[v] \in Nat /\ remote[v] \in Nat /\ remote'[v] >= remote[v] /\ remote'[v] \in Nat
  BY <1>1, Bounds DEF Types, List
<1>5. LastFresh'
  BY <1>4 DEF LastFresh
<1> QED
  BY <1>2, <1>3, <1>5

LEMMA StutterInv ==
  ASSUME IInv, UNCHANGED vars
  PROVE  IInv'
BY DEF IInv, vars, Types, Entries, NeverKilled, Keys, LastReceiver, InProgress, LastFresh

LEMMA StepInv ==
  ASSUME IInv, [Next]_vars
  PROVE  IInv'
<1>1. ASSUME NEW u \in Users, set_new_config(u) PROVE IInv'
  BY <1>1, SetNewConfigInv
<1>2. ASSUME NEW u \in Users, start_refresh_single_user(u) PROVE IInv'
  BY <1>2, StartRefreshInv
<1>3. ASSUME NEW u \in Users, download_everything_file(u) PROVE IInv'
  BY <1>3, DownloadInv
<1>4. ASSUME NEW u \in Users, set_everything_file(u) PROVE IInv'
  BY <1>4, SetEverythingInv
<1>5. ASSUME NEW u \in Users, Change(u) PROVE IInv'
  BY <1>5, ChangeInv
<1>6. ASSUME NEW r \in Refreshes, connect(r) PROVE IInv'
  BY <1>6, ConnectInv
<1>7. ASSUME NEW r \in Refreshes, answer(r) PROVE IInv'
  BY <1>7, AnswerInv
<1>8. ASSUME get_shared_with_me_data PROVE IInv'
  BY <1>8, PollInv
<1>9. ASSUME UNCHANGED vars PROVE IInv'
  BY <1>9, StutterInv
<1> QED
  BY <1>1, <1>2, <1>3, <1>4, <1>5, <1>6, <1>7, <1>8, <1>9 DEF Next

\* The inductive invariant: types, a receiver that is the newest one, and lists no older
\* than the request they answer.
THEOREM RefreshInvariant == Spec => []IInv
<1>1. Init => IInv
  BY InitInv
<1>2. IInv /\ [Next]_vars => IInv'
  BY StepInv
<1> QED
  BY <1>1, <1>2, PTL DEF Spec

\* Types of the refreshes, and that a receiver is one of a refresh that was started
\* (start_refresh_shared_with_me_single_user).
THEOREM RefreshTypeCorrect == Spec => []TypeOK
<1>1. IInv => TypeOK
  <2> SUFFICES ASSUME IInv PROVE TypeOK
    OBVIOUS
  <2>1. \A u \in Users : u \in Keys \/ refresh_data[u] = Absent
    BY DEF IInv, Entries, Keys
  <2>2. \A u \in Users : InProgress(u) => refresh_data[u].recv <= started[u]
    BY Bounds DEF IInv, LastReceiver, Types
  <2> QED
    BY <2>1, <2>2 DEF IInv, Types, TypeOK, Entry, RefreshType, ChannelType
<1> QED
  BY <1>1, RefreshInvariant, PTL

\* No refresh ends the program ("Start refresh with missing key"), for any number of
\* users, threads and configurations.
THEOREM NeverKills == Spec => []NeverKilled
<1>1. IInv => NeverKilled
  BY DEF IInv
<1> QED
  BY <1>1, RefreshInvariant, PTL

\* However many refreshes of a user overlap, the list that get_shared_with_me_data takes
\* was made after the last of them was asked for.
THEOREM FreshAnswers == Spec => FreshAnswer
<1>1. IInv /\ [Next]_vars =>
        [\A u \in Users :
           get_shared_with_me_data /\ InProgress(u) /\ ~InProgress(u)' =>
             refresh_data'[u].error \/ refresh_data'[u].data >= asked[u]]_vars
  <2> SUFFICES ASSUME IInv, NEW u \in Users, get_shared_with_me_data, InProgress(u), ~InProgress(u)'
               PROVE  refresh_data'[u].error \/ refresh_data'[u].data >= asked[u]
    OBVIOUS
  <2>1. refresh_data'[u] = Polled(refresh_data[u], Answer(u))
    BY DEF get_shared_with_me_data
  <2> QED
    BY <2>1, PolledEntry DEF InProgress
<1> QED
  BY <1>1, RefreshInvariant, PTL DEF Spec, FreshAnswer
=============================================================================
