-------------------------- MODULE Uploader_proofs --------------------------
(***************************************************************************)
(* Theorems about Uploader: types, and the four safety invariants that the *)
(* runs check, for any users, commands, uploader threads and failures.     *)
(***************************************************************************)
EXTENDS Uploader, TLAPS

\* Resets that a failed run still owes: its own Off, and the answer of the UI.
Owed == IF mpc = "failed" THEN 2 ELSE IF mpc = "report" THEN 1 ELSE 0
Shown == IF incoming_uploader_error THEN 1 ELSE 0

\* Every reset has a command or half a failure of its own, so caches are never used up.
Account == cache + Len(receiver) + Owed + app_errors + Shown <= commands + 2 * errors

\* Connections are accepted and made only while sharing is on and nothing has been read
\* since the mode was chosen.
Modes ==
  /\ mpc \in {"listen", "reverse"} => ~ stop_incoming /\ mret # "mode"
  /\ (mpc \in {"listen", "reverse"} \/ (mpc = "poll" /\ mret # "mode")) /\ ~ stop_incoming
       => sharing_state # "Off"

Unborn ==
  \A i \in Uploaders : i > started => upc[i] = "unborn" /\ i \notin single_uploaders /\ late[i] = 0

NoUserYet == {"unborn", "cached", "connect", "connect_no_list", "dead"}

\* After the handshake an uploader has its user; after the last piece of the list that
\* user has the list of the uploader's configuration.
Serving ==
  \A i \in Uploaders :
    /\ upc[i] \notin NoUserYet \/ upc[i] = "cached" => user[i] \in Users
    /\ upc[i] \in {"wrote_final", "push"} => <<user[i], thread_config[i].version>> \in listed

\* Whoever holds the current cache works for the current configuration.
CacheInv ==
  /\ \A c \in Caches : c > cache => caches[c] = {}
  /\ \A i \in Uploaders : thread_cache[i] <= cache
  /\ \A i \in Uploaders : i <= started /\ thread_cache[i] = cache
                             => thread_config[i].version = config.version
  /\ CacheIsCurrent

Wrote == {"wrote_piece", "wrote_final", "wrote_chunk", "loop", "dead"}

\* Who has written too late is about to find out.
LateInv ==
  \A i \in Uploaders :
    /\ i \in single_uploaders => late[i] = 0
    /\ late[i] <= 1
    /\ late[i] = 1 => upc[i] \in Wrote

\* Caches grow with the uploaders, and a living one with the current cache is known.
ReverseInv ==
  /\ \A i \in Uploaders : i <= started /\ Alive(i) /\ thread_cache[i] = cache
                             => i \in single_uploaders
  /\ \A i, j \in Uploaders : i < j /\ j <= started => thread_cache[i] <= thread_cache[j]
  /\ OneReverseConnectionPerUser

IInv ==
  /\ TypeOK /\ Account /\ Modes /\ Unborn /\ Serving /\ CacheInv /\ LateInv
  /\ UploadersCurrent /\ ReverseInv

-----------------------------------------------------------------------------
LEMMA InitInv == Init => IInv
<1> SUFFICES ASSUME Init PROVE IInv
  OBVIOUS
<1> USE ConstantsAssumption DEF Init
<1>1. core_config \in Config
  BY DEF Config, Versions
<1>2. Account
  BY DEF Account, Owed, Shown
<1>3. TypeOK
  <2>1. 0 \in Caches /\ 0 \in 0 .. MaxUploaders /\ 0 \in 0 .. MaxCommands /\ 0 \in 0 .. MaxErrors
        /\ 0 \in 0 .. TooLate
    BY DEF Caches, TooLate
  <2>2. caches \in [Caches -> SUBSET Users] /\ receiver \in Seq(Message)
    OBVIOUS
  <2>3. /\ upc \in [Uploaders -> UPCs] /\ user \in [Uploaders -> Users \cup {None}]
        /\ reverse \in [Uploaders -> BOOLEAN] /\ thread_config \in [Uploaders -> Config]
        /\ thread_cache \in [Uploaders -> Caches] /\ should_shutdown \in [Uploaders -> BOOLEAN]
        /\ late \in [Uploaders -> 0 .. TooLate]
    BY <1>1, <2>1 DEF UPCs
  <2> QED
    BY <1>1, <2>1, <2>2, <2>3 DEF TypeOK, SharingState, MPCs, MRets
<1>4. Modes /\ Unborn /\ Serving /\ LateInv
  BY DEF Modes, Unborn, Serving, LateInv, NoUserYet, Uploaders
<1>5. CacheInv
  BY DEF CacheInv, CacheIsCurrent, Caches, Uploaders
<1>6. UploadersCurrent /\ ReverseInv
  BY DEF UploadersCurrent, ReverseInv, OneReverseConnectionPerUser, Alive, Forgotten
<1> QED
  BY <1>2, <1>3, <1>4, <1>5, <1>6 DEF IInv

-----------------------------------------------------------------------------
\* The core and the app loop: messages and counters change, nothing else.
LEMMA OutsideInv ==
  ASSUME IInv, Account',
         UNCHANGED <<mgrVars, caches, threadVars, histVars, errors>>,
         core_config' \in Config, core_sharing_state' \in SharingState,
         app_errors' \in Nat, incoming_uploader_error' \in BOOLEAN,
         receiver' \in Seq(Message), commands' \in 0 .. MaxCommands
  PROVE  IInv'
<1> USE DEF IInv, mgrVars, threadVars, histVars
<1>1. TypeOK'
  BY DEF TypeOK
<1>2. (Modes /\ Unborn /\ Serving /\ LateInv)'
  BY DEF Modes, Unborn, Serving, LateInv
<1>3. (CacheInv /\ UploadersCurrent /\ ReverseInv)'
  BY DEF CacheInv, CacheIsCurrent, UploadersCurrent, ReverseInv, OneReverseConnectionPerUser, Alive, Forgotten
<1> QED
  BY <1>1, <1>2, <1>3

LEMMA SharingMessage ==
  ASSUME NEW s \in SharingState
  PROVE  [type |-> "SharingStateMsg", state |-> s] \in Message
BY DEF Message

LEMMA ConfigMessage ==
  ASSUME NEW c \in Config
  PROVE  [type |-> "NewConfig", config |-> c] \in Message
BY DEF Message

LEMMA Appended ==
  ASSUME NEW S, NEW q \in Seq(S), NEW m \in S
  PROVE  Append(q, m) \in Seq(S) /\ Len(Append(q, m)) = Len(q) + 1
OBVIOUS

LEMMA CommandInv ==
  ASSUME IInv, NEW m \in Message, NEW name, Command(name),
         receiver' = Append(receiver, m),
         core_config' \in Config, core_sharing_state' \in SharingState,
         UNCHANGED <<errVars, mgrVars, caches, threadVars, errors, histVars>>
  PROVE  IInv'
<1>1. receiver \in Seq(Message) /\ commands \in 0 .. MaxCommands /\ commands' = commands + 1
      /\ commands < MaxCommands
  BY DEF IInv, TypeOK, Command
<1>2. receiver' \in Seq(Message) /\ Len(receiver') = Len(receiver) + 1
  BY <1>1, Appended
<1>3. Account'
  <2>1. Len(receiver) \in Nat
    BY <1>1
  <2> QED
    BY <1>1, <1>2, <2>1 DEF IInv, TypeOK, Account, Owed, Shown, mgrVars, errVars, Caches
<1>4. commands' \in 0 .. MaxCommands
  BY <1>1, ConstantsAssumption
<1> QED
  BY <1>2, <1>3, <1>4, OutsideInv DEF IInv, TypeOK, errVars

LEMMA SetSharingInv ==
  ASSUME IInv, NEW s \in SharingState, SetSharing(s)
  PROVE  IInv'
<1>1. /\ receiver' = Append(receiver, [type |-> "SharingStateMsg", state |-> s])
      /\ core_sharing_state' \in SharingState /\ core_config' \in Config
  BY DEF SetSharing, set_my_sharing_state, IInv, TypeOK
<1> QED
  BY <1>1, SharingMessage, CommandInv DEF SetSharing

LEMMA ReconfigureInv ==
  ASSUME IInv, NEW c \in Config, NEW name, Command(name), Reconfigure(c)
  PROVE  IInv'
<1>1. commands + 1 \in Versions
  BY ConstantsAssumption DEF IInv, TypeOK, Command, Versions
<1>2. core_config' \in Config
  BY <1>1 DEF Reconfigure, Config
<1>3. core_sharing_state' \in SharingState
  BY DEF Reconfigure, IInv, TypeOK
<1> QED
  BY <1>2, <1>3, ConfigMessage, CommandInv DEF Reconfigure

LEMMA ChangeSharingInv ==
  ASSUME IInv, ChangeSharing
  PROVE  IInv'
BY ReconfigureInv DEF ChangeSharing, IInv, TypeOK

LEMMA AllowedInv ==
  ASSUME IInv, NEW u \in Users, NEW b \in BOOLEAN, set_user_is_allowed_state(u, b)
  PROVE  IInv'
<1> DEFINE c == [core_config EXCEPT !.allowed = IF b THEN @ \cup {u} ELSE @ \ {u}]
<1>1. c \in Config
  BY DEF IInv, TypeOK, Config
<1> HIDE DEF c
<1>2. Command("allow") /\ Reconfigure(c)
  BY DEF set_user_is_allowed_state, c
<1> QED
  BY <1>1, <1>2, ReconfigureInv

LEMMA ReverseModeInv ==
  ASSUME IInv, NEW b \in BOOLEAN, set_reverse_connection(b)
  PROVE  IInv'
<1> DEFINE c == [core_config EXCEPT !.reverse_connection = b]
<1>1. c \in Config
  BY DEF IInv, TypeOK, Config
<1> HIDE DEF c
<1>2. Command("reverse") /\ Reconfigure(c)
  BY DEF set_reverse_connection, c
<1> QED
  BY <1>1, <1>2, ReconfigureInv

LEMMA StoreErrorInv ==
  ASSUME IInv, StoreError
  PROVE  IInv'
<1>1. app_errors' \in Nat /\ app_errors' = app_errors - 1 /\ incoming_uploader_error' = TRUE
  BY DEF StoreError, IInv, TypeOK
<1>2. Account'
  <2>1. Len(receiver) \in Nat
    BY DEF IInv, TypeOK
  <2> QED
    BY <1>1, <2>1 DEF StoreError, IInv, TypeOK, Account, Owed, Shown, mgrVars, Caches
<1> QED
  BY <1>1, <1>2, OutsideInv DEF StoreError, IInv, TypeOK, coreVars

LEMMA FetchErrorInv ==
  ASSUME IInv, get_and_reset_my_sharing_error
  PROVE  IInv'
<1>1. /\ receiver' = Append(receiver, [type |-> "SharingStateMsg", state |-> "Off"])
      /\ core_sharing_state' = "Off" /\ incoming_uploader_error /\ incoming_uploader_error' = FALSE
      /\ UNCHANGED <<core_config, app_errors, mgrVars, caches, threadVars, commands, errors,
                     histVars>>
  BY DEF get_and_reset_my_sharing_error, set_my_sharing_state
<1>2. "Off" \in SharingState /\ receiver \in Seq(Message)
  BY DEF SharingState, IInv, TypeOK
<1>3. receiver' \in Seq(Message) /\ Len(receiver') = Len(receiver) + 1 /\ Len(receiver) \in Nat
  BY <1>1, <1>2, SharingMessage, Appended
<1>4. Account'
  BY <1>1, <1>3 DEF IInv, TypeOK, Account, Owed, Shown, mgrVars, Caches
<1> QED
  BY <1>1, <1>2, <1>3, <1>4, OutsideInv DEF IInv, TypeOK

-----------------------------------------------------------------------------
\* The manager, where it neither resets its connections nor starts an uploader.
LEMMA ManagerInv ==
  ASSUME IInv, Account', Modes',
         UNCHANGED <<coreVars, incoming_uploader_error, caches, commands, histVars, config,
                     sharing_state, single_uploaders, cache, threadVars>>,
         app_errors' \in Nat, receiver' \in Seq(Message), errors' \in 0 .. MaxErrors,
         mpc' \in MPCs, mret' \in MRets, stop_incoming' \in BOOLEAN
  PROVE  IInv'
<1> USE DEF IInv, coreVars, threadVars, histVars
<1>1. TypeOK'
  BY DEF TypeOK
<1>2. (Unborn /\ Serving /\ LateInv)'
  BY DEF Unborn, Serving, LateInv
<1>3. (CacheInv /\ UploadersCurrent /\ ReverseInv)'
  BY DEF CacheInv, CacheIsCurrent, UploadersCurrent, ReverseInv, OneReverseConnectionPerUser, Alive, Forgotten
<1> QED
  BY <1>1, <1>2, <1>3

LEMMA RunTopInv ==
  ASSUME IInv, RunTop
  PROVE  IInv'
<1> USE DEF RunTop, MgrFrame
<1>1. Account'
  BY DEF IInv, TypeOK, Account, Owed, Shown
<1>2. Modes'
  BY DEF Modes
<1> QED
  BY <1>1, <1>2, ManagerInv DEF IInv, TypeOK, MPCs, MRets

LEMMA ReadEmptyInv ==
  ASSUME IInv, ReadEmpty
  PROVE  IInv'
<1> USE DEF ReadEmpty, MgrFrame
<1>1. mret \in MRets /\ mpc' \in {"top", "mode", "listen", "reverse"}
  BY DEF IInv, TypeOK, MRets
<1>2. Account'
  BY <1>1 DEF IInv, TypeOK, Account, Owed, Shown
<1>3. Modes'
  BY <1>1 DEF IInv, Modes, MRets
<1> QED
  BY <1>1, <1>2, <1>3, ManagerInv DEF IInv, TypeOK, MPCs

LEMMA ChooseModeInv ==
  ASSUME IInv, ChooseMode
  PROVE  IInv'
<1> USE DEF ChooseMode, MgrFrame
<1>1. errors \in 0 .. MaxErrors /\ commands \in 0 .. MaxCommands /\ Len(receiver) \in Nat
      /\ app_errors \in Nat /\ cache \in Nat
  BY DEF IInv, TypeOK, Caches
<1>2. \/ errors' = errors /\ mpc' \in {"top", "poll"}
      \/ errors' = errors + 1 /\ errors < MaxErrors /\ mpc' = "failed"
  OBVIOUS
<1>3. Account'
  BY <1>1, <1>2 DEF IInv, Account, Owed, Shown
<1>4. Modes'
  BY DEF Modes
<1>5. errors' \in 0 .. MaxErrors /\ mret' \in MRets
  BY <1>1, <1>2, ConstantsAssumption DEF IInv, TypeOK, MRets
<1> QED
  BY <1>2, <1>3, <1>4, <1>5, ManagerInv DEF IInv, TypeOK, MPCs

LEMMA TurnSelfOffInv ==
  ASSUME IInv, TurnSelfOff
  PROVE  IInv'
<1> USE DEF TurnSelfOff, MgrFrame
<1>1. receiver \in Seq(Message) /\ "Off" \in SharingState
  BY DEF IInv, TypeOK, SharingState
<1>2. receiver' \in Seq(Message) /\ Len(receiver') = Len(receiver) + 1 /\ Len(receiver) \in Nat
  BY <1>1, SharingMessage, Appended
<1>3. Account'
  BY <1>2 DEF IInv, TypeOK, Account, Owed, Shown, Caches
<1>4. Modes'
  BY DEF Modes
<1> QED
  BY <1>2, <1>3, <1>4, ManagerInv DEF IInv, TypeOK, MPCs

LEMMA ReportErrorInv ==
  ASSUME IInv, ReportError
  PROVE  IInv'
<1> USE DEF ReportError, MgrFrame
<1>1. Account'
  <2>1. Len(receiver) \in Nat
    BY DEF IInv, TypeOK
  <2> QED
    BY <2>1 DEF IInv, TypeOK, Account, Owed, Shown, Caches
<1>2. Modes'
  BY DEF Modes
<1> QED
  BY <1>1, <1>2, ManagerInv DEF IInv, TypeOK, MPCs

-----------------------------------------------------------------------------
\* A message resets the connections: no uploader is known, and the new cache is empty.
LEMMA ReadMessageInv ==
  ASSUME IInv, ReadMessage
  PROVE  IInv'
<1> USE DEF ReadMessage, reset_connections
<1> DEFINE m == Head(receiver)
<1>1. receiver \in Seq(Message) /\ receiver # <<>>
  BY DEF IInv, TypeOK
<1>2. /\ m \in Message /\ receiver' \in Seq(Message)
      /\ Len(receiver) \in Nat /\ Len(receiver') = Len(receiver) - 1
  BY <1>1
<1>3. config' \in Config /\ sharing_state' \in SharingState
  BY <1>2 DEF IInv, TypeOK, Message
<1>4. UNCHANGED <<coreVars, errVars, mpc, mret, threadVars, commands, errors, histVars, caches>>
      /\ stop_incoming' = TRUE /\ single_uploaders' = {} /\ cache' = cache + 1 /\ mpc = "poll"
  OBVIOUS
<1> HIDE DEF ReadMessage, reset_connections, m
<1> USE DEF coreVars, errVars, threadVars, histVars
<1>5. Account'
  BY <1>2, <1>4 DEF IInv, TypeOK, Account, Owed, Shown, Caches
<1>6. cache \in Nat /\ cache' \in Caches
  BY <1>2, <1>4, <1>5, ConstantsAssumption DEF IInv, TypeOK, Account, Owed, Shown, Caches
<1>7. TypeOK'
  BY <1>2, <1>3, <1>4, <1>6 DEF IInv, TypeOK
<1>8. (Modes /\ Unborn /\ Serving /\ LateInv)'
  BY <1>4 DEF IInv, Modes, Unborn, Serving, LateInv
<1>9. CacheInv'
  <2>1. caches'[cache'] = {}
    BY <1>4, <1>6 DEF IInv, CacheInv
  <2>2. \A i \in Uploaders : thread_cache[i] \in Nat /\ thread_cache[i] < cache'
    BY <1>4, <1>6 DEF IInv, TypeOK, CacheInv, Caches
  <2>3. \A c \in Caches : c > cache' => caches'[c] = {}
    BY <1>4, <1>6 DEF IInv, CacheInv, Caches
  <2> QED
    BY <1>4, <1>6, <2>1, <2>2, <2>3 DEF CacheInv, CacheIsCurrent
<1>10. UploadersCurrent'
  BY <1>4 DEF UploadersCurrent
<1>11. ReverseInv'
  <2>1. \A i \in Uploaders : thread_cache'[i] = thread_cache[i] /\ thread_cache[i] # cache'
    BY <1>4, <1>6 DEF IInv, TypeOK, CacheInv, Caches
  <2>2. OneReverseConnectionPerUser'
    BY <1>4 DEF IInv, ReverseInv, OneReverseConnectionPerUser, Alive, Forgotten
  <2> QED
    BY <1>4, <2>1, <2>2 DEF IInv, ReverseInv
<1> QED
  BY <1>5, <1>7, <1>8, <1>9, <1>10, <1>11 DEF IInv

\* An uploader is started with the manager's configuration and cache, beside living ones.
LEMMA StartedInv ==
  ASSUME IInv, NEW n, n = started + 1, started < MaxUploaders, started' = n,
         ~ stop_incoming, mpc \in {"listen", "reverse"},
         mpc' \in {"poll", "reverse"},
         NEW live, live = {i \in single_uploaders : Alive(i)}, single_uploaders' = live \cup {n},
         NEW pc \in {"cached", "connect"}, upc' = [upc EXCEPT ![n] = pc],
         NEW rev \in BOOLEAN, reverse' = [reverse EXCEPT ![n] = rev],
         NEW u, user' = [user EXCEPT ![n] = u],
         u \in Users \/ (pc = "connect" /\ u = user[n]),
         pc = "cached" => \A i \in live : reverse[i] => user[i] # u,
         pc = "connect" => ~ rev,
         thread_config' = [thread_config EXCEPT ![n] = config],
         thread_cache' = [thread_cache EXCEPT ![n] = cache],
         UNCHANGED <<coreVars, errVars, receiver, mret, stop_incoming, config, sharing_state,
                     cache, caches, should_shutdown, commands, errors, histVars>>
  PROVE  IInv'
<1> USE DEF coreVars, errVars, histVars
<1>1. started \in Nat /\ n \in Uploaders /\ n \in Nat
  BY ConstantsAssumption DEF IInv, TypeOK, Uploaders
<1>2. Account'
  BY DEF IInv, Account, Owed, Shown
<1>3. TypeOK'
  <2>1. started' \in 0 .. MaxUploaders
    BY <1>1, ConstantsAssumption
  <2>2. upc' \in [Uploaders -> UPCs] /\ user' \in [Uploaders -> Users \cup {None}]
    BY <1>1 DEF IInv, TypeOK, UPCs
  <2>3. thread_config' \in [Uploaders -> Config] /\ thread_cache' \in [Uploaders -> Caches]
        /\ reverse' \in [Uploaders -> BOOLEAN]
    BY <1>1 DEF IInv, TypeOK
  <2>4. single_uploaders' \in SUBSET Uploaders /\ mpc' \in MPCs
    BY <1>1 DEF IInv, TypeOK, MPCs
  <2> QED
    BY <2>1, <2>2, <2>3, <2>4 DEF IInv, TypeOK
<1>4. Modes'
  BY DEF IInv, Modes
<1>5. Unborn'
  BY <1>1 DEF IInv, TypeOK, Unborn, Uploaders
<1>6. Serving'
  BY <1>1 DEF IInv, TypeOK, Serving, NoUserYet
<1>7. CacheInv'
  <2>1. \A i \in Uploaders : thread_cache'[i] <= cache'
    BY <1>1 DEF IInv, TypeOK, CacheInv, Caches
  <2>2. \A i \in Uploaders : i <= started' /\ thread_cache'[i] = cache'
                               => thread_config'[i].version = config'.version
    BY <1>1 DEF IInv, TypeOK, CacheInv, Uploaders
  <2> QED
    BY <2>1, <2>2 DEF IInv, CacheInv, CacheIsCurrent
<1>8. LateInv'
  BY <1>1 DEF IInv, TypeOK, LateInv, Unborn, Uploaders
<1>9. UploadersCurrent'
  BY <1>1 DEF IInv, TypeOK, Modes, UploadersCurrent
<1>10. ReverseInv'
  <2>1. /\ thread_cache'[n] = cache /\ reverse'[n] = rev /\ user'[n] = u /\ cache' = cache
        /\ cache \in Nat
    BY <1>1 DEF IInv, TypeOK, Caches
  <2>2. ASSUME NEW i \in Uploaders, i # n
        PROVE  /\ thread_cache'[i] = thread_cache[i] /\ reverse'[i] = reverse[i]
               /\ user'[i] = user[i] /\ (Alive(i)' <=> Alive(i)) /\ thread_cache[i] \in Nat
               /\ thread_cache[i] <= cache /\ i \in Nat
    BY <1>1, <2>2 DEF IInv, TypeOK, Alive, CacheInv, Caches, Uploaders
  <2>3. \A i \in Uploaders : i <= started' /\ Alive(i)' /\ thread_cache'[i] = cache'
                                => i \in single_uploaders'
    <3>1. ASSUME NEW i \in Uploaders, i <= started', Alive(i)', thread_cache'[i] = cache', i # n
          PROVE  i \in live
      <4>1. i <= started
        BY <1>1, <2>2, <3>1
      <4> QED
        BY <2>1, <2>2, <3>1, <4>1 DEF IInv, ReverseInv
    <3> QED
      BY <3>1
  <2>4. \A i, j \in Uploaders : i < j /\ j <= started' => thread_cache'[i] <= thread_cache'[j]
    <3>1. ASSUME NEW i \in Uploaders, NEW j \in Uploaders, i < j, j <= started'
          PROVE  thread_cache'[i] <= thread_cache'[j]
      <4>1. i # n
        BY <1>1, <3>1 DEF Uploaders
      <4>2. CASE j = n
        BY <2>1, <2>2, <4>1, <4>2
      <4>3. CASE j # n
        <5>1. j <= started
          BY <1>1, <2>2, <3>1, <4>3
        <5> QED
          BY <2>2, <3>1, <4>1, <4>3, <5>1 DEF IInv, ReverseInv
      <4> QED
        BY <4>2, <4>3
    <3> QED
      BY <3>1
  <2>5. OneReverseConnectionPerUser'
    <3> SUFFICES ASSUME NEW i \in Uploaders, NEW j \in Uploaders, i < j, Alive(i)', Alive(j)',
                        reverse'[i], reverse'[j], user'[i] = user'[j]
                 PROVE  Forgotten(i)' /\ thread_cache'[i] < thread_cache'[j]
      BY DEF OneReverseConnectionPerUser
    <3>1. \A k \in Uploaders : k > started => ~ Alive(k)
      BY DEF IInv, Unborn, Alive
    <3>2. i # n /\ i \in Nat
      <4>1. CASE i = n
        BY <1>1, <2>2, <3>1, <4>1 DEF Uploaders
      <4> QED
        BY <2>2, <4>1
    <3>3. CASE j = n
      <4>1. i \notin live
        BY <2>1, <2>2, <3>2, <3>3
      <4>2. i \notin single_uploaders
        BY <2>2, <3>2, <4>1
      <4>3. thread_cache[i] # cache
        BY <1>1, <2>2, <3>2, <3>3, <4>2 DEF IInv, ReverseInv
      <4> QED
        BY <2>1, <2>2, <3>2, <3>3, <4>2, <4>3 DEF Forgotten
    <3>4. CASE j # n
      BY <2>2, <3>2, <3>4 DEF IInv, ReverseInv, OneReverseConnectionPerUser, Forgotten
    <3> QED
      BY <3>3, <3>4
  <2> QED
    BY <2>3, <2>4, <2>5 DEF ReverseInv
<1> QED
  BY <1>2, <1>3, <1>4, <1>5, <1>6, <1>7, <1>8, <1>9, <1>10 DEF IInv

\* Nothing is started; Senders of uploaders that have ended may be dropped.
LEMMA DroppedInv ==
  ASSUME IInv, ~ stop_incoming, mpc \in {"listen", "reverse"}, mpc' = "poll",
         single_uploaders' \subseteq single_uploaders,
         \A i \in single_uploaders : Alive(i) => i \in single_uploaders',
         UNCHANGED <<coreVars, errVars, receiver, mret, stop_incoming, config, sharing_state,
                     cache, caches, threadVars, commands, errors, histVars>>
  PROVE  IInv'
<1> USE DEF coreVars, errVars, threadVars, histVars
<1>1. Account' /\ TypeOK'
  BY DEF IInv, TypeOK, Account, Owed, Shown, MPCs
<1>2. (Modes /\ Unborn /\ Serving /\ LateInv)'
  BY DEF IInv, Modes, Unborn, Serving, LateInv
<1>3. CacheInv'
  BY DEF IInv, CacheInv, CacheIsCurrent
<1>4. (UploadersCurrent /\ ReverseInv)'
  BY DEF IInv, UploadersCurrent, ReverseInv, OneReverseConnectionPerUser, Alive, Forgotten
<1> QED
  BY <1>1, <1>2, <1>3, <1>4 DEF IInv

LEMMA ListenInv ==
  ASSUME IInv, Listen
  PROVE  IInv'
<1>1. mpc = "listen" /\ mpc' = "poll" /\ ~ stop_incoming
  BY DEF Listen, IInv, Modes
<1>2. CASE UNCHANGED <<single_uploaders, started, upc, reverse, thread_config, thread_cache>>
  BY <1>1, <1>2, DroppedInv DEF Listen, MgrFrame, errVars, threadVars
<1>3. CASE /\ started < MaxUploaders
           /\ started' = started + 1
           /\ single_uploaders' = {i \in single_uploaders : Alive(i)} \cup {started'}
           /\ upc' = [upc EXCEPT ![started'] = "connect"]
           /\ reverse' = [reverse EXCEPT ![started'] = FALSE]
           /\ thread_config' = [thread_config EXCEPT ![started'] = config]
           /\ thread_cache' = [thread_cache EXCEPT ![started'] = cache]
  <2> DEFINE n == started + 1
             live == {i \in single_uploaders : Alive(i)}
  <2>1. n \in Uploaders
    BY <1>3, ConstantsAssumption DEF IInv, TypeOK, Uploaders
  <2>2. user' = [user EXCEPT ![n] = user[n]]
    BY <2>1 DEF Listen, IInv, TypeOK
  <2>3. live = {i \in single_uploaders : Alive(i)}
    OBVIOUS
  <2>4. UNCHANGED <<coreVars, errVars, receiver, mret, stop_incoming, config, sharing_state,
                    cache, caches, should_shutdown, commands, errors, histVars>>
    BY DEF Listen, MgrFrame, errVars
  <2>5. /\ started' = n /\ single_uploaders' = live \cup {n}
        /\ upc' = [upc EXCEPT ![n] = "connect"] /\ reverse' = [reverse EXCEPT ![n] = FALSE]
        /\ thread_config' = [thread_config EXCEPT ![n] = config]
        /\ thread_cache' = [thread_cache EXCEPT ![n] = cache]
    BY <1>3
  <2> HIDE DEF live
  <2> QED
    BY <1>1, <1>3, <2>2, <2>3, <2>4, <2>5, StartedInv
<1> QED
  BY <1>2, <1>3 DEF Listen

LEMMA ConnectReverseInv ==
  ASSUME IInv, ConnectReverse
  PROVE  IInv'
<1> DEFINE live == {i \in single_uploaders : Alive(i)}
<1>1. /\ mpc = "reverse" /\ ~ stop_incoming
      /\ UNCHANGED <<coreVars, errVars, receiver, mret, stop_incoming, config, sharing_state,
                     cache, caches, should_shutdown, commands, errors, histVars>>
  BY DEF ConnectReverse, MgrFrame, errVars, IInv, Modes
<1>2. CASE /\ mpc' = "poll"
           /\ single_uploaders' = live
           /\ UNCHANGED <<started, upc, user, reverse, thread_config, thread_cache>>
  BY <1>1, <1>2, DroppedInv DEF threadVars
<1>3. CASE /\ started < MaxUploaders
           /\ started' = started + 1
           /\ \E u \in ToConnect(live) :
                /\ single_uploaders' =
                     {i \in live : ~ (reverse[i] /\ user[i] = u)} \cup {started'}
                /\ user' = [user EXCEPT ![started'] = u]
                /\ mpc' = IF ToConnect(live) = {u} THEN "poll" ELSE "reverse"
           /\ upc' = [upc EXCEPT ![started'] = "cached"]
           /\ reverse' = [reverse EXCEPT ![started'] = TRUE]
           /\ thread_config' = [thread_config EXCEPT ![started'] = config]
           /\ thread_cache' = [thread_cache EXCEPT ![started'] = cache]
  <2> DEFINE n == started + 1
             rev == TRUE
             pc == "cached"
  <2>1. PICK u \in ToConnect(live) :
          /\ user' = [user EXCEPT ![n] = u] /\ mpc' \in {"poll", "reverse"}
          /\ single_uploaders' = {i \in live : ~ (reverse[i] /\ user[i] = u)} \cup {n}
    BY <1>3
  <2>2. u \in Users /\ \A i \in live : reverse[i] => user[i] # u
    BY DEF ToConnect
  <2>3. live = {i \in single_uploaders : Alive(i)}
    OBVIOUS
  <2>7. single_uploaders' = live \cup {n}
    BY <2>1, <2>2
  <2>4. /\ started' = n
        /\ upc' = [upc EXCEPT ![n] = pc] /\ reverse' = [reverse EXCEPT ![n] = rev]
        /\ thread_config' = [thread_config EXCEPT ![n] = config]
        /\ thread_cache' = [thread_cache EXCEPT ![n] = cache]
    BY <1>3
  <2>5. rev \in BOOLEAN /\ pc \in {"cached", "connect"} /\ ~ (pc = "connect")
    OBVIOUS
  <2>6. started < MaxUploaders /\ user' = [user EXCEPT ![n] = u] /\ mpc' \in {"poll", "reverse"}
    BY <1>3, <2>1
  <2> HIDE DEF live, rev, pc
  <2> QED
    BY <1>1, <2>2, <2>3, <2>4, <2>5, <2>6, <2>7, StartedInv
<1> QED
  BY <1>2, <1>3 DEF ConnectReverse

LEMMA ManagerNextInv ==
  ASSUME IInv, ManagerNext
  PROVE  IInv'
BY RunTopInv, ReadMessageInv, ReadEmptyInv, ChooseModeInv, TurnSelfOffInv, ReportErrorInv,
   ListenInv, ConnectReverseInv DEF ManagerNext

-----------------------------------------------------------------------------
\* A step of an uploader: its control point, user and count of late writes, and what it
\* adds to the lists that were sent and to the caches.
LEMMA ThreadInv ==
  ASSUME IInv, NEW i \in Uploaders, UploaderFrame, Alive(i),
         NEW pc \in UPCs, upc' = [upc EXCEPT ![i] = pc],
         NEW u \in Users \cup {None}, user' = [user EXCEPT ![i] = u], reverse[i] => u = user[i],
         pc \notin NoUserYet => u \in Users, pc # "cached",
         NEW l \in 0 .. 1, late' = [late EXCEPT ![i] = l],
         i \in single_uploaders => l = 0, l = 1 => pc \in Wrote,
         listed \subseteq listed', listed' \subseteq Users \X Versions,
         pc \in {"wrote_final", "push"} => <<u, thread_config[i].version>> \in listed',
         should_shutdown' \in [Uploaders -> BOOLEAN],
         caches' \in [Caches -> SUBSET Users], CacheInv'
  PROVE  IInv'
<1> USE DEF UploaderFrame, coreVars, errVars, mgrVars
<1>1. upc' \in [Uploaders -> UPCs] /\ user' \in [Uploaders -> Users \cup {None}]
      /\ late' \in [Uploaders -> 0 .. TooLate]
  BY DEF IInv, TypeOK, TooLate
<1>2. TypeOK'
  BY <1>1 DEF IInv, TypeOK
<1>3. (Account /\ Modes)'
  BY DEF IInv, Account, Owed, Shown, Modes
<1>4. Unborn'
  BY DEF IInv, TypeOK, Unborn, Alive
<1>5. Serving'
  BY DEF IInv, TypeOK, Serving, NoUserYet
<1>6. LateInv'
  BY DEF IInv, TypeOK, LateInv
<1>7. (UploadersCurrent /\ ReverseInv)'
  BY DEF IInv, TypeOK, UploadersCurrent, ReverseInv, OneReverseConnectionPerUser, Alive, Forgotten
<1> QED
  BY <1>2, <1>3, <1>4, <1>5, <1>6, <1>7 DEF IInv

\* Caches and lists are untouched, or there is a list more.
LEMMA CacheKept ==
  ASSUME IInv, UploaderFrame, UNCHANGED caches, listed \subseteq listed'
  PROVE  CacheInv' /\ caches' \in [Caches -> SUBSET Users]
BY DEF IInv, TypeOK, CacheInv, CacheIsCurrent, UploaderFrame, mgrVars

LEMMA TypesOf ==
  ASSUME IInv, NEW i \in Uploaders
  PROVE  /\ user[i] \in Users \cup {None} /\ late[i] \in 0 .. 1
         /\ thread_config[i].version \in Versions /\ thread_cache[i] \in Caches
         /\ listed \subseteq Users \X Versions
         /\ upc[i] \notin Wrote => late[i] = 0
         /\ i \in single_uploaders => late[i] = 0
         /\ upc[i] \notin NoUserYet => user[i] \in Users
         /\ should_shutdown \in [Uploaders -> BOOLEAN]
<1>1. late[i] \in 0 .. 1
  BY DEF IInv, TypeOK, LateInv, TooLate
<1>2. thread_config[i].version \in Versions
  BY DEF IInv, TypeOK, Config
<1>3. user[i] \in Users \cup {None} /\ thread_cache[i] \in Caches /\ listed \subseteq Users \X Versions
      /\ should_shutdown \in [Uploaders -> BOOLEAN]
  BY DEF IInv, TypeOK
<1>4. (upc[i] \notin Wrote => late[i] = 0) /\ (i \in single_uploaders => late[i] = 0)
  BY <1>1 DEF IInv, LateInv
<1>5. upc[i] \notin NoUserYet => user[i] \in Users
  BY DEF IInv, Serving
<1> QED
  BY <1>1, <1>2, <1>3, <1>4, <1>5

LEMMA Same ==
  ASSUME IInv, NEW i \in Uploaders
  PROVE  /\ UNCHANGED user => user' = [user EXCEPT ![i] = user[i]]
         /\ UNCHANGED late => late' = [late EXCEPT ![i] = late[i]]
BY DEF IInv, TypeOK

\* Control moves on, and nothing else changes.
LEMMA MoveInv ==
  ASSUME IInv, NEW i \in Uploaders, UploaderFrame, UNCHANGED <<user, caches, histVars>>,
         Alive(i), NEW pc \in UPCs, Goto(i, pc),
         pc # "cached", pc # "wrote_final",
         pc \notin NoUserYet => upc[i] \notin NoUserYet,
         pc = "push" => upc[i] = "wrote_final",
         late[i] = 1 => pc \in Wrote,
         should_shutdown' \in [Uploaders -> BOOLEAN]
  PROVE  IInv'
<1>1. CacheInv' /\ caches' \in [Caches -> SUBSET Users]
  BY CacheKept DEF histVars
<1>2. pc = "push" => <<user[i], thread_config[i].version>> \in listed
  BY DEF IInv, Serving
<1>3. reverse[i] => user[i] = user[i]
  OBVIOUS
<1>4. /\ upc' = [upc EXCEPT ![i] = pc] /\ user' = [user EXCEPT ![i] = user[i]]
      /\ late' = [late EXCEPT ![i] = late[i]] /\ listed' = listed
  BY Same DEF histVars, Goto
<1>5. /\ user[i] \in Users \cup {None} /\ late[i] \in 0 .. 1 /\ (i \in single_uploaders => late[i] = 0)
      /\ listed \subseteq Users \X Versions /\ (pc \notin NoUserYet => user[i] \in Users)
  BY TypesOf
<1> QED
  BY <1>1, <1>2, <1>3, <1>4, <1>5, ThreadInv

\* A poll sends an uploader that was forgotten on its way out.
LEMMA PollInv ==
  ASSUME IInv, NEW i \in Uploaders, UploaderFrame, UNCHANGED <<user, caches, histVars>>,
         upc[i] \notin NoUserYet, NEW stopped \in {"dead", "loop"}, NEW label \in UPCs,
         PollThen(i, stopped, label),
         label \notin NoUserYet, label # "wrote_final", label = "push" => upc[i] = "wrote_final"
  PROVE  IInv'
<1> DEFINE pc == IF should_shutdown'[i] THEN stopped ELSE label
<1>1. /\ should_shutdown' \in [Uploaders -> BOOLEAN]
      /\ i \notin single_uploaders => should_shutdown'[i]
  BY TypesOf DEF PollThen, Forgotten
<1>2. Goto(i, pc)
  BY DEF PollThen
<1>3. pc \in {stopped, label} /\ (i \notin single_uploaders => pc = stopped)
  BY <1>1
<1> HIDE DEF pc
<1>4. late[i] = 1 => pc \in Wrote
  BY <1>3, TypesOf DEF Wrote
<1> QED
  BY <1>1, <1>2, <1>3, <1>4, MoveInv DEF UPCs, Requests, NoUserYet, Alive

LEMMA HandshakeInv ==
  ASSUME IInv, NEW i \in Uploaders, Handshake(i)
  PROVE  IInv'
<1> USE DEF Handshake, NoUserYet, Wrote
<1>1. upc[i] \notin Wrote \/ late[i] = 0
  BY DEF Handshake
<1>2. late[i] = 0
  BY TypesOf
<1>3. CASE Goto(i, "dead") /\ UNCHANGED <<user, late>>
  BY <1>3, TypesOf, MoveInv DEF UPCs, histVars, Alive
<1>4. CASE \E u \in Users :
             /\ reverse[i] => u = user[i]
             /\ user' = [user EXCEPT ![i] = u]
             /\ IF reverse[i] THEN Write(i) ELSE UNCHANGED late
             /\ Goto(i, IF u \in thread_config[i].allowed THEN "loop" ELSE "dead")
  <2>1. PICK u \in Users :
             /\ reverse[i] => u = user[i]
             /\ user' = [user EXCEPT ![i] = u]
             /\ IF reverse[i] THEN Write(i) ELSE UNCHANGED late
             /\ Goto(i, IF u \in thread_config[i].allowed THEN "loop" ELSE "dead")
    BY <1>4
  <2>2. PICK l \in 0 .. 1 : late' = [late EXCEPT ![i] = l] /\ (i \in single_uploaders => l = 0)
    <3>1. CASE Write(i)
      <4>1. late' = [late EXCEPT ![i] = IF i \notin single_uploaders THEN 1 ELSE 0]
        BY <1>2, <3>1 DEF Write, Forgotten, TooLate
      <4>2. CASE i \in single_uploaders
        <5> WITNESS 0 \in 0 .. 1
        <5> QED
          BY <4>1, <4>2
      <4>3. CASE i \notin single_uploaders
        <5> WITNESS 1 \in 0 .. 1
        <5> QED
          BY <4>1, <4>3
      <4> QED
        BY <4>2, <4>3
    <3>2. CASE UNCHANGED late
      BY <1>2, <3>2, Same
    <3> QED
      BY <2>1, <3>1, <3>2
  <2>3. PICK pc \in {"loop", "dead"} : upc' = [upc EXCEPT ![i] = pc]
    BY <2>1 DEF Goto
  <2>4. UploaderFrame /\ Alive(i) /\ UNCHANGED <<should_shutdown, caches, listed>>
    BY DEF Alive
  <2>5. CacheInv' /\ caches' \in [Caches -> SUBSET Users]
    BY <2>4, CacheKept
  <2>6. pc \in UPCs /\ pc \in Wrote /\ pc # "cached" /\ pc \notin {"wrote_final", "push"}
    BY DEF UPCs
  <2> HIDE DEF Handshake, NoUserYet, Wrote
  <2> QED
    BY <2>1, <2>2, <2>3, <2>4, <2>5, <2>6, TypesOf, ThreadInv
<1> QED
  BY <1>3, <1>4

\* A write of an uploader that has its user.
LEMMA WriteInv ==
  ASSUME IInv, NEW i \in Uploaders, UploaderFrame, UNCHANGED <<user, should_shutdown, caches>>,
         upc[i] \notin NoUserYet, upc[i] \notin Wrote, Write(i),
         NEW pc \in Wrote, pc # "dead", Goto(i, pc),
         listed \subseteq listed', listed' \subseteq Users \X Versions,
         pc = "wrote_final" => <<user[i], thread_config[i].version>> \in listed'
  PROVE  IInv'
<1>1. late[i] = 0
  BY TypesOf
<1>2. PICK l \in 0 .. 1 : late' = [late EXCEPT ![i] = l] /\ (i \in single_uploaders => l = 0)
  <2>1. late' = [late EXCEPT ![i] = IF i \notin single_uploaders THEN 1 ELSE 0]
    BY <1>1 DEF Write, Forgotten, TooLate
  <2>2. CASE i \in single_uploaders
    <3> WITNESS 0 \in 0 .. 1
    <3> QED
      BY <2>1, <2>2
  <2>3. CASE i \notin single_uploaders
    <3> WITNESS 1 \in 0 .. 1
    <3> QED
      BY <2>1, <2>3
  <2> QED
    BY <2>2, <2>3
<1>3. CacheInv' /\ caches' \in [Caches -> SUBSET Users]
  BY CacheKept
<1>4. pc \in UPCs /\ pc # "cached" /\ pc # "push" /\ Alive(i) /\ user[i] \in Users
  BY TypesOf DEF Wrote, UPCs, NoUserYet, Alive
<1>5. upc' = [upc EXCEPT ![i] = pc] /\ user' = [user EXCEPT ![i] = user[i]]
  BY Same DEF Goto
<1> QED
  BY <1>2, <1>3, <1>4, <1>5, TypesOf, ThreadInv

LEMMA ServeListInv ==
  ASSUME IInv, NEW i \in Uploaders, ServeList(i)
  PROVE  IInv'
<1>1. /\ upc[i] = "list" /\ UploaderFrame /\ UNCHANGED <<user, should_shutdown, caches>>
      /\ upc[i] \notin NoUserYet /\ upc[i] \notin Wrote
  BY DEF ServeList, NoUserYet, Wrote
<1>2. /\ user[i] \in Users /\ late[i] = 0 /\ listed \subseteq Users \X Versions
      /\ thread_config[i].version \in Versions /\ should_shutdown' \in [Uploaders -> BOOLEAN]
  BY <1>1, TypesOf
<1>3. CASE Goto(i, "dead") /\ UNCHANGED histVars
  BY <1>1, <1>2, <1>3, MoveInv DEF NoUserYet, UPCs, Alive
<1>4. CASE Write(i) /\ Goto(i, "wrote_piece") /\ UNCHANGED listed
  BY <1>1, <1>2, <1>4, WriteInv DEF Wrote
<1>5. CASE Write(i) /\ Goto(i, "wrote_final")
           /\ listed' = listed \cup {<<user[i], thread_config[i].version>>}
  <2>1. listed \subseteq listed' /\ listed' \subseteq Users \X Versions
        /\ <<user[i], thread_config[i].version>> \in listed'
    BY <1>2, <1>5
  <2> QED
    BY <1>1, <1>5, <2>1, WriteInv DEF Wrote
<1> QED
  BY <1>3, <1>4, <1>5 DEF ServeList

LEMMA ServeFileInv ==
  ASSUME IInv, NEW i \in Uploaders, ServeFile(i)
  PROVE  IInv'
<1>1. /\ upc[i] = "file" /\ UploaderFrame /\ UNCHANGED <<user, should_shutdown, caches, listed>>
      /\ upc[i] \notin NoUserYet /\ upc[i] \notin Wrote
  BY DEF ServeFile, NoUserYet, Wrote
<1>2. /\ late[i] = 0 /\ listed \subseteq Users \X Versions
      /\ should_shutdown' \in [Uploaders -> BOOLEAN]
  BY <1>1, TypesOf
<1>3. CASE Goto(i, "dead") /\ UNCHANGED late
  BY <1>1, <1>2, <1>3, MoveInv DEF NoUserYet, UPCs, Alive, histVars
<1>4. ASSUME NEW pc \in {"loop", "wrote_chunk"}, Write(i), Goto(i, pc) PROVE IInv'
  BY <1>1, <1>2, <1>4, WriteInv DEF Wrote
<1> QED
  BY <1>3, <1>4 DEF ServeFile

\* The nickname goes into the cache the uploader was started with: that is the current
\* one only for an uploader of the current configuration.
LEMMA PushInv ==
  ASSUME IInv, NEW i \in Uploaders, PushToCache(i)
  PROVE  IInv'
<1> DEFINE c == thread_cache[i]
<1>1. /\ upc[i] = "push" /\ UploaderFrame /\ UNCHANGED <<user, should_shutdown, histVars>>
      /\ Goto(i, "loop") /\ caches' = [caches EXCEPT ![c] = @ \cup {user[i]}]
  BY DEF PushToCache
<1>2. /\ user[i] \in Users /\ c \in Caches /\ c <= cache /\ i <= started
      /\ <<user[i], thread_config[i].version>> \in listed
  <2>1. user[i] \in Users /\ c \in Caches
    BY <1>1, TypesOf DEF NoUserYet
  <2>2. c <= cache /\ <<user[i], thread_config[i].version>> \in listed
    BY <1>1 DEF IInv, Serving, CacheInv
  <2>3. i <= started
    BY <1>1 DEF IInv, TypeOK, Unborn, Uploaders
  <2> QED
    BY <2>1, <2>2, <2>3
<1>3. c = cache => thread_config[i].version = config.version
  BY <1>2 DEF IInv, CacheInv
<1>4. caches' \in [Caches -> SUBSET Users]
  BY <1>1, <1>2 DEF IInv, TypeOK
<1>5. CacheInv'
  <2>1. \A d \in Caches : d > cache' => caches'[d] = {}
    BY <1>1, <1>2 DEF IInv, TypeOK, CacheInv, UploaderFrame, mgrVars, Caches
  <2>2. \A u \in caches'[cache'] : <<u, config'.version>> \in listed'
    BY <1>1, <1>2, <1>3 DEF IInv, TypeOK, CacheInv, CacheIsCurrent, UploaderFrame, mgrVars, histVars
  <2> QED
    BY <1>1, <2>1, <2>2 DEF IInv, CacheInv, CacheIsCurrent, UploaderFrame, mgrVars
<1>6. /\ upc' = [upc EXCEPT ![i] = "loop"] /\ user' = [user EXCEPT ![i] = user[i]]
      /\ late' = [late EXCEPT ![i] = late[i]] /\ listed' = listed
  BY <1>1, Same DEF Goto, histVars
<1>7. "loop" \in UPCs /\ "loop" \in Wrote /\ Alive(i) /\ "loop" # "cached"
      /\ "loop" \notin {"wrote_final", "push"}
  BY <1>1 DEF UPCs, Wrote, Alive
<1>8. /\ user[i] \in Users \cup {None} /\ late[i] \in 0 .. 1 /\ (i \in single_uploaders => late[i] = 0)
      /\ listed \subseteq Users \X Versions /\ should_shutdown' \in [Uploaders -> BOOLEAN]
  BY <1>1, TypesOf
<1> QED
  BY <1>1, <1>2, <1>4, <1>5, <1>6, <1>7, <1>8, ThreadInv

LEMMA UploaderNextInv ==
  ASSUME IInv, NEW i \in Uploaders, UploaderNext(i)
  PROVE  IInv'
<1> USE DEF NoUserYet, Wrote, UPCs, Requests, Alive
<1>1. CASE ReadCache(i)
  <2>1. PICK pc \in {"connect", "connect_no_list"} : Goto(i, pc)
    BY <1>1 DEF ReadCache
  <2> QED
    BY <1>1, <2>1, TypesOf, MoveInv DEF ReadCache
<1>2. CASE PollLoop(i)
  BY <1>2, PollInv DEF PollLoop
<1>3. CASE ReadRequest(i)
  <2>1. PICK pc \in {"dead", "request"} : Goto(i, pc)
    BY <1>3 DEF ReadRequest
  <2> QED
    BY <1>3, <2>1, TypesOf, MoveInv DEF ReadRequest
<1>4. CASE PollRequest(i)
  <2>1. PICK m \in Requests : PollThen(i, "loop", m)
    BY <1>4 DEF PollRequest
  <2> QED
    BY <1>4, <2>1, PollInv DEF PollRequest
<1>5. CASE PollAfterPiece(i)
  BY <1>5, PollInv DEF PollAfterPiece
<1>6. CASE PollAfterFinal(i)
  BY <1>6, PollInv DEF PollAfterFinal
<1>7. CASE PollAfterChunk(i)
  BY <1>7, PollInv DEF PollAfterChunk
<1>8. CASE ServeOther(i)
  BY <1>8, TypesOf, MoveInv DEF ServeOther
<1> QED
  BY <1>1, <1>2, <1>3, <1>4, <1>5, <1>6, <1>7, <1>8, HandshakeInv, ServeListInv, ServeFileInv,
     PushInv DEF UploaderNext

-----------------------------------------------------------------------------
LEMMA StepInv == IInv /\ [Next]_vars => IInv'
<1> SUFFICES ASSUME IInv, [Next]_vars PROVE IInv'
  OBVIOUS
<1>1. CASE CoreNext
  <2>1. ASSUME NEW s \in SharingState, SetSharing(s) PROVE IInv'
    BY <2>1, SetSharingInv
  <2>2. ASSUME NEW u \in Users, NEW b \in BOOLEAN, set_user_is_allowed_state(u, b) PROVE IInv'
    BY <2>2, AllowedInv
  <2>3. ASSUME NEW b \in BOOLEAN, set_reverse_connection(b) PROVE IInv'
    BY <2>3, ReverseModeInv
  <2> QED
    BY <1>1, <2>1, <2>2, <2>3, ChangeSharingInv, StoreErrorInv, FetchErrorInv DEF CoreNext
<1>2. CASE UNCHANGED vars
  <2>1. UNCHANGED <<coreVars, errVars, receiver, mgrVars, caches, threadVars, commands, errors,
                    histVars>>
    BY <1>2 DEF vars
  <2>2. Account'
    BY <2>1 DEF IInv, Account, Owed, Shown, errVars, mgrVars
  <2> QED
    BY <2>1, <2>2, OutsideInv DEF IInv, TypeOK, coreVars, errVars
<1> QED
  BY <1>1, <1>2, ManagerNextInv, UploaderNextInv DEF Next

\* incoming_uploader.rs: IInv is an invariant, for any users, commands, uploader threads
\* and failures to listen.
THEOREM UploaderInvariant == Spec => []IInv
<1>1. Init => IInv
  BY InitInv
<1>2. IInv /\ [Next]_vars => IInv'
  BY StepInv
<1> QED
  BY <1>1, <1>2, PTL DEF Spec

\* Every variable keeps its type; with it, the manager never runs out of caches.
THEOREM UploaderTypeCorrect == Spec => []TypeOK
<1>1. IInv => TypeOK
  BY DEF IInv
<1> QED
  BY <1>1, UploaderInvariant, PTL

\* reset_connections: no uploader that the manager knows works for an old configuration,
\* with an old cache, or while sharing is off.
THEOREM RevocationIsComplete == Spec => []UploadersCurrent
<1>1. IInv => UploadersCurrent
  BY DEF IInv
<1> QED
  BY <1>1, UploaderInvariant, PTL

\* SingleUploader's polls: an uploader that was forgotten writes at most once more.
THEOREM RevocationIsPrompt == Spec => []AtMostOneLateWrite
<1>1. IInv => AtMostOneLateWrite
  BY DEF IInv, LateInv, AtMostOneLateWrite
<1> QED
  BY <1>1, UploaderInvariant, PTL

\* reverse_file_list_cache: who is in the manager's cache was sent the present list.
THEOREM CacheCorrect == Spec => []CacheIsCurrent
<1>1. IInv => CacheIsCurrent
  BY DEF IInv, CacheInv
<1> QED
  BY <1>1, UploaderInvariant, PTL

\* UploaderManager::run in reverse mode: of two living reverse connections to one user
\* the older is from before a reset, which told it to end; so no round adds a second one.
THEOREM ReverseConnectionsDiffer == Spec => []OneReverseConnectionPerUser
<1>1. IInv => OneReverseConnectionPerUser
  BY DEF IInv, ReverseInv
<1> QED
  BY <1>1, UploaderInvariant, PTL
=============================================================================
