-------------------------- MODULE ConfigFile_proofs --------------------------
(***************************************************************************)
(* Theorems about ConfigFile, for any names, files, passwords and numbers  *)
(* of calls, failures and crashes: the file and the memory agree between   *)
(* calls, a change of the password does not lose the configuration, and    *)
(* the nonce moves on, whatever sanitize_config and verify_config do.  For *)
(* that every component has the configuration in memory, and that removing *)
(* a user or a file is never refused, what they do is characterised first. *)
(***************************************************************************)
EXTENDS ConfigFile, FiniteSetTheorems, NaturalsInduction, WellFoundedInduction, TLAPS

\* The file of password p holds configuration c, or is torn.
FileHolds(p, c) ==
    \/ Expected(p) = Torn
    \/ /\ Written(Expected(p))
       /\ c \in {Expected(p).config_file, Sanitize(Expected(p).config_file)}
       /\ Expected(p).password = p

\* Two passwords under which different files are used.
OtherFile(p, q) == (p = None) # (q = None)

\* What is in the clear is in the one file, what is encrypted in the other.
FilesMatch ==
    /\ Written(json) => json.password = None
    /\ Written(etrc) => etrc.password # None

\* Where a call is, the file it may fall back on holds the configuration.
CallSafe ==
    /\ phase = "idle" => FileHolds(password, config_file)
    /\ phase \in {"open", "write"} =>
          /\ FileHolds(call.password, config_file)
          /\ password # call.password => OtherFile(password, call.password)
    /\ phase = "remove" =>
          /\ Written(Expected(password))
          /\ Expected(password).config_file = config_file
          /\ Expected(password).password = password
          /\ OtherFile(password, call.password)

\* A change of the password keeps the old file until it has written the new one.
KeptSafe ==
    kept # Absent =>
        /\ Written(kept)
        /\ kept \in {json, etrc}
        /\ phase \in {"open", "write", "remove", "down"}
        /\ phase # "down" => Expected(call.password) = kept /\ OtherFile(password, call.password)

\* How many increments, with a return to 0 after NONCE_MAX, lead from f to n.
Distance(f, n) == IF n >= f THEN n - f ELSE n - f + (NONCE_MAX + 1)

\* The nonce in memory is ahead of that of the encrypted file by one increment for each
\* call at most, and by one at least when the file is about to be overwritten.
NonceAhead ==
    /\ nonce \in 0..NONCE_MAX
    /\ calls \in 0..MaxCalls
    /\ Written(etrc) => etrc.nonce \in 0..NONCE_MAX
    /\ phase # "down" /\ phase # "create" /\ Written(etrc) => Distance(etrc.nonce, nonce) <= calls
    /\ phase = "open" /\ password # None /\ Written(etrc) => nonce # etrc.nonce
    /\ NonceMoves

IInv == FilesMatch /\ CallSafe /\ KeptSafe /\ NonceAhead

LEMMA Constants ==
    /\ NONCE_MAX \in Nat /\ MaxCalls \in Nat /\ MaxCalls <= NONCE_MAX /\ None \notin Passwords
    /\ OldNonces \subseteq 0..NONCE_MAX
BY ConfigAssumption

LEMMA Kinds == ~ Written(Absent) /\ ~ Written(Torn) /\ Absent # Torn
BY DEF Written, Absent, Torn

LEMMA ContentsOf ==
  ASSUME NEW c, NEW p, NEW n
  PROVE  /\ Written(Contents(c, p, n))
         /\ Contents(c, p, n).config_file = c
         /\ Contents(c, p, n).password = p
         /\ Contents(c, p, n).nonce = n
BY DEF Written, Contents

LEMMA NoDistance ==
  ASSUME NEW n \in 0..NONCE_MAX
  PROVE  Distance(n, n) = 0
BY Constants DEF Distance

\* A call increments the nonce once.
LEMMA BumpedDistance ==
  ASSUME NEW f \in 0..NONCE_MAX, NEW n \in 0..NONCE_MAX, NEW k \in Nat,
         k < NONCE_MAX, Distance(f, n) <= k
  PROVE  /\ Bumped(n) \in 0..NONCE_MAX
         /\ Distance(f, Bumped(n)) <= k + 1
         /\ Bumped(n) # f
BY Constants DEF Distance, Bumped

LEMMA BumpedType ==
  ASSUME NEW n \in 0..NONCE_MAX
  PROVE  Bumped(n) \in 0..NONCE_MAX
BY Constants DEF Bumped

LEMMA InitInv == Init => IInv
<1> SUFFICES ASSUME Init PROVE IInv
  OBVIOUS
<1>1. phase = "down" /\ json = Absent /\ kept = Absent /\ nonce = 0 /\ calls = 0
  BY DEF Init
<1>2. Written(etrc) => etrc.password # None /\ etrc.nonce \in 0..NONCE_MAX
  <2>1. CASE etrc = Absent
    BY <2>1, Kinds
  <2>2. CASE etrc # Absent
    <3>1. PICK p \in Passwords, n \in OldNonces : etrc = Contents(EmptyConfig, p, n)
      BY <2>2 DEF Init
    <3> QED
      BY <3>1, ContentsOf, Constants
  <2> QED
    BY <2>1, <2>2
<1> QED
  BY <1>1, <1>2, Constants, Kinds DEF IInv, FilesMatch, CallSafe, KeptSafe, NonceAhead, NonceMoves

-----------------------------------------------------------------------------
\* A call that reaches write_and_set_config, whatever configuration it has computed.
LEMMA SaveInv ==
  ASSUME IInv, NEW new, NEW p, NEW notify, Save(new, p, notify),
         p = password \/ OtherFile(p, password)
  PROVE  IInv'
<1> USE DEF IInv
<1>1. /\ phase = "idle" /\ calls < MaxCalls /\ calls' = calls + 1
      /\ nonce' = IF p = None THEN nonce ELSE Bumped(nonce)
      /\ config_file' = config_file /\ json' = json /\ etrc' = etrc
      /\ overwritten' = overwritten
  BY DEF Save, Idle, disk
<1>2. FileHolds(password, config_file)
  BY <1>1 DEF CallSafe
<1>3. kept = Absent
  BY <1>1 DEF KeptSafe
<1>4. FilesMatch'
  BY <1>1 DEF FilesMatch, Written
<1>5. /\ nonce' \in 0..NONCE_MAX /\ calls' \in 0..MaxCalls
      /\ Written(etrc) => Distance(etrc.nonce, nonce') <= calls'
      /\ p # None /\ Written(etrc) => nonce' # etrc.nonce
  <2>1. nonce \in 0..NONCE_MAX /\ calls \in Nat /\ calls < NONCE_MAX /\ calls' \in 0..MaxCalls
    BY <1>1, Constants DEF NonceAhead
  <2>2. Written(etrc) => etrc.nonce \in 0..NONCE_MAX /\ Distance(etrc.nonce, nonce) <= calls
    BY <1>1 DEF NonceAhead
  <2>3. CASE p = None
    <3>1. nonce' = nonce
      BY <1>1, <2>3
    <3>2. Written(etrc) => Distance(etrc.nonce, nonce) \in Nat
      BY <2>1, <2>2, Constants DEF Distance
    <3> QED
      BY <3>1, <3>2, <2>1, <2>2, <2>3, <1>1
  <2>4. CASE p # None
    BY <1>1, <2>1, <2>2, <2>4, BumpedDistance, BumpedType
  <2> QED
    BY <2>3, <2>4
<1>6. CASE /\ phase' = "open"
           /\ call' = [new |-> Sanitize(new), password |-> password, notify |-> notify,
                        rekey |-> new.my_private_id # config_file.my_private_id]
           /\ password' = p
           /\ kept' = IF p # password /\ Written(Expected(password)) THEN Expected(password) ELSE Absent
  <2>1. call'.password = password
    BY <1>6
  <2>2. CallSafe'
    BY <1>1, <1>2, <1>6, <2>1 DEF CallSafe, FileHolds, Expected, Written, OtherFile
  <2>3. KeptSafe'
    BY <1>1, <1>6, <2>1 DEF KeptSafe, Expected, Written, OtherFile
  <2>4. NonceAhead'
    BY <1>1, <1>5, <1>6 DEF NonceAhead, NonceMoves, Written
  <2> QED
    BY <1>4, <2>2, <2>3, <2>4
<1>7. CASE UNCHANGED <<phase, call, password, kept>>
  <2>1. CallSafe'
    BY <1>1, <1>2, <1>7 DEF CallSafe, FileHolds, Expected, Written
  <2>2. KeptSafe'
    BY <1>3, <1>7 DEF KeptSafe
  <2>3. NonceAhead'
    BY <1>1, <1>5, <1>7 DEF NonceAhead, NonceMoves, Written
  <2> QED
    BY <1>4, <2>1, <2>2, <2>3
<1> QED
  BY <1>6, <1>7 DEF Save

LEMMA OpenFileInv ==
  ASSUME IInv, OpenFile
  PROVE  IInv'
<1> USE DEF IInv
<1>1. /\ phase = "open" /\ phase' = "write" /\ SetExpected(password, Torn)
      /\ overwritten' = Expected(password)
      /\ config_file' = config_file /\ password' = password /\ nonce' = nonce
      /\ call' = call /\ kept' = kept /\ calls' = calls
  BY DEF OpenFile, process, bounds
<1>2. /\ password = None => json' = Torn /\ etrc' = etrc
      /\ password # None => etrc' = Torn /\ json' = json
  BY <1>1 DEF SetExpected
<1>3. FilesMatch'
  BY <1>2, Kinds DEF FilesMatch, Written
<1>4. FileHolds(call.password, config_file) /\ (password # call.password => OtherFile(password, call.password))
  BY <1>1 DEF CallSafe
<1>5. CallSafe'
  BY <1>1, <1>2, <1>4 DEF CallSafe, FileHolds, Expected, Written, OtherFile
<1>6. KeptSafe'
  BY <1>1, <1>2, Kinds DEF KeptSafe, Expected, OtherFile
<1>7. NonceAhead'
  BY <1>1, <1>2, Kinds DEF NonceAhead, NonceMoves, Expected, Written
<1> QED
  BY <1>3, <1>5, <1>6, <1>7

LEMMA WriteFileInv ==
  ASSUME IInv, WriteFile
  PROVE  IInv'
<1> USE DEF IInv
<1> DEFINE file == Contents(call.new, password, nonce)
<1>1. /\ phase = "write" /\ SetExpected(password, file) /\ config_file' = call.new
      /\ password' = password /\ nonce' = nonce /\ kept' = kept /\ overwritten' = overwritten
      /\ calls' = calls
  BY DEF WriteFile, history, bounds
<1>2. \/ password # call.password /\ phase' = "remove" /\ call' = call
      \/ password = call.password /\ phase' = "idle"
  BY DEF WriteFile
<1>3. /\ password = None => json' = file /\ etrc' = etrc
      /\ password # None => etrc' = file /\ json' = json
  BY <1>1 DEF SetExpected
<1>4. /\ Written(file) /\ file.config_file = call.new /\ file.password = password
      /\ file.nonce = nonce
  BY ContentsOf
<1> HIDE DEF file
<1>5. FilesMatch'
  BY <1>3, <1>4 DEF FilesMatch, Written
<1>6. password # call.password => OtherFile(password, call.password)
  BY <1>1 DEF CallSafe
<1>7. CallSafe'
  BY <1>1, <1>2, <1>3, <1>4, <1>6 DEF CallSafe, FileHolds, Expected, Written, OtherFile
<1>8. KeptSafe'
  BY <1>1, <1>2, <1>3, Kinds DEF KeptSafe, Expected, OtherFile, Written
<1>9. NonceAhead'
  <2>1. nonce \in 0..NONCE_MAX /\ calls \in Nat /\ calls' \in 0..MaxCalls
    BY <1>1 DEF NonceAhead
  <2>2. Distance(nonce, nonce) <= calls
    BY <2>1, NoDistance
  <2>3. Written(etrc)' => etrc'.nonce \in 0..NONCE_MAX /\ Distance(etrc'.nonce, nonce) <= calls
    BY <1>1, <1>3, <1>4, <2>1, <2>2 DEF NonceAhead, Written
  <2> QED
    BY <1>1, <1>2, <2>1, <2>3 DEF NonceAhead, NonceMoves, Written, Distance
<1> QED
  BY <1>5, <1>7, <1>8, <1>9

LEMMA CreateFileInv ==
  ASSUME IInv, CreateFile
  PROVE  IInv'
<1> USE DEF IInv
<1> DEFINE file == Contents(call.new, call.password, 0)
<1>1. /\ phase = "create" /\ phase' = "down" /\ SetExpected(call.password, file)
      /\ nonce' = nonce /\ kept' = kept /\ calls' = calls
  BY DEF CreateFile, process, history, bounds
<1>2. /\ call.password = None => json' = file /\ etrc' = etrc
      /\ call.password # None => etrc' = file /\ json' = json
  BY <1>1 DEF SetExpected
<1>3. Written(file) /\ file.password = call.password /\ file.nonce = 0 /\ 0 \in 0..NONCE_MAX
  BY ContentsOf, Constants
<1> HIDE DEF file
<1>4. FilesMatch'
  BY <1>2, <1>3 DEF FilesMatch, Written
<1>5. CallSafe'
  BY <1>1 DEF CallSafe
<1>6. KeptSafe'
  BY <1>1 DEF KeptSafe
<1>7. NonceAhead'
  BY <1>1, <1>2, <1>3 DEF NonceAhead, NonceMoves, Written
<1> QED
  BY <1>4, <1>5, <1>6, <1>7

LEMMA WriteFailsInv ==
  ASSUME IInv, WriteFails
  PROVE  IInv'
<1> USE DEF IInv
<1>1. /\ phase \in {"open", "write"} /\ phase' = "idle" /\ password' = call.password
      /\ kept' = Absent /\ config_file' = config_file /\ nonce' = nonce
      /\ json' = json /\ etrc' = etrc /\ calls' = calls
  BY DEF WriteFails, disk
<1>2. FilesMatch' /\ KeptSafe'
  BY <1>1 DEF FilesMatch, KeptSafe, Written
<1>3. CallSafe'
  BY <1>1 DEF CallSafe, FileHolds, Expected, Written
<1>4. NonceAhead'
  BY <1>1 DEF NonceAhead, NonceMoves, Written, Distance
<1> QED
  BY <1>2, <1>3, <1>4

LEMMA RemoveInv ==
  ASSUME IInv, RemoveFile \/ RemoveFails
  PROVE  IInv'
<1> USE DEF IInv
<1>1. /\ phase = "remove" /\ phase' = "idle" /\ kept' = Absent
      /\ password' = password /\ config_file' = config_file /\ nonce' = nonce /\ calls' = calls
      /\ RemoveOther(password) \/ (json' = json /\ etrc' = etrc)
  BY DEF RemoveFile, RemoveFails, process, bounds, disk
<1>2. /\ json' = json \/ (json' = Absent /\ password # None)
      /\ etrc' = etrc \/ (etrc' = Absent /\ password = None)
  BY <1>1 DEF RemoveOther
<1>3. FilesMatch' /\ KeptSafe'
  BY <1>1, <1>2, Kinds DEF FilesMatch, KeptSafe, Written
<1>4. CallSafe'
  BY <1>1, <1>2 DEF CallSafe, FileHolds, Expected, Written
<1>5. NonceAhead'
  BY <1>1, <1>2, Kinds DEF NonceAhead, NonceMoves, Written, Distance
<1> QED
  BY <1>3, <1>4, <1>5

LEMMA CrashInv ==
  ASSUME IInv, Crash
  PROVE  IInv'
<1> USE DEF IInv
<1>1. /\ phase # "down" /\ phase' = "down" /\ nonce' = 0
      /\ json' = json /\ etrc' = etrc /\ kept' = kept /\ calls' = calls
  BY DEF Crash, disk, history
<1>2. FilesMatch' /\ CallSafe'
  BY <1>1 DEF FilesMatch, CallSafe, Written
<1>3. KeptSafe'
  BY <1>1 DEF KeptSafe, Written
<1>4. NonceAhead'
  BY <1>1, Constants DEF NonceAhead, NonceMoves, Written
<1> QED
  BY <1>2, <1>3, <1>4

LEMMA FirstStartInv ==
  ASSUME IInv, FirstStart
  PROVE  IInv'
<1> USE DEF IInv
<1>1. /\ phase = "down" /\ phase' = "create" /\ Preferred = Absent
      /\ nonce' = nonce /\ kept' = kept /\ calls' = calls
  BY DEF FirstStart, process, history, bounds
<1>2. json = Absent /\ etrc = Absent
  BY <1>1 DEF Preferred
<1>3. json' \in {Absent, Torn} /\ etrc' \in {Absent, Torn}
  BY <1>2 DEF FirstStart, SetExpected
<1>4. ~ Written(json') /\ ~ Written(etrc')
  BY <1>3, Kinds
<1>5. kept = Absent
  BY <1>2, Kinds DEF KeptSafe
<1>6. FilesMatch' /\ CallSafe' /\ KeptSafe'
  BY <1>1, <1>4, <1>5 DEF FilesMatch, CallSafe, KeptSafe, Written
<1>7. NonceAhead'
  BY <1>1, <1>4 DEF NonceAhead, NonceMoves, Written
<1> QED
  BY <1>6, <1>7

LEMMA StartInv ==
  ASSUME IInv, Start
  PROVE  IInv'
<1> USE DEF IInv
<1>1. /\ phase' = "idle" /\ Written(Preferred) /\ config_file' = Sanitize(Preferred.config_file)
      /\ password' = Preferred.password /\ kept' = Absent
      /\ nonce' = IF Preferred.password = None THEN 0 ELSE Preferred.nonce
      /\ json' = json /\ etrc' = etrc /\ calls' = calls
  BY DEF Start, disk, bounds
<1>2. /\ etrc # Absent => Preferred = etrc /\ etrc.password # None
      /\ etrc = Absent => Preferred = json /\ json.password = None
  BY <1>1 DEF Preferred, FilesMatch
<1>3. FilesMatch' /\ KeptSafe'
  BY <1>1 DEF FilesMatch, KeptSafe, Written
<1>4. CallSafe'
  BY <1>1, <1>2 DEF CallSafe, FileHolds, Expected, Written
<1>5. NonceAhead'
  <2>1. CASE etrc # Absent
    <3>1. nonce' = etrc.nonce /\ etrc.nonce \in 0..NONCE_MAX /\ calls \in Nat
      BY <1>1, <1>2, <2>1 DEF NonceAhead
    <3>2. Distance(etrc.nonce, etrc.nonce) <= calls
      BY <3>1, NoDistance
    <3>3. Distance(etrc.nonce, nonce)' <= calls
      BY <3>1, <3>2, <1>1 DEF Distance
    <3> QED
      BY <3>1, <3>3, <1>1 DEF NonceAhead, NonceMoves, Written
  <2>2. CASE etrc = Absent
    BY <2>2, <1>1, <1>2, Kinds, Constants DEF NonceAhead, NonceMoves, Written
  <2> QED
    BY <2>1, <2>2
<1> QED
  BY <1>3, <1>4, <1>5

\* A call that writes nothing, as there is nothing to change.
LEMMA QuietInv ==
  ASSUME IInv,
         UNCHANGED <<phase, config_file, password, nonce, call, json, etrc, kept, overwritten, calls>>
  PROVE  IInv'
<1>1. FilesMatch' /\ CallSafe' /\ KeptSafe'
  BY DEF IInv, FilesMatch, CallSafe, KeptSafe, Written, FileHolds, Expected, OtherFile
<1>2. NonceAhead'
  BY DEF IInv, NonceAhead, NonceMoves, Written, Distance
<1> QED
  BY <1>1, <1>2 DEF IInv

\* The calls of TransmiticCore.
LEMMA CallInv ==
  ASSUME IInv, NEW notify, NEW new, Save(new, password, notify)
  PROVE  IInv'
BY SaveInv

LEMMA StepInv ==
  ASSUME IInv, [Next]_vars
  PROVE  IInv'
<1>1. ASSUME add_files PROVE IInv'
  BY <1>1, CallInv DEF add_files
<1>2. ASSUME add_new_user PROVE IInv'
  BY <1>2, CallInv DEF add_new_user
<1>3. ASSUME add_user_to_shared PROVE IInv'
  <2>1. PICK n \in Nicknames, f \in Elements(config_file.shared_files) :
          \/ Save(Shared(config_file, Plain(n), f.path), password, {"uploader"})
          \/ UNCHANGED <<phase, config_file, local_private_key, password, nonce, downloader,
                         call, disk, history, bounds>>
    BY <1>3 DEF add_user_to_shared
  <2> QED
    BY <2>1, CallInv, QuietInv DEF disk, history, bounds
<1>4. ASSUME create_new_id PROVE IInv'
  BY <1>4, CallInv DEF create_new_id
<1>5. ASSUME remove_file_from_sharing PROVE IInv'
  BY <1>5, CallInv DEF remove_file_from_sharing
<1>6. ASSUME remove_user_from_sharing PROVE IInv'
  BY <1>6, CallInv DEF remove_user_from_sharing
<1>7. ASSUME remove_user PROVE IInv'
  BY <1>7, CallInv DEF remove_user
<1>8. ASSUME set_port PROVE IInv'
  BY <1>8, CallInv DEF set_port
<1>9. ASSUME set_path_downloads_dir PROVE IInv'
  BY <1>9, CallInv DEF set_path_downloads_dir
<1>10. ASSUME set_ignore_incoming PROVE IInv'
  BY <1>10, CallInv DEF set_ignore_incoming
<1>11. ASSUME set_reverse_connection PROVE IInv'
  BY <1>11, CallInv DEF set_reverse_connection
<1>12. ASSUME set_user_is_allowed_state PROVE IInv'
  BY <1>12, CallInv DEF set_user_is_allowed_state
<1>13. ASSUME update_user PROVE IInv'
  BY <1>13, CallInv DEF update_user
<1>14. ASSUME encrypt_config PROVE IInv'
  <2>1. PICK p \in Passwords : Save(config_file, p, {})
    BY <1>14 DEF encrypt_config
  <2>2. OtherFile(p, password)
    BY <1>14, Constants DEF encrypt_config, OtherFile
  <2> QED
    BY <2>1, <2>2, SaveInv
<1>15. ASSUME decrypt_config PROVE IInv'
  <2>1. Save(config_file, None, {}) /\ OtherFile(None, password)
    BY <1>15 DEF decrypt_config, OtherFile
  <2> QED
    BY <2>1, SaveInv
<1>16. ASSUME OpenFile PROVE IInv'
  BY <1>16, OpenFileInv
<1>17. ASSUME WriteFile PROVE IInv'
  BY <1>17, WriteFileInv
<1>18. ASSUME CreateFile PROVE IInv'
  BY <1>18, CreateFileInv
<1>19. ASSUME WriteFails PROVE IInv'
  BY <1>19, WriteFailsInv
<1>20. ASSUME RemoveFile \/ RemoveFails PROVE IInv'
  BY <1>20, RemoveInv
<1>21. ASSUME Crash PROVE IInv'
  BY <1>21, CrashInv
<1>22. ASSUME FirstStart PROVE IInv'
  BY <1>22, FirstStartInv
<1>23. ASSUME Start PROVE IInv'
  BY <1>23, StartInv
<1>24. ASSUME UNCHANGED vars PROVE IInv'
  BY <1>24, QuietInv DEF vars, process, disk, history, bounds
<1> QED
  BY <1>1, <1>2, <1>3, <1>4, <1>5, <1>6, <1>7, <1>8, <1>9, <1>10, <1>11, <1>12, <1>13, <1>14,
     <1>15, <1>16, <1>17, <1>18, <1>19, <1>20, <1>21, <1>22, <1>23, <1>24 DEF Next

-----------------------------------------------------------------------------
\* The inductive invariant: which file a call may fall back on at each of its steps,
\* and how far the nonce is ahead of the encrypted file.
THEOREM ConfigInvariant == Spec => []IInv
<1>1. Init => IInv
  BY InitInv
<1>2. IInv /\ [Next]_vars => IInv'
  BY StepInv
<1> QED
  BY <1>1, <1>2, PTL DEF Spec

\* Between two calls the file agrees with memory, whatever was written, refused or
\* interrupted (write_and_set_config).
THEOREM DurableConfig == Spec => []Durable
<1>1. IInv => Durable
  BY DEF IInv, CallSafe, FileHolds, Durable
<1> QED
  BY <1>1, ConfigInvariant, PTL

\* At every step of encrypt_config and decrypt_config, and after every way in which they
\* end, one of the two files holds the configuration.
THEOREM SwitchIsSafe == Spec => []SwitchKeepsConfig
<1>1. IInv => SwitchKeepsConfig
  BY DEF IInv, KeptSafe, SwitchKeepsConfig
<1> QED
  BY <1>1, ConfigInvariant, PTL

\* For every number of calls up to NONCE_MAX an encrypted configuration replaces one
\* with another nonce, the return to 0 included.
THEOREM NonceAlwaysMoves == Spec => []NonceMoves
<1>1. IInv => NonceMoves
  BY DEF IInv, NonceAhead
<1> QED
  BY <1>1, ConfigInvariant, PTL
-----------------------------------------------------------------------------
(* Sequences: what is left of one by Retained, and what Sorted makes of    *)
(* one, has some of its elements, each from a place of its own.            *)

\* The elements of r are elements of s, at other places perhaps, but none twice.
TakenFrom(r, s) ==
    \E m \in [DOMAIN r -> DOMAIN s] :
        /\ \A i, j \in DOMAIN r : m[i] = m[j] => i = j
        /\ \A i \in DOMAIN r : r[i] = s[m[i]]

\* A set of naturals that is not empty has a least element.
LEMMA NatMin ==
  ASSUME NEW T \in SUBSET Nat, T # {}
  PROVE  \E n \in T : \A m \in T : n <= m
<1>1. PICK x \in T : \A y \in T : ~ (<<y, x>> \in OpToRel(<, Nat))
  BY WFMin, NatLessThanWellFounded
<1>2. \A a, b \in Nat : a < b => <<a, b>> \in OpToRel(<, Nat)
  BY DEF OpToRel
<1>3. ASSUME NEW y \in T PROVE x <= y
  <2>1. x \in Nat /\ y \in Nat
    OBVIOUS
  <2>2. ~ (y < x)
    BY <1>1, <1>2, <2>1
  <2> QED
    BY <2>1, <2>2
<1> QED
  BY <1>3

\* The i-th value of Retained's recursive function F, and the functions on 0..k that obey
\* its equation.
RetainStep(s, T, F, i) ==
    IF i = 0 THEN <<>> ELSE IF s[i] \in T THEN Append(F[i - 1], s[i]) ELSE F[i - 1]

Runs(S, s, T, k) ==
    {F \in [0..k -> Seq(S)] : \A i \in 0..k : F[i] = RetainStep(s, T, F, i)}

\* There is one for every k.
LEMMA RunExists ==
  ASSUME NEW S, NEW s \in Seq(S), NEW T, NEW k \in 0..Len(s)
  PROVE  Runs(S, s, T, k) # {}
<1> DEFINE Bad == {j \in 0..Len(s) : Runs(S, s, T, j) = {}}
<1>1. SUFFICES ASSUME Bad # {} PROVE FALSE
  OBVIOUS
<1>2. PICK n \in Bad : \A m \in Bad : n <= m
  <2> Bad \in SUBSET Nat
    OBVIOUS
  <2> HIDE DEF Bad
  <2> QED
    BY <1>1, NatMin
<1>3. n \in 0..Len(s) /\ n \in Nat /\ Runs(S, s, T, n) = {}
  BY <1>2
<1>4. CASE n = 0
  <2>1. [i \in 0..0 |-> <<>>] \in Runs(S, s, T, 0)
    BY DEF Runs, RetainStep
  <2> QED
    BY <1>3, <1>4, <2>1
<1>5. CASE n # 0
  <2>1. n - 1 \in 0..Len(s) /\ n - 1 \notin Bad
    BY <1>2, <1>3, <1>5
  <2>2. PICK F \in [0..(n - 1) -> Seq(S)] : \A i \in 0..(n - 1) : F[i] = RetainStep(s, T, F, i)
    BY <2>1 DEF Runs
  <2> DEFINE v == RetainStep(s, T, F, n)
             G == [i \in 0..n |-> IF i = n THEN v ELSE F[i]]
  <2>3. v \in Seq(S)
    <3>1. F[n - 1] \in Seq(S) /\ s[n] \in S
      BY <1>3, <1>5, <2>2
    <3>2. Append(F[n - 1], s[n]) \in Seq(S)
      BY <3>1
    <3> QED
      BY <1>5, <3>1, <3>2 DEF RetainStep
  <2> HIDE DEF v
  <2>4. G \in [0..n -> Seq(S)]
    <3>1. \A i \in 0..n : i # n => i \in 0..(n - 1)
      BY <1>3
    <3> QED
      BY <2>2, <2>3, <3>1
  <2>5. ASSUME NEW i \in 0..n PROVE G[i] = RetainStep(s, T, G, i)
    <3>1. CASE i = n
      <4>1. G[i] = v /\ G[i - 1] = F[n - 1]
        BY <1>3, <1>5, <3>1
      <4> HIDE DEF G
      <4> QED
        BY <1>5, <3>1, <4>1 DEF RetainStep, v
    <3>2. CASE i # n
      <4>1. i \in 0..(n - 1) /\ G[i] = F[i]
        BY <1>3, <3>2
      <4>2. i # 0 => G[i - 1] = F[i - 1]
        BY <1>3, <3>2
      <4>3. F[i] = RetainStep(s, T, F, i)
        BY <2>2, <4>1
      <4> HIDE DEF G
      <4> QED
        BY <4>1, <4>2, <4>3 DEF RetainStep
    <3> QED
      BY <3>1, <3>2
  <2>6. G \in Runs(S, s, T, n)
    <3> HIDE DEF G
    <3> QED
      BY <2>4, <2>5 DEF Runs
  <2> QED
    BY <1>3, <2>6
<1> QED
  BY <1>4, <1>5

\* What r is of s: a sequence of the elements in T, each from a place of its own.
LeftOf(S, r, s, n, T) ==
    /\ r \in Seq(S)
    /\ \E m \in [1..Len(r) -> 1..n] :
          /\ \A i, j \in 1..Len(r) : m[i] = m[j] => i = j
          /\ \A i \in 1..Len(r) : r[i] = s[m[i]]
    /\ \A i \in 1..Len(r) : r[i] \in T
    /\ \A j \in 1..n : s[j] \in T => \E i \in 1..Len(r) : r[i] = s[j]

\* One more element is looked at, and kept or not.
LEMMA LeftGrows ==
  ASSUME NEW S, NEW s \in Seq(S), NEW T, NEW n \in Nat, n + 1 \in 1..Len(s),
         NEW r, LeftOf(S, r, s, n, T)
  PROVE  LeftOf(S, IF s[n + 1] \in T THEN Append(r, s[n + 1]) ELSE r, s, n + 1, T)
<1> PICK m \in [1..Len(r) -> 1..n] :
          /\ \A i, j \in 1..Len(r) : m[i] = m[j] => i = j
          /\ \A i \in 1..Len(r) : r[i] = s[m[i]]
  BY DEF LeftOf
<1>1. /\ r \in Seq(S) /\ s[n + 1] \in S /\ Len(r) \in Nat
      /\ \A i \in 1..Len(r) : r[i] \in T
      /\ \A j \in 1..n : s[j] \in T => \E i \in 1..Len(r) : r[i] = s[j]
  BY DEF LeftOf
<1>2. CASE s[n + 1] \notin T
  <2>1. m \in [1..Len(r) -> 1..(n + 1)]
    BY <1>1
  <2>2. \A j \in 1..(n + 1) : j \in 1..n \/ j = n + 1
    OBVIOUS
  <2>3. \A j \in 1..(n + 1) : s[j] \in T => \E i \in 1..Len(r) : r[i] = s[j]
    BY <1>1, <1>2, <2>2
  <2> QED
    BY <1>1, <1>2, <2>1, <2>3 DEF LeftOf
<1>3. CASE s[n + 1] \in T
  <2> DEFINE q == Append(r, s[n + 1])
             p == [i \in 1..Len(q) |-> IF i = Len(q) THEN n + 1 ELSE m[i]]
  <2>1. /\ q \in Seq(S) /\ Len(q) = Len(r) + 1 /\ q[Len(q)] = s[n + 1]
        /\ \A i \in 1..Len(r) : q[i] = r[i]
    BY <1>1
  <2> HIDE DEF q
  <2>2. \A i \in 1..Len(q) : i # Len(q) => i \in 1..Len(r)
    BY <1>1, <2>1
  <2>3. /\ \A i \in 1..Len(r) : i \in 1..Len(q) /\ i # Len(q)
        /\ Len(q) \in 1..Len(q)
    BY <1>1, <2>1
  <2>4. p \in [1..Len(q) -> 1..(n + 1)]
    <3>1. \A i \in 1..Len(r) : m[i] \in 1..(n + 1)
      OBVIOUS
    <3> QED
      BY <2>2, <3>1
  <2>5. \A i \in 1..Len(r) : p[i] = m[i] /\ m[i] # n + 1
    <3>1. \A i \in 1..Len(r) : p[i] = m[i]
      BY <2>3
    <3> QED
      BY <3>1
  <2>6. p[Len(q)] = n + 1
    BY <2>3
  <2> HIDE DEF p
  <2>7. \A i, j \in 1..Len(q) : p[i] = p[j] => i = j
    BY <2>2, <2>5, <2>6
  <2>8. \A i \in 1..Len(q) : q[i] = s[p[i]] /\ q[i] \in T
    BY <1>1, <1>3, <2>1, <2>2, <2>5, <2>6
  <2>9. ASSUME NEW j \in 1..(n + 1), s[j] \in T
        PROVE  \E i \in 1..Len(q) : q[i] = s[j]
    <3>1. CASE j = n + 1
      BY <2>1, <2>3, <3>1
    <3>2. CASE j # n + 1
      <4>1. PICK i \in 1..Len(r) : r[i] = s[j]
        BY <1>1, <2>9, <3>2
      <4> QED
        BY <2>1, <2>3, <4>1
    <3> QED
      BY <3>1, <3>2
  <2>10. \E l \in [1..Len(q) -> 1..(n + 1)] :
            /\ \A i, j \in 1..Len(q) : l[i] = l[j] => i = j
            /\ \A i \in 1..Len(q) : q[i] = s[l[i]]
    <3>1. \A i \in 1..Len(q) : q[i] = s[p[i]]
      BY <2>8
    <3> WITNESS p \in [1..Len(q) -> 1..(n + 1)]
    <3> QED
      BY <2>7, <3>1
  <2>11. LeftOf(S, q, s, n + 1, T)
    BY <2>1, <2>8, <2>9, <2>10 DEF LeftOf
  <2> QED
    BY <1>3, <2>11 DEF q
<1> QED
  BY <1>2, <1>3

\* Vec::retain leaves the elements it is to keep, and nothing else.
LEMMA RetainedLeft ==
  ASSUME NEW S, NEW s \in Seq(S), NEW T
  PROVE  LeftOf(S, Retained(s, T), s, Len(s), T)
<1>1. PICK F \in [0..Len(s) -> Seq(S)] : \A i \in 0..Len(s) : F[i] = RetainStep(s, T, F, i)
  <2>1. Len(s) \in 0..Len(s)
    OBVIOUS
  <2>2. PICK F : F \in Runs(S, s, T, Len(s))
    BY <2>1, RunExists
  <2> QED
    BY <2>2 DEF Runs
<1> DEFINE H == CHOOSE G : G = [i \in 0..Len(s) |->
                    IF i = 0 THEN <<>>
                    ELSE IF s[i] \in T THEN Append(G[i - 1], s[i]) ELSE G[i - 1]]
<1>2. F = [i \in 0..Len(s) |-> IF i = 0 THEN <<>>
                    ELSE IF s[i] \in T THEN Append(F[i - 1], s[i]) ELSE F[i - 1]]
  BY <1>1 DEF RetainStep
<1>3. H = [i \in 0..Len(s) |-> IF i = 0 THEN <<>>
                    ELSE IF s[i] \in T THEN Append(H[i - 1], s[i]) ELSE H[i - 1]]
  BY <1>2
<1>4. Retained(s, T) = H[Len(s)]
  BY DEF Retained
<1> HIDE DEF H
<1>5. /\ H[0] = <<>>
      /\ \A n \in Nat : n + 1 \in 1..Len(s) =>
           H[n + 1] = IF s[n + 1] \in T THEN Append(H[n], s[n + 1]) ELSE H[n]
  <2>1. H[0] = <<>>
    BY <1>3
  <2>2. ASSUME NEW n \in Nat, n + 1 \in 1..Len(s)
        PROVE  H[n + 1] = IF s[n + 1] \in T THEN Append(H[n], s[n + 1]) ELSE H[n]
    <3>1. n + 1 \in 0..Len(s) /\ n + 1 # 0 /\ (n + 1) - 1 = n
      BY <2>2
    <3> QED
      BY <1>3, <3>1
  <2> QED
    BY <2>1, <2>2
<1> DEFINE Bad == {j \in 0..Len(s) : ~ LeftOf(S, H[j], s, j, T)}
<1>6. Bad = {}
  <2>1. SUFFICES ASSUME Bad # {} PROVE FALSE
    OBVIOUS
  <2>2. PICK n \in Bad : \A m \in Bad : n <= m
    <3> Bad \in SUBSET Nat
      OBVIOUS
    <3> HIDE DEF Bad
    <3> QED
      BY <2>1, NatMin
  <2>3. n \in 0..Len(s) /\ n \in Nat /\ ~ LeftOf(S, H[n], s, n, T)
    BY <2>2
  <2>4. n # 0
    <3>1. LeftOf(S, <<>>, s, 0, T)
      <4> DEFINE e == <<>>
      <4>1. e \in Seq(S) /\ Len(e) = 0 /\ 1..0 = {}
        OBVIOUS
      <4>2. e \in [1..0 -> 1..0]
        OBVIOUS
      <4> HIDE DEF e
      <4>3. \E m \in [1..Len(e) -> 1..0] :
               /\ \A i, j \in 1..Len(e) : m[i] = m[j] => i = j
               /\ \A i \in 1..Len(e) : e[i] = s[m[i]]
        BY <4>1, <4>2
      <4>4. LeftOf(S, e, s, 0, T)
        BY <4>1, <4>3 DEF LeftOf
      <4> QED
        BY <4>4 DEF e
    <3> QED
      BY <1>5, <2>3, <3>1
  <2>5. PICK k \in Nat : n = k + 1
    <3>1. n - 1 \in Nat /\ n = (n - 1) + 1
      BY <2>3, <2>4
    <3> QED
      BY <3>1
  <2>6. k \in 0..Len(s) /\ k \notin Bad /\ k + 1 \in 1..Len(s)
    BY <2>2, <2>3, <2>5
  <2>7. LeftOf(S, H[k], s, k, T)
    BY <2>6
  <2>8. H[k + 1] = IF s[k + 1] \in T THEN Append(H[k], s[k + 1]) ELSE H[k]
    BY <1>5, <2>6
  <2>9. LeftOf(S, H[k + 1], s, k + 1, T)
    <3> HIDE DEF Bad
    <3> QED
      BY <2>6, <2>7, <2>8, LeftGrows
  <2> QED
    BY <2>3, <2>5, <2>9
<1> QED
  BY <1>4, <1>6

LEMMA RetainedOf ==
  ASSUME NEW S, NEW s \in Seq(S), NEW T
  PROVE  /\ Retained(s, T) \in Seq(S)
         /\ TakenFrom(Retained(s, T), s)
         /\ Elements(Retained(s, T)) = Elements(s) \cap T
<1> DEFINE r == Retained(s, T)
<1>1. LeftOf(S, r, s, Len(s), T)
  BY RetainedLeft
<1> HIDE DEF r
<1>2. r \in Seq(S) /\ DOMAIN r = 1..Len(r) /\ DOMAIN s = 1..Len(s)
  BY <1>1 DEF LeftOf
<1>3. TakenFrom(r, s)
  BY <1>1, <1>2 DEF LeftOf, TakenFrom
<1>4. Elements(r) \subseteq Elements(s) \cap T
  <2>1. \A i \in 1..Len(r) : r[i] \in T /\ \E j \in 1..Len(s) : r[i] = s[j]
    BY <1>1 DEF LeftOf
  <2> QED
    BY <1>2, <2>1 DEF Elements
<1>5. Elements(s) \cap T \subseteq Elements(r)
  <2>1. \A j \in 1..Len(s) : s[j] \in T => \E i \in 1..Len(r) : r[i] = s[j]
    BY <1>1 DEF LeftOf
  <2> QED
    BY <1>2, <2>1 DEF Elements
<1> QED
  BY <1>2, <1>3, <1>4, <1>5 DEF r

\* Sets of places of which one is always within the other are told apart by their sizes,
\* and n of them have all sizes below n.
LEMMA SizesOfNested ==
  ASSUME NEW n \in Nat, NEW B \in [1..n -> SUBSET (1..n)],
         \A i \in 1..n : i \notin B[i],
         \A i, j \in 1..n : i # j =>
            \/ B[i] \subseteq B[j] /\ B[i] # B[j]
            \/ B[j] \subseteq B[i] /\ B[i] # B[j]
  PROVE  /\ \A i \in 1..n : Cardinality(B[i]) \in 0..(n - 1)
         /\ \A i, j \in 1..n : Cardinality(B[i]) = Cardinality(B[j]) => i = j
         /\ \A k \in 1..n : \E i \in 1..n : Cardinality(B[i]) = k - 1
<1>1. IsFiniteSet(1..n) /\ Cardinality(1..n) = n
  BY FS_Interval
<1>2. ASSUME NEW T \in SUBSET (1..n)
      PROVE  IsFiniteSet(T) /\ Cardinality(T) \in Nat /\ Cardinality(T) <= n
  <2>1. IsFiniteSet(T) /\ Cardinality(T) <= Cardinality(1..n)
    BY <1>1, FS_Subset, Zenon
  <2>2. Cardinality(T) \in Nat
    BY <2>1, FS_CardinalityType, Zenon
  <2> QED
    BY <1>1, <2>1, <2>2
<1>3. \A T, U \in SUBSET (1..n) : T \subseteq U /\ T # U => Cardinality(T) # Cardinality(U)
  BY <1>2, FS_Subset
<1>4. \A i, j \in 1..n : Cardinality(B[i]) = Cardinality(B[j]) => i = j
  BY <1>3
<1>5. ASSUME NEW i \in 1..n PROVE Cardinality(B[i]) \in 0..(n - 1)
  <2>1. Cardinality(B[i]) # Cardinality(1..n)
    BY <1>3
  <2> QED
    BY <1>1, <1>2, <2>1
<1> DEFINE c == [i \in 1..n |-> Cardinality(B[i])]
<1>6. c \in [1..n -> 0..(n - 1)]
  BY <1>5
<1>7. c \in Injection(1..n, 0..(n - 1))
  BY <1>4, <1>6 DEF Injection, IsInjective
<1>8. IsFiniteSet(0..(n - 1)) /\ Cardinality(0..(n - 1)) = n
  <2>1. 0 \in Int /\ n - 1 \in Int /\ (n - 1) - 0 + 1 = n /\ (0 > n - 1 => n = 0)
    OBVIOUS
  <2>2. /\ IsFiniteSet(0..(n - 1))
        /\ Cardinality(0..(n - 1)) = IF 0 > n - 1 THEN 0 ELSE (n - 1) - 0 + 1
    BY <2>1, FS_Interval
  <2> QED
    BY <2>1, <2>2
<1>9. c \in Surjection(1..n, 0..(n - 1))
  <2> HIDE DEF c
  <2> QED
    BY <1>1, <1>7, <1>8, FS_Injection
<1>10. ASSUME NEW k \in 1..n PROVE \E i \in 1..n : Cardinality(B[i]) = k - 1
  <2>1. k - 1 \in 0..(n - 1)
    OBVIOUS
  <2>2. PICK i \in 1..n : c[i] = k - 1
    BY <1>9, <2>1 DEF Surjection
  <2> QED
    BY <2>2
<1> QED
  BY <1>4, <1>5, <1>10

LEMMA SortKeyType ==
  ASSUME NEW u \in SharedUser
  PROVE  SortKey(u.nickname) \in Nat
<1>1. u.nickname.name \in Nicknames
  BY DEF SharedUser, Text
<1> QED
  BY <1>1, ConfigAssumption DEF SortKey

\* The stable sort only moves the users.
LEMMA SortedOf ==
  ASSUME NEW users \in Seq(SharedUser)
  PROVE  /\ Sorted(users) \in Seq(SharedUser)
         /\ DOMAIN Sorted(users) = DOMAIN users
         /\ TakenFrom(Sorted(users), users)
         /\ Elements(Sorted(users)) = Elements(users)
<1> DEFINE n == Len(users)
           Before(i) == {j \in DOMAIN users :
                        \/ SortKey(users[j].nickname) < SortKey(users[i].nickname)
                        \/ SortKey(users[j].nickname) = SortKey(users[i].nickname) /\ j < i}
           B == [i \in 1..n |-> Before(i)]
           p == [k \in 1..n |-> CHOOSE i \in 1..n : Cardinality(Before(i)) = k - 1]
<1>1. n \in Nat /\ DOMAIN users = 1..n /\ users \in [1..n -> SharedUser]
  OBVIOUS
<1>2. Sorted(users) = [k \in 1..n |-> users[p[k]]]
  BY <1>1 DEF Sorted
<1>3. \A i \in 1..n : SortKey(users[i].nickname) \in Nat
  BY <1>1, SortKeyType
<1> HIDE DEF n
<1>4. B \in [1..n -> SUBSET (1..n)]
  BY <1>1
<1>5. \A i \in 1..n : i \notin B[i]
  BY <1>1, <1>3
<1>6. ASSUME NEW i \in 1..n, NEW j \in 1..n,
             \/ SortKey(users[i].nickname) < SortKey(users[j].nickname)
             \/ SortKey(users[i].nickname) = SortKey(users[j].nickname) /\ i < j
      PROVE  B[i] \subseteq B[j] /\ B[i] # B[j]
  <2>1. i \in B[j] /\ i \notin B[i]
    BY <1>1, <1>5, <1>6
  <2>2. ASSUME NEW h \in B[i] PROVE h \in B[j]
    <3>1. h \in 1..n
      BY <1>4
    <3>2. SortKey(users[h].nickname) \in Nat /\ SortKey(users[i].nickname) \in Nat
          /\ SortKey(users[j].nickname) \in Nat
      BY <1>3, <3>1
    <3>3. \/ SortKey(users[h].nickname) < SortKey(users[i].nickname)
          \/ SortKey(users[h].nickname) = SortKey(users[i].nickname) /\ h < i
      OBVIOUS
    <3>4. \/ SortKey(users[h].nickname) < SortKey(users[j].nickname)
          \/ SortKey(users[h].nickname) = SortKey(users[j].nickname) /\ h < j
      BY <1>1, <1>6, <3>1, <3>2, <3>3
    <3> QED
      BY <1>1, <3>1, <3>4
  <2> QED
    BY <2>1, <2>2
<1>7. \A i, j \in 1..n : i # j =>
            \/ B[i] \subseteq B[j] /\ B[i] # B[j]
            \/ B[j] \subseteq B[i] /\ B[i] # B[j]
  <2> SUFFICES ASSUME NEW i \in 1..n, NEW j \in 1..n, i # j
               PROVE  \/ B[i] \subseteq B[j] /\ B[i] # B[j]
                      \/ B[j] \subseteq B[i] /\ B[j] # B[i]
    OBVIOUS
  <2>1. SortKey(users[i].nickname) \in Nat /\ SortKey(users[j].nickname) \in Nat
    BY <1>3
  <2>2. \/ SortKey(users[i].nickname) < SortKey(users[j].nickname)
        \/ SortKey(users[i].nickname) = SortKey(users[j].nickname) /\ i < j
        \/ SortKey(users[j].nickname) < SortKey(users[i].nickname)
        \/ SortKey(users[j].nickname) = SortKey(users[i].nickname) /\ j < i
    BY <1>1, <2>1
  <2> HIDE DEF B
  <2> QED
    BY <1>6, <2>2
<1>8. \A i \in 1..n : B[i] = Before(i)
  OBVIOUS
<1>9. /\ \A i \in 1..n : Cardinality(B[i]) \in 0..(n - 1)
      /\ \A i, j \in 1..n : Cardinality(B[i]) = Cardinality(B[j]) => i = j
      /\ \A k \in 1..n : \E i \in 1..n : Cardinality(B[i]) = k - 1
  <2> HIDE DEF B
  <2> QED
    BY <1>1, <1>4, <1>5, <1>7, SizesOfNested
<1> HIDE DEF B
<1>10. \A k \in 1..n : p[k] \in 1..n /\ Cardinality(B[p[k]]) = k - 1
  <2> SUFFICES ASSUME NEW k \in 1..n
               PROVE  p[k] \in 1..n /\ Cardinality(B[p[k]]) = k - 1
    OBVIOUS
  <2>1. \E i \in 1..n : Cardinality(Before(i)) = k - 1
    BY <1>8, <1>9
  <2> HIDE DEF Before
  <2>2. p[k] \in 1..n /\ Cardinality(Before(p[k])) = k - 1
    BY <2>1
  <2> QED
    BY <1>8, <2>2
<1> HIDE DEF Before, p
<1>11. \A j, k \in 1..n : p[j] = p[k] => j = k
  <2> SUFFICES ASSUME NEW j \in 1..n, NEW k \in 1..n, p[j] = p[k] PROVE j = k
    OBVIOUS
  <2>1. j - 1 = k - 1
    BY <1>10
  <2> QED
    BY <1>1, <2>1
<1>12. \A i \in 1..n : \E k \in 1..n : p[k] = i
  <2> SUFFICES ASSUME NEW i \in 1..n PROVE \E k \in 1..n : p[k] = i
    OBVIOUS
  <2>1. Cardinality(B[i]) + 1 \in 1..n
    BY <1>1, <1>9
  <2>2. PICK k \in 1..n : k = Cardinality(B[i]) + 1
    BY <2>1
  <2>3. Cardinality(B[p[k]]) = Cardinality(B[i])
    BY <1>1, <1>9, <1>10, <2>2
  <2> QED
    BY <1>9, <1>10, <2>3
<1>13. p \in [1..n -> 1..n]
  BY <1>10 DEF p
<1>14. Sorted(users) \in [1..n -> SharedUser] /\ \A k \in 1..n : Sorted(users)[k] = users[p[k]]
  BY <1>1, <1>2, <1>10
<1>15. TakenFrom(Sorted(users), users)
  BY <1>1, <1>11, <1>13, <1>14 DEF TakenFrom
<1>16. Elements(Sorted(users)) = Elements(users)
  <2>1. DOMAIN Sorted(users) = 1..n
    BY <1>14
  <2>2. \A k \in 1..n : \E i \in 1..n : Sorted(users)[k] = users[i]
    BY <1>10, <1>14
  <2>3. \A i \in 1..n : \E k \in 1..n : Sorted(users)[k] = users[i]
    BY <1>12, <1>14
  <2> DEFINE q == Sorted(users)
  <2> HIDE DEF q
  <2>4. DOMAIN q = 1..n /\ DOMAIN users = 1..n
    BY <1>1, <2>1 DEF q
  <2>5. /\ \A k \in 1..n : \E i \in 1..n : q[k] = users[i]
        /\ \A i \in 1..n : \E k \in 1..n : q[k] = users[i]
    BY <2>2, <2>3 DEF q
  <2>6. Elements(q) = Elements(users)
    <3>1. ASSUME NEW x \in Elements(q) PROVE x \in Elements(users)
      <4>1. PICK k \in DOMAIN q : x = q[k]
        BY DEF Elements
      <4>2. PICK i \in 1..n : q[k] = users[i]
        BY <2>4, <2>5, <4>1
      <4> QED
        BY <2>4, <4>1, <4>2 DEF Elements
    <3>2. ASSUME NEW x \in Elements(users) PROVE x \in Elements(q)
      <4>1. PICK i \in DOMAIN users : x = users[i]
        BY DEF Elements
      <4>2. PICK k \in 1..n : q[k] = users[i]
        BY <2>4, <2>5, <4>1
      <4> QED
        BY <2>4, <4>1, <4>2 DEF Elements
    <3> QED
      BY <3>1, <3>2
  <2> QED
    BY <2>6 DEF q
<1>17. Sorted(users) \in Seq(SharedUser)
  BY <1>1, <1>14
<1> QED
  BY <1>1, <1>14, <1>15, <1>16, <1>17

-----------------------------------------------------------------------------
(* What sanitize_config does to a configuration.                           *)

\* The users and the files of c as sanitize_config leaves them.
UsersOf(c) == {TrimUser(u) : u \in Elements(c.shared_users)}
FilesOf(c) == {SanitizeFile(f) : f \in Elements(c.shared_files)}

\* No path starts with "file://".
Stripped(c) == \A f \in Elements(c.shared_files) : ~ f.path.prefix

LEMMA ConfigFields ==
  ASSUME NEW c
  PROVE  c \in ConfigFileType <=>
            /\ c = [my_private_id |-> c.my_private_id, shared_users |-> c.shared_users,
                    shared_files |-> c.shared_files, sharing_port |-> c.sharing_port,
                    ignore_incoming |-> c.ignore_incoming,
                    reverse_connection |-> c.reverse_connection,
                    path_downloads |-> c.path_downloads]
            /\ c.my_private_id \in Nat
            /\ c.shared_users \in Seq(SharedUser)
            /\ c.shared_files \in Seq(ConfigSharedFile)
            /\ c.sharing_port \in Ports
            /\ c.ignore_incoming \in BOOLEAN
            /\ c.reverse_connection \in BOOLEAN
            /\ c.path_downloads \in Directories
BY DEF ConfigFileType

LEMMA ElementsOf ==
  ASSUME NEW S, NEW s \in Seq(S)
  PROVE  Elements(s) \subseteq S
BY DEF Elements

LEMMA TextChanged ==
  ASSUME NEW N, NEW t \in Text(N), NEW a, NEW b, NEW c
  PROVE  /\ [t EXCEPT !.blank = a] =
              [blank |-> a, prefix |-> t.prefix, inner |-> t.inner, name |-> t.name]
         /\ [t EXCEPT !.prefix = b, !.blank = a, !.inner = c] =
              [blank |-> a, prefix |-> b, inner |-> c, name |-> t.name]
<1>1. t = [blank |-> t.blank, prefix |-> t.prefix, inner |-> t.inner, name |-> t.name]
  BY DEF Text
<1>2. PICK p, q, r, s : t = [blank |-> p, prefix |-> q, inner |-> r, name |-> s]
  BY <1>1
<1>3. t.prefix = q /\ t.inner = r /\ t.name = s
  BY <1>2
<1>4. [[blank |-> p, prefix |-> q, inner |-> r, name |-> s] EXCEPT !.blank = a] =
        [blank |-> a, prefix |-> q, inner |-> r, name |-> s]
  OBVIOUS
<1>5. [t EXCEPT !.prefix = b, !.blank = a, !.inner = c] =
        [blank |-> a, prefix |-> b, inner |-> c, name |-> t.name]
  <2> DEFINE y == [t EXCEPT !.prefix = b, !.blank = a, !.inner = c]
             z == [blank |-> a, prefix |-> b, inner |-> c, name |-> t.name]
  <2>1. /\ DOMAIN y = {"blank", "prefix", "inner", "name"}
        /\ y.blank = a /\ y.prefix = b /\ y.inner = c /\ y.name = t.name
    BY <1>2
  <2>2. /\ DOMAIN z = {"blank", "prefix", "inner", "name"}
        /\ z.blank = a /\ z.prefix = b /\ z.inner = c /\ z.name = t.name
    OBVIOUS
  <2>3. y = [i \in DOMAIN y |-> y[i]] /\ z = [i \in DOMAIN z |-> z[i]]
    OBVIOUS
  <2> HIDE DEF y, z
  <2>4. DOMAIN y = DOMAIN z /\ \A i \in DOMAIN z : y[i] = z[i]
    BY <2>1, <2>2
  <2>5. y = z
    BY <2>3, <2>4
  <2> QED
    BY <2>5 DEF y, z
<1> QED
  BY <1>2, <1>3, <1>4, <1>5

LEMMA Strings ==
  ASSUME NEW N, NEW t \in Text(N)
  PROVE  /\ Trim(t) \in Text(N)
         /\ ~ Trim(t).blank
         /\ Trim(Trim(t)) = Trim(t)
         /\ StripPrefix(t) \in Text(N)
         /\ StripPrefix(Trim(t)) \in Text(N)
         /\ ~ StripPrefix(Trim(t)).prefix
         /\ ~ t.prefix => StripPrefix(Trim(t)) = Trim(t)
         /\ ~ t.blank => Trim(t) = t
<1>1. /\ t \in [blank : BOOLEAN, prefix : BOOLEAN, inner : BOOLEAN, name : N]
      /\ t = [blank |-> t.blank, prefix |-> t.prefix, inner |-> t.inner, name |-> t.name]
      /\ t.blank \in BOOLEAN /\ t.prefix \in BOOLEAN /\ t.inner \in BOOLEAN /\ t.name \in N
      /\ t.inner => t.prefix
  BY DEF Text
<1>2. \A a, b, c \in BOOLEAN : (c => b) =>
         [blank |-> a, prefix |-> b, inner |-> c, name |-> t.name] \in Text(N)
  BY <1>1 DEF Text
<1>3. \A x \in Text(N) : Trim(x) = [blank |-> FALSE, prefix |-> x.prefix, inner |-> x.inner,
                                    name |-> x.name]
  BY TextChanged DEF Trim
<1>4. Trim(t) \in Text(N) /\ ~ Trim(t).blank /\ Trim(t).inner = t.inner
      /\ Trim(t).prefix = t.prefix /\ Trim(t).name = t.name
  <2>1. [blank |-> FALSE, prefix |-> t.prefix, inner |-> t.inner, name |-> t.name] \in Text(N)
    BY <1>1 DEF Text
  <2>2. Trim(t) = [blank |-> FALSE, prefix |-> t.prefix, inner |-> t.inner, name |-> t.name]
    BY <1>3
  <2> QED
    BY <2>1, <2>2
<1>5. Trim(Trim(t)) = Trim(t)
  BY <1>3, <1>4
<1>6. \A x \in Text(N) : x.prefix /\ ~ x.blank =>
         StripPrefix(x) = [blank |-> x.inner, prefix |-> FALSE, inner |-> FALSE, name |-> x.name]
  BY TextChanged DEF StripPrefix
<1>7. \A x : ~ (x.prefix /\ ~ x.blank) => StripPrefix(x) = x
  BY DEF StripPrefix
<1>8. StripPrefix(t) \in Text(N)
  BY <1>1, <1>2, <1>6, <1>7
<1>9. CASE t.prefix
  <2>1. StripPrefix(Trim(t)) = [blank |-> t.inner, prefix |-> FALSE, inner |-> FALSE, name |-> t.name]
    BY <1>4, <1>6, <1>9
  <2>2. StripPrefix(Trim(t)) \in Text(N) /\ ~ StripPrefix(Trim(t)).prefix
    <3>1. [blank |-> t.inner, prefix |-> FALSE, inner |-> FALSE, name |-> t.name] \in Text(N)
      BY <1>1 DEF Text
    <3> QED
      BY <2>1, <3>1
  <2>3. ~ t.blank => Trim(t) = t
    BY <1>1, <1>3
  <2> QED
    BY <1>4, <1>5, <1>8, <1>9, <2>2, <2>3
<1>10. CASE ~ t.prefix
  <2>1. StripPrefix(Trim(t)) = Trim(t)
    BY <1>4, <1>7, <1>10
  <2>2. ~ t.blank => Trim(t) = t
    BY <1>1, <1>3
  <2> QED
    BY <1>4, <1>5, <1>8, <1>10, <2>1, <2>2
<1> QED
  BY <1>9, <1>10

LEMMA Users ==
  ASSUME NEW u \in SharedUser
  PROVE  /\ TrimUser(u) = [nickname |-> Trim(u.nickname), public_id |-> u.public_id,
                           address |-> u.address, allowed |-> u.allowed]
         /\ TrimUser(u) \in SharedUser
         /\ TrimUser(TrimUser(u)) = TrimUser(u)
         /\ ~ u.nickname.blank => TrimUser(u) = u
<1>1. /\ u = [nickname |-> u.nickname, public_id |-> u.public_id,
              address |-> u.address, allowed |-> u.allowed]
      /\ u.nickname \in Text(Nicknames) /\ u.public_id \in PublicIds
      /\ u.address \in Addresses /\ u.allowed \in BOOLEAN
  BY DEF SharedUser
<1>2. TrimUser(u) = [nickname |-> Trim(u.nickname), public_id |-> u.public_id,
                     address |-> u.address, allowed |-> u.allowed]
  BY <1>1 DEF TrimUser
<1>3. /\ Trim(u.nickname) \in Text(Nicknames) /\ Trim(Trim(u.nickname)) = Trim(u.nickname)
      /\ ~ u.nickname.blank => Trim(u.nickname) = u.nickname
  BY <1>1, Strings
<1>4. TrimUser(u) \in SharedUser
  BY <1>1, <1>2, <1>3 DEF SharedUser
<1>5. TrimUser(TrimUser(u)) = TrimUser(u)
  BY <1>2, <1>3 DEF TrimUser
<1> QED
  BY <1>1, <1>2, <1>3, <1>4, <1>5

LEMMA Files ==
  ASSUME NEW f \in ConfigSharedFile
  PROVE  /\ SanitizeFile(f) \in ConfigSharedFile
         /\ ~ SanitizeFile(f).path.prefix
         /\ ~ f.path.prefix => SanitizeFile(SanitizeFile(f)) = SanitizeFile(f)
         /\ SanitizeFile(f).shared_with = {} <=> f.shared_with = {}
         /\ f.shared_with \subseteq Text(Nicknames)
<1>1. f.path \in Text(Paths) /\ f.shared_with \subseteq Text(Nicknames)
  BY DEF ConfigSharedFile
<1> DEFINE path == StripPrefix(Trim(f.path))
           names == {Trim(n) : n \in f.shared_with}
<1>2. /\ path \in Text(Paths) /\ ~ path.prefix
      /\ ~ f.path.prefix => path = Trim(f.path) /\ StripPrefix(Trim(path)) = path
  <2>1. path \in Text(Paths) /\ ~ path.prefix /\ (~ f.path.prefix => path = Trim(f.path))
    BY <1>1, Strings
  <2>2. StripPrefix(Trim(path)) = Trim(path)
    <3> HIDE DEF path
    <3> QED
      BY <2>1, Strings
  <2>3. Trim(Trim(f.path)) = Trim(f.path)
    BY <1>1, Strings
  <2> QED
    BY <2>1, <2>2, <2>3
<1>3. names \subseteq Text(Nicknames) /\ {Trim(n) : n \in names} = names
  <2>1. \A n \in f.shared_with : Trim(n) \in Text(Nicknames) /\ Trim(Trim(n)) = Trim(n)
    BY <1>1, Strings
  <2> QED
    BY <2>1
<1>4. SanitizeFile(f) = [path |-> path, shared_with |-> names]
  BY DEF SanitizeFile
<1>5. names = {} <=> f.shared_with = {}
  OBVIOUS
<1> HIDE DEF path, names
<1>6. SanitizeFile(f) \in ConfigSharedFile
  BY <1>2, <1>3, <1>4 DEF ConfigSharedFile
<1>7. ~ f.path.prefix => SanitizeFile(SanitizeFile(f)) = SanitizeFile(f)
  BY <1>2, <1>3, <1>4 DEF SanitizeFile
<1> QED
  BY <1>1, <1>2, <1>4, <1>5, <1>6, <1>7

LEMMA SanitizeOf ==
  ASSUME NEW c \in ConfigFileType
  PROVE  /\ Sanitize(c) \in ConfigFileType
         /\ Sanitize(c).shared_users =
              [i \in DOMAIN Sorted(c.shared_users) |-> TrimUser(Sorted(c.shared_users)[i])]
         /\ Sanitize(c).shared_files =
              [i \in DOMAIN c.shared_files |-> SanitizeFile(c.shared_files[i])]
         /\ Elements(Sanitize(c).shared_users) = UsersOf(c)
         /\ Elements(Sanitize(c).shared_files) = FilesOf(c)
         /\ Sanitize(c).my_private_id = c.my_private_id
         /\ Sanitize(c).sharing_port = c.sharing_port
         /\ Sanitize(c).ignore_incoming = c.ignore_incoming
         /\ Sanitize(c).reverse_connection = c.reverse_connection
         /\ Sanitize(c).path_downloads = c.path_downloads
         /\ Stripped(Sanitize(c))
<1> DEFINE s == Sorted(c.shared_users)
           users == [i \in DOMAIN s |-> TrimUser(s[i])]
           files == [i \in DOMAIN c.shared_files |-> SanitizeFile(c.shared_files[i])]
<1>1. c.shared_users \in Seq(SharedUser) /\ c.shared_files \in Seq(ConfigSharedFile)
  BY ConfigFields
<1>2. Sanitize(c) = [my_private_id |-> c.my_private_id, shared_users |-> users,
                     shared_files |-> files, sharing_port |-> c.sharing_port,
                     ignore_incoming |-> c.ignore_incoming,
                     reverse_connection |-> c.reverse_connection,
                     path_downloads |-> c.path_downloads]
  <2>1. Sanitize(c) = [c EXCEPT !.shared_users = users, !.shared_files = files]
    BY DEF Sanitize
  <2> HIDE DEF users, files
  <2> QED
    BY <2>1 DEF ConfigFileType
<1>3. s \in Seq(SharedUser) /\ Elements(s) = Elements(c.shared_users)
  BY <1>1, SortedOf
<1> HIDE DEF s
<1>4. users \in Seq(SharedUser) /\ Elements(users) = {TrimUser(u) : u \in Elements(s)}
  <2>1. \A i \in DOMAIN s : TrimUser(s[i]) \in SharedUser
    BY <1>3, Users
  <2>2. DOMAIN users = DOMAIN s /\ \A i \in DOMAIN s : users[i] = TrimUser(s[i])
    OBVIOUS
  <2> HIDE DEF users
  <2>3. Elements(users) = {TrimUser(u) : u \in Elements(s)}
    BY <2>2 DEF Elements
  <2> QED
    BY <1>3, <2>1, <2>3 DEF users
<1>5. files \in Seq(ConfigSharedFile) /\ Elements(files) = FilesOf(c)
  <2>1. \A i \in DOMAIN c.shared_files : SanitizeFile(c.shared_files[i]) \in ConfigSharedFile
    BY <1>1, Files
  <2>2. DOMAIN files = DOMAIN c.shared_files
        /\ \A i \in DOMAIN c.shared_files : files[i] = SanitizeFile(c.shared_files[i])
    OBVIOUS
  <2> HIDE DEF files
  <2>3. Elements(files) = FilesOf(c)
    BY <2>2 DEF Elements, FilesOf
  <2> QED
    BY <1>1, <2>1, <2>3 DEF files
<1>6. \A f \in FilesOf(c) : ~ f.path.prefix
  <2>1. \A f \in Elements(c.shared_files) : ~ SanitizeFile(f).path.prefix
    BY <1>1, ElementsOf, Files
  <2> QED
    BY <2>1 DEF FilesOf
<1> HIDE DEF users, files
<1>7. Sanitize(c) \in ConfigFileType
  BY <1>2, <1>4, <1>5, ConfigFields DEF ConfigFileType
<1>8. Sanitize(c).shared_users = users /\ Sanitize(c).shared_files = files
  BY <1>2
<1>9. Elements(users) = UsersOf(c)
  BY <1>3, <1>4 DEF UsersOf
<1>10. Stripped(Sanitize(c))
  BY <1>5, <1>6, <1>8 DEF Stripped
<1>11. /\ Sanitize(c).my_private_id = c.my_private_id
       /\ Sanitize(c).sharing_port = c.sharing_port
       /\ Sanitize(c).ignore_incoming = c.ignore_incoming
       /\ Sanitize(c).reverse_connection = c.reverse_connection
       /\ Sanitize(c).path_downloads = c.path_downloads
  BY <1>2
<1> QED
  BY <1>5, <1>7, <1>8, <1>9, <1>10, <1>11 DEF users, files, s

\* Sanitizing a second time changes neither a user nor a file without "file://".
LEMMA SanitizeTwice ==
  ASSUME NEW c \in ConfigFileType
  PROVE  /\ UsersOf(Sanitize(c)) = UsersOf(c)
         /\ FilesOf(Sanitize(c)) = {SanitizeFile(f) : f \in FilesOf(c)}
         /\ Stripped(c) => FilesOf(Sanitize(c)) = FilesOf(c)
<1>1. /\ Elements(Sanitize(c).shared_users) = UsersOf(c)
      /\ Elements(Sanitize(c).shared_files) = FilesOf(c)
      /\ c.shared_users \in Seq(SharedUser) /\ c.shared_files \in Seq(ConfigSharedFile)
  BY SanitizeOf, ConfigFields
<1>2. \A u \in Elements(c.shared_users) : TrimUser(TrimUser(u)) = TrimUser(u)
  BY <1>1, ElementsOf, Users
<1>3. \A f \in Elements(c.shared_files) :
         ~ f.path.prefix => SanitizeFile(SanitizeFile(f)) = SanitizeFile(f)
  BY <1>1, ElementsOf, Files
<1>4. FilesOf(Sanitize(c)) = {SanitizeFile(f) : f \in FilesOf(c)}
  BY <1>1 DEF FilesOf
<1>5. UsersOf(Sanitize(c)) = UsersOf(c)
  <2>1. UsersOf(Sanitize(c)) = {TrimUser(u) : u \in UsersOf(c)}
    BY <1>1 DEF UsersOf
  <2> QED
    BY <1>2, <2>1 DEF UsersOf
<1>6. ASSUME Stripped(c) PROVE FilesOf(Sanitize(c)) = FilesOf(c)
  <2>1. \A f \in Elements(c.shared_files) : SanitizeFile(SanitizeFile(f)) = SanitizeFile(f)
    BY <1>3, <1>6 DEF Stripped
  <2> QED
    BY <1>4, <2>1 DEF FilesOf
<1> QED
  BY <1>4, <1>5, <1>6

-----------------------------------------------------------------------------
(* The configurations that the calls compute.                              *)

LEMMA UsersChanged ==
  ASSUME NEW c \in ConfigFileType, NEW s
  PROVE  [c EXCEPT !.shared_users = s] =
           [my_private_id |-> c.my_private_id, shared_users |-> s,
            shared_files |-> c.shared_files, sharing_port |-> c.sharing_port,
            ignore_incoming |-> c.ignore_incoming,
            reverse_connection |-> c.reverse_connection,
            path_downloads |-> c.path_downloads]
BY DEF ConfigFileType

LEMMA FilesChanged ==
  ASSUME NEW c \in ConfigFileType, NEW s
  PROVE  [c EXCEPT !.shared_files = s] =
           [my_private_id |-> c.my_private_id, shared_users |-> c.shared_users,
            shared_files |-> s, sharing_port |-> c.sharing_port,
            ignore_incoming |-> c.ignore_incoming,
            reverse_connection |-> c.reverse_connection,
            path_downloads |-> c.path_downloads]
BY DEF ConfigFileType

LEMMA BothChanged ==
  ASSUME NEW c \in ConfigFileType, NEW s, NEW r
  PROVE  [c EXCEPT !.shared_users = s, !.shared_files = r] =
           [my_private_id |-> c.my_private_id, shared_users |-> s,
            shared_files |-> r, sharing_port |-> c.sharing_port,
            ignore_incoming |-> c.ignore_incoming,
            reverse_connection |-> c.reverse_connection,
            path_downloads |-> c.path_downloads]
<1> DEFINE y == [c EXCEPT !.shared_users = s, !.shared_files = r]
           z == [my_private_id |-> c.my_private_id, shared_users |-> s,
                 shared_files |-> r, sharing_port |-> c.sharing_port,
                 ignore_incoming |-> c.ignore_incoming,
                 reverse_connection |-> c.reverse_connection,
                 path_downloads |-> c.path_downloads]
           fields == {"my_private_id", "shared_users", "shared_files", "sharing_port",
                      "ignore_incoming", "reverse_connection", "path_downloads"}
<1>1. /\ DOMAIN y = fields
      /\ y.my_private_id = c.my_private_id /\ y.shared_users = s /\ y.shared_files = r
      /\ y.sharing_port = c.sharing_port /\ y.ignore_incoming = c.ignore_incoming
      /\ y.reverse_connection = c.reverse_connection /\ y.path_downloads = c.path_downloads
  BY DEF ConfigFileType
<1>2. /\ DOMAIN z = fields
      /\ z.my_private_id = c.my_private_id /\ z.shared_users = s /\ z.shared_files = r
      /\ z.sharing_port = c.sharing_port /\ z.ignore_incoming = c.ignore_incoming
      /\ z.reverse_connection = c.reverse_connection /\ z.path_downloads = c.path_downloads
  OBVIOUS
<1>3. y = [i \in DOMAIN y |-> y[i]] /\ z = [i \in DOMAIN z |-> z[i]]
  OBVIOUS
<1> HIDE DEF y, z
<1>4. DOMAIN y = DOMAIN z /\ \A i \in DOMAIN z : y[i] = z[i]
  BY <1>1, <1>2
<1>5. y = z
  BY <1>3, <1>4
<1> QED
  BY <1>5 DEF y, z

\* Everything but the users and the files.
SameRest(new, c) ==
    /\ new.my_private_id = c.my_private_id
    /\ new.sharing_port = c.sharing_port
    /\ new.ignore_incoming = c.ignore_incoming
    /\ new.reverse_connection = c.reverse_connection
    /\ new.path_downloads = c.path_downloads

LEMMA ConfigMade ==
  ASSUME NEW c \in ConfigFileType, NEW s \in Seq(SharedUser), NEW r \in Seq(ConfigSharedFile),
         NEW d,
         d = [my_private_id |-> c.my_private_id, shared_users |-> s,
              shared_files |-> r, sharing_port |-> c.sharing_port,
              ignore_incoming |-> c.ignore_incoming,
              reverse_connection |-> c.reverse_connection,
              path_downloads |-> c.path_downloads]
  PROVE  /\ d \in ConfigFileType
         /\ d.shared_users = s
         /\ d.shared_files = r
         /\ SameRest(d, c)
BY DEF ConfigFileType, SameRest

SetUsers(c, s) == [c EXCEPT !.shared_users = s]
SetFiles(c, r) == [c EXCEPT !.shared_files = r]
SetBoth(c, s, r) == [c EXCEPT !.shared_users = s, !.shared_files = r]

LEMMA SetUsersOf ==
  ASSUME NEW c \in ConfigFileType, NEW s \in Seq(SharedUser)
  PROVE  /\ SetUsers(c, s) \in ConfigFileType
         /\ SetUsers(c, s).shared_users = s
         /\ SetUsers(c, s).shared_files = c.shared_files
         /\ SameRest(SetUsers(c, s), c)
<1>1. c.shared_files \in Seq(ConfigSharedFile)
  BY ConfigFields
<1>2. SetUsers(c, s) = [my_private_id |-> c.my_private_id, shared_users |-> s,
             shared_files |-> c.shared_files, sharing_port |-> c.sharing_port,
             ignore_incoming |-> c.ignore_incoming,
             reverse_connection |-> c.reverse_connection,
             path_downloads |-> c.path_downloads]
  BY UsersChanged DEF SetUsers
<1> QED
  BY <1>1, <1>2, ConfigMade

LEMMA SetFilesOf ==
  ASSUME NEW c \in ConfigFileType, NEW r \in Seq(ConfigSharedFile)
  PROVE  /\ SetFiles(c, r) \in ConfigFileType
         /\ SetFiles(c, r).shared_users = c.shared_users
         /\ SetFiles(c, r).shared_files = r
         /\ SameRest(SetFiles(c, r), c)
<1>1. c.shared_users \in Seq(SharedUser)
  BY ConfigFields
<1>2. SetFiles(c, r) = [my_private_id |-> c.my_private_id, shared_users |-> c.shared_users,
             shared_files |-> r, sharing_port |-> c.sharing_port,
             ignore_incoming |-> c.ignore_incoming,
             reverse_connection |-> c.reverse_connection,
             path_downloads |-> c.path_downloads]
  BY FilesChanged DEF SetFiles
<1> QED
  BY <1>1, <1>2, ConfigMade

LEMMA SetBothOf ==
  ASSUME NEW c \in ConfigFileType, NEW s \in Seq(SharedUser), NEW r \in Seq(ConfigSharedFile)
  PROVE  /\ SetBoth(c, s, r) \in ConfigFileType
         /\ SetBoth(c, s, r).shared_users = s
         /\ SetBoth(c, s, r).shared_files = r
         /\ SameRest(SetBoth(c, s, r), c)
<1>1. SetBoth(c, s, r) = [my_private_id |-> c.my_private_id, shared_users |-> s,
             shared_files |-> r, sharing_port |-> c.sharing_port,
             ignore_incoming |-> c.ignore_incoming,
             reverse_connection |-> c.reverse_connection,
             path_downloads |-> c.path_downloads]
  BY BothChanged DEF SetBoth
<1> QED
  BY <1>1, ConfigMade

LEMMA EmptyConfigType == EmptyConfig \in ConfigFileType /\ NoCall.new = EmptyConfig
<1>1. <<>> \in Seq(SharedUser) /\ <<>> \in Seq(ConfigSharedFile)
  OBVIOUS
<1>2. EmptyConfig \in ConfigFileType
  BY <1>1, ConfigAssumption DEF EmptyConfig, ConfigFileType
<1> QED
  BY <1>2 DEF NoCall

\* add_files only adds files that are shared with nobody.
LEMMA WithFilesOf ==
  ASSUME NEW c \in ConfigFileType, NEW n \in Nat, NEW paths \in [1..n -> Text(Paths)]
  PROVE  /\ WithFiles(c, paths) \in ConfigFileType
         /\ SameRest(WithFiles(c, paths), c)
         /\ WithFiles(c, paths).shared_users = c.shared_users
         /\ Elements(c.shared_files) \subseteq Elements(WithFiles(c, paths).shared_files)
         /\ \A f \in Elements(WithFiles(c, paths).shared_files) :
               f \in Elements(c.shared_files) \/ f.shared_with = {}
<1> DEFINE files == [i \in DOMAIN paths |-> StripPrefix(paths[i])]
           added == Retained(files, {path \in Elements(files) : ~HasFile(c, path)})
           more == [i \in DOMAIN added |-> [path |-> added[i], shared_with |-> {}]]
           all == c.shared_files \o more
<1>1. c.shared_files \in Seq(ConfigSharedFile) /\ c.shared_users \in Seq(SharedUser)
  BY ConfigFields
<1>2. files \in Seq(Text(Paths))
  <2>1. \A i \in 1..n : StripPrefix(paths[i]) \in Text(Paths)
    BY Strings
  <2>2. files \in [1..n -> Text(Paths)]
    BY <2>1
  <2> QED
    BY <2>2
<1>3. WithFiles(c, paths) = SetFiles(c, all)
  BY Zenon DEF WithFiles, SetFiles
<1> HIDE DEF files
<1>4. added \in Seq(Text(Paths))
  BY <1>2, RetainedOf
<1> HIDE DEF added
<1>5. /\ more \in Seq(ConfigSharedFile)
      /\ \A i \in 1..Len(more) : more[i].shared_with = {}
  <2>1. \A p \in Text(Paths) : [path |-> p, shared_with |-> {}] \in ConfigSharedFile
    BY DEF ConfigSharedFile
  <2>2. \A i \in 1..Len(added) : added[i] \in Text(Paths)
    BY <1>4
  <2>3. more \in [1..Len(added) -> ConfigSharedFile] /\ Len(added) \in Nat
    BY <1>4, <2>1, <2>2
  <2>4. DOMAIN more = 1..Len(added) /\ \A i \in 1..Len(added) : more[i].shared_with = {}
    BY <1>4
  <2> HIDE DEF more
  <2>5. more \in Seq(ConfigSharedFile)
    BY <2>3
  <2> QED
    BY <2>4, <2>5
<1> HIDE DEF more
<1>6. /\ all \in Seq(ConfigSharedFile)
      /\ DOMAIN all = 1..(Len(c.shared_files) + Len(more))
      /\ \A i \in 1..Len(c.shared_files) : all[i] = c.shared_files[i]
      /\ \A i \in (Len(c.shared_files) + 1)..(Len(c.shared_files) + Len(more)) :
            all[i] = more[i - Len(c.shared_files)]
  BY <1>1, <1>5
<1>7. Len(c.shared_files) \in Nat /\ Len(more) \in Nat
      /\ DOMAIN c.shared_files = 1..Len(c.shared_files)
  BY <1>1, <1>5
<1> HIDE DEF all
<1>8. Elements(c.shared_files) \subseteq Elements(all)
  <2>1. \A i \in DOMAIN c.shared_files : i \in DOMAIN all /\ all[i] = c.shared_files[i]
    BY <1>6, <1>7
  <2> QED
    BY <2>1 DEF Elements
<1>9. \A f \in Elements(all) : f \in Elements(c.shared_files) \/ f.shared_with = {}
  <2> SUFFICES ASSUME NEW i \in DOMAIN all
               PROVE  all[i] \in Elements(c.shared_files) \/ all[i].shared_with = {}
    BY DEF Elements
  <2>1. CASE i \in 1..Len(c.shared_files)
    BY <1>6, <1>7, <2>1 DEF Elements
  <2>2. CASE i \notin 1..Len(c.shared_files)
    <3>1. i - Len(c.shared_files) \in 1..Len(more)
          /\ i \in (Len(c.shared_files) + 1)..(Len(c.shared_files) + Len(more))
      BY <1>6, <1>7, <2>2
    <3> QED
      BY <1>5, <1>6, <3>1
  <2> QED
    BY <2>1, <2>2
<1> QED
  BY <1>3, <1>6, <1>8, <1>9, SetFilesOf

LEMMA PlainType ==
  ASSUME NEW N, NEW n \in N
  PROVE  Plain(n) \in Text(N) /\ ~ Plain(n).blank
BY DEF Plain, Text

LEMMA WithUserType ==
  ASSUME NEW c \in ConfigFileType, NEW n \in Nicknames, NEW blank \in BOOLEAN,
         NEW id \in PublicIds, NEW a \in Addresses
  PROVE  WithUser(c, [Plain(n) EXCEPT !.blank = blank], id, a) \in ConfigFileType
<1> DEFINE t == [Plain(n) EXCEPT !.blank = blank]
           u == [nickname |-> t, public_id |-> id, address |-> a, allowed |-> TRUE]
<1>1. t = [blank |-> blank, prefix |-> FALSE, inner |-> FALSE, name |-> n]
  <2>1. [Plain(n) EXCEPT !.blank = blank] =
          [blank |-> blank, prefix |-> Plain(n).prefix, inner |-> Plain(n).inner,
           name |-> Plain(n).name]
    BY PlainType, TextChanged
  <2> QED
    BY <2>1 DEF Plain
<1>2. t \in Text(Nicknames)
  BY <1>1 DEF Text
<1> HIDE DEF t
<1>3. u \in SharedUser
  BY <1>2 DEF SharedUser
<1>4. WithUser(c, t, id, a) = SetUsers(c, Append(c.shared_users, u))
  BY DEF WithUser, SetUsers
<1> HIDE DEF u
<1>5. Append(c.shared_users, u) \in Seq(SharedUser) /\ c.shared_files \in Seq(ConfigSharedFile)
  BY <1>3, ConfigFields
<1>6. WithUser(c, t, id, a) \in ConfigFileType
  BY <1>4, <1>5, SetUsersOf
<1> QED
  BY <1>6 DEF t

\* The calls that change with whom the files are shared.
LEMMA FilesMapped ==
  ASSUME NEW c \in ConfigFileType, NEW files \in [DOMAIN c.shared_files -> ConfigSharedFile]
  PROVE  /\ SetFiles(c, files) \in ConfigFileType
         /\ SetFiles(c, files).shared_files = files
         /\ SetFiles(c, files).shared_users = c.shared_users
         /\ SameRest(SetFiles(c, files), c)
<1>1. c.shared_files \in Seq(ConfigSharedFile)
  BY ConfigFields
<1>2. files \in Seq(ConfigSharedFile)
  BY <1>1
<1> QED
  BY <1>2, SetFilesOf

LEMMA FileShared ==
  ASSUME NEW f \in ConfigSharedFile, NEW s \in SUBSET Text(Nicknames)
  PROVE  /\ [f EXCEPT !.shared_with = s] = [path |-> f.path, shared_with |-> s]
         /\ [f EXCEPT !.shared_with = s] \in ConfigSharedFile
BY DEF ConfigSharedFile

LEMMA SharedOf ==
  ASSUME NEW c \in ConfigFileType, NEW nickname \in Text(Nicknames), NEW path
  PROVE  /\ Shared(c, nickname, path) \in ConfigFileType
         /\ SameRest(Shared(c, nickname, path), c)
         /\ Shared(c, nickname, path).shared_users = c.shared_users
<1> DEFINE files == [i \in DOMAIN c.shared_files |->
                       IF c.shared_files[i].path = path
                       THEN [c.shared_files[i] EXCEPT !.shared_with = @ \cup {nickname}]
                       ELSE c.shared_files[i]]
<1>1. Shared(c, nickname, path) = SetFiles(c, files)
  BY Zenon DEF Shared, WithSharing, SetFiles
<1>2. files \in [DOMAIN c.shared_files -> ConfigSharedFile]
  <2> SUFFICES ASSUME NEW i \in DOMAIN c.shared_files
               PROVE  [c.shared_files[i] EXCEPT !.shared_with = @ \cup {nickname}] \in ConfigSharedFile
                      /\ c.shared_files[i] \in ConfigSharedFile
    OBVIOUS
  <2>1. c.shared_files[i] \in ConfigSharedFile
    BY ConfigFields
  <2>2. c.shared_files[i].shared_with \cup {nickname} \in SUBSET Text(Nicknames)
    BY <2>1, Files
  <2> QED
    BY <2>1, <2>2, FileShared
<1> HIDE DEF files
<1> QED
  BY <1>1, <1>2, FilesMapped

FilesUnshared(c, nickname, path) ==
    [i \in DOMAIN c.shared_files |->
        IF c.shared_files[i].path = path
        THEN [path |-> c.shared_files[i].path,
              shared_with |-> c.shared_files[i].shared_with \ {nickname}]
        ELSE c.shared_files[i]]

LEMMA UnsharedOf ==
  ASSUME NEW c \in ConfigFileType, NEW nickname, NEW path
  PROVE  /\ Unshared(c, nickname, path) \in ConfigFileType
         /\ SameRest(Unshared(c, nickname, path), c)
         /\ Unshared(c, nickname, path).shared_users = c.shared_users
         /\ Unshared(c, nickname, path).shared_files =
              FilesUnshared(c, nickname, path)
<1> DEFINE files == [i \in DOMAIN c.shared_files |->
                       IF c.shared_files[i].path = path
                       THEN [c.shared_files[i] EXCEPT !.shared_with = @ \ {nickname}]
                       ELSE c.shared_files[i]]
<1>1. Unshared(c, nickname, path) = SetFiles(c, files)
  BY Zenon DEF Unshared, WithSharing, SetFiles
<1>2. ASSUME NEW i \in DOMAIN c.shared_files
      PROVE  /\ c.shared_files[i] \in ConfigSharedFile
             /\ [c.shared_files[i] EXCEPT !.shared_with = @ \ {nickname}] \in ConfigSharedFile
             /\ [c.shared_files[i] EXCEPT !.shared_with = @ \ {nickname}] =
                  [path |-> c.shared_files[i].path,
                   shared_with |-> c.shared_files[i].shared_with \ {nickname}]
  <2>1. c.shared_files[i] \in ConfigSharedFile
    BY ConfigFields
  <2>2. c.shared_files[i].shared_with \ {nickname} \in SUBSET Text(Nicknames)
    BY <2>1, Files
  <2> QED
    BY <2>1, <2>2, FileShared
<1>3. files \in [DOMAIN c.shared_files -> ConfigSharedFile]
  BY <1>2
<1>4. files = FilesUnshared(c, nickname, path)
  BY <1>2 DEF FilesUnshared
<1> HIDE DEF files
<1> QED
  BY <1>1, <1>3, <1>4, FilesMapped

LEMMA WithoutFileOf ==
  ASSUME NEW c \in ConfigFileType, NEW path
  PROVE  /\ WithoutFile(c, path) \in ConfigFileType
         /\ SameRest(WithoutFile(c, path), c)
         /\ WithoutFile(c, path).shared_users = c.shared_users
         /\ TakenFrom(WithoutFile(c, path).shared_files, c.shared_files)
<1> DEFINE r == Retained(c.shared_files, {f \in Elements(c.shared_files) : f.path # path})
<1>1. WithoutFile(c, path) = SetFiles(c, r)
  BY DEF WithoutFile, SetFiles
<1>2. c.shared_files \in Seq(ConfigSharedFile) /\ c.shared_users \in Seq(SharedUser)
  BY ConfigFields
<1>3. r \in Seq(ConfigSharedFile) /\ TakenFrom(r, c.shared_files)
  BY <1>2, RetainedOf
<1> HIDE DEF r
<1> QED
  BY <1>1, <1>3, SetFilesOf

FilesLeft(c, nickname) ==
    [i \in DOMAIN c.shared_files |->
        [path |-> c.shared_files[i].path,
         shared_with |-> c.shared_files[i].shared_with \ {nickname}]]

LEMMA WithoutUserOf ==
  ASSUME NEW c \in ConfigFileType, NEW nickname
  PROVE  /\ WithoutUser(c, nickname) \in ConfigFileType
         /\ SameRest(WithoutUser(c, nickname), c)
         /\ TakenFrom(WithoutUser(c, nickname).shared_users, c.shared_users)
         /\ Elements(WithoutUser(c, nickname).shared_users) =
              {u \in Elements(c.shared_users) : u.nickname # nickname}
         /\ WithoutUser(c, nickname).shared_files =
              FilesLeft(c, nickname)
<1> DEFINE others == {u \in Elements(c.shared_users) : u.nickname # nickname}
           r == Retained(c.shared_users, others)
           files == [i \in DOMAIN c.shared_files |->
                       [c.shared_files[i] EXCEPT !.shared_with = @ \ {nickname}]]
<1>1. WithoutUser(c, nickname) = SetBoth(c, r, files)
  BY Zenon DEF WithoutUser, SetBoth
<1>2. c.shared_files \in Seq(ConfigSharedFile) /\ c.shared_users \in Seq(SharedUser)
  BY ConfigFields
<1>3. r \in Seq(SharedUser) /\ TakenFrom(r, c.shared_users) /\ Elements(r) = others
  <2>1. Elements(r) = Elements(c.shared_users) \cap others
    BY <1>2, RetainedOf
  <2> QED
    BY <1>2, <2>1, RetainedOf
<1>4. ASSUME NEW i \in DOMAIN c.shared_files
      PROVE  /\ [c.shared_files[i] EXCEPT !.shared_with = @ \ {nickname}] \in ConfigSharedFile
             /\ [c.shared_files[i] EXCEPT !.shared_with = @ \ {nickname}] =
                  [path |-> c.shared_files[i].path,
                   shared_with |-> c.shared_files[i].shared_with \ {nickname}]
  <2>1. c.shared_files[i] \in ConfigSharedFile
    BY <1>2
  <2>2. c.shared_files[i].shared_with \ {nickname} \in SUBSET Text(Nicknames)
    BY <2>1, Files
  <2> QED
    BY <2>1, <2>2, FileShared
<1>5. files \in Seq(ConfigSharedFile)
  <2>1. DOMAIN c.shared_files = 1..Len(c.shared_files) /\ Len(c.shared_files) \in Nat
    BY <1>2
  <2>2. files \in [1..Len(c.shared_files) -> ConfigSharedFile]
    BY <1>4, <2>1
  <2> HIDE DEF files
  <2> QED
    BY <2>1, <2>2
<1>6. files = FilesLeft(c, nickname)
  BY <1>4 DEF FilesLeft
<1> HIDE DEF r, files
<1>7. /\ WithoutUser(c, nickname) \in ConfigFileType
      /\ WithoutUser(c, nickname).shared_users = r
      /\ WithoutUser(c, nickname).shared_files = files
      /\ SameRest(WithoutUser(c, nickname), c)
  BY <1>1, <1>3, <1>5, SetBothOf
<1> QED
  BY <1>3, <1>6, <1>7

Replaced(s, i, v) == [s EXCEPT ![i] = v]
SetUser(c, i, v) == [c EXCEPT !.shared_users[i] = v]

\* One user, if there is one, is replaced.
LEMMA UserReplaced ==
  ASSUME NEW c \in ConfigFileType, NEW i, NEW v, i \in DOMAIN c.shared_users => v \in SharedUser
  PROVE  /\ SetUser(c, i, v) \in ConfigFileType
         /\ SameRest(SetUser(c, i, v), c)
         /\ SetUser(c, i, v).shared_files = c.shared_files
         /\ SetUser(c, i, v).shared_users = Replaced(c.shared_users, i, v)
<1> DEFINE users == Replaced(c.shared_users, i, v)
<1>1. SetUser(c, i, v) = SetUsers(c, users)
  BY DEF ConfigFileType, SetUser, SetUsers, Replaced
<1>2. c.shared_users \in Seq(SharedUser)
  BY ConfigFields
<1>3. users \in Seq(SharedUser)
  <2>1. c.shared_users \in [1..Len(c.shared_users) -> SharedUser] /\ Len(c.shared_users) \in Nat
    BY <1>2
  <2>2. users \in [1..Len(c.shared_users) -> SharedUser]
    BY <2>1 DEF Replaced
  <2> HIDE DEF users
  <2> QED
    BY <2>1, <2>2
<1> HIDE DEF users
<1>4. /\ SetUser(c, i, v) \in ConfigFileType
      /\ SetUser(c, i, v).shared_users = users
      /\ SetUser(c, i, v).shared_files = c.shared_files
      /\ SameRest(SetUser(c, i, v), c)
  BY <1>1, <1>3, SetUsersOf
<1> QED
  BY <1>4 DEF users

-----------------------------------------------------------------------------
(* What the uploader and the downloader go by.                             *)

\* The files that are shared with anybody.
Served(c) == {f \in FilesOf(c) : f.shared_with # {}}

\* The users to reach, allowed or not.
Reached(c) == {[u EXCEPT !.allowed = TRUE] : u \in UsersOf(c)}

LEMMA Views ==
  ASSUME NEW c \in ConfigFileType, NEW key
  PROVE  /\ UploaderView(Copy(c, key)) =
              [users |-> UsersOf(c), files |-> Served(c), port |-> c.sharing_port,
               ignore |-> c.ignore_incoming, reverse |-> c.reverse_connection, key |-> key]
         /\ DownloaderView(Copy(c, key)) =
              [users |-> Reached(c), directory |-> c.path_downloads, key |-> key]
<1>1. Copy(c, key).config_file = c /\ Copy(c, key).key = key
  BY DEF Copy
<1>2. /\ Elements(Sanitize(c).shared_users) = UsersOf(c)
      /\ Elements(Sanitize(c).shared_files) = FilesOf(c)
      /\ Sanitize(c).sharing_port = c.sharing_port
      /\ Sanitize(c).ignore_incoming = c.ignore_incoming
      /\ Sanitize(c).reverse_connection = c.reverse_connection
      /\ Sanitize(c).path_downloads = c.path_downloads
  BY SanitizeOf
<1>3. UploaderView(Copy(c, key)) =
              [users |-> UsersOf(c), files |-> Served(c), port |-> c.sharing_port,
               ignore |-> c.ignore_incoming, reverse |-> c.reverse_connection, key |-> key]
  BY <1>1, <1>2 DEF UploaderView, Served
<1>4. DownloaderView(Copy(c, key)) =
              [users |-> Reached(c), directory |-> c.path_downloads, key |-> key]
  BY <1>1, <1>2 DEF DownloaderView, Reached
<1> QED
  BY <1>3, <1>4

\* The configuration itself, with the key that goes with it.
Own(c) == Copy(c, c.my_private_id)

\* The uploader need not be told of new once it has c.
UploaderAgrees(new, c) == UploaderView(Own(Sanitize(new))) = UploaderView(Own(c))

DownloaderAgrees(new, c) == DownloaderView(Own(Sanitize(new))) = DownloaderView(Own(c))

LEMMA UploaderUnmoved ==
  ASSUME NEW c \in ConfigFileType, NEW new \in ConfigFileType,
         UsersOf(new) = UsersOf(c), Served(Sanitize(new)) = Served(c),
         new.my_private_id = c.my_private_id, new.sharing_port = c.sharing_port,
         new.ignore_incoming = c.ignore_incoming,
         new.reverse_connection = c.reverse_connection
  PROVE  UploaderAgrees(new, c)
<1>1. /\ Sanitize(new) \in ConfigFileType
      /\ Sanitize(new).my_private_id = c.my_private_id
      /\ Sanitize(new).sharing_port = c.sharing_port
      /\ Sanitize(new).ignore_incoming = c.ignore_incoming
      /\ Sanitize(new).reverse_connection = c.reverse_connection
  BY SanitizeOf
<1>2. UsersOf(Sanitize(new)) = UsersOf(c)
  BY SanitizeTwice
<1> QED
  BY <1>1, <1>2, Views DEF UploaderAgrees, Own

LEMMA DownloaderUnmoved ==
  ASSUME NEW c \in ConfigFileType, NEW new \in ConfigFileType,
         Reached(new) = Reached(c),
         new.my_private_id = c.my_private_id, new.path_downloads = c.path_downloads
  PROVE  DownloaderAgrees(new, c)
<1>1. /\ Sanitize(new) \in ConfigFileType
      /\ Sanitize(new).my_private_id = c.my_private_id
      /\ Sanitize(new).path_downloads = c.path_downloads
  BY SanitizeOf
<1>2. Reached(Sanitize(new)) = Reached(c)
  BY SanitizeTwice DEF Reached
<1> QED
  BY <1>1, <1>2, Views DEF DownloaderAgrees, Own

\* With the same users, files without "file://", and everything else the same.
LEMMA ServedTwice ==
  ASSUME NEW c \in ConfigFileType, Stripped(c), NEW new \in ConfigFileType,
         new.shared_files = c.shared_files
  PROVE  Served(Sanitize(new)) = Served(c)
<1>1. Stripped(new) /\ FilesOf(new) = FilesOf(c)
  BY DEF Stripped, FilesOf
<1>2. FilesOf(Sanitize(new)) = FilesOf(new)
  BY <1>1, SanitizeTwice
<1> QED
  BY <1>1, <1>2 DEF Served

\* Files that are added and shared with nobody yet are not served.
LEMMA ServedMore ==
  ASSUME NEW c \in ConfigFileType, Stripped(c), NEW new \in ConfigFileType,
         Elements(c.shared_files) \subseteq Elements(new.shared_files),
         \A f \in Elements(new.shared_files) :
            f \in Elements(c.shared_files) \/ f.shared_with = {}
  PROVE  Served(Sanitize(new)) = Served(c)
<1>1. FilesOf(Sanitize(new)) = {SanitizeFile(SanitizeFile(f)) : f \in Elements(new.shared_files)}
  <2>1. FilesOf(Sanitize(new)) = {SanitizeFile(f) : f \in FilesOf(new)}
    BY SanitizeTwice
  <2> QED
    BY <2>1 DEF FilesOf
<1>2. /\ \A f \in Elements(c.shared_files) : f \in ConfigSharedFile
      /\ \A f \in Elements(new.shared_files) : f \in ConfigSharedFile
  BY ConfigFields, ElementsOf
<1>3. \A f \in Elements(c.shared_files) : SanitizeFile(SanitizeFile(f)) = SanitizeFile(f)
  BY <1>2, Files DEF Stripped
<1>4. \A f \in Elements(new.shared_files) :
         f.shared_with = {} => SanitizeFile(SanitizeFile(f)).shared_with = {}
  BY <1>2, Files
<1>5. ASSUME NEW g \in Served(Sanitize(new)) PROVE g \in Served(c)
  <2>1. PICK f \in Elements(new.shared_files) : g = SanitizeFile(SanitizeFile(f))
    BY <1>1 DEF Served
  <2>2. f.shared_with # {}
    BY <1>4, <2>1 DEF Served
  <2>3. f \in Elements(c.shared_files)
    BY <2>2
  <2>4. g = SanitizeFile(f)
    BY <1>3, <2>1, <2>3
  <2> QED
    BY <2>3, <2>4 DEF Served, FilesOf
<1>6. ASSUME NEW g \in Served(c) PROVE g \in Served(Sanitize(new))
  <2>1. PICK f \in Elements(c.shared_files) : g = SanitizeFile(f)
    BY DEF Served, FilesOf
  <2>2. g = SanitizeFile(SanitizeFile(f)) /\ f \in Elements(new.shared_files)
    BY <1>3, <2>1
  <2>3. g \in FilesOf(Sanitize(new))
    BY <1>1, <2>2
  <2> QED
    BY <2>3 DEF Served
<1> QED
  BY <1>5, <1>6

LEMMA UserAllowed ==
  ASSUME NEW u \in SharedUser, NEW b
  PROVE  [u EXCEPT !.allowed = b] =
           [nickname |-> u.nickname, public_id |-> u.public_id, address |-> u.address,
            allowed |-> b]
<1>1. PICK n, i, a, s : u = [nickname |-> n, public_id |-> i, address |-> a, allowed |-> s]
  BY DEF SharedUser
<1>2. [[nickname |-> n, public_id |-> i, address |-> a, allowed |-> s] EXCEPT !.allowed = b] =
        [nickname |-> n, public_id |-> i, address |-> a, allowed |-> b]
  OBVIOUS
<1> QED
  BY <1>1, <1>2

\* Whether a user is allowed is nothing to the downloader.
LEMMA ReachedAnyway ==
  ASSUME NEW c \in ConfigFileType, NEW new \in ConfigFileType, NEW i, NEW state,
         new.shared_users =
            [c.shared_users EXCEPT ![i] = [c.shared_users[i] EXCEPT !.allowed = state]]
  PROVE  Reached(new) = Reached(c)
<1> DEFINE old == c.shared_users
           now == new.shared_users
           R(u) == [TrimUser(u) EXCEPT !.allowed = TRUE]
<1>1. old \in Seq(SharedUser) /\ now \in Seq(SharedUser) /\ DOMAIN now = DOMAIN old
  BY ConfigFields
<1>2. \A u \in SharedUser : R(u) = [nickname |-> Trim(u.nickname), public_id |-> u.public_id,
                                    address |-> u.address, allowed |-> TRUE]
  <2> SUFFICES ASSUME NEW u \in SharedUser
               PROVE  R(u) = [nickname |-> Trim(u.nickname), public_id |-> u.public_id,
                              address |-> u.address, allowed |-> TRUE]
    OBVIOUS
  <2>1. TrimUser(u) = [nickname |-> Trim(u.nickname), public_id |-> u.public_id,
                       address |-> u.address, allowed |-> u.allowed]
        /\ TrimUser(u) \in SharedUser
    BY Users
  <2>2. R(u) = [nickname |-> TrimUser(u).nickname, public_id |-> TrimUser(u).public_id,
                address |-> TrimUser(u).address, allowed |-> TRUE]
    BY <2>1, UserAllowed
  <2> QED
    BY <2>1, <2>2
<1>3. \A j \in DOMAIN old : R(now[j]) = R(old[j])
  <2> SUFFICES ASSUME NEW j \in DOMAIN old PROVE R(now[j]) = R(old[j])
    OBVIOUS
  <2>1. old[j] \in SharedUser /\ now[j] \in SharedUser
    BY <1>1
  <2>2. /\ now[j].nickname = old[j].nickname /\ now[j].public_id = old[j].public_id
        /\ now[j].address = old[j].address
    <3>1. CASE j = i
      <4>1. now[j] = [old[j] EXCEPT !.allowed = state]
        BY <1>1, <3>1
      <4> QED
        BY <2>1, <4>1 DEF SharedUser
    <3>2. CASE j # i
      <4>1. now[j] = old[j]
        BY <1>1, <3>2
      <4> QED
        BY <4>1
    <3> QED
      BY <3>1, <3>2
  <2> HIDE DEF R, now, old
  <2> QED
    BY <1>2, <2>1, <2>2
<1>4. Reached(c) = {R(old[j]) : j \in DOMAIN old}
  BY DEF Reached, UsersOf, Elements
<1>5. Reached(new) = {R(now[j]) : j \in DOMAIN now}
  BY DEF Reached, UsersOf, Elements
<1> HIDE DEF R, now, old
<1> QED
  BY <1>1, <1>3, <1>4, <1>5

-----------------------------------------------------------------------------
(* The types, and what the copies hold.                                    *)

\* The configuration that is in force, and the one about to be, are verified.
Accepted ==
    /\ phase \in {"idle", "open", "write", "remove"} => Valid(config_file) /\ Stripped(config_file)
    /\ phase \in {"open", "write"} => Valid(call.new) /\ Stripped(call.new)

\* At every step of a call the copies agree with the configuration in force.
CopiesFollow ==
    phase \in {"idle", "open", "write", "remove"} =>
        /\ local_private_key = config_file.my_private_id
        /\ UploaderView(uploader) = UploaderView(Own(config_file))
        /\ DownloaderView(downloader) = DownloaderView(Own(config_file))

\* A component that a call does not tell has nothing to learn from it.
Told ==
    phase \in {"open", "write"} =>
        /\ call.rekey <=> call.new.my_private_id # config_file.my_private_id
        /\ "uploader" \notin call.notify =>
              UploaderView(Own(call.new)) = UploaderView(Own(config_file))
        /\ "downloader" \notin call.notify =>
              DownloaderView(Own(call.new)) = DownloaderView(Own(config_file))

CInv == TypeOK /\ Accepted /\ CopiesFollow /\ Told

CallType == [new : ConfigFileType, password : Passwords \cup {None},
             notify : SUBSET Both, rekey : BOOLEAN]

LEMMA FileTypes ==
  /\ Absent \in FileType /\ Torn \in FileType
  /\ \A c \in ConfigFileType, p \in Passwords \cup {None}, n \in 0..NONCE_MAX :
        Contents(c, p, n) \in FileType
  /\ \A f \in FileType : Written(f) =>
        /\ f.config_file \in ConfigFileType
        /\ f.password \in Passwords \cup {None}
        /\ f.nonce \in 0..NONCE_MAX
<1>1. Absent \in FileType /\ Torn \in FileType
  BY DEF FileType
<1>2. \A c \in ConfigFileType, p \in Passwords \cup {None}, n \in 0..NONCE_MAX :
         Contents(c, p, n) \in FileType
  BY DEF FileType, Contents
<1>3. \A f \in FileType : Written(f) =>
        /\ f.config_file \in ConfigFileType
        /\ f.password \in Passwords \cup {None}
        /\ f.nonce \in 0..NONCE_MAX
  BY DEF FileType, Written, Absent, Torn
<1> QED
  BY <1>1, <1>2, <1>3

LEMMA CallTypes ==
  /\ NoCall \in CallType
  /\ \A p \in Passwords \cup {None} : [NoCall EXCEPT !.password = p] \in CallType
  /\ \A c \in ConfigFileType, p \in Passwords \cup {None}, s \in SUBSET Both, b \in BOOLEAN :
        [new |-> c, password |-> p, notify |-> s, rekey |-> b] \in CallType
<1>1. \A c \in ConfigFileType, p \in Passwords \cup {None}, s \in SUBSET Both, b \in BOOLEAN :
        [new |-> c, password |-> p, notify |-> s, rekey |-> b] \in CallType
  BY DEF CallType
<1>2. NoCall \in CallType
  BY EmptyConfigType DEF CallType, NoCall
<1>3. ASSUME NEW p \in Passwords \cup {None} PROVE [NoCall EXCEPT !.password = p] \in CallType
  <2>1. PICK a \in ConfigFileType, q \in Passwords \cup {None}, s \in SUBSET Both, b \in BOOLEAN :
           NoCall = [new |-> a, password |-> q, notify |-> s, rekey |-> b]
    BY <1>2 DEF CallType
  <2>2. [[new |-> a, password |-> q, notify |-> s, rekey |-> b] EXCEPT !.password = p] =
           [new |-> a, password |-> p, notify |-> s, rekey |-> b]
    OBVIOUS
  <2> QED
    BY <1>1, <2>1, <2>2
<1> QED
  BY <1>1, <1>2, <1>3

LEMMA CopyTypes ==
  \A c \in ConfigFileType, k \in Nat : Copy(c, k) \in CopyType
BY DEF Copy, CopyType

LEMMA InitCopies == Init => CInv
<1> SUFFICES ASSUME Init PROVE CInv
  OBVIOUS
<1>1. phase = "down"
  BY DEF Init
<1>2. TypeOK
  <2>1. etrc \in FileType
    <3>1. CASE etrc = Absent
      BY <3>1, FileTypes
    <3>2. CASE etrc # Absent
      <4>1. PICK p \in Passwords, n \in OldNonces : etrc = Contents(EmptyConfig, p, n)
        BY <3>2 DEF Init
      <4> QED
        BY <4>1, FileTypes, EmptyConfigType, Constants
    <3> QED
      BY <3>1, <3>2
  <2>2. Copy(EmptyConfig, 0) \in CopyType
    BY EmptyConfigType, CopyTypes
  <2>3. 0 \in 0..NONCE_MAX /\ 0 \in 0..MaxCalls /\ 0 \in 0..MaxFailures /\ 0 \in 0..MaxCrashes
    BY ConfigAssumption
  <2> QED
    BY <2>1, <2>2, <2>3, EmptyConfigType, FileTypes, CallTypes DEF Init, TypeOK, CallType
<1> QED
  BY <1>1, <1>2 DEF CInv, Accepted, CopiesFollow, Told

\* A call: what it computes is typed, and what it does not tell is as it was.
LEMMA SaveCopies ==
  ASSUME CInv, NEW new \in ConfigFileType, NEW p \in Passwords \cup {None},
         NEW notify \in SUBSET Both, Save(new, p, notify),
         "uploader" \notin notify => UploaderAgrees(new, config_file),
         "downloader" \notin notify => DownloaderAgrees(new, config_file)
  PROVE  CInv'
<1> USE DEF CInv
<1>1. /\ phase = "idle" /\ calls < MaxCalls /\ calls' = calls + 1
      /\ nonce' = IF p = None THEN nonce ELSE Bumped(nonce)
      /\ config_file' = config_file /\ local_private_key' = local_private_key
      /\ uploader' = uploader /\ downloader' = downloader
      /\ json' = json /\ etrc' = etrc /\ overwritten' = overwritten
      /\ failures' = failures /\ crashes' = crashes
  BY DEF Save, Idle, disk
<1>2. nonce' \in 0..NONCE_MAX /\ calls' \in 0..MaxCalls
  BY <1>1, BumpedType, Constants DEF TypeOK
<1>3. /\ Sanitize(new) \in ConfigFileType /\ Stripped(Sanitize(new))
      /\ Sanitize(new).my_private_id = new.my_private_id
  BY SanitizeOf
<1>4. CASE /\ Valid(Sanitize(new))
           /\ phase' = "open"
           /\ call' = [new |-> Sanitize(new), password |-> password, notify |-> notify,
                        rekey |-> new.my_private_id # config_file.my_private_id]
           /\ password' = p
           /\ kept' = IF p # password /\ Written(Expected(password)) THEN Expected(password) ELSE Absent
  <2>1. /\ call'.new = Sanitize(new) /\ call'.notify = notify
        /\ call'.rekey <=> new.my_private_id # config_file.my_private_id
    BY <1>4
  <2>2. call' \in CallType
    <3>1. password \in Passwords \cup {None}
      BY DEF TypeOK
    <3>2. (new.my_private_id # config_file.my_private_id) \in BOOLEAN
      OBVIOUS
    <3> QED
      BY <1>3, <1>4, <3>1, <3>2, CallTypes
  <2>3. kept' \in FileType
    BY <1>4, FileTypes DEF TypeOK, Expected
  <2>4. TypeOK'
    BY <1>1, <1>2, <1>4, <2>2, <2>3 DEF TypeOK, CallType
  <2>5. Accepted'
    BY <1>1, <1>3, <1>4, <2>1 DEF Accepted, Valid, ValidUsers, ValidFiles, Stripped
  <2>6. CopiesFollow'
    BY <1>1, <1>4 DEF CopiesFollow, Own
  <2>7. Told'
    BY <1>1, <1>3, <1>4, <2>1 DEF Told, UploaderAgrees, DownloaderAgrees
  <2> QED
    BY <2>4, <2>5, <2>6, <2>7
<1>5. CASE UNCHANGED <<phase, call, password, kept>>
  <2>1. TypeOK'
    BY <1>1, <1>2, <1>5 DEF TypeOK
  <2>2. Accepted' /\ CopiesFollow' /\ Told'
    BY <1>1, <1>5 DEF Accepted, CopiesFollow, Told
  <2> QED
    BY <2>1, <2>2
<1> QED
  BY <1>4, <1>5 DEF Save

LEMMA OpenFileCopies ==
  ASSUME CInv, OpenFile
  PROVE  CInv'
<1> USE DEF CInv
<1>1. /\ phase = "open" /\ phase' = "write" /\ SetExpected(password, Torn)
      /\ overwritten' = Expected(password) /\ UNCHANGED <<process, call, kept, bounds>>
  BY DEF OpenFile
<1>2. json' \in FileType /\ etrc' \in FileType /\ overwritten' \in FileType
  BY <1>1, FileTypes DEF SetExpected, Expected, TypeOK
<1>3. TypeOK'
  BY <1>1, <1>2 DEF TypeOK, process, bounds
<1>4. Accepted' /\ CopiesFollow' /\ Told'
  BY <1>1 DEF Accepted, CopiesFollow, Told, process
<1> QED
  BY <1>3, <1>4

LEMMA WriteFileCopies ==
  ASSUME CInv, WriteFile
  PROVE  CInv'
<1> USE DEF CInv
<1>1. /\ phase = "write" /\ SetExpected(password, Contents(call.new, password, nonce))
      /\ config_file' = call.new
      /\ local_private_key' = IF call.rekey THEN call.new.my_private_id ELSE local_private_key
      /\ uploader' = IF "uploader" \in call.notify
                     THEN Copy(call.new, local_private_key') ELSE uploader
      /\ downloader' = IF "downloader" \in call.notify
                       THEN Copy(call.new, local_private_key') ELSE downloader
      /\ \/ phase' = "remove" /\ call' = call
         \/ phase' = "idle" /\ call' = NoCall
      /\ UNCHANGED <<password, nonce, history, bounds>>
  BY DEF WriteFile
<1>2. call.new \in ConfigFileType /\ password \in Passwords \cup {None}
      /\ nonce \in 0..NONCE_MAX /\ call \in CallType
  BY DEF TypeOK, CallType
<1>3. json' \in FileType /\ etrc' \in FileType
  <2>1. Contents(call.new, password, nonce) \in FileType
    BY <1>2, FileTypes
  <2> QED
    BY <1>1, <2>1 DEF SetExpected, TypeOK
<1>4. local_private_key' = call.new.my_private_id /\ local_private_key' \in Nat
  <2>1. ~ call.rekey => local_private_key = call.new.my_private_id
    BY <1>1 DEF CopiesFollow, Told
  <2>2. call.new.my_private_id \in Nat
    BY <1>2, ConfigFields
  <2> QED
    BY <1>1, <2>1, <2>2
<1>5. Copy(call.new, local_private_key') = Own(call.new) /\ Own(call.new) \in CopyType
  BY <1>2, <1>4, CopyTypes DEF Own
<1>6. uploader' \in CopyType /\ downloader' \in CopyType
  BY <1>1, <1>5 DEF TypeOK
<1>7. TypeOK'
  <2>1. call' \in CallType
    BY <1>1, <1>2, CallTypes
  <2> QED
    BY <1>1, <1>2, <1>3, <1>4, <1>6, <2>1 DEF TypeOK, history, bounds, CallType
<1>8. Accepted'
  BY <1>1 DEF Accepted
<1>9. UploaderView(uploader') = UploaderView(Own(call.new))
  BY <1>1, <1>5 DEF CopiesFollow, Told
<1>10. DownloaderView(downloader') = DownloaderView(Own(call.new))
  BY <1>1, <1>5 DEF CopiesFollow, Told
<1>11. CopiesFollow'
  BY <1>1, <1>4, <1>9, <1>10 DEF CopiesFollow
<1>12. Told'
  BY <1>1 DEF Told
<1> QED
  BY <1>7, <1>8, <1>11, <1>12

LEMMA CreateFileCopies ==
  ASSUME CInv, CreateFile
  PROVE  CInv'
<1> USE DEF CInv
<1>1. /\ phase' = "down" /\ call' = NoCall
      /\ SetExpected(call.password, Contents(call.new, call.password, 0))
      /\ UNCHANGED <<process, history, bounds>>
  BY DEF CreateFile
<1>2. call.new \in ConfigFileType /\ call.password \in Passwords \cup {None} /\ 0 \in 0..NONCE_MAX
  BY ConfigAssumption DEF TypeOK
<1>3. json' \in FileType /\ etrc' \in FileType
  <2>1. Contents(call.new, call.password, 0) \in FileType
    BY <1>2, FileTypes
  <2> QED
    BY <1>1, <2>1 DEF SetExpected, TypeOK
<1>4. TypeOK'
  BY <1>1, <1>3, CallTypes DEF TypeOK, process, history, bounds, CallType
<1> QED
  BY <1>1, <1>4 DEF Accepted, CopiesFollow, Told

LEMMA WriteFailsCopies ==
  ASSUME CInv, WriteFails
  PROVE  CInv'
<1> USE DEF CInv
<1>1. /\ phase \in {"open", "write"} /\ phase' = "idle" /\ failures < MaxFailures
      /\ failures' = failures + 1 /\ password' = call.password /\ call' = NoCall /\ kept' = Absent
      /\ UNCHANGED <<config_file, local_private_key, nonce, uploader, downloader, disk, overwritten,
                     calls, crashes>>
  BY DEF WriteFails
<1>2. failures' \in 0..MaxFailures /\ password' \in Passwords \cup {None}
  BY <1>1, ConfigAssumption DEF TypeOK
<1>3. TypeOK'
  BY <1>1, <1>2, FileTypes, CallTypes DEF TypeOK, disk, CallType
<1>4. Accepted' /\ CopiesFollow' /\ Told'
  BY <1>1 DEF Accepted, CopiesFollow, Told
<1> QED
  BY <1>3, <1>4

LEMMA RemoveCopies ==
  ASSUME CInv, RemoveFile \/ RemoveFails
  PROVE  CInv'
<1> USE DEF CInv
<1>1. /\ phase = "remove" /\ phase' = "idle" /\ call' = NoCall /\ kept' = Absent
      /\ UNCHANGED <<process, overwritten, calls, crashes>>
      /\ failures' = failures \/ (failures < MaxFailures /\ failures' = failures + 1)
      /\ json' \in {json, Absent} /\ etrc' \in {etrc, Absent}
  BY DEF RemoveFile, RemoveFails, RemoveOther, bounds, disk
<1>2. failures' \in 0..MaxFailures
  BY <1>1, ConfigAssumption DEF TypeOK
<1>3. TypeOK'
  BY <1>1, <1>2, FileTypes, CallTypes DEF TypeOK, process, CallType
<1>4. Accepted' /\ CopiesFollow' /\ Told'
  BY <1>1 DEF Accepted, CopiesFollow, Told, process
<1> QED
  BY <1>3, <1>4

LEMMA CrashCopies ==
  ASSUME CInv, Crash
  PROVE  CInv'
<1> USE DEF CInv
<1>1. /\ phase' = "down" /\ crashes < MaxCrashes /\ crashes' = crashes + 1
      /\ config_file' = EmptyConfig /\ local_private_key' = 0 /\ password' = None /\ nonce' = 0
      /\ uploader' = Copy(EmptyConfig, 0) /\ downloader' = Copy(EmptyConfig, 0)
      /\ call' = NoCall /\ UNCHANGED <<disk, history, calls, failures>>
  BY DEF Crash
<1>2. crashes' \in 0..MaxCrashes /\ 0 \in 0..NONCE_MAX
  BY <1>1, ConfigAssumption DEF TypeOK
<1>3. Copy(EmptyConfig, 0) \in CopyType
  BY EmptyConfigType, CopyTypes
<1>4. TypeOK'
  BY <1>1, <1>2, <1>3, EmptyConfigType, CallTypes DEF TypeOK, disk, history, CallType
<1> QED
  BY <1>1, <1>4 DEF Accepted, CopiesFollow, Told

LEMMA FirstStartCopies ==
  ASSUME CInv, FirstStart
  PROVE  CInv'
<1> USE DEF CInv
<1>1. PICK p \in Passwords \cup {None} :
         /\ SetExpected(p, Torn)
         /\ call' = [NoCall EXCEPT !.password = p]
  BY DEF FirstStart
<1>2. phase' = "create" /\ UNCHANGED <<process, history, bounds>>
  BY DEF FirstStart
<1>3. json' \in FileType /\ etrc' \in FileType
  BY <1>1, FileTypes DEF SetExpected, TypeOK
<1>4. call' \in CallType
  BY <1>1, CallTypes
<1>5. TypeOK'
  BY <1>2, <1>3, <1>4 DEF TypeOK, process, history, bounds, CallType
<1> QED
  BY <1>2, <1>5 DEF Accepted, CopiesFollow, Told

LEMMA StartCopies ==
  ASSUME CInv, Start
  PROVE  CInv'
<1> USE DEF CInv
<1> DEFINE c == Sanitize(Preferred.config_file)
<1>1. /\ Written(Preferred) /\ Valid(c) /\ config_file' = c
      /\ local_private_key' = c.my_private_id
      /\ uploader' = Copy(c, c.my_private_id) /\ downloader' = Copy(c, c.my_private_id)
      /\ password' = Preferred.password
      /\ nonce' = IF Preferred.password = None THEN 0 ELSE Preferred.nonce
      /\ phase' = "idle" /\ kept' = Absent
      /\ UNCHANGED <<call, disk, overwritten, bounds>>
  BY DEF Start
<1>2. /\ Preferred.config_file \in ConfigFileType
      /\ Preferred.password \in Passwords \cup {None}
      /\ Preferred.nonce \in 0..NONCE_MAX
  BY <1>1, FileTypes DEF Preferred, TypeOK
<1>3. c \in ConfigFileType /\ Stripped(c)
  BY <1>2, SanitizeOf
<1> HIDE DEF c
<1>4. Copy(c, c.my_private_id) \in CopyType /\ c.my_private_id \in Nat
  BY <1>3, ConfigFields, CopyTypes
<1>5. nonce' \in 0..NONCE_MAX
  BY <1>1, <1>2, ConfigAssumption
<1>6. TypeOK'
  BY <1>1, <1>2, <1>3, <1>4, <1>5, FileTypes DEF TypeOK, disk, bounds
<1>7. Accepted' /\ CopiesFollow' /\ Told'
  BY <1>1, <1>3 DEF Accepted, CopiesFollow, Told, Own
<1> QED
  BY <1>6, <1>7

\* The calls that set one field.
LEMMA FieldSet ==
  ASSUME NEW c \in ConfigFileType, NEW v, NEW d,
         \/ v \in Nat /\ d = [c EXCEPT !.my_private_id = v]
         \/ v \in Ports /\ d = [c EXCEPT !.sharing_port = v]
         \/ v \in BOOLEAN /\ d = [c EXCEPT !.ignore_incoming = v]
         \/ v \in BOOLEAN /\ d = [c EXCEPT !.reverse_connection = v]
         \/ v \in Directories /\ d = [c EXCEPT !.path_downloads = v]
  PROVE  /\ d \in ConfigFileType
         /\ d.shared_users = c.shared_users
         /\ d.shared_files = c.shared_files
         /\ d = [c EXCEPT !.my_private_id = v] \/ d.my_private_id = c.my_private_id
         /\ d = [c EXCEPT !.sharing_port = v] \/ d.sharing_port = c.sharing_port
         /\ d = [c EXCEPT !.ignore_incoming = v] \/ d.ignore_incoming = c.ignore_incoming
         /\ d = [c EXCEPT !.reverse_connection = v] \/ d.reverse_connection = c.reverse_connection
         /\ d = [c EXCEPT !.path_downloads = v] \/ d.path_downloads = c.path_downloads
<1> DEFINE Made(a, p, i, r, h) ==
             [my_private_id |-> a, shared_users |-> c.shared_users,
              shared_files |-> c.shared_files, sharing_port |-> p, ignore_incoming |-> i,
              reverse_connection |-> r, path_downloads |-> h]
<1>1. /\ c = Made(c.my_private_id, c.sharing_port, c.ignore_incoming, c.reverse_connection,
                  c.path_downloads)
      /\ c.my_private_id \in Nat /\ c.sharing_port \in Ports /\ c.ignore_incoming \in BOOLEAN
      /\ c.reverse_connection \in BOOLEAN /\ c.path_downloads \in Directories
      /\ c.shared_files \in Seq(ConfigSharedFile) /\ c.shared_users \in Seq(SharedUser)
  BY ConfigFields
<1>2. /\ [c EXCEPT !.my_private_id = v] =
            Made(v, c.sharing_port, c.ignore_incoming, c.reverse_connection, c.path_downloads)
      /\ [c EXCEPT !.sharing_port = v] =
            Made(c.my_private_id, v, c.ignore_incoming, c.reverse_connection, c.path_downloads)
      /\ [c EXCEPT !.ignore_incoming = v] =
            Made(c.my_private_id, c.sharing_port, v, c.reverse_connection, c.path_downloads)
      /\ [c EXCEPT !.reverse_connection = v] =
            Made(c.my_private_id, c.sharing_port, c.ignore_incoming, v, c.path_downloads)
      /\ [c EXCEPT !.path_downloads = v] =
            Made(c.my_private_id, c.sharing_port, c.ignore_incoming, c.reverse_connection, v)
  BY DEF ConfigFileType
<1>3. \A a, p, i, r, h :
         /\ Made(a, p, i, r, h).my_private_id = a
         /\ Made(a, p, i, r, h).shared_users = c.shared_users
         /\ Made(a, p, i, r, h).shared_files = c.shared_files
         /\ Made(a, p, i, r, h).sharing_port = p
         /\ Made(a, p, i, r, h).ignore_incoming = i
         /\ Made(a, p, i, r, h).reverse_connection = r
         /\ Made(a, p, i, r, h).path_downloads = h
  OBVIOUS
<1>4. \A a \in Nat, p \in Ports, i \in BOOLEAN, r \in BOOLEAN, h \in Directories :
         Made(a, p, i, r, h) \in ConfigFileType
  BY <1>1 DEF ConfigFileType
<1> HIDE DEF Made
<1>5. CASE v \in Nat /\ d = [c EXCEPT !.my_private_id = v]
  BY <1>1, <1>2, <1>3, <1>4, <1>5
<1>6. CASE v \in Ports /\ d = [c EXCEPT !.sharing_port = v]
  BY <1>1, <1>2, <1>3, <1>4, <1>6
<1>7. CASE v \in BOOLEAN /\ d = [c EXCEPT !.ignore_incoming = v]
  BY <1>1, <1>2, <1>3, <1>4, <1>7
<1>8. CASE v \in BOOLEAN /\ d = [c EXCEPT !.reverse_connection = v]
  BY <1>1, <1>2, <1>3, <1>4, <1>8
<1>9. CASE v \in Directories /\ d = [c EXCEPT !.path_downloads = v]
  BY <1>1, <1>2, <1>3, <1>4, <1>9
<1> QED
  BY <1>5, <1>6, <1>7, <1>8, <1>9

\* A call that writes nothing: the uploader may be told again.
LEMMA QuietCopies ==
  ASSUME CInv,
         UNCHANGED <<phase, config_file, local_private_key, password, nonce, downloader, call, disk,
                     history, bounds>>,
         \/ uploader' = uploader
         \/ phase = "idle" /\ uploader' = Copy(config_file, local_private_key)
  PROVE  CInv'
<1> USE DEF CInv
<1>1. phase = "idle" /\ uploader' = Copy(config_file, local_private_key) =>
         uploader' = Own(config_file) /\ uploader' \in CopyType
  <2>1. Copy(config_file, local_private_key) \in CopyType
    BY CopyTypes DEF TypeOK
  <2> QED
    BY <2>1 DEF CopiesFollow, Own
<1>2. TypeOK'
  BY <1>1 DEF TypeOK, disk, history, bounds
<1>3. Accepted' /\ Told'
  BY DEF Accepted, Told
<1>4. CopiesFollow'
  BY <1>1 DEF CopiesFollow
<1> QED
  BY <1>2, <1>3, <1>4

LEMMA SaveIsIdle ==
  ASSUME CInv, NEW new, NEW p, NEW notify, Save(new, p, notify)
  PROVE  /\ phase = "idle" /\ config_file \in ConfigFileType /\ Stripped(config_file)
         /\ password \in Passwords \cup {None}
         /\ config_file.shared_files \in Seq(ConfigSharedFile)
         /\ config_file.shared_users \in Seq(SharedUser)
BY ConfigFields DEF Save, Idle, CInv, TypeOK, Accepted

\* With the same users, ID and directory the downloader has nothing to learn.
LEMMA SameUsersAgree ==
  ASSUME NEW c \in ConfigFileType, NEW new \in ConfigFileType,
         new.shared_users = c.shared_users,
         new.my_private_id = c.my_private_id, new.path_downloads = c.path_downloads
  PROVE  DownloaderAgrees(new, c)
<1>1. Reached(new) = Reached(c)
  BY DEF Reached, UsersOf
<1> QED
  BY <1>1, DownloaderUnmoved

LEMMA NotifySets ==
  /\ {} \in SUBSET Both /\ {"uploader"} \in SUBSET Both /\ {"downloader"} \in SUBSET Both
  /\ Both \in SUBSET Both /\ "uploader" \in Both /\ "downloader" \in Both
BY DEF Both

LEMMA add_files_Copies ==
  ASSUME CInv, add_files
  PROVE  CInv'
<1>1. PICK paths \in UNION {[1..n -> Text(Paths)] : n \in 1..2} :
         Save(WithFiles(config_file, paths), password, {})
  BY DEF add_files
<1> PICK n \in 1..2 : paths \in [1..n -> Text(Paths)]
  OBVIOUS
<1> DEFINE c == config_file
           new == WithFiles(c, paths)
<1>2. c \in ConfigFileType /\ Stripped(c) /\ password \in Passwords \cup {None} /\ n \in Nat
  BY <1>1, SaveIsIdle
<1>3. /\ new \in ConfigFileType /\ SameRest(new, c) /\ new.shared_users = c.shared_users
      /\ Elements(c.shared_files) \subseteq Elements(new.shared_files)
      /\ \A f \in Elements(new.shared_files) : f \in Elements(c.shared_files) \/ f.shared_with = {}
  BY <1>2, WithFilesOf
<1>4. Served(Sanitize(new)) = Served(c)
  BY <1>2, <1>3, ServedMore
<1>5. UsersOf(new) = UsersOf(c)
  BY <1>3 DEF UsersOf
<1>6. UploaderAgrees(new, c)
  BY <1>2, <1>3, <1>4, <1>5, UploaderUnmoved DEF SameRest
<1>7. DownloaderAgrees(new, c)
  BY <1>2, <1>3, SameUsersAgree DEF SameRest
<1> QED
  BY <1>1, <1>2, <1>3, <1>6, <1>7, SaveCopies, NotifySets

LEMMA add_new_user_Copies ==
  ASSUME CInv, add_new_user
  PROVE  CInv'
<1>1. PICK n \in Nicknames, blank \in BOOLEAN, id \in PublicIds, a \in Addresses :
         Save(WithUser(config_file, [Plain(n) EXCEPT !.blank = blank], id, a), password, Both)
  BY DEF add_new_user
<1> DEFINE new == WithUser(config_file, [Plain(n) EXCEPT !.blank = blank], id, a)
<1>2. config_file \in ConfigFileType /\ password \in Passwords \cup {None}
  BY <1>1, SaveIsIdle
<1>3. new \in ConfigFileType
  BY <1>2, WithUserType
<1> HIDE DEF new
<1>4. Save(new, password, Both)
  BY <1>1 DEF new
<1> QED
  BY <1>2, <1>3, <1>4, SaveCopies, NotifySets

LEMMA add_user_to_shared_Copies ==
  ASSUME CInv, add_user_to_shared
  PROVE  CInv'
<1>1. PICK n \in Nicknames, f \in Elements(config_file.shared_files) :
        \/ Save(Shared(config_file, Plain(n), f.path), password, {"uploader"})
        \/ /\ Idle
           /\ uploader' = Copy(config_file, local_private_key)
           /\ UNCHANGED <<phase, config_file, local_private_key, password, nonce, downloader,
                          call, disk, history, bounds>>
  BY DEF add_user_to_shared
<1>2. CASE Save(Shared(config_file, Plain(n), f.path), password, {"uploader"})
  <2> DEFINE new == Shared(config_file, Plain(n), f.path)
  <2>1. config_file \in ConfigFileType /\ password \in Passwords \cup {None}
    BY <1>2, SaveIsIdle
  <2>2. Plain(n) \in Text(Nicknames)
    BY PlainType
  <2>3. new \in ConfigFileType /\ SameRest(new, config_file)
        /\ new.shared_users = config_file.shared_users
    BY <2>1, <2>2, SharedOf
  <2>4. DownloaderAgrees(new, config_file)
    BY <2>1, <2>3, SameUsersAgree DEF SameRest
  <2> QED
    BY <1>2, <2>1, <2>3, <2>4, SaveCopies, NotifySets
<1>3. CASE /\ Idle
           /\ uploader' = Copy(config_file, local_private_key)
           /\ UNCHANGED <<phase, config_file, local_private_key, password, nonce, downloader,
                          call, disk, history, bounds>>
  BY <1>3, QuietCopies DEF Idle
<1> QED
  BY <1>1, <1>2, <1>3

LEMMA remove_file_from_sharing_Copies ==
  ASSUME CInv, remove_file_from_sharing
  PROVE  CInv'
<1>1. PICK f \in Elements(config_file.shared_files) :
         Save(WithoutFile(config_file, f.path), password, {"uploader"})
  BY DEF remove_file_from_sharing
<1> DEFINE new == WithoutFile(config_file, f.path)
<1>2. config_file \in ConfigFileType /\ password \in Passwords \cup {None}
  BY <1>1, SaveIsIdle
<1>3. new \in ConfigFileType /\ SameRest(new, config_file)
      /\ new.shared_users = config_file.shared_users
  BY <1>2, WithoutFileOf
<1>4. DownloaderAgrees(new, config_file)
  BY <1>2, <1>3, SameUsersAgree DEF SameRest
<1> QED
  BY <1>1, <1>2, <1>3, <1>4, SaveCopies, NotifySets

LEMMA remove_user_from_sharing_Copies ==
  ASSUME CInv, remove_user_from_sharing
  PROVE  CInv'
<1>1. PICK n \in Nicknames, f \in Elements(config_file.shared_files) :
         Save(Unshared(config_file, Plain(n), f.path), password, {"uploader"})
  BY DEF remove_user_from_sharing
<1> DEFINE new == Unshared(config_file, Plain(n), f.path)
<1>2. config_file \in ConfigFileType /\ password \in Passwords \cup {None}
  BY <1>1, SaveIsIdle
<1>3. new \in ConfigFileType /\ SameRest(new, config_file)
      /\ new.shared_users = config_file.shared_users
  BY <1>2, UnsharedOf
<1>4. DownloaderAgrees(new, config_file)
  BY <1>2, <1>3, SameUsersAgree DEF SameRest
<1> QED
  BY <1>1, <1>2, <1>3, <1>4, SaveCopies, NotifySets

LEMMA remove_user_Copies ==
  ASSUME CInv, remove_user
  PROVE  CInv'
<1>1. PICK n \in Nicknames : Save(WithoutUser(config_file, Plain(n)), password, Both)
  BY DEF remove_user
<1>2. config_file \in ConfigFileType /\ password \in Passwords \cup {None}
  BY <1>1, SaveIsIdle
<1>3. WithoutUser(config_file, Plain(n)) \in ConfigFileType
  BY <1>2, WithoutUserOf
<1> QED
  BY <1>1, <1>2, <1>3, SaveCopies, NotifySets

\* create_new_id, set_ignore_incoming: both components are told.
LEMMA ToldBothCopies ==
  ASSUME CInv, create_new_id \/ set_ignore_incoming
  PROVE  CInv'
<1>1. PICK new, v :
         /\ Save(new, password, Both)
         /\ \/ v = config_file.my_private_id + 1 /\ new = [config_file EXCEPT !.my_private_id = v]
            \/ v \in BOOLEAN /\ new = [config_file EXCEPT !.ignore_incoming = v]
  <2>1. CASE create_new_id
    BY <2>1 DEF create_new_id
  <2>2. CASE set_ignore_incoming
    BY <2>2 DEF set_ignore_incoming
  <2> QED
    BY <2>1, <2>2
<1>2. config_file \in ConfigFileType /\ password \in Passwords \cup {None}
  BY <1>1, SaveIsIdle
<1>3. v = config_file.my_private_id + 1 => v \in Nat
  BY <1>2, ConfigFields
<1>4. new \in ConfigFileType
  BY <1>1, <1>2, <1>3, FieldSet
<1> QED
  BY <1>1, <1>2, <1>4, SaveCopies, NotifySets

\* set_port, set_reverse_connection: the downloader is not told.
LEMMA ToldUploaderCopies ==
  ASSUME CInv, set_port \/ set_reverse_connection
  PROVE  CInv'
<1>1. PICK new, v :
         /\ Save(new, password, {"uploader"})
         /\ \/ v \in Ports /\ new = [config_file EXCEPT !.sharing_port = v]
            \/ v \in BOOLEAN /\ new = [config_file EXCEPT !.reverse_connection = v]
  <2>1. CASE set_port
    BY <2>1 DEF set_port
  <2>2. CASE set_reverse_connection
    BY <2>2 DEF set_reverse_connection
  <2> QED
    BY <2>1, <2>2
<1>2. config_file \in ConfigFileType /\ password \in Passwords \cup {None}
  BY <1>1, SaveIsIdle
<1>3. /\ new \in ConfigFileType /\ new.shared_users = config_file.shared_users
      /\ new.my_private_id = config_file.my_private_id
      /\ new.path_downloads = config_file.path_downloads
  <2>1. CASE v \in Ports /\ new = [config_file EXCEPT !.sharing_port = v]
    BY <1>2, <2>1, FieldSet
  <2>2. CASE v \in BOOLEAN /\ new = [config_file EXCEPT !.reverse_connection = v]
    BY <1>2, <2>2, FieldSet
  <2> QED
    BY <1>1, <2>1, <2>2
<1>4. DownloaderAgrees(new, config_file)
  BY <1>2, <1>3, SameUsersAgree
<1> QED
  BY <1>1, <1>2, <1>3, <1>4, SaveCopies, NotifySets

LEMMA set_path_downloads_dir_Copies ==
  ASSUME CInv, set_path_downloads_dir
  PROVE  CInv'
<1>1. PICK new, d :
         /\ d \in Directories
         /\ Save(new, password, {"downloader"})
         /\ new = [config_file EXCEPT !.path_downloads = d]
  BY DEF set_path_downloads_dir
<1>2. config_file \in ConfigFileType /\ password \in Passwords \cup {None} /\ Stripped(config_file)
  BY <1>1, SaveIsIdle
<1>3. /\ new \in ConfigFileType /\ new.shared_users = config_file.shared_users
      /\ new.shared_files = config_file.shared_files
      /\ new.my_private_id = config_file.my_private_id
      /\ new.sharing_port = config_file.sharing_port
      /\ new.ignore_incoming = config_file.ignore_incoming
      /\ new.reverse_connection = config_file.reverse_connection
  BY <1>1, <1>2, FieldSet
<1>4. Served(Sanitize(new)) = Served(config_file)
  BY <1>2, <1>3, ServedTwice
<1>5. UploaderAgrees(new, config_file)
  BY <1>2, <1>3, <1>4, UploaderUnmoved DEF UsersOf
<1> QED
  BY <1>1, <1>2, <1>3, <1>5, SaveCopies, NotifySets

\* The user that set_user_is_allowed_state and update_user change.
FirstOf(c, nickname) ==
    CHOOSE i \in DOMAIN c.shared_users :
        /\ c.shared_users[i].nickname = nickname
        /\ \A j \in 1..(i - 1) : c.shared_users[j].nickname # nickname

LEMMA UserMoved ==
  ASSUME NEW u \in SharedUser, NEW i \in PublicIds, NEW a \in Addresses
  PROVE  [u EXCEPT !.public_id = i, !.address = a] \in SharedUser
<1> DEFINE y == [u EXCEPT !.public_id = i, !.address = a]
           z == [nickname |-> u.nickname, public_id |-> i, address |-> a, allowed |-> u.allowed]
<1>1. u.nickname \in Text(Nicknames) /\ u.allowed \in BOOLEAN
  BY DEF SharedUser
<1>2. z \in SharedUser
  BY <1>1 DEF SharedUser
<1>3. /\ DOMAIN y = {"nickname", "public_id", "address", "allowed"}
      /\ y.nickname = u.nickname /\ y.public_id = i /\ y.address = a /\ y.allowed = u.allowed
  BY DEF SharedUser
<1>4. /\ DOMAIN z = {"nickname", "public_id", "address", "allowed"}
      /\ z.nickname = u.nickname /\ z.public_id = i /\ z.address = a /\ z.allowed = u.allowed
  OBVIOUS
<1>5. y = [j \in DOMAIN y |-> y[j]] /\ z = [j \in DOMAIN z |-> z[j]]
  OBVIOUS
<1> HIDE DEF y, z
<1>6. DOMAIN y = DOMAIN z /\ \A j \in DOMAIN z : y[j] = z[j]
  BY <1>3, <1>4
<1>7. y = z
  BY <1>5, <1>6
<1> QED
  BY <1>2, <1>7 DEF y

LEMMA set_user_is_allowed_state_Copies ==
  ASSUME CInv, set_user_is_allowed_state
  PROVE  CInv'
<1> DEFINE Changed(i, state) == [config_file.shared_users[i] EXCEPT !.allowed = state]
<1>1. PICK n \in Nicknames, state \in BOOLEAN :
         Save(SetUser(config_file, FirstOf(config_file, Plain(n)),
                      Changed(FirstOf(config_file, Plain(n)), state)),
              password, {"uploader"})
  BY DEF set_user_is_allowed_state, WithUserChanged, FirstOf, SetUser
<1> DEFINE i == FirstOf(config_file, Plain(n))
           v == Changed(i, state)
           new == SetUser(config_file, i, v)
<1> HIDE DEF i
<1>2. Save(new, password, {"uploader"})
  BY <1>1 DEF i
<1>3. config_file \in ConfigFileType /\ password \in Passwords \cup {None}
      /\ config_file.shared_users \in Seq(SharedUser)
  BY <1>2, SaveIsIdle
<1>4. i \in DOMAIN config_file.shared_users => v \in SharedUser
  <2>1. ASSUME NEW u \in SharedUser PROVE [u EXCEPT !.allowed = state] \in SharedUser
    BY UserAllowed DEF SharedUser
  <2> QED
    BY <1>3, <2>1
<1>5. v = [config_file.shared_users[i] EXCEPT !.allowed = state]
  OBVIOUS
<1> HIDE DEF v
<1>6. /\ new \in ConfigFileType /\ SameRest(new, config_file)
      /\ new.shared_users = [config_file.shared_users EXCEPT ![i] = v]
  <2>1. new.shared_users = Replaced(config_file.shared_users, i, v)
    BY <1>3, <1>4, UserReplaced
  <2> QED
    BY <1>3, <1>4, <2>1, UserReplaced DEF Replaced
<1> HIDE DEF new
<1>7. Reached(new) = Reached(config_file)
  BY <1>3, <1>5, <1>6, ReachedAnyway
<1>8. DownloaderAgrees(new, config_file)
  BY <1>3, <1>6, <1>7, DownloaderUnmoved DEF SameRest
<1> QED
  BY <1>2, <1>3, <1>6, <1>8, SaveCopies, NotifySets

LEMMA update_user_Copies ==
  ASSUME CInv, update_user
  PROVE  CInv'
<1> DEFINE Changed(i, id, a) ==
             [config_file.shared_users[i] EXCEPT !.public_id = id, !.address = a]
<1>1. PICK n \in Nicknames, id \in PublicIds, a \in Addresses :
         Save(SetUser(config_file, FirstOf(config_file, Plain(n)),
                      Changed(FirstOf(config_file, Plain(n)), id, a)),
              password, Both)
  BY DEF update_user, WithUserChanged, FirstOf, SetUser
<1> DEFINE i == FirstOf(config_file, Plain(n))
           v == Changed(i, id, a)
           new == SetUser(config_file, i, v)
<1> HIDE DEF i
<1>2. Save(new, password, Both)
  BY <1>1 DEF i
<1>3. config_file \in ConfigFileType /\ password \in Passwords \cup {None}
      /\ config_file.shared_users \in Seq(SharedUser)
  BY <1>2, SaveIsIdle
<1>4. i \in DOMAIN config_file.shared_users => v \in SharedUser
  <2> SUFFICES ASSUME i \in DOMAIN config_file.shared_users PROVE v \in SharedUser
    OBVIOUS
  <2> DEFINE u == config_file.shared_users[i]
  <2>1. u \in SharedUser
    BY <1>3
  <2> HIDE DEF u
  <2>2. [u EXCEPT !.public_id = id, !.address = a] \in SharedUser
    BY <2>1, UserMoved
  <2> QED
    BY <2>2 DEF u
<1> HIDE DEF v
<1>5. new \in ConfigFileType
  BY <1>3, <1>4, UserReplaced
<1> HIDE DEF new
<1> QED
  BY <1>2, <1>3, <1>5, SaveCopies, NotifySets

\* encrypt_config, decrypt_config: nothing but the password changes.
LEMMA SwitchCopies ==
  ASSUME CInv, encrypt_config \/ decrypt_config
  PROVE  CInv'
<1>1. PICK p \in Passwords \cup {None} : Save(config_file, p, {})
  BY DEF encrypt_config, decrypt_config
<1>2. config_file \in ConfigFileType /\ Stripped(config_file)
  BY <1>1, SaveIsIdle
<1>3. Served(Sanitize(config_file)) = Served(config_file)
  BY <1>2, ServedTwice
<1>4. UploaderAgrees(config_file, config_file)
  BY <1>2, <1>3, UploaderUnmoved
<1>5. DownloaderAgrees(config_file, config_file)
  BY <1>2, DownloaderUnmoved
<1> QED
  BY <1>1, <1>2, <1>4, <1>5, SaveCopies, NotifySets

LEMMA StepCopies ==
  ASSUME CInv, [Next]_vars
  PROVE  CInv'
<1>1. ASSUME UNCHANGED vars PROVE CInv'
  BY <1>1, QuietCopies DEF vars, process
<1> QED
  BY <1>1, add_files_Copies, add_new_user_Copies, add_user_to_shared_Copies,
     remove_file_from_sharing_Copies, remove_user_from_sharing_Copies, remove_user_Copies,
     ToldBothCopies, ToldUploaderCopies, set_path_downloads_dir_Copies,
     set_user_is_allowed_state_Copies, update_user_Copies, SwitchCopies, OpenFileCopies,
     WriteFileCopies, CreateFileCopies, WriteFailsCopies, RemoveCopies, CrashCopies,
     FirstStartCopies, StartCopies DEF Next

-----------------------------------------------------------------------------
\* The second inductive invariant: a component that is not told of a change has nothing to
\* learn from it, and what is in force has been verified.
THEOREM CopiesInvariant == Spec => []CInv
<1>1. Init => CInv
  BY InitCopies
<1>2. CInv /\ [Next]_vars => CInv'
  BY StepCopies
<1> QED
  BY <1>1, <1>2, PTL DEF Spec

\* Every variable has its type: every configuration that a call computes, sanitizes and
\* stores is one (Config, TransmiticCore).
THEOREM ConfigTypes == Spec => []TypeOK
<1>1. CInv => TypeOK
  BY DEF CInv
<1> QED
  BY <1>1, CopiesInvariant, PTL

\* Whichever component a call of TransmiticCore tells, or forgets to, the uploader and the
\* downloader work with what is configured.
THEOREM CopiesAreCurrent == Spec => []CopiesCurrent
<1>1. CInv => CopiesCurrent
  BY DEF CInv, CopiesFollow, CopiesCurrent, Own
<1> QED
  BY <1>1, CopiesInvariant, PTL

-----------------------------------------------------------------------------
(* What verify_config accepts it accepts with less in it.                  *)

LEMMA TakenItself ==
  ASSUME NEW s
  PROVE  TakenFrom(s, s)
<1>1. [i \in DOMAIN s |-> i] \in [DOMAIN s -> DOMAIN s]
  OBVIOUS
<1> QED
  BY <1>1 DEF TakenFrom

LEMMA TakenTwice ==
  ASSUME NEW a, NEW b, NEW c, TakenFrom(a, b), TakenFrom(b, c)
  PROVE  TakenFrom(a, c)
<1>1. PICK m \in [DOMAIN a -> DOMAIN b] :
        /\ \A i, j \in DOMAIN a : m[i] = m[j] => i = j
        /\ \A i \in DOMAIN a : a[i] = b[m[i]]
  BY DEF TakenFrom
<1>2. PICK l \in [DOMAIN b -> DOMAIN c] :
        /\ \A i, j \in DOMAIN b : l[i] = l[j] => i = j
        /\ \A i \in DOMAIN b : b[i] = c[l[i]]
  BY DEF TakenFrom
<1> DEFINE k == [i \in DOMAIN a |-> l[m[i]]]
<1>3. /\ k \in [DOMAIN a -> DOMAIN c]
      /\ \A i, j \in DOMAIN a : k[i] = k[j] => i = j
      /\ \A i \in DOMAIN a : a[i] = c[k[i]]
  BY <1>1, <1>2
<1> HIDE DEF k
<1> QED
  BY <1>3 DEF TakenFrom

\* No two users that are taken from valid ones have a nickname or an ID in common.
LEMMA FewerUsers ==
  ASSUME NEW s, NEW r, TakenFrom(r, s), ValidUsers(s)
  PROVE  ValidUsers(r)
<1>1. PICK m \in [DOMAIN r -> DOMAIN s] :
        /\ \A i, j \in DOMAIN r : m[i] = m[j] => i = j
        /\ \A i \in DOMAIN r : r[i] = s[m[i]]
  BY DEF TakenFrom
<1>2. ASSUME NEW i \in DOMAIN r, NEW j \in DOMAIN r, i # j
      PROVE  /\ Lower[r[i].nickname.name] # Lower[r[j].nickname.name]
             /\ r[i].public_id # r[j].public_id
  BY <1>1, <1>2 DEF ValidUsers
<1>3. ASSUME NEW u \in Elements(r)
      PROVE  {u.nickname.name, u.public_id, u.address} \subseteq ValidNames
  <2>1. u \in Elements(s)
    BY <1>1 DEF Elements
  <2> QED
    BY <2>1 DEF ValidUsers
<1> QED
  BY <1>2, <1>3 DEF ValidUsers

\* With fewer users, the files at paths that were valid, and nobody to share with that is
\* not a user, a configuration stays valid once it is sanitized.
LEMMA StaysValid ==
  ASSUME NEW c \in ConfigFileType, NEW new \in ConfigFileType, Valid(c), SameRest(new, c),
         \A u \in Elements(c.shared_users) : TrimUser(u) = u,
         TakenFrom(new.shared_users, c.shared_users),
         NEW m \in [DOMAIN new.shared_files -> DOMAIN c.shared_files],
         \A i, j \in DOMAIN new.shared_files : m[i] = m[j] => i = j,
         \A i \in DOMAIN new.shared_files :
            /\ SanitizeFile(new.shared_files[i]).path = c.shared_files[m[i]].path
            /\ SanitizeFile(new.shared_files[i]).shared_with
                  \subseteq {u.nickname : u \in Elements(new.shared_users)}
  PROVE  Valid(Sanitize(new))
<1> DEFINE s == Sorted(new.shared_users)
           users == Sanitize(new).shared_users
           files == Sanitize(new).shared_files
<1>1. /\ users = [i \in DOMAIN s |-> TrimUser(s[i])]
      /\ files = [i \in DOMAIN new.shared_files |-> SanitizeFile(new.shared_files[i])]
      /\ Sanitize(new).sharing_port = c.sharing_port
      /\ Sanitize(new).ignore_incoming = c.ignore_incoming
      /\ Sanitize(new).reverse_connection = c.reverse_connection
  BY SanitizeOf DEF SameRest
<1>2. /\ TakenFrom(s, new.shared_users) /\ Elements(s) = Elements(new.shared_users)
      /\ s \in Seq(SharedUser)
  BY SortedOf, ConfigFields
<1> HIDE DEF s, users, files
<1>3. TakenFrom(s, c.shared_users)
  BY <1>2, TakenTwice
<1>4. users = s
  <2>1. \A i \in DOMAIN s : s[i] \in Elements(c.shared_users)
    BY <1>3 DEF TakenFrom, Elements
  <2>2. \A i \in DOMAIN s : TrimUser(s[i]) = s[i]
    BY <2>1
  <2>3. s = [i \in DOMAIN s |-> s[i]]
    BY <1>2
  <2> QED
    BY <1>1, <2>2, <2>3
<1>5. ValidUsers(users)
  BY <1>3, <1>4, FewerUsers DEF Valid
<1>6. /\ DOMAIN files = DOMAIN new.shared_files
      /\ \A i \in DOMAIN files : files[i] = SanitizeFile(new.shared_files[i])
  BY <1>1
<1>7. ASSUME NEW i \in DOMAIN files, NEW j \in DOMAIN files, i # j
      PROVE  files[i].path # files[j].path
  <2>1. m[i] # m[j] /\ m[i] \in DOMAIN c.shared_files /\ m[j] \in DOMAIN c.shared_files
    BY <1>6, <1>7
  <2>2. files[i].path = c.shared_files[m[i]].path /\ files[j].path = c.shared_files[m[j]].path
    BY <1>6
  <2> QED
    BY <2>1, <2>2 DEF Valid, ValidFiles
<1>8. ASSUME NEW f \in Elements(files)
      PROVE  /\ f.path.name \in ValidNames
             /\ f.shared_with \subseteq {u.nickname : u \in Elements(users)}
  <2>1. PICK i \in DOMAIN files : f = files[i]
    BY DEF Elements
  <2>2. f.path = c.shared_files[m[i]].path /\ c.shared_files[m[i]] \in Elements(c.shared_files)
    BY <1>6, <2>1 DEF Elements
  <2>3. f.shared_with \subseteq {u.nickname : u \in Elements(new.shared_users)}
    BY <1>6, <2>1
  <2>4. f.path.name \in ValidNames
    BY <2>2 DEF Valid, ValidFiles
  <2>5. Elements(users) = Elements(new.shared_users)
    BY <1>2, <1>4
  <2> QED
    BY <2>3, <2>4, <2>5
<1>9. ValidFiles(users, files)
  BY <1>7, <1>8 DEF ValidFiles
<1>10. Valid(c)
  OBVIOUS
<1> QED
  BY <1>1, <1>5, <1>9, <1>10 DEF Valid, users, files

\* In a configuration that is sanitized every string is, and so is what is left of the
\* users with whom a file is shared.
LEMMA CanonicalOf ==
  ASSUME NEW c \in ConfigFileType, Canonical(c)
  PROVE  /\ \A u \in Elements(c.shared_users) : TrimUser(u) = u
         /\ \A i \in DOMAIN c.shared_files : SanitizeFile(c.shared_files[i]) = c.shared_files[i]
         /\ \A i \in DOMAIN c.shared_files :
               \A s \in SUBSET c.shared_files[i].shared_with :
                  /\ SanitizeFile([path |-> c.shared_files[i].path, shared_with |-> s]).path
                        = c.shared_files[i].path
                  /\ SanitizeFile([path |-> c.shared_files[i].path, shared_with |-> s]).shared_with
                        = s
<1>1. c.shared_users \in Seq(SharedUser) /\ c.shared_files \in Seq(ConfigSharedFile)
  BY ConfigFields
<1>2. Elements(c.shared_users) = UsersOf(c)
  BY SanitizeOf DEF Canonical
<1>3. c.shared_files = [i \in DOMAIN c.shared_files |-> SanitizeFile(c.shared_files[i])]
  BY SanitizeOf DEF Canonical
<1>4. \A u \in Elements(c.shared_users) : TrimUser(u) = u
  <2>1. \A u \in Elements(c.shared_users) : TrimUser(TrimUser(u)) = TrimUser(u)
    BY <1>1, ElementsOf, Users
  <2> QED
    BY <1>2, <2>1 DEF UsersOf
<1>5. \A i \in DOMAIN c.shared_files : SanitizeFile(c.shared_files[i]) = c.shared_files[i]
  BY <1>3
<1>6. ASSUME NEW i \in DOMAIN c.shared_files, NEW s \in SUBSET c.shared_files[i].shared_with
      PROVE  /\ SanitizeFile([path |-> c.shared_files[i].path, shared_with |-> s]).path
                   = c.shared_files[i].path
             /\ SanitizeFile([path |-> c.shared_files[i].path, shared_with |-> s]).shared_with = s
  <2> DEFINE f == c.shared_files[i]
             g == [path |-> f.path, shared_with |-> s]
  <2>1. f \in ConfigSharedFile /\ SanitizeFile(f) = f
    BY <1>1, <1>5
  <2> HIDE DEF f
  <2>2. StripPrefix(Trim(f.path)) = f.path /\ f.shared_with = {Trim(n) : n \in f.shared_with}
    BY <2>1 DEF SanitizeFile
  <2>3. \A n \in f.shared_with : Trim(Trim(n)) = Trim(n)
    BY <2>1, Files, Strings
  <2>4. \A n \in f.shared_with : Trim(n) = n
    BY <2>2, <2>3
  <2>5. s \subseteq f.shared_with
    BY DEF f
  <2>6. {Trim(n) : n \in s} = s
    BY <2>4, <2>5
  <2>7. SanitizeFile(g).path = f.path /\ SanitizeFile(g).shared_with = s
    BY <2>2, <2>6 DEF SanitizeFile
  <2> QED
    BY <2>7 DEF f
<1> QED
  BY <1>4, <1>5, <1>6

LEMMA UserRemoved ==
  ASSUME NEW c \in ConfigFileType, Canonical(c), Valid(c), NEW n
  PROVE  Valid(Sanitize(WithoutUser(c, n)))
<1> DEFINE new == WithoutUser(c, n)
           m == [i \in DOMAIN c.shared_files |-> i]
<1>1. /\ new \in ConfigFileType /\ SameRest(new, c)
      /\ TakenFrom(new.shared_users, c.shared_users)
      /\ Elements(new.shared_users) = {u \in Elements(c.shared_users) : u.nickname # n}
      /\ new.shared_files = FilesLeft(c, n)
  BY WithoutUserOf
<1> HIDE DEF new
<1>2. /\ DOMAIN new.shared_files = DOMAIN c.shared_files
      /\ \A i \in DOMAIN c.shared_files :
           new.shared_files[i] = [path |-> c.shared_files[i].path,
                                  shared_with |-> c.shared_files[i].shared_with \ {n}]
  BY <1>1 DEF FilesLeft
<1>3. ASSUME NEW i \in DOMAIN new.shared_files
      PROVE  /\ SanitizeFile(new.shared_files[i]).path = c.shared_files[m[i]].path
             /\ SanitizeFile(new.shared_files[i]).shared_with
                  \subseteq {u.nickname : u \in Elements(new.shared_users)}
  <2> DEFINE s == c.shared_files[i].shared_with \ {n}
  <2>1. new.shared_files[i] = [path |-> c.shared_files[i].path, shared_with |-> s]
        /\ i \in DOMAIN c.shared_files /\ m[i] = i
    BY <1>2
  <2>2. s \in SUBSET c.shared_files[i].shared_with
    OBVIOUS
  <2>3. c.shared_files[i].shared_with \subseteq {u.nickname : u \in Elements(c.shared_users)}
    BY <2>1 DEF Valid, ValidFiles, Elements
  <2>4. s \subseteq {u.nickname : u \in Elements(new.shared_users)}
    BY <1>1, <2>3
  <2> HIDE DEF s, m
  <2>5. /\ SanitizeFile(new.shared_files[i]).path = c.shared_files[i].path
        /\ SanitizeFile(new.shared_files[i]).shared_with = s
    BY <2>1, <2>2, CanonicalOf
  <2> QED
    BY <2>1, <2>4, <2>5
<1>4. m \in [DOMAIN new.shared_files -> DOMAIN c.shared_files]
      /\ \A i, j \in DOMAIN new.shared_files : m[i] = m[j] => i = j
  BY <1>2
<1>5. \A u \in Elements(c.shared_users) : TrimUser(u) = u
  BY CanonicalOf
<1> HIDE DEF m
<1>6. Valid(Sanitize(new))
  BY <1>1, <1>3, <1>4, <1>5, StaysValid
<1> QED
  BY <1>6 DEF new

LEMMA FileRemoved ==
  ASSUME NEW c \in ConfigFileType, Canonical(c), Valid(c), NEW path
  PROVE  Valid(Sanitize(WithoutFile(c, path)))
<1> DEFINE new == WithoutFile(c, path)
<1>1. /\ new \in ConfigFileType /\ SameRest(new, c) /\ new.shared_users = c.shared_users
      /\ TakenFrom(new.shared_files, c.shared_files)
  BY WithoutFileOf
<1> HIDE DEF new
<1>2. PICK m \in [DOMAIN new.shared_files -> DOMAIN c.shared_files] :
        /\ \A i, j \in DOMAIN new.shared_files : m[i] = m[j] => i = j
        /\ \A i \in DOMAIN new.shared_files : new.shared_files[i] = c.shared_files[m[i]]
  BY <1>1 DEF TakenFrom
<1>3. ASSUME NEW i \in DOMAIN new.shared_files
      PROVE  /\ SanitizeFile(new.shared_files[i]).path = c.shared_files[m[i]].path
             /\ SanitizeFile(new.shared_files[i]).shared_with
                  \subseteq {u.nickname : u \in Elements(new.shared_users)}
  <2>1. m[i] \in DOMAIN c.shared_files /\ new.shared_files[i] = c.shared_files[m[i]]
    BY <1>2
  <2>2. SanitizeFile(new.shared_files[i]) = c.shared_files[m[i]]
    BY <2>1, CanonicalOf
  <2>3. c.shared_files[m[i]].shared_with \subseteq {u.nickname : u \in Elements(c.shared_users)}
    BY <2>1 DEF Valid, ValidFiles, Elements
  <2> QED
    BY <1>1, <2>2, <2>3
<1>4. \A u \in Elements(c.shared_users) : TrimUser(u) = u
  BY CanonicalOf
<1>5. TakenFrom(new.shared_users, c.shared_users)
  BY <1>1, TakenItself
<1>6. Valid(Sanitize(new))
  BY <1>1, <1>2, <1>3, <1>4, <1>5, StaysValid
<1> QED
  BY <1>6 DEF new

LEMMA SharingRemoved ==
  ASSUME NEW c \in ConfigFileType, Canonical(c), Valid(c), NEW n, NEW path
  PROVE  Valid(Sanitize(Unshared(c, n, path)))
<1> DEFINE new == Unshared(c, n, path)
           m == [i \in DOMAIN c.shared_files |-> i]
<1>1. /\ new \in ConfigFileType /\ SameRest(new, c) /\ new.shared_users = c.shared_users
      /\ new.shared_files = FilesUnshared(c, n, path)
  BY UnsharedOf
<1> HIDE DEF new
<1>2. /\ DOMAIN new.shared_files = DOMAIN c.shared_files
      /\ \A i \in DOMAIN c.shared_files :
           new.shared_files[i] =
              IF c.shared_files[i].path = path
              THEN [path |-> c.shared_files[i].path,
                    shared_with |-> c.shared_files[i].shared_with \ {n}]
              ELSE c.shared_files[i]
  BY <1>1 DEF FilesUnshared
<1>3. ASSUME NEW i \in DOMAIN new.shared_files
      PROVE  /\ SanitizeFile(new.shared_files[i]).path = c.shared_files[m[i]].path
             /\ SanitizeFile(new.shared_files[i]).shared_with
                  \subseteq {u.nickname : u \in Elements(new.shared_users)}
  <2> DEFINE s == c.shared_files[i].shared_with \ {n}
  <2>1. i \in DOMAIN c.shared_files /\ m[i] = i
    BY <1>2
  <2>2. s \in SUBSET c.shared_files[i].shared_with
    OBVIOUS
  <2>3. c.shared_files[i].shared_with \subseteq {u.nickname : u \in Elements(new.shared_users)}
    BY <1>1, <2>1 DEF Valid, ValidFiles, Elements
  <2> HIDE DEF m
  <2>4. CASE c.shared_files[i].path = path
    <3>1. new.shared_files[i] = [path |-> c.shared_files[i].path, shared_with |-> s]
      BY <1>2, <2>1, <2>4
    <3> HIDE DEF s
    <3>2. /\ SanitizeFile(new.shared_files[i]).path = c.shared_files[i].path
          /\ SanitizeFile(new.shared_files[i]).shared_with = s
      BY <2>1, <2>2, <3>1, CanonicalOf
    <3> QED
      BY <2>1, <2>2, <2>3, <3>2
  <2>5. CASE c.shared_files[i].path # path
    <3>1. SanitizeFile(new.shared_files[i]) = c.shared_files[i]
      <4>1. new.shared_files[i] = c.shared_files[i]
        BY <1>2, <2>1, <2>5
      <4>2. SanitizeFile(c.shared_files[i]) = c.shared_files[i]
        BY <2>1, CanonicalOf
      <4> QED
        BY <4>1, <4>2
    <3> QED
      BY <2>1, <2>3, <3>1
  <2> QED
    BY <2>4, <2>5
<1>4. m \in [DOMAIN new.shared_files -> DOMAIN c.shared_files]
      /\ \A i, j \in DOMAIN new.shared_files : m[i] = m[j] => i = j
  BY <1>2
<1>5. \A u \in Elements(c.shared_users) : TrimUser(u) = u
  BY CanonicalOf
<1>6. TakenFrom(new.shared_users, c.shared_users)
  BY <1>1, TakenItself
<1> HIDE DEF m
<1>7. Valid(Sanitize(new))
  BY <1>1, <1>3, <1>4, <1>5, <1>6, StaysValid
<1> QED
  BY <1>7 DEF new

\* Taking access away is never refused: without a user, a file or the sharing of one a
\* sanitized configuration passes verify_config (remove_user, remove_file_from_sharing,
\* remove_user_from_sharing).
THEOREM RemovalsAreAccepted == Spec => []RemovalsAccepted
<1>1. CInv => RemovalsAccepted
  <2>1. CInv /\ phase = "idle" => config_file \in ConfigFileType /\ Valid(config_file)
    BY DEF CInv, TypeOK, Accepted
  <2> QED
    BY <2>1, UserRemoved, FileRemoved, SharingRemoved DEF RemovalsAccepted
<1> QED
  BY <1>1, CopiesInvariant, PTL

=============================================================================
