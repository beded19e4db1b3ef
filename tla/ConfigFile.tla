----------------------------- MODULE ConfigFile -----------------------------
(***************************************************************************)
(* The configuration of transmitic-core: the copy in memory (Config), the  *)
(* two files it may be kept in (transmitic_config.json in the clear,       *)
(* transmitic_config.etrc encrypted under a password), the calls of        *)
(* TransmiticCore that change it, and the copies the uploader and the      *)
(* downloader work with.                                                   *)
(*                                                                         *)
(* Every call computes a new ConfigFile, has it sanitized and verified,    *)
(* writes it with fs::write, which truncates first and writes then, and    *)
(* only then makes it the configuration and passes it on.  The process may *)
(* end between any two of these steps, and each access to the disk may     *)
(* fail.                                                                   *)
(*                                                                         *)
(* A string is a name with the blanks and the "file://" around it that     *)
(* sanitize_config removes.  Only nicknames and paths are given them:      *)
(* trimming the other strings comes before every use of them.  Whether a   *)
(* name is one the verification accepts is a constant (ValidNames, ...).   *)
(***************************************************************************)
EXTENDS Naturals, Sequences, FiniteSets

CONSTANTS
    Nicknames,      \* names of users
    Paths,          \* paths of shared files
    PublicIds,      \* public IDs of users
    Addresses,      \* an IP address with its port
    Ports,          \* sharing ports
    Passwords,      \* passwords of an encrypted configuration
    Directories,    \* downloads directories
    ValidNames,     \* nicknames, paths, ... that the verification accepts
    Lower,          \* nickname -> the nickname in lower case
    Rank,           \* name -> its place in the order of strings, from 1
    DefaultPort,    \* "45454"
    NoDirectory,    \* "", which stands for the default
    NONCE_MAX,      \* the last nonce of an encrypted configuration
    OldNonces,      \* nonces of a configuration from earlier runs
    None,           \* no password
    MaxCalls,       \* bound: calls that reach write_and_set_config
    MaxFailures,    \* bound: failed accesses to the disk
    MaxCrashes      \* bound: ends of the process

ASSUME ConfigAssumption ==
    /\ NONCE_MAX \in Nat
    /\ OldNonces \subseteq 0..NONCE_MAX
    /\ MaxCalls \in 1..NONCE_MAX     \* as 2^96 - 1 is beyond any number of calls
    /\ MaxFailures \in Nat
    /\ MaxCrashes \in Nat
    /\ None \notin Passwords
    /\ Lower \in [Nicknames -> Nicknames]
    /\ Rank \in [Nicknames -> Nat]
    /\ DefaultPort \in Ports \cap ValidNames
    /\ NoDirectory \in Directories

VARIABLES
    phase,              \* where the process is in a call, or "down"
    config_file,        \* Config.config_file
    local_private_key,  \* Config.local_private_key_bytes
    password,           \* Config.password
    nonce,              \* Config.nonce
    uploader,           \* the configuration of the uploader
    downloader,         \* the configuration of the downloader
    call,               \* the call that is being carried out
    json, etrc,         \* the two files
    kept,               \* history: what a change of password must not lose
    overwritten,        \* history: the nonce of the file being overwritten
    calls, failures, crashes

process == <<config_file, local_private_key, password, nonce, uploader, downloader>>
disk == <<json, etrc>>
history == <<kept, overwritten>>
bounds == <<calls, failures, crashes>>
vars == <<phase, process, call, disk, history, bounds>>

-----------------------------------------------------------------------------
(* Strings, users, files and what sanitize_config makes of them.  A string   *)
(* has blanks around it, "file://" in front, and blanks behind that.         *)

Text(Names) ==
    {t \in [blank : BOOLEAN, prefix : BOOLEAN, inner : BOOLEAN, name : Names] : t.inner => t.prefix}

Plain(n) == [blank |-> FALSE, prefix |-> FALSE, inner |-> FALSE, name |-> n]

Trim(t) == [t EXCEPT !.blank = FALSE]

\* The blanks behind a prefix are in front once the prefix is gone.
StripPrefix(t) ==
    IF t.prefix /\ ~t.blank
    THEN [t EXCEPT !.prefix = FALSE, !.blank = t.inner, !.inner = FALSE]
    ELSE t

SharedUser == [nickname : Text(Nicknames), public_id : PublicIds,
               address : Addresses, allowed : BOOLEAN]

ConfigSharedFile == [path : Text(Paths), shared_with : SUBSET Text(Nicknames)]

ConfigFileType ==
    [my_private_id : Nat, shared_users : Seq(SharedUser), shared_files : Seq(ConfigSharedFile),
     sharing_port : Ports, ignore_incoming : BOOLEAN, reverse_connection : BOOLEAN,
     path_downloads : Directories]

Elements(s) == {s[i] : i \in DOMAIN s}

\* Vec::retain: what is left of s when only the elements in T are kept.
Retained(s, T) ==
    LET left[i \in 0..Len(s)] ==
            IF i = 0 THEN <<>> ELSE IF s[i] \in T THEN Append(left[i - 1], s[i]) ELSE left[i - 1]
    IN  left[Len(s)]

\* A string that starts with a blank sorts before every letter.
SortKey(t) == IF t.blank THEN 0 ELSE Rank[t.name]

\* The stable sort by nickname: user i comes after the users that sort lower
\* and after the users in front of it that sort the same.
Sorted(users) ==
    LET Before(i) == {j \in DOMAIN users :
                        \/ SortKey(users[j].nickname) < SortKey(users[i].nickname)
                        \/ SortKey(users[j].nickname) = SortKey(users[i].nickname) /\ j < i}
    IN  [k \in DOMAIN users |->
            users[CHOOSE i \in DOMAIN users : Cardinality(Before(i)) = k - 1]]

TrimUser(u) == [u EXCEPT !.nickname = Trim(u.nickname)]

SanitizeFile(f) ==
    [path |-> StripPrefix(Trim(f.path)), shared_with |-> {Trim(n) : n \in f.shared_with}]

\* The users are sorted before they are trimmed.
Sanitize(c) ==
    LET users == Sorted(c.shared_users)
    IN  [c EXCEPT !.shared_users = [i \in DOMAIN users |-> TrimUser(users[i])],
                  !.shared_files = [i \in DOMAIN c.shared_files |-> SanitizeFile(c.shared_files[i])]]

-----------------------------------------------------------------------------
(* What verify_config demands of a sanitized configuration.                 *)

ValidUsers(users) ==
    /\ \A i, j \in DOMAIN users : i # j =>
          /\ Lower[users[i].nickname.name] # Lower[users[j].nickname.name]
          /\ users[i].public_id # users[j].public_id
    /\ \A u \in Elements(users) : {u.nickname.name, u.public_id, u.address} \subseteq ValidNames

ValidFiles(users, files) ==
    /\ \A i, j \in DOMAIN files : i # j => files[i].path # files[j].path
    /\ \A f \in Elements(files) :
          /\ f.path.name \in ValidNames
          /\ f.shared_with \subseteq {u.nickname : u \in Elements(users)}

Valid(c) ==
    /\ c.sharing_port \in ValidNames
    /\ ValidUsers(c.shared_users)
    /\ ValidFiles(c.shared_users, c.shared_files)
    /\ ~(c.ignore_incoming /\ c.reverse_connection)

-----------------------------------------------------------------------------
(* The new configuration each call computes.                                *)

EmptyConfig ==
    [my_private_id |-> 0, shared_users |-> <<>>, shared_files |-> <<>>,
     sharing_port |-> DefaultPort, ignore_incoming |-> FALSE, reverse_connection |-> FALSE,
     path_downloads |-> NoDirectory]

HasUser(c, nickname) == \E u \in Elements(c.shared_users) : u.nickname = nickname
HasFile(c, path) == \E f \in Elements(c.shared_files) : f.path = path

\* Files that are shared already are left out, by the state before the call.
WithFiles(c, paths) ==
    LET files == [i \in DOMAIN paths |-> StripPrefix(paths[i])]
        added == Retained(files, {path \in Elements(files) : ~HasFile(c, path)})
    IN  [c EXCEPT !.shared_files =
            @ \o [i \in DOMAIN added |-> [path |-> added[i], shared_with |-> {}]]]

WithUser(c, nickname, public_id, address) ==
    [c EXCEPT !.shared_users =
        Append(@, [nickname |-> nickname, public_id |-> public_id,
                   address |-> address, allowed |-> TRUE])]

\* Every file of that path is changed by one of the calls that stop sharing.
WithSharing(c, path, Change(_)) ==
    LET Changed(f) == [f EXCEPT !.shared_with = Change(@)]
    IN  [c EXCEPT !.shared_files = [i \in DOMAIN @ |->
            IF @[i].path = path THEN Changed(@[i]) ELSE @[i]]]

Shared(c, nickname, path) == WithSharing(c, path, LAMBDA users : users \cup {nickname})

Unshared(c, nickname, path) == WithSharing(c, path, LAMBDA users : users \ {nickname})

WithoutFile(c, path) ==
    LET others == {f \in Elements(c.shared_files) : f.path # path}
    IN  [c EXCEPT !.shared_files = Retained(@, others)]

\* Mutant of WithoutUser: the files are still shared with the user.
WithoutUserOnly(c, nickname) ==
    LET others == {u \in Elements(c.shared_users) : u.nickname # nickname}
    IN  [c EXCEPT !.shared_users = Retained(@, others)]

\* A removed user is removed from every file first.
WithoutUser(c, nickname) ==
    LET others == {u \in Elements(c.shared_users) : u.nickname # nickname}
        Left(f) == [f EXCEPT !.shared_with = @ \ {nickname}]
    IN  [c EXCEPT !.shared_users = Retained(@, others),
                  !.shared_files = [i \in DOMAIN @ |-> Left(@[i])]]

\* set_user_is_allowed_state and update_user change the first user of that name.
WithUserChanged(c, nickname, Change(_)) ==
    LET first == CHOOSE i \in DOMAIN c.shared_users :
                    /\ c.shared_users[i].nickname = nickname
                    /\ \A j \in 1..(i - 1) : c.shared_users[j].nickname # nickname
    IN  [c EXCEPT !.shared_users[first] = Change(@)]

-----------------------------------------------------------------------------
(* Files.                                                                    *)

Absent == [is |-> "absent"]
Torn == [is |-> "torn"]     \* truncated, or written in part
Contents(c, p, n) == [is |-> "written", config_file |-> c, password |-> p, nonce |-> n]

FileType ==
    {Absent, Torn} \cup
    [is : {"written"}, config_file : ConfigFileType, password : Passwords \cup {None}, nonce : 0..NONCE_MAX]

Written(file) == file.is = "written"

\* get_expected_config_path
Expected(p) == IF p = None THEN json ELSE etrc

SetExpected(p, file) ==
    IF p = None THEN json' = file /\ UNCHANGED etrc ELSE etrc' = file /\ UNCHANGED json

\* The file of the other kind, which a change of password leaves behind.
RemoveOther(p) ==
    IF p = None THEN etrc' = Absent /\ UNCHANGED json ELSE json' = Absent /\ UNCHANGED etrc

-----------------------------------------------------------------------------
(* write_and_set_config.                                                     *)

NoCall == [new |-> EmptyConfig, password |-> None, notify |-> {}, rekey |-> FALSE]

Copy(c, key) == [config_file |-> c, key |-> key]

\* Mutant of Bumped: the nonce is left as it is.
BumpedNever(n) == n

\* Mutant of Bumped: the nonce has no limit.
BumpedFreely(n) == n + 1

Bumped(n) == IF n >= NONCE_MAX THEN 0 ELSE n + 1

Idle == phase = "idle" /\ calls < MaxCalls

\* A call with the configuration it has computed, the password it writes under
\* and the components it passes the result on to.  create_new_id also
\* replaces local_private_key_bytes.  The nonce is changed before
\* the verification, and stays changed when that refuses the configuration.
Save(new, p, notify) ==
    /\ Idle
    /\ calls' = calls + 1
    /\ nonce' = IF p = None THEN nonce ELSE Bumped(nonce)
    /\ \/ /\ Valid(Sanitize(new))
          /\ phase' = "open"
          /\ call' = [new |-> Sanitize(new), password |-> password, notify |-> notify,
                       rekey |-> new.my_private_id # config_file.my_private_id]
          /\ password' = p
          /\ kept' = IF p # password /\ Written(Expected(password)) THEN Expected(password) ELSE Absent
       \/ /\ ~Valid(Sanitize(new))
          /\ UNCHANGED <<phase, call, password, kept>>
    /\ UNCHANGED <<config_file, local_private_key, uploader, downloader, disk, overwritten,
                   failures, crashes>>

\* Mutant of OpenFile: the file of the other kind is removed first.
OpenFileAlone ==
    /\ phase = "open"
    /\ phase' = "write"
    /\ IF password = call.password
       THEN SetExpected(password, Torn)
       ELSE IF password = None THEN etrc' = Absent /\ json' = Torn ELSE json' = Absent /\ etrc' = Torn
    /\ overwritten' = Expected(password)
    /\ UNCHANGED <<process, call, kept, bounds>>

\* fs::write, first half: the file is created or truncated.
OpenFile ==
    /\ phase = "open"
    /\ phase' = "write"
    /\ SetExpected(password, Torn)
    /\ overwritten' = Expected(password)
    /\ UNCHANGED <<process, call, kept, bounds>>

\* fs::write, second half; then the configuration is set and passed on, or, at
\* a change of the password, the other file is to be removed.
WriteFile ==
    /\ phase = "write"
    /\ SetExpected(password, Contents(call.new, password, nonce))
    /\ config_file' = call.new
    /\ local_private_key' = IF call.rekey THEN call.new.my_private_id ELSE local_private_key
    /\ uploader' = IF "uploader" \in call.notify
                   THEN Copy(call.new, local_private_key') ELSE uploader
    /\ downloader' = IF "downloader" \in call.notify
                     THEN Copy(call.new, local_private_key') ELSE downloader
    /\ \/ password # call.password /\ phase' = "remove" /\ UNCHANGED call
       \/ password = call.password /\ phase' = "idle" /\ call' = NoCall
    /\ UNCHANGED <<password, nonce, history, bounds>>

\* The first start writes a new configuration under NONCE_INIT.
CreateFile ==
    /\ phase = "create"
    /\ SetExpected(call.password, Contents(call.new, call.password, 0))
    /\ phase' = "down"
    /\ call' = NoCall
    /\ UNCHANGED <<process, history, bounds>>

\* Mutant of WriteFails: the configuration was set before it was written.
WriteFailsSet ==
    /\ phase \in {"open", "write"}
    /\ failures < MaxFailures
    /\ failures' = failures + 1
    /\ phase' = "idle"
    /\ password' = call.password
    /\ config_file' = call.new
    /\ call' = NoCall
    /\ kept' = Absent
    /\ UNCHANGED <<local_private_key, nonce, uploader, downloader, disk, overwritten, calls, crashes>>

\* Either half fails: the call returns the error, and the calls that change the
\* password set it back.
WriteFails ==
    /\ phase \in {"open", "write"}
    /\ failures < MaxFailures
    /\ failures' = failures + 1
    /\ phase' = "idle"
    /\ password' = call.password
    /\ call' = NoCall
    /\ kept' = Absent
    /\ UNCHANGED <<config_file, local_private_key, nonce, uploader, downloader, disk, overwritten,
                   calls, crashes>>

\* encrypt_config and decrypt_config remove the file they no longer use.
RemoveFile ==
    /\ phase = "remove"
    /\ RemoveOther(password)
    /\ phase' = "idle"
    /\ call' = NoCall
    /\ kept' = Absent
    /\ UNCHANGED <<process, overwritten, bounds>>

RemoveFails ==
    /\ phase = "remove"
    /\ failures < MaxFailures
    /\ failures' = failures + 1
    /\ phase' = "idle"
    /\ call' = NoCall
    /\ kept' = Absent
    /\ UNCHANGED <<process, disk, overwritten, calls, crashes>>

-----------------------------------------------------------------------------
(* The calls of TransmiticCore.                                              *)

Both == {"uploader", "downloader"}

add_files ==
    \E paths \in UNION {[1..n -> Text(Paths)] : n \in 1..2} :
        Save(WithFiles(config_file, paths), password, {})

add_new_user ==
    \E n \in Nicknames, blank \in BOOLEAN, id \in PublicIds, a \in Addresses :
        Save(WithUser(config_file, [Plain(n) EXCEPT !.blank = blank], id, a), password, Both)

\* Sharing what is shared already writes nothing, and tells the uploader.
add_user_to_shared ==
    \E n \in Nicknames, f \in Elements(config_file.shared_files) :
        /\ HasUser(config_file, Plain(n))
        /\ \/ /\ Plain(n) \notin f.shared_with
              /\ Save(Shared(config_file, Plain(n), f.path), password, {"uploader"})
           \/ /\ Plain(n) \in f.shared_with
              /\ Idle
              /\ uploader' = Copy(config_file, local_private_key)
              /\ UNCHANGED <<phase, config_file, local_private_key, password, nonce, downloader,
                             call, disk, history, bounds>>

create_new_id ==
    Save([config_file EXCEPT !.my_private_id = @ + 1], password, Both)

remove_file_from_sharing ==
    \E f \in Elements(config_file.shared_files) :
        Save(WithoutFile(config_file, f.path), password, {"uploader"})

remove_user_from_sharing ==
    \E n \in Nicknames, f \in Elements(config_file.shared_files) :
        Save(Unshared(config_file, Plain(n), f.path), password, {"uploader"})

\* Mutant of remove_user: the uploader is not told.
RemoveUserUntold ==
    \E n \in Nicknames :
        Save(WithoutUser(config_file, Plain(n)), password, {"downloader"})

remove_user ==
    \E n \in Nicknames : Save(WithoutUser(config_file, Plain(n)), password, Both)

set_port ==
    \E p \in Ports : Save([config_file EXCEPT !.sharing_port = p], password, {"uploader"})

set_path_downloads_dir ==
    \E d \in Directories :
        Save([config_file EXCEPT !.path_downloads = d], password, {"downloader"})

set_ignore_incoming ==
    \E state \in BOOLEAN : Save([config_file EXCEPT !.ignore_incoming = state], password, Both)

set_reverse_connection ==
    \E state \in BOOLEAN :
        Save([config_file EXCEPT !.reverse_connection = state], password, {"uploader"})

set_user_is_allowed_state ==
    \E n \in Nicknames, state \in BOOLEAN :
        LET Change(u) == [u EXCEPT !.allowed = state]
        IN  /\ HasUser(config_file, Plain(n))
            /\ Save(WithUserChanged(config_file, Plain(n), Change), password, {"uploader"})

update_user ==
    \E n \in Nicknames, id \in PublicIds, a \in Addresses :
        LET Change(u) == [u EXCEPT !.public_id = id, !.address = a]
        IN  /\ HasUser(config_file, Plain(n))
            /\ Save(WithUserChanged(config_file, Plain(n), Change), password, Both)

encrypt_config ==
    /\ password = None
    /\ \E p \in Passwords : Save(config_file, p, {})

decrypt_config ==
    /\ password # None
    /\ Save(config_file, None, {})

-----------------------------------------------------------------------------
(* The process ends and starts.                                              *)

\* What memory held is lost; what was written stays.
Crash ==
    /\ phase # "down"
    /\ crashes < MaxCrashes
    /\ crashes' = crashes + 1
    /\ phase' = "down"
    /\ config_file' = EmptyConfig
    /\ local_private_key' = 0
    /\ password' = None
    /\ nonce' = 0
    /\ uploader' = Copy(EmptyConfig, 0)
    /\ downloader' = Copy(EmptyConfig, 0)
    /\ call' = NoCall
    /\ UNCHANGED <<disk, history, calls, failures>>

\* Which file a start reads is decided outside of the library, by which of the
\* files get_path_encrypted_config and get_path_config_json name exist.
Preferred == IF etrc # Absent THEN etrc ELSE json

\* Config::new on a first start: create_new_config truncates, CreateFile writes.
FirstStart ==
    /\ phase = "down"
    /\ Preferred = Absent
    /\ \E p \in Passwords \cup {None} :
          /\ SetExpected(p, Torn)
          /\ call' = [NoCall EXCEPT !.password = p]
    /\ phase' = "create"
    /\ UNCHANGED <<process, history, bounds>>

\* Config::new with the right password, and the threads that TransmiticCore::new
\* starts with copies.  What is read is sanitized and verified again, and a file
\* that cannot be read, or is refused, is not started from.  The nonce is that of
\* an encrypted file, NONCE_INIT otherwise.
Start ==
    /\ phase = "down"
    /\ Written(Preferred)
    /\ LET c == Sanitize(Preferred.config_file)
       IN  /\ Valid(c)
           /\ config_file' = c
           /\ local_private_key' = c.my_private_id
           /\ uploader' = Copy(c, c.my_private_id)
           /\ downloader' = Copy(c, c.my_private_id)
    /\ password' = Preferred.password
    /\ nonce' = IF Preferred.password = None THEN 0 ELSE Preferred.nonce
    /\ phase' = "idle"
    /\ kept' = Absent
    /\ UNCHANGED <<call, disk, overwritten, bounds>>

\* There is no configuration yet, or an encrypted one after any number of writes.
Init ==
    /\ phase = "down"
    /\ config_file = EmptyConfig
    /\ local_private_key = 0
    /\ password = None
    /\ nonce = 0
    /\ uploader = Copy(EmptyConfig, 0)
    /\ downloader = Copy(EmptyConfig, 0)
    /\ call = NoCall
    /\ json = Absent
    /\ etrc \in {Absent} \cup
               {Contents(EmptyConfig, p, n) : p \in Passwords, n \in OldNonces}
    /\ kept = Absent
    /\ overwritten = Absent
    /\ calls = 0
    /\ failures = 0
    /\ crashes = 0

Next ==
    \/ add_files
    \/ add_new_user
    \/ add_user_to_shared
    \/ create_new_id
    \/ remove_file_from_sharing
    \/ remove_user_from_sharing
    \/ remove_user
    \/ set_port
    \/ set_path_downloads_dir
    \/ set_ignore_incoming
    \/ set_reverse_connection
    \/ set_user_is_allowed_state
    \/ update_user
    \/ encrypt_config
    \/ decrypt_config
    \/ OpenFile
    \/ WriteFile
    \/ CreateFile
    \/ WriteFails
    \/ RemoveFile
    \/ RemoveFails
    \/ Crash
    \/ FirstStart
    \/ Start

Spec == Init /\ [][Next]_vars

-----------------------------------------------------------------------------
(* Properties.                                                               *)

CopyType == [config_file : ConfigFileType, key : Nat]

\* Every variable has its type; an idle process has a configuration that the
\* verification accepts.
TypeOK ==
    /\ phase \in {"down", "create", "idle", "open", "write", "remove"}
    /\ config_file \in ConfigFileType
    /\ local_private_key \in Nat
    /\ password \in Passwords \cup {None}
    /\ nonce \in 0..NONCE_MAX
    /\ uploader \in CopyType
    /\ downloader \in CopyType
    /\ call \in [new : ConfigFileType, password : Passwords \cup {None},
                 notify : SUBSET Both, rekey : BOOLEAN]
    /\ {json, etrc, kept, overwritten} \subseteq FileType
    /\ calls \in 0..MaxCalls
    /\ failures \in 0..MaxFailures
    /\ crashes \in 0..MaxCrashes

\* Between two calls the file that the configuration is kept in holds what memory
\* holds (sanitized, if a start has read it), under the password in use, or nothing that can be taken for a
\* configuration: what the user was told is done is what a start finds, and what
\* the user was told has failed is not (write_and_set_config writes, then sets).
Durable ==
    phase = "idle" =>
        \/ Expected(password) = Torn
        \/ /\ Written(Expected(password))
           /\ config_file \in {Expected(password).config_file, Sanitize(Expected(password).config_file)}
           /\ Expected(password).password = password

\* encrypt_config and decrypt_config keep the old file until the new one is
\* complete: wherever they are interrupted, and whichever access fails, the
\* configuration can be read from one of the two.
SwitchKeepsConfig ==
    kept # Absent =>
        \E file \in {json, etrc} : Written(file) /\ file.config_file = kept.config_file

\* An encrypted configuration never replaces one that carries the same nonce,
\* over restarts, refused calls and the return to 0.
NonceMoves ==
    phase = "write" /\ password # None /\ Written(overwritten) => nonce # overwritten.nonce

\* What sanitize_config leaves alone.
Canonical(c) == Sanitize(c) = c

\* The calls that take access away are never refused: removing a user, a file or
\* a user from a file leaves a configuration that verify_config accepts.  (Of a
\* configuration with a string that is still to be sanitized this does not hold:
\* the trimmed path may be that of another file.)
RemovalsAccepted ==
    phase = "idle" /\ Canonical(config_file) =>
        /\ \A n \in Nicknames : Valid(Sanitize(WithoutUser(config_file, Plain(n))))
        /\ \A f \in Elements(config_file.shared_files) :
              /\ Valid(Sanitize(WithoutFile(config_file, f.path)))
              /\ \A n \in Nicknames : Valid(Sanitize(Unshared(config_file, Plain(n), f.path)))

\* What the uploader goes by: who is served what, at which port and in which mode.
UploaderView(copy) ==
    LET c == Sanitize(copy.config_file)
    IN  [users |-> Elements(c.shared_users),
         files |-> {f \in Elements(c.shared_files) : f.shared_with # {}},
         port |-> c.sharing_port, ignore |-> c.ignore_incoming,
         reverse |-> c.reverse_connection, key |-> copy.key]

\* What the downloader goes by: whom to reach and how, and where to store.
DownloaderView(copy) ==
    LET c == Sanitize(copy.config_file)
    IN  [users |-> {[u EXCEPT !.allowed = TRUE] : u \in Elements(c.shared_users)},
         directory |-> c.path_downloads, key |-> copy.key]

\* Between two calls the uploader and the downloader agree with the configuration
\* in everything they use, whichever components a call tells, and whether it
\* succeeded, failed or was refused; and the key in use is that of my_private_id.
CopiesCurrent ==
    phase = "idle" =>
        LET mine == Copy(config_file, config_file.my_private_id)
        IN  /\ UploaderView(uploader) = UploaderView(mine)
            /\ DownloaderView(downloader) = DownloaderView(mine)
=============================================================================
