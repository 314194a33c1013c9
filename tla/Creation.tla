------------------------------ MODULE Creation ------------------------------
(***************************************************************************)
(* Runs of bucse-init on one path (bucse-init.c, createDirs and the puts   *)
(* of the destinations), of which any may die or fail in the middle, while *)
(* bucse-mount is started on it (main, parseRepositoryJsonFile and         *)
(* parseRepositoryFile in bucse-mount.c).  An init stands for the          *)
(* encryption and the passphrase it was given; a mount is given the        *)
(* passphrase of one of them, or none.                                     *)
(***************************************************************************)
EXTENDS Destination

CONSTANTS
    Inits,      \* runs of bucse-init
    Mounts,     \* starts of bucse-mount
    Ssh,        \* those that reach the path over ssh
    Aes,        \* the inits that encrypt
    Passphrase, \* whose passphrase a mount is given
    MaxFaults   \* bound on the failures of the file system, the server and encrypt

Nobody == "nobody"

ASSUME CreationAssumption ==
    /\ Ssh \subseteq Inits \union Mounts /\ Aes \subseteq Inits /\ Nobody \notin Inits
    /\ Passphrase \in [Mounts -> Inits \union {Nobody}] /\ MaxFaults \in Nat

VARIABLES
    dirs,       \* the directories made
    json,       \* repository.json: its state and the init that wrote it
    repository, \* the file "repository", likewise
    init,       \* where each init is
    mount,      \* where each mount is
    read,       \* per mount: whose repository.json and repository it has accepted
    faults,     \* how often anything failed
    unstored    \* history: inits whose repository.json or repository was not stored

vars == <<dirs, json, repository, init, mount, read, faults, unstored>>

DirsMade == {"root", "actions", "storage"}
File(state, by) == [state |-> state, by |-> by]
NoFile == File("none", Nobody)
Running == {"root", "actions", "storage", "checkJson", "checkRepository", "putJson", "writeJson",
            "encrypt", "putRepository", "writeRepository"}
Starting == {"json", "passphrase", "repository"}

Init ==
    /\ dirs = {} /\ json = NoFile /\ repository = NoFile
    /\ init = [p \in Inits |-> "root"] /\ mount = [m \in Mounts |-> "json"]
    /\ read = [m \in Mounts |-> [json |-> Nobody, repository |-> Nobody]]
    /\ faults = 0 /\ unstored = {}

Works == UNCHANGED faults
Fails == faults < MaxFaults /\ faults' = faults + 1
At(p, place) == init[p] = place
Goes(p, place) == init' = [init EXCEPT ![p] = place]

-----------------------------------------------------------------------------
\* createDirs: each directory must not be there yet.
Following == [root |-> "actions", actions |-> "storage", storage |-> "checkJson"]

\* Mutant: a directory that is there will do.
MakeDirAnyway(p, dir) ==
    /\ At(p, dir) /\ dirs' = dirs \union {dir}
    /\ Goes(p, Following[dir]) /\ Works
    /\ UNCHANGED <<json, repository, mount, read, unstored>>

MakeDir(p, dir) ==
    /\ At(p, dir)
    /\ \/ dir \notin dirs /\ dirs' = dirs \union {dir} /\ Goes(p, Following[dir]) /\ Works
       \/ dir \in dirs /\ UNCHANGED dirs /\ Goes(p, "failed") /\ Works
       \/ UNCHANGED dirs /\ Goes(p, "failed") /\ Fails
    /\ UNCHANGED <<json, repository, mount, read, unstored>>

\* Nor the two files.
CheckJson(p) ==
    /\ At(p, "checkJson")
    /\ \/ Goes(p, IF json = NoFile THEN "checkRepository" ELSE "failed") /\ Works
       \/ Goes(p, "failed") /\ Fails
    /\ UNCHANGED <<dirs, json, repository, mount, read, unstored>>

CheckRepository(p) ==
    /\ At(p, "checkRepository")
    /\ \/ Goes(p, IF repository = NoFile THEN "putJson" ELSE "failed") /\ Works
       \/ Goes(p, "failed") /\ Fails
    /\ UNCHANGED <<dirs, json, repository, mount, read, unstored>>

\* The open of a put: over ssh with O_EXCL, else it truncates what is there.
CanOpen(p, file) == p \in Ssh => file = NoFile
Failures(p) == IF p \in Ssh THEN SshFailures ELSE LocalFailures

\* initRepo does not look at what the put of repository.json answers.
PutJson(p) ==
    /\ At(p, "putJson")
    /\ \/ CanOpen(p, json) /\ json' = File("torn", p) /\ Goes(p, "writeJson") /\ Works /\ UNCHANGED unstored
       \/ /\ UNCHANGED json /\ Goes(p, "encrypt") /\ unstored' = unstored \union {p}
          /\ IF CanOpen(p, json) THEN Fails ELSE Works
    /\ UNCHANGED <<dirs, repository, mount, read>>

Written(p, outcome) == unstored' = IF outcome.file = "whole" THEN unstored ELSE unstored \union {p}

WriteJson(p) ==
    /\ At(p, "writeJson") /\ Goes(p, "encrypt")
    /\ \E outcome \in {Stored} \union Failures(p) :
        /\ IF outcome = Stored THEN Works ELSE Fails
        /\ json' = File(outcome.file, p) /\ Written(p, outcome)
    /\ UNCHANGED <<dirs, repository, mount, read>>

Encrypt(p) ==
    /\ At(p, "encrypt")
    /\ \/ Goes(p, "putRepository") /\ Works
       \/ p \in Aes /\ Goes(p, "failed") /\ Fails
    /\ UNCHANGED <<dirs, json, repository, mount, read, unstored>>

PutRepository(p) ==
    /\ At(p, "putRepository")
    /\ \/ CanOpen(p, repository) /\ repository' = File("torn", p) /\ Goes(p, "writeRepository") /\ Works
       \/ UNCHANGED repository /\ Goes(p, "failed") /\ IF CanOpen(p, repository) THEN Fails ELSE Works
    /\ UNCHANGED <<dirs, json, mount, read, unstored>>

WriteRepository(p) ==
    /\ At(p, "writeRepository")
    /\ \E outcome \in {Stored} \union Failures(p) :
        /\ IF outcome = Stored THEN Works ELSE Fails
        /\ repository' = File(outcome.file, p) /\ Written(p, outcome)
        /\ Goes(p, IF outcome.answer = "ok" THEN "ok" ELSE "failed")
    /\ UNCHANGED <<dirs, json, mount, read>>

\* The process dies; what it made stays.
Die(p) ==
    /\ init[p] \in Running /\ Goes(p, "failed") /\ Works
    /\ UNCHANGED <<dirs, json, repository, mount, read, unstored>>

-----------------------------------------------------------------------------
MountGoes(m, place) == mount' = [mount EXCEPT ![m] = place]
Refuse(m) == MountGoes(m, "refused") /\ Works /\ UNCHANGED read
CannotRead(m) == MountGoes(m, "failed") /\ Fails /\ UNCHANGED read

\* parseRepositoryJsonFile: a part of the file is no json object.
ReadJson(m) ==
    /\ mount[m] = "json"
    /\ \/ /\ json.state = "whole" /\ Works
          /\ MountGoes(m, "passphrase") /\ read' = [read EXCEPT ![m].json = json.by]
       \/ json.state # "whole" /\ Refuse(m)
       \/ CannotRead(m)
    /\ UNCHANGED <<dirs, json, repository, init, unstored>>

\* Mutant: a passphrase is needed whatever the encryption.
AskAlways(m) ==
    /\ mount[m] = "passphrase"
    /\ IF Passphrase[m] = Nobody THEN Refuse(m)
       ELSE MountGoes(m, "repository") /\ Works /\ UNCHANGED read
    /\ UNCHANGED <<dirs, json, repository, init, unstored>>

\* The encryption it names needs a passphrase.
AskPassphrase(m) ==
    /\ mount[m] = "passphrase"
    /\ IF read[m].json \in Aes /\ Passphrase[m] = Nobody THEN Refuse(m)
       ELSE MountGoes(m, "repository") /\ Works /\ UNCHANGED read
    /\ UNCHANGED <<dirs, json, repository, init, unstored>>

\* What decrypt makes of the file is a json object with a time.
Decrypts(m, by) ==
    IF read[m].json \in Aes THEN by \in Aes /\ Passphrase[m] = by ELSE by \notin Aes

\* parseRepositoryFile.
ReadRepository(m) ==
    /\ mount[m] = "repository"
    /\ LET good == repository.state = "whole" /\ Decrypts(m, repository.by)
       IN \/ /\ good /\ Works
             /\ MountGoes(m, "mounted") /\ read' = [read EXCEPT ![m].repository = repository.by]
          \/ ~good /\ Refuse(m)
          \/ CannotRead(m)
    /\ UNCHANGED <<dirs, json, repository, init, unstored>>

-----------------------------------------------------------------------------
InitStep(p) ==
    \/ \E dir \in DirsMade : MakeDir(p, dir)
    \/ CheckJson(p) \/ CheckRepository(p) \/ PutJson(p) \/ WriteJson(p)
    \/ Encrypt(p) \/ PutRepository(p) \/ WriteRepository(p)
MountStep(m) == ReadJson(m) \/ AskPassphrase(m) \/ ReadRepository(m)

Next ==
    \/ \E p \in Inits : InitStep(p) \/ Die(p)
    \/ \E m \in Mounts : MountStep(m)

\* A mount that was started goes on.
Spec == Init /\ [][Next]_vars /\ \A m \in Mounts : WF_vars(MountStep(m))

-----------------------------------------------------------------------------
\* Every variable keeps its type, and only one init ever gets past the first directory.
FileTypes == [state : States, by : Inits \union {Nobody}]
TypeOK ==
    /\ dirs \subseteq DirsMade
    /\ json \in FileTypes /\ repository \in FileTypes
    /\ init \in [Inits -> Running \union {"ok", "failed"}]
    /\ mount \in [Mounts -> Starting \union {"mounted", "refused", "failed"}]
    /\ read \in [Mounts -> [json : Inits \union {Nobody}, repository : Inits \union {Nobody}]]
    /\ faults \in 0 .. MaxFaults /\ unstored \subseteq Inits
    /\ \A p, q \in Inits : init[p] \notin {"root", "failed"} /\ init[q] \notin {"root", "failed"} => p = q

\* Whatever is mounted was made by one init, in full: nothing mixes two runs that race
\* for the path or mounts half of one (the files do not name each other).
MountsOneRepository ==
    \A m \in Mounts : mount[m] = "mounted" =>
        read[m].json = read[m].repository /\ dirs = DirsMade

\* A file that an init has made is not changed by another one, which over a directory
\* would truncate it.
NothingOverwritten ==
    [][/\ json # NoFile => json'.by = json.by
       /\ repository # NoFile => repository'.by = repository.by]_vars

\* When an init answered 0, a mount with its passphrase succeeds, unless a put that
\* failed was not noticed (the one of repository.json never is) or the mount itself
\* cannot read a file.
Usable(m) ==
    \E p \in Inits \ unstored : init[p] = "ok" /\ (p \in Aes => Passphrase[m] = p) /\ mount[m] = "json"
CreatedMounts ==
    \A m \in Mounts : Usable(m) ~> mount[m] \in {"mounted", "failed"}
=============================================================================
