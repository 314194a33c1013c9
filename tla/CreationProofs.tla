--------------------------- MODULE CreationProofs ---------------------------
(***************************************************************************)
(* Proofs about Creation, for any inits and mounts, any of them over ssh   *)
(* or with encryption, and any number of failures: mkdir of the first      *)
(* directory decides which init makes the repository.                      *)
(***************************************************************************)
EXTENDS Creation, TLAPS

\* Places of an init that has nothing of the repository, or nothing any more.
Out == {"root", "failed"}
Late == (Running \ {"root", "actions", "storage"}) \union {"ok"}

Types ==
    /\ dirs \subseteq DirsMade
    /\ json \in FileTypes /\ repository \in FileTypes
    /\ init \in [Inits -> Running \union {"ok", "failed"}]
    /\ mount \in [Mounts -> Starting \union {"mounted", "refused", "failed"}]
    /\ read \in [Mounts -> [json : Inits \union {Nobody}, repository : Inits \union {Nobody}]]
    /\ faults \in 0 .. MaxFaults /\ unstored \subseteq Inits

\* One init at most is past the first directory, and made what it is past.
OneMakes ==
    /\ \A p, q \in Inits : init[p] \notin Out /\ init[q] \notin Out => p = q
    /\ \A p \in Inits :
        /\ init[p] \notin Out => "root" \in dirs
        /\ init[p] = "storage" => "actions" \in dirs
        /\ init[p] \in Late => dirs = DirsMade

\* A file there is was made, after the directories, by an init no other one can follow.
MadeBy(file) ==
    /\ file # NoFile => file.by \in Inits
    /\ file.by # Nobody => dirs = DirsMade /\ \A q \in Inits : q # file.by => init[q] \in Out

OneMaker ==
    /\ MadeBy(json) /\ MadeBy(repository)
    /\ json.by # Nobody /\ repository.by # Nobody => json.by = repository.by

\* What a mount has accepted is still there.
ReadIsThere ==
    \A m \in Mounts :
        /\ read[m].json \in {Nobody, json.by} /\ read[m].repository \in {Nobody, repository.by}
        /\ mount[m] \in {"passphrase", "repository", "mounted"} => read[m].json # Nobody
        /\ mount[m] = "mounted" => read[m].repository # Nobody

Inv == Types /\ OneMakes /\ OneMaker /\ ReadIsThere

USE DEF Out, Late, DirsMade, Running, Starting, FileTypes, File, NoFile, States

LEMMA InvInit == Init => Inv
<1> SUFFICES ASSUME Init PROVE Inv
  OBVIOUS
<1>1. faults \in 0 .. MaxFaults
  BY CreationAssumption DEF Init
<1>2. Types
  BY <1>1 DEF Init, Types
<1>3. OneMakes /\ OneMaker /\ ReadIsThere
  BY DEF Init, OneMakes, OneMaker, MadeBy, ReadIsThere
<1>4. QED
  BY <1>2, <1>3 DEF Inv

LEMMA FaultsType == faults \in 0 .. MaxFaults /\ (Works \/ Fails) => faults' \in 0 .. MaxFaults
  BY CreationAssumption DEF Works, Fails

\* An init makes a directory only if nobody has.
LEMMA MakeDirStep ==
  ASSUME Inv, NEW p \in Inits, NEW dir \in DirsMade, MakeDir(p, dir)
  PROVE  Inv'
<1> USE DEF Inv
<1>1. /\ UNCHANGED <<json, repository, mount, read, unstored>>
      /\ Works \/ Fails
      /\ init[p] = dir
      /\ \/ dir \notin dirs /\ dirs' = dirs \union {dir} /\ init' = [init EXCEPT ![p] = Following[dir]]
         \/ UNCHANGED dirs /\ init' = [init EXCEPT ![p] = "failed"]
  BY DEF MakeDir, At, Goes
<1>2. Following["root"] = "actions" /\ Following["actions"] = "storage" /\ Following["storage"] = "checkJson"
  BY DEF Following
<1>3. init \in [Inits -> Running \union {"ok", "failed"}] /\ dirs \subseteq DirsMade
  BY DEF Types
<1>4. Types'
  <2>1. faults' \in 0 .. MaxFaults
    BY <1>1, FaultsType DEF Types
  <2>2. Following[dir] \in Running
    BY <1>2
  <2>3. init' \in [Inits -> Running \union {"ok", "failed"}] /\ dirs' \subseteq DirsMade
    BY <1>1, <1>3, <2>2
  <2>4. QED
    BY <1>1, <2>1, <2>3 DEF Types
<1>5. OneMakes'
  <2>1. CASE UNCHANGED dirs /\ init' = [init EXCEPT ![p] = "failed"]
    BY <1>3, <2>1 DEF OneMakes
  <2>2. CASE dir = "root" /\ dir \notin dirs /\ dirs' = dirs \union {dir}
             /\ init' = [init EXCEPT ![p] = "actions"]
    BY <1>1, <1>3, <2>2 DEF OneMakes
  <2>3. CASE dir = "actions" /\ dirs' = dirs \union {dir} /\ init' = [init EXCEPT ![p] = "storage"]
    BY <1>1, <1>3, <2>3 DEF OneMakes
  <2>4. CASE dir = "storage" /\ dirs' = dirs \union {dir} /\ init' = [init EXCEPT ![p] = "checkJson"]
    <3>1. "root" \in dirs /\ "actions" \in dirs
      BY <1>1, <2>4 DEF OneMakes
    <3>2. dirs' = DirsMade
      BY <1>3, <2>4, <3>1
    <3>3. \A q \in Inits : q # p => init[q] \in Out /\ init'[q] = init[q]
      BY <1>1, <1>3, <2>4 DEF OneMakes
    <3>4. init'[p] = "checkJson"
      BY <1>3, <2>4
    <3>5. QED
      BY <3>2, <3>3, <3>4 DEF OneMakes
  <2>5. CASE dir \notin dirs /\ dirs' = dirs \union {dir} /\ init' = [init EXCEPT ![p] = Following[dir]]
    <3>1. CASE dir = "root"     BY <1>2, <2>2, <2>5, <3>1
    <3>2. CASE dir = "actions"  BY <1>2, <2>3, <2>5, <3>2
    <3>3. CASE dir = "storage"  BY <1>2, <2>4, <2>5, <3>3
    <3>4. QED
      BY <3>1, <3>2, <3>3
  <2>6. QED
    BY <1>1, <2>1, <2>5
<1>6. OneMaker'
  BY <1>1, <1>3 DEF OneMaker, MadeBy
<1>7. ReadIsThere'
  BY <1>1 DEF ReadIsThere
<1>8. QED
  BY <1>4, <1>5, <1>6, <1>7

\* Any other step of the init that made the directories, which may leave a file.
LEMMA LateStep ==
  ASSUME Inv, NEW p \in Inits, NEW place \in Late \union {"failed"},
         init[p] \in Late, init' = [init EXCEPT ![p] = place],
         UNCHANGED <<dirs, mount, read>>,
         json' = json \/ \E s \in {"torn", "whole"} : json' = File(s, p),
         repository' = repository \/ \E s \in {"torn", "whole"} : repository' = File(s, p),
         faults' \in 0 .. MaxFaults, unstored' \subseteq Inits
  PROVE  Inv'
<1> USE DEF Inv
<1>1. init \in [Inits -> Running \union {"ok", "failed"}] /\ p # Nobody
  BY CreationAssumption DEF Types
<1>2. dirs = DirsMade /\ \A q \in Inits : q # p => init[q] \in Out
  BY DEF OneMakes
<1>3. json.by \in {Nobody, p} /\ repository.by \in {Nobody, p}
  BY DEF OneMaker, MadeBy, Types
<1>4. json'.by \in {json.by, p} /\ repository'.by \in {repository.by, p}
  OBVIOUS
<1>5. json' \in FileTypes /\ repository' \in FileTypes
  BY DEF Types
<1>6. Types'
  BY <1>1, <1>5 DEF Types
<1>7. OneMakes'
  BY <1>1, <1>2 DEF OneMakes
<1>8. OneMaker'
  <2>1. \A q \in Inits : q # p => init'[q] \in Out
    BY <1>1, <1>2
  <2>2. MadeBy(json)'
    BY <1>2, <1>3, <1>4, <2>1 DEF OneMaker, MadeBy
  <2>3. MadeBy(repository)'
    BY <1>2, <1>3, <1>4, <2>1 DEF OneMaker, MadeBy
  <2>4. QED
    BY <1>3, <1>4, <2>2, <2>3 DEF OneMaker
<1>9. ReadIsThere'
  BY <1>3, <1>4 DEF ReadIsThere
<1>10. QED
  BY <1>6, <1>7, <1>8, <1>9

LEMMA OutcomesType ==
  ASSUME NEW p, NEW outcome \in {Stored} \union Failures(p)
  PROVE  outcome.file \in {"torn", "whole"}
  BY DEF Stored, Failures, SshFailures, LocalFailures, PutOutcome

LEMMA InitSteps ==
  ASSUME Inv, NEW p \in Inits, InitStep(p) \/ Die(p)
  PROVE  Inv'
<1>1. unstored \subseteq Inits /\ faults \in 0 .. MaxFaults /\ init[p] \in Running \union {"ok", "failed"}
  BY DEF Inv, Types
<1>2. Works \/ Fails => faults' \in 0 .. MaxFaults
  BY <1>1, FaultsType
<1>3. ASSUME NEW dir \in DirsMade, MakeDir(p, dir) PROVE Inv'
  BY <1>3, MakeDirStep
<1>4. CASE CheckJson(p)
  BY <1>1, <1>2, <1>4, LateStep DEF CheckJson, At, Goes
<1>5. CASE CheckRepository(p)
  BY <1>1, <1>2, <1>5, LateStep DEF CheckRepository, At, Goes
<1>6. CASE PutJson(p)
  BY <1>1, <1>2, <1>6, LateStep DEF PutJson, At, Goes
<1>7. CASE WriteJson(p)
  <2>1. PICK outcome \in {Stored} \union Failures(p) :
            (Works \/ Fails) /\ json' = File(outcome.file, p) /\ Written(p, outcome)
    BY <1>7 DEF WriteJson
  <2>2. unstored' \subseteq Inits
    BY <1>1, <2>1 DEF Written
  <2>3. \E s \in {"torn", "whole"} : json' = File(s, p)
    BY <2>1, OutcomesType
  <2>4. QED
    BY <1>2, <1>7, <2>1, <2>2, <2>3, LateStep DEF WriteJson, At, Goes
<1>8. CASE Encrypt(p)
  BY <1>1, <1>2, <1>8, LateStep DEF Encrypt, At, Goes
<1>9. CASE PutRepository(p)
  BY <1>1, <1>2, <1>9, LateStep DEF PutRepository, At, Goes
<1>10. CASE WriteRepository(p)
  <2>1. PICK outcome \in {Stored} \union Failures(p) :
            /\ (Works \/ Fails) /\ repository' = File(outcome.file, p) /\ Written(p, outcome)
            /\ Goes(p, IF outcome.answer = "ok" THEN "ok" ELSE "failed")
    BY <1>10 DEF WriteRepository
  <2>2. unstored' \subseteq Inits
    BY <1>1, <2>1 DEF Written
  <2>3. \E s \in {"torn", "whole"} : repository' = File(s, p)
    BY <2>1, OutcomesType
  <2>4. QED
    BY <1>2, <1>10, <2>1, <2>2, <2>3, LateStep DEF WriteRepository, At, Goes
<1>11. CASE Die(p)
  <2>1. /\ UNCHANGED <<dirs, json, repository, mount, read, unstored, faults>>
        /\ init' = [init EXCEPT ![p] = "failed"]
    BY <1>11 DEF Die, Goes, Works
  <2>2. init \in [Inits -> Running \union {"ok", "failed"}]
    BY DEF Inv, Types
  <2>3. Types' /\ OneMakes'
    BY <2>1, <2>2 DEF Inv, Types, OneMakes
  <2>4. OneMaker' /\ ReadIsThere'
    BY <2>1, <2>2 DEF Inv, OneMaker, MadeBy, ReadIsThere
  <2>5. QED
    BY <2>3, <2>4 DEF Inv
<1>12. QED
  BY <1>3, <1>4, <1>5, <1>6, <1>7, <1>8, <1>9, <1>10, <1>11 DEF InitStep

\* The steps of a mount change nothing of the repository.
LEMMA MountSteps ==
  ASSUME Inv, NEW m \in Mounts, MountStep(m)
  PROVE  Inv'
<1> USE DEF Inv
<1>1. UNCHANGED <<dirs, json, repository, init, unstored>> /\ faults' \in 0 .. MaxFaults
  BY FaultsType DEF MountStep, ReadJson, AskPassphrase, ReadRepository, Refuse, CannotRead, Types
<1>2. /\ mount \in [Mounts -> Starting \union {"mounted", "refused", "failed"}]
      /\ read \in [Mounts -> [json : Inits \union {Nobody}, repository : Inits \union {Nobody}]]
      /\ json.by \in Inits \union {Nobody} /\ repository.by \in Inits \union {Nobody}
  BY DEF Types
<1>3. OneMakes' /\ OneMaker'
  BY <1>1 DEF OneMakes, OneMaker, MadeBy
<1>4. CASE \E place \in {"refused", "failed"} : mount' = [mount EXCEPT ![m] = place] /\ UNCHANGED read
  BY <1>1, <1>2, <1>3, <1>4 DEF Types, ReadIsThere
<1>5. CASE /\ json.state = "whole" /\ mount' = [mount EXCEPT ![m] = "passphrase"]
           /\ read' = [read EXCEPT ![m].json = json.by]
  <2>1. json.by # Nobody
    BY <1>5, CreationAssumption DEF OneMaker, MadeBy
  <2>2. \A n \in Mounts : read'[n] = IF n = m THEN [read[n] EXCEPT !.json = json.by] ELSE read[n]
    BY <1>2, <1>5
  <2>3. QED
    BY <1>1, <1>2, <1>3, <1>5, <2>1, <2>2 DEF Types, ReadIsThere
<1>6. CASE /\ mount[m] = "passphrase" /\ mount' = [mount EXCEPT ![m] = "repository"]
           /\ UNCHANGED read
  BY <1>1, <1>2, <1>3, <1>6 DEF Types, ReadIsThere
<1>7. CASE /\ repository.state = "whole" /\ mount[m] = "repository"
           /\ mount' = [mount EXCEPT ![m] = "mounted"]
           /\ read' = [read EXCEPT ![m].repository = repository.by]
  <2>1. repository.by # Nobody
    BY <1>7, CreationAssumption DEF OneMaker, MadeBy
  <2>2. \A n \in Mounts : read'[n] = IF n = m THEN [read[n] EXCEPT !.repository = repository.by] ELSE read[n]
    BY <1>2, <1>7
  <2>3. QED
    BY <1>1, <1>2, <1>3, <1>7, <2>1, <2>2 DEF Types, ReadIsThere
<1>8. QED
  BY <1>4, <1>5, <1>6, <1>7
     DEF MountStep, ReadJson, AskPassphrase, ReadRepository, Refuse, CannotRead, MountGoes

LEMMA InvStep == Inv /\ [Next]_vars => Inv'
<1>1. ASSUME Inv, UNCHANGED vars PROVE Inv'
  BY <1>1 DEF Inv, Types, OneMakes, OneMaker, MadeBy, ReadIsThere, vars
<1>2. QED
  BY <1>1, InitSteps, MountSteps DEF Next

LEMMA InvHolds == Spec => []Inv
<1>1. QED
  BY InvInit, InvStep, PTL DEF Spec

\* Every variable keeps its type, and only one bucse-init gets past the mkdir of the
\* repository's directory (createDirs), however many run at once.
THEOREM TypeCorrect == Spec => []TypeOK
<1>1. Inv => TypeOK
  BY DEF Inv, Types, OneMakes, TypeOK
<1>2. QED
  BY <1>1, InvHolds, PTL

\* What is mounted is one repository: repository.json and repository come from one
\* init, which had made all the directories, however inits race, fail and die.
THEOREM OneRepository == Spec => []MountsOneRepository
<1>1. Inv => MountsOneRepository
  <2> SUFFICES ASSUME Inv, NEW m \in Mounts, mount[m] = "mounted"
               PROVE  read[m].json = read[m].repository /\ dirs = DirsMade
    BY DEF MountsOneRepository
  <2>1. /\ read[m].json # Nobody /\ read[m].json = json.by
        /\ read[m].repository # Nobody /\ read[m].repository = repository.by
    BY DEF Inv, ReadIsThere
  <2>2. QED
    BY <2>1 DEF Inv, OneMaker, MadeBy
<1>2. QED
  BY <1>1, InvHolds, PTL

\* No init ever writes a file that another one has made, though the destinations'
\* puts of a file in a directory would truncate it: what createDirs checks is
\* enough.
THEOREM NothingIsOverwritten == Spec => NothingOverwritten
<1> DEFINE Keeps == /\ json # NoFile => json'.by = json.by
                    /\ repository # NoFile => repository'.by = repository.by
<1>1. Inv /\ [Next]_vars => [Keeps]_vars
  <2> SUFFICES ASSUME Inv, Next PROVE Keeps
    OBVIOUS
  <2>1. ASSUME NEW p \in Inits, InitStep(p) \/ Die(p) PROVE Keeps
    <3>1. \/ UNCHANGED <<json, repository>>
          \/ init[p] \in {"putJson", "writeJson"} /\ json'.by = p /\ UNCHANGED repository
          \/ init[p] \in {"putRepository", "writeRepository"} /\ repository'.by = p /\ UNCHANGED json
      BY <2>1 DEF InitStep, Die, MakeDir, CheckJson, CheckRepository, PutJson, WriteJson, Encrypt,
                  PutRepository, WriteRepository, At
    <3>2. init[p] \notin Out => (json # NoFile => json.by = p)
                                /\ (repository # NoFile => repository.by = p)
      BY CreationAssumption DEF Inv, OneMaker, MadeBy
    <3>3. QED
      BY <3>1, <3>2
  <2>2. ASSUME NEW m \in Mounts, MountStep(m) PROVE Keeps
    BY <2>2 DEF MountStep, ReadJson, AskPassphrase, ReadRepository
  <2>3. QED
    BY <2>1, <2>2 DEF Next
<1>2. QED
  BY <1>1, InvHolds, PTL DEF Spec, NothingOverwritten
=============================================================================
