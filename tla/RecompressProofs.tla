-------------------------- MODULE RecompressProofs --------------------------
(***************************************************************************)
(* Proofs about Recompress, for every bucket, way to start the command,    *)
(* number of tasks and attempts, and number of faults.                     *)
(***************************************************************************)
EXTENDS Recompress, TLAPS

(* What OriginalKept and BackupMatches need: no two keys share scratch     *)
(* files, and a rewrite has more members than one, so that a second run    *)
(* can tell it from a source.                                              *)
Careful ==
  /\ \A j, k \in Keys : Stem[j] = Stem[k] => j = k
  /\ \A s \in Sources : Records[s] # 1

(* The scratch files of a task hold what it is about: from the download to *)
(* the backup the source, which is still in the bucket, from the rewrite   *)
(* to the PUT the rewrite of this source; and before the PUT the backup is *)
(* this source.                                                            *)
Kept(k) ==
  \/ obj[k] = Source(Start[k])
  \/ obj[k] = Rewrite(Start[k]) /\ backup[k] = Source(Start[k])
HasSource == {"rewrite", "verify", "copy", "backup"}
HasRewrite == {"verify", "copy", "backup", "upload", "head"}
HasBackup == {"backup", "upload", "head"}
Owned(k) ==
  /\ Kept(k)
  /\ pc[k] = "shape" => orig[Path(k)] = obj[k]
  /\ pc[k] \in HasSource => orig[Path(k)] = obj[k] /\ obj[k] = Source(Start[k])
  /\ pc[k] \in HasRewrite => new[Path(k)] = Rewrite(Start[k])
  /\ pc[k] \in HasBackup => backup[k] = Source(Start[k])

IInv == TypeOK /\ \A k \in Keys \ replaced : Owned(k)

(* Sources and rewrites are different objects. *)
LEMMA TwoKinds ==
  ASSUME NEW s \in Sources
  PROVE  /\ Source(s) \in Objects /\ Rewrite(s) \in Objects
         /\ \A o \in Objects : o = Source(o.src) \/ o = Rewrite(o.src)
         /\ Source(s) # Rewrite(s)
         /\ Source(s).src = s /\ Rewrite(s).src = s
         /\ Rewrite(s).rewritten
BY DEF Objects, Source, Rewrite

(* The next step of a task keeps the types of what it changes, ... *)
LEMMA TypeGoto ==
  ASSUME TypeOK, NEW k \in Keys, NEW p \in Steps, Goto(k, p)
  PROVE  pc' \in [Keys -> Steps] /\ tries' \in [Keys -> 0..Attempts - 1] /\ pc'[k] = p
<1>1. 0 \in 0..Attempts - 1
  BY DataAssumption
<1>2. QED
  BY <1>1 DEF TypeOK, Goto

(* ... and so does the end of a task, ... *)
LEMMA TypeReturn ==
  ASSUME TypeOK, NEW k \in Keys, NEW p \in Steps, Return(k, p)
  PROVE  /\ pc' \in [Keys -> Steps] /\ tries' \in [Keys -> 0..Attempts - 1] /\ pc'[k] = p
         /\ orig' \in [Keys -> Objects \cup {None}]
         /\ new' \in [Keys -> Objects \cup {None}]
<1>1. Goto(k, p)
  BY DEF Return
<1>2. Path(k) \in Keys
  BY DataAssumption DEF Path
<1>3. QED
  BY <1>1, <1>2, TypeGoto DEF TypeOK, Return

(* ... another attempt, ... *)
LEMMA TypeAgain ==
  ASSUME TypeOK, NEW k \in Keys, NEW p \in Steps, ~Last(k), Again(k, p)
  PROVE  pc' \in [Keys -> Steps] /\ tries' \in [Keys -> 0..Attempts - 1] /\ pc'[k] = p
<1>1. tries[k] + 1 \in 0..Attempts - 1
  BY DataAssumption DEF TypeOK, Last
<1>2. QED
  BY <1>1 DEF TypeOK, Again

(* ... and an attempt that fails, which starts over or ends the task. *)
LEMMA TypeAttemptFails ==
  ASSUME TypeOK, NEW k \in Keys, NEW p \in Steps, AttemptFails(k, p)
  PROVE  /\ pc' \in [Keys -> Steps] /\ tries' \in [Keys -> 0..Attempts - 1]
         /\ orig' \in [Keys -> Objects \cup {None}]
         /\ new' \in [Keys -> Objects \cup {None}]
         /\ \/ pc'[k] = "failed"
            \/ pc'[k] = p /\ UNCHANGED scratch
<1>1. CASE Last(k)
  <2>1. Return(k, "failed") /\ "failed" \in Steps
    BY <1>1 DEF AttemptFails, Steps
  <2>2. QED
    BY <2>1, TypeReturn
<1>2. CASE ~Last(k)
  <2>1. Again(k, p) /\ UNCHANGED scratch
    BY <1>2 DEF AttemptFails
  <2>2. QED
    BY <2>1, <1>2, TypeAgain DEF TypeOK, scratch
<1>3. QED
  BY <1>1, <1>2

(* The bucket begins well-typed. *)
LEMMA TypeInit == Init => TypeOK
<1> SUFFICES ASSUME Init PROVE TypeOK
  OBVIOUS
<1>1. obj \in [Keys -> Objects]
  BY DataAssumption DEF Init, Source, Objects
<1>2. 0 \in 0..Attempts - 1 /\ 0 \in 0..MaxFaults
  BY DataAssumption
<1>3. QED
  BY <1>1, <1>2 DEF Init, TypeOK, Zero, Steps

(* Every step keeps the types. *)
LEMMA TypeStep == TypeOK /\ [Next]_vars => TypeOK'
<1> SUFFICES ASSUME TypeOK, [Next]_vars PROVE TypeOK'
  OBVIOUS
<1> USE DEF Steps
<1>f. Fault => faults' \in 0..MaxFaults
  BY DataAssumption DEF Fault, TypeOK
<1>n. NoFault => faults' \in 0..MaxFaults
  BY DEF NoFault, TypeOK
<1>p. \A k \in Keys : Path(k) \in Keys
  BY DataAssumption DEF Path
<1>s. \A o \in Objects : Size[o] \in Nat
  BY DataAssumption
<1>z. Zero \in [Keys -> Nat] /\ 0 \in 0..Attempts - 1
  BY DataAssumption DEF Zero
<1>1. ASSUME NEW k \in Keys, NEW s \in Sources, Replace(k, s) PROVE TypeOK'
  <2>1. replaced' \subseteq Keys
    BY <1>1 DEF TypeOK, Replace
  <2>2. Source(s) \in Objects
    BY TwoKinds
  <2>3. QED
    BY <1>1, <2>1, <2>2 DEF TypeOK, Replace, scratch, command, task
<1>2. ASSUME NEW k \in Keys, ReadForIndex(k) PROVE TypeOK'
  BY <1>2 DEF TypeOK, ReadForIndex, remote, scratch, command, task
<1>3. ASSUME NEW k \in Keys, write_cdx_sidecar(k) PROVE TypeOK'
  BY <1>3 DEF TypeOK, write_cdx_sidecar, scratch, command, task
<1>4. ASSUME NEW m \in Modes, StartRun(m) PROVE TypeOK'
  <2>1. listed' \in [Keys -> Nat]
    BY <1>4, <1>s DEF TypeOK, StartRun
  <2>2. pc' \in [Keys -> Steps] /\ \A k \in Keys : pc'[k] \in {"classify", "target", "none"}
    BY <1>4 DEF StartRun
  <2>3. QED
    BY <1>4, <2>1, <2>2 DEF TypeOK, StartRun, remote, scratch
<1>5. ASSUME NEW k \in Keys, classify(k) PROVE TypeOK'
  <2>1. faults' \in 0..MaxFaults
    BY <1>5, <1>f, <1>n DEF classify
  <2>2. \E p \in Steps \ {"backup"} : Goto(k, p) \/ (~Last(k) /\ Again(k, p))
    BY <1>5 DEF classify
  <2>3. PICK p \in Steps \ {"backup"} : Goto(k, p) \/ (~Last(k) /\ Again(k, p))
    BY <2>2
  <2>4. /\ pc' \in [Keys -> Steps] /\ tries' \in [Keys -> 0..Attempts - 1] /\ pc'[k] = p
        /\ \A j \in Keys \ {k} : pc'[j] = pc[j]
    BY <2>3, TypeGoto, TypeAgain DEF Goto, Again, TypeOK
  <2>5. QED
    BY <1>5, <2>1, <2>4 DEF TypeOK, classify, remote, scratch, command
<1>6. ASSUME NEW k \in Keys, Spawn(k) PROVE TypeOK'
  <2>1. pc' \in [Keys -> Steps] /\ \A j \in Keys : pc'[j] = "backup" => pc[j] = "backup"
    BY <1>6 DEF TypeOK, Spawn
  <2>2. QED
    BY <1>6, <2>1 DEF TypeOK, Spawn, remote, scratch, command
<1>o. ASSUME NEW k \in Keys,
             \/ \E p \in Steps : Goto(k, p) \/ Return(k, p) \/ AttemptFails(k, p)
             \/ \E p \in Steps : pc' = [pc EXCEPT ![k] = p]
      PROVE  \A j \in Keys \ {k} : pc'[j] = pc[j]
  BY <1>o DEF TypeOK, Goto, Return, AttemptFails, Again
<1>7. ASSUME NEW k \in Keys, download(k) PROVE TypeOK'
  <2>1. faults' \in 0..MaxFaults
    BY <1>7, <1>f, <1>n DEF download
  <2>2. CASE /\ orig' = [orig EXCEPT ![Path(k)] = obj[k]]
             /\ got' = [got EXCEPT ![k] = Size[obj[k]]]
             /\ Goto(k, "shape") /\ UNCHANGED new
    <3>1. got' \in [Keys -> Nat] /\ orig' \in [Keys -> Objects \cup {None}]
      BY <2>2, <1>p, <1>s DEF TypeOK
    <3>2. QED
      BY <1>7, <2>1, <2>2, <3>1, <1>o, TypeGoto DEF TypeOK, download, remote, command
  <2>3. CASE AttemptFails(k, "download") /\ UNCHANGED got
    BY <1>7, <2>1, <2>3, <1>o, TypeAttemptFails DEF TypeOK, download, remote, command, scratch
  <2>4. QED
    BY <1>7, <2>2, <2>3 DEF download
<1>8. ASSUME NEW k \in Keys, CheckShape(k) PROVE TypeOK'
  <2>1. CASE \E p \in {"failed", "skipped"} : Return(k, p)
    BY <1>8, <2>1, <1>o, TypeReturn DEF TypeOK, CheckShape, remote, command
  <2>2. CASE Goto(k, "rewrite") /\ UNCHANGED scratch
    BY <1>8, <2>2, <1>o, TypeGoto DEF TypeOK, CheckShape, remote, command, scratch
  <2>3. QED
    BY <1>8, <2>1, <2>2 DEF CheckShape
<1>9. ASSUME NEW k \in Keys, RewriteFile(k) PROVE TypeOK'
  <2>1. CASE Return(k, "failed")
    BY <1>9, <2>1, <1>o, TypeReturn DEF TypeOK, RewriteFile, remote, command
  <2>2. CASE /\ orig[Path(k)] # None
             /\ new' = [new EXCEPT ![Path(k)] = Rewrite(orig[Path(k)].src)]
             /\ Goto(k, "verify") /\ UNCHANGED orig
    <3>1. orig[Path(k)] \in Objects
      BY <2>2, <1>p DEF TypeOK
    <3>2. Rewrite(orig[Path(k)].src) \in Objects
      BY <3>1 DEF Objects, Rewrite
    <3>3. new' \in [Keys -> Objects \cup {None}]
      BY <2>2, <3>2 DEF TypeOK
    <3>4. QED
      BY <1>9, <2>2, <3>3, <1>o, TypeGoto DEF TypeOK, RewriteFile, remote, command
  <2>3. QED
    BY <1>9, <2>1, <2>2 DEF RewriteFile
<1>10. ASSUME NEW k \in Keys, Verify(k) PROVE TypeOK'
  <2>1. made' \in [Keys -> Nat]
    <3>1. CASE UNCHANGED made
      BY <3>1 DEF TypeOK
    <3>2. CASE /\ Same(orig[Path(k)], new[Path(k)])
               /\ made' = [made EXCEPT ![k] = Size[new[Path(k)]]]
      <4>1. new[Path(k)] \in Objects
        BY <3>2, <1>p DEF TypeOK, Same
      <4>2. QED
        BY <3>2, <4>1, <1>s DEF TypeOK
    <3>3. QED
      BY <1>10, <3>1, <3>2 DEF Verify
  <2>2. CASE \E p \in {"failed", "done"} : Return(k, p)
    BY <1>10, <2>1, <2>2, <1>o, TypeReturn DEF TypeOK, Verify, remote, command
  <2>3. CASE Goto(k, "copy") /\ UNCHANGED scratch
    BY <1>10, <2>1, <2>3, <1>o, TypeGoto DEF TypeOK, Verify, remote, command, scratch
  <2>4. QED
    BY <1>10, <2>2, <2>3 DEF Verify
<1>11. ASSUME NEW k \in Keys, CopyBackup(k) PROVE TypeOK'
  <2>1. faults' \in 0..MaxFaults
    BY <1>11, <1>f, <1>n DEF CopyBackup
  <2>2. CASE /\ backup' = [backup EXCEPT ![k] = obj[k]]
             /\ Goto(k, "backup") /\ UNCHANGED scratch
    <3>1. backup' \in [Keys -> Objects \cup {None}] /\ backup'[k] # None
      BY <2>2, DataAssumption DEF TypeOK
    <3>2. \A j \in Keys \ {k} : backup'[j] = backup[j]
      BY <2>2 DEF TypeOK
    <3>3. QED
      BY <1>11, <2>1, <2>2, <3>1, <3>2, <1>o, TypeGoto DEF TypeOK, CopyBackup, command, scratch
  <2>3. CASE Return(k, "failed") /\ UNCHANGED backup
    BY <1>11, <2>1, <2>3, <1>o, TypeReturn DEF TypeOK, CopyBackup, command
  <2>4. QED
    BY <1>11, <2>2, <2>3 DEF CopyBackup
<1>12. ASSUME NEW k \in Keys, CheckBackup(k) PROVE TypeOK'
  <2>1. faults' \in 0..MaxFaults
    BY <1>12, <1>f, <1>n DEF CheckBackup
  <2>2. CASE Goto(k, "upload") /\ UNCHANGED scratch
    BY <1>12, <2>1, <2>2, <1>o, TypeGoto DEF TypeOK, CheckBackup, remote, command, scratch
  <2>3. CASE Return(k, "failed")
    BY <1>12, <2>1, <2>3, <1>o, TypeReturn DEF TypeOK, CheckBackup, remote, command
  <2>4. QED
    BY <1>12, <2>2, <2>3 DEF CheckBackup
<1>13. ASSUME NEW k \in Keys, Upload(k) PROVE TypeOK'
  <2>1. faults' \in 0..MaxFaults
    BY <1>13, <1>f, <1>n DEF Upload
  <2>2. obj' \in [Keys -> Objects]
    <3>1. CASE Stored(k)
      <4>1. new[Path(k)] \in Objects
        BY <3>1, <1>p DEF TypeOK, Stored
      <4>2. QED
        BY <3>1, <4>1 DEF TypeOK, Stored
    <3>2. QED
      BY <1>13, <3>1 DEF TypeOK, Upload
  <2>3. CASE pc' = [pc EXCEPT ![k] = "head"] /\ UNCHANGED <<scratch, tries>>
    BY <1>13, <2>1, <2>2, <2>3 DEF TypeOK, Upload, command, scratch
  <2>4. CASE AttemptFails(k, "upload")
    BY <1>13, <2>1, <2>2, <2>4, <1>o, TypeAttemptFails DEF TypeOK, Upload, command
  <2>5. QED
    BY <1>13, <2>3, <2>4 DEF Upload
<1>14. ASSUME NEW k \in Keys, CheckUpload(k) PROVE TypeOK'
  <2>1. faults' \in 0..MaxFaults
    BY <1>14, <1>f, <1>n DEF CheckUpload
  <2>2. CASE Goto(k, "sidecar") /\ UNCHANGED scratch
    BY <1>14, <2>1, <2>2, <1>o, TypeGoto DEF TypeOK, CheckUpload, remote, command, scratch
  <2>3. CASE AttemptFails(k, "upload")
    BY <1>14, <2>1, <2>3, <1>o, TypeAttemptFails DEF TypeOK, CheckUpload, remote, command
  <2>4. CASE Return(k, "failed")
    BY <1>14, <2>1, <2>4, <1>o, TypeReturn DEF TypeOK, CheckUpload, remote, command
  <2>5. QED
    BY <1>14, <2>2, <2>3, <2>4 DEF CheckUpload
<1>15. ASSUME NEW k \in Keys, DropSidecar(k) PROVE TypeOK'
  <2>1. faults' \in 0..MaxFaults
    BY <1>15, <1>f, <1>n DEF DropSidecar
  <2>2. sidecar' \in [Keys -> Objects \cup {None}]
    BY <1>15 DEF TypeOK, DropSidecar
  <2>3. QED
    BY <1>15, <2>1, <2>2, <1>o, TypeReturn DEF TypeOK, DropSidecar, command
<1>e. Forget => /\ pc' \in [Keys -> Steps] /\ \A k \in Keys : pc'[k] = "none"
                /\ listed' \in [Keys -> Nat] /\ got' \in [Keys -> Nat]
                /\ made' \in [Keys -> Nat] /\ tries' \in [Keys -> 0..Attempts - 1]
                /\ running' \in BOOLEAN
  BY <1>z DEF Forget, Zero
<1>16. CASE EndRun
  BY <1>16, <1>e DEF TypeOK, EndRun, remote, scratch
<1>17. CASE Crash
  BY <1>17, <1>e, <1>f DEF TypeOK, Crash, remote, scratch
<1>18. CASE UNCHANGED vars
  BY <1>18 DEF TypeOK, vars, remote, scratch, command, task
<1>19. QED
  BY <1>1, <1>2, <1>3, <1>4, <1>5, <1>6, <1>7, <1>8, <1>9, <1>10, <1>11, <1>12, <1>13, <1>14,
     <1>15, <1>16, <1>17, <1>18
  DEF Next, Step

(* Where a task has no scratch files yet, or no more. *)
Idle == {"none", "classify", "target", "download", "sidecar", "skipped", "failed", "done"}

(* What another task is not touched in. *)
Frame(j) ==
  /\ obj'[j] = obj[j] /\ backup'[j] = backup[j] /\ got'[j] = got[j]
  /\ orig'[Path(j)] = orig[Path(j)] /\ new'[Path(j)] = new[Path(j)]
  /\ pc'[j] = pc[j] \/ pc'[j] \in Idle

(* A step of one task leaves the other tasks what they have - no two keys  *)
(* share scratch files - but for those beyond the limit, which it forgets. *)
LEMMA Others ==
  ASSUME Careful, TypeOK, NEW k \in Keys, NEW j \in Keys \ {k}, Step(k)
  PROVE  Frame(j)
<1>1. Path(j) # Path(k) /\ Path(j) \in Keys /\ Path(k) \in Keys
  BY DataAssumption DEF Careful, Path
<1>2. \A p : Goto(k, p) \/ Again(k, p) => pc'[j] = pc[j]
  BY DEF Goto, Again, TypeOK
<1> DEFINE Apart == orig'[Path(j)] = orig[Path(j)] /\ new'[Path(j)] = new[Path(j)]
<1>3. \A p : Return(k, p) => pc'[j] = pc[j] /\ Apart
  BY <1>1, <1>2 DEF Return, TypeOK
<1>4. UNCHANGED scratch => Apart
  BY DEF scratch
<1>5. \A p : AttemptFails(k, p) => pc'[j] = pc[j] /\ Apart
  BY <1>2, <1>3, <1>4 DEF AttemptFails
<1>6. obj'[j] = obj[j] /\ backup'[j] = backup[j] /\ got'[j] = got[j]
  BY DEF TypeOK, Step, classify, Spawn, download, CheckShape, RewriteFile, Verify, CopyBackup,
         CheckBackup, Upload, Stored, CheckUpload, DropSidecar, remote
<1>7. Apart /\ (pc'[j] = pc[j] \/ pc'[j] \in Idle)
  <2>1. CASE classify(k)
    BY <2>1, <1>2, <1>4 DEF classify
  <2>2. CASE Spawn(k)
    BY <2>2, <1>4 DEF Spawn, Idle
  <2>3. CASE download(k)
    BY <2>3, <1>1, <1>2, <1>5 DEF download, TypeOK
  <2>4. CASE CheckShape(k)
    BY <2>4, <1>2, <1>3, <1>4 DEF CheckShape
  <2>5. CASE RewriteFile(k)
    BY <2>5, <1>1, <1>2, <1>3 DEF RewriteFile, TypeOK
  <2>6. CASE Verify(k)
    BY <2>6, <1>2, <1>3, <1>4 DEF Verify
  <2>7. CASE CopyBackup(k) \/ CheckBackup(k)
    BY <2>7, <1>2, <1>3, <1>4 DEF CopyBackup, CheckBackup
  <2>8. CASE Upload(k)
    BY <2>8, <1>4, <1>5 DEF Upload, TypeOK, scratch
  <2>9. CASE CheckUpload(k) \/ DropSidecar(k)
    BY <2>9, <1>2, <1>3, <1>4, <1>5 DEF CheckUpload, DropSidecar
  <2>10. QED
    BY <2>1, <2>2, <2>3, <2>4, <2>5, <2>6, <2>7, <2>8, <2>9 DEF Step
<1>8. QED
  BY <1>6, <1>7 DEF Frame

(* Neither the index run nor the start and the end of the command are a    *)
(* step of a task.                                                         *)
LEMMA Between ==
  ASSUME TypeOK, NEW j \in Keys,
         \/ \E k \in Keys : ReadForIndex(k) \/ write_cdx_sidecar(k)
         \/ \E m \in Modes : StartRun(m)
         \/ EndRun
         \/ Crash
         \/ UNCHANGED vars
  PROVE  \/ Frame(j)
         \/ obj'[j] = obj[j] /\ backup'[j] = backup[j] /\ pc'[j] \in Idle
<1>1. CASE (\E k \in Keys : ReadForIndex(k) \/ write_cdx_sidecar(k)) \/ UNCHANGED vars
  <2>1. UNCHANGED <<obj, backup, got, orig, new, pc>>
    BY <1>1 DEF ReadForIndex, write_cdx_sidecar, vars, remote, scratch, task
  <2>2. QED
    BY <2>1 DEF Frame
<1>2. CASE \E m \in Modes : StartRun(m)
  BY <1>2 DEF StartRun, remote, Idle
<1>3. CASE EndRun \/ Crash
  BY <1>3 DEF EndRun, Crash, Forget, remote, Idle
<1>4. QED
  BY <1>1, <1>2, <1>3

(* What is known of a key depends on its task, its object, its backup and  *)
(* its scratch files only.                                                 *)
LEMMA Elsewhere ==
  ASSUME NEW j \in Keys, Owned(j), Frame(j)
  PROVE  Owned(j)'
BY DEF Owned, Kept, Idle, HasSource, HasRewrite, HasBackup, Path, Frame

(* Of a task that ends or begins nothing but Kept is claimed. *)
LEMMA Finish ==
  ASSUME NEW j \in Keys, Kept(j)', pc'[j] \in Idle
  PROVE  Owned(j)'
BY DEF Owned, Idle, HasSource, HasRewrite, HasBackup

(* A step of a task keeps what is known of its own key: only a source is   *)
(* rewritten, its backup is made from it, and the PUT follows the backup.  *)
LEMMA Own ==
  ASSUME Careful, TypeOK, TypeOK', NEW k \in Keys, Owned(k), Step(k)
  PROVE  Owned(k)'
<1>p. Path(k) \in Keys /\ Start[k] \in Sources
  BY DataAssumption DEF Path
<1>k. Kept(k)
  BY DEF Owned
<1>q. UNCHANGED <<obj, backup>> => Kept(k)'
  BY <1>k DEF Kept
<1>g. \A p : Goto(k, p) \/ Again(k, p) \/ Return(k, p) => pc'[k] = p
  BY DEF Goto, Again, Return, TypeOK
<1>a. \A p : AttemptFails(k, p) => pc'[k] = "failed" \/ (pc'[k] = p /\ UNCHANGED scratch)
  BY <1>g DEF AttemptFails
<1>1. CASE classify(k)
  <2>1. pc'[k] \in Idle
    BY <1>1, <1>g DEF classify, Idle
  <2>2. QED
    BY <1>1, <2>1, <1>q, Finish DEF classify, remote
<1>2. CASE Spawn(k)
  <2>1. pc'[k] \in Idle
    BY <1>2 DEF Spawn, Idle
  <2>2. QED
    BY <1>2, <2>1, <1>q, Finish DEF Spawn, remote
<1>3. CASE download(k)
  <2>1. UNCHANGED <<obj, backup>>
    BY <1>3 DEF download, remote
  <2>2. CASE AttemptFails(k, "download")
    BY <2>1, <2>2, <1>a, <1>q, Finish DEF Idle
  <2>3. CASE orig' = [orig EXCEPT ![Path(k)] = obj[k]] /\ Goto(k, "shape")
    <3>1. orig'[Path(k)] = obj[k] /\ pc'[k] = "shape"
      BY <2>3, <1>p, <1>g DEF TypeOK
    <3>2. QED
      BY <2>1, <3>1, <1>q DEF Owned, HasSource, HasRewrite, HasBackup, Path
  <2>4. QED
    BY <1>3, <2>2, <2>3 DEF download
<1>4. CASE CheckShape(k)
  <2>1. UNCHANGED <<obj, backup>> /\ orig[Path(k)] = obj[k]
    BY <1>4 DEF CheckShape, remote, Owned
  <2>2. CASE \E p \in {"failed", "skipped"} : Return(k, p)
    BY <2>1, <2>2, <1>g, <1>q, Finish DEF Idle
  <2>3. CASE Goto(k, "rewrite") /\ UNCHANGED scratch /\ gz_shape(orig[Path(k)]) = 1
    <3>1. obj[k] = Source(Start[k])
      <4>1. obj[k] # Rewrite(Start[k])
        BY <2>1, <2>3, <1>p, TwoKinds DEF gz_shape, Careful
      <4>2. QED
        BY <4>1, <1>k DEF Kept
    <3>2. QED
      BY <2>1, <2>3, <3>1, <1>g, <1>q DEF Owned, HasSource, HasRewrite, HasBackup, Path, scratch
  <2>4. QED
    BY <1>4, <2>2, <2>3 DEF CheckShape
<1>5. CASE RewriteFile(k)
  <2>1. UNCHANGED <<obj, backup>> /\ orig[Path(k)] = obj[k] /\ obj[k] = Source(Start[k])
    BY <1>5 DEF RewriteFile, remote, Owned, HasSource
  <2>2. CASE Return(k, "failed")
    BY <2>1, <2>2, <1>g, <1>q, Finish DEF Idle
  <2>3. CASE /\ new' = [new EXCEPT ![Path(k)] = Rewrite(orig[Path(k)].src)]
             /\ Goto(k, "verify") /\ UNCHANGED orig
    <3>1. new'[Path(k)] = Rewrite(Start[k])
      BY <2>1, <2>3, <1>p, TwoKinds DEF TypeOK
    <3>2. QED
      BY <2>1, <2>3, <3>1, <1>g, <1>q DEF Owned, HasSource, HasRewrite, HasBackup, Path
  <2>4. QED
    BY <1>5, <2>2, <2>3 DEF RewriteFile
<1>6. CASE Verify(k)
  <2>1. UNCHANGED <<obj, backup>> /\ pc[k] = "verify"
    BY <1>6 DEF Verify, remote
  <2>2. CASE \E p \in {"failed", "done"} : Return(k, p)
    BY <2>1, <2>2, <1>g, <1>q, Finish DEF Idle
  <2>3. CASE Goto(k, "copy") /\ UNCHANGED scratch
    BY <2>1, <2>3, <1>g, <1>q DEF Owned, HasSource, HasRewrite, HasBackup, Path, scratch
  <2>4. QED
    BY <1>6, <2>2, <2>3 DEF Verify
<1>7. CASE CopyBackup(k)
  <2>1. UNCHANGED obj /\ obj[k] = Source(Start[k]) /\ new[Path(k)] = Rewrite(Start[k])
        /\ orig[Path(k)] = obj[k]
    BY <1>7 DEF CopyBackup, Owned, HasSource, HasRewrite
  <2>2. CASE Return(k, "failed") /\ UNCHANGED backup
    BY <2>1, <2>2, <1>g, <1>q, Finish DEF Idle
  <2>3. CASE backup' = [backup EXCEPT ![k] = obj[k]] /\ Goto(k, "backup") /\ UNCHANGED scratch
    <3>1. backup'[k] = Source(Start[k])
      BY <2>1, <2>3 DEF TypeOK
    <3>2. QED
      BY <2>1, <2>3, <3>1, <1>g DEF Owned, Kept, HasSource, HasRewrite, HasBackup, Path, scratch
  <2>4. QED
    BY <1>7, <2>2, <2>3 DEF CopyBackup
<1>8. CASE CheckBackup(k)
  <2>1. UNCHANGED <<obj, backup>> /\ pc[k] = "backup"
    BY <1>8 DEF CheckBackup, remote
  <2>2. CASE Return(k, "failed")
    BY <2>1, <2>2, <1>g, <1>q, Finish DEF Idle
  <2>3. CASE Goto(k, "upload") /\ UNCHANGED scratch
    BY <2>1, <2>3, <1>g, <1>q DEF Owned, HasSource, HasRewrite, HasBackup, Path, scratch
  <2>4. QED
    BY <1>8, <2>2, <2>3 DEF CheckBackup
<1>9. CASE Upload(k)
  <2>1. UNCHANGED backup /\ backup[k] = Source(Start[k]) /\ new[Path(k)] = Rewrite(Start[k])
    BY <1>9 DEF Upload, Owned, HasRewrite, HasBackup
  <2>2. Kept(k)'
    <3>1. CASE Stored(k)
      BY <2>1, <3>1 DEF Kept, Stored, TypeOK
    <3>2. QED
      BY <1>9, <2>1, <3>1, <1>q DEF Upload
  <2>3. CASE pc' = [pc EXCEPT ![k] = "head"] /\ UNCHANGED scratch
    <3>1. pc'[k] = "head"
      BY <2>3 DEF TypeOK
    <3>2. QED
      BY <2>1, <2>2, <2>3, <3>1 DEF Owned, HasSource, HasRewrite, HasBackup, Path, scratch
  <2>4. CASE AttemptFails(k, "upload")
    <3>1. CASE pc'[k] = "failed"
      BY <2>2, <3>1, Finish DEF Idle
    <3>2. CASE pc'[k] = "upload" /\ UNCHANGED scratch
      BY <2>1, <2>2, <3>2 DEF Owned, HasSource, HasRewrite, HasBackup, Path, scratch
    <3>3. QED
      BY <2>4, <3>1, <3>2, <1>a
  <2>5. QED
    BY <1>9, <2>3, <2>4 DEF Upload, scratch
<1>10. CASE CheckUpload(k)
  <2>1. UNCHANGED <<obj, backup>> /\ pc[k] = "head"
    BY <1>10 DEF CheckUpload, remote
  <2>2. CASE pc'[k] \in {"failed", "sidecar"}
    BY <2>1, <2>2, <1>q, Finish DEF Idle
  <2>3. CASE pc'[k] = "upload" /\ UNCHANGED scratch
    BY <2>1, <2>3, <1>q DEF Owned, HasSource, HasRewrite, HasBackup, Path, scratch
  <2>4. QED
    BY <1>10, <2>2, <2>3, <1>g, <1>a DEF CheckUpload
<1>11. CASE DropSidecar(k)
  <2>1. pc'[k] \in Idle
    BY <1>11, <1>g DEF DropSidecar, Idle
  <2>2. QED
    BY <1>11, <2>1, <1>q, Finish DEF DropSidecar
<1>12. QED
  BY <1>1, <1>2, <1>3, <1>4, <1>5, <1>6, <1>7, <1>8, <1>9, <1>10, <1>11 DEF Step

(* No step breaks the invariant. *)
LEMMA InvStep == Careful /\ IInv /\ [Next]_vars => IInv'
<1> SUFFICES ASSUME Careful, IInv, [Next]_vars PROVE IInv'
  OBVIOUS
<1>t. TypeOK /\ TypeOK'
  BY TypeStep DEF IInv
<1>o. \A j \in Keys \ replaced : Owned(j)
  BY DEF IInv
<1>1. ASSUME NEW k \in Keys, NEW s \in Sources, Replace(k, s) PROVE IInv'
  <2>1. replaced' = replaced \cup {k}
        /\ \A j \in Keys \ {k} : obj'[j] = obj[j]
        /\ UNCHANGED <<backup, got, orig, new, pc>>
    BY <1>1, <1>t DEF Replace, TypeOK, scratch, task
  <2>2. \A j \in Keys \ replaced' : Frame(j) /\ Owned(j)
    BY <2>1, <1>o DEF Frame
  <2>3. QED
    BY <2>2, <1>t, Elsewhere DEF IInv
<1>2. CASE \/ \E k \in Keys : ReadForIndex(k) \/ write_cdx_sidecar(k)
           \/ \E m \in Modes : StartRun(m)
           \/ EndRun
           \/ Crash
           \/ UNCHANGED vars
  <2>1. UNCHANGED replaced
    BY <1>2 DEF ReadForIndex, write_cdx_sidecar, StartRun, EndRun, Crash, vars
  <2>2. ASSUME NEW j \in Keys \ replaced PROVE Owned(j)'
    <3>1. Owned(j) /\ Kept(j)
      BY <1>o DEF Owned
    <3>2. CASE Frame(j)
      BY <3>1, <3>2, Elsewhere
    <3>3. CASE obj'[j] = obj[j] /\ backup'[j] = backup[j] /\ pc'[j] \in Idle
      BY <3>1, <3>3, Finish DEF Kept
    <3>4. QED
      BY <1>2, <1>t, <3>2, <3>3, Between
  <2>3. QED
    BY <2>1, <2>2, <1>t DEF IInv
<1>3. ASSUME NEW k \in Keys, Step(k) PROVE IInv'
  <2>1. UNCHANGED replaced
    BY <1>3 DEF Step, classify, Spawn, download, CheckShape, RewriteFile, Verify, CopyBackup,
                CheckBackup, Upload, CheckUpload, DropSidecar
  <2>2. ASSUME NEW j \in Keys \ replaced, j # k PROVE Owned(j)'
    BY <1>3, <2>2, <1>t, <1>o, Others, Elsewhere
  <2>3. k \notin replaced => Owned(k)'
    BY <1>3, <1>t, <1>o, Own
  <2>4. QED
    BY <2>1, <2>2, <2>3, <1>t DEF IInv
<1>4. QED
  BY <1>1, <1>2, <1>3 DEF Next

(* Every state of the command and its stores is well-typed; no backup is   *)
(* checked before it was made.                                             *)
THEOREM TypeCorrect == Spec => []TypeOK
<1>1. QED
  BY TypeInit, TypeStep, PTL DEF Spec

-----------------------------------------------------------------------------
(* What BackupMatches rests on, whether or not a crawler overwrites the    *)
(* object: from the download on a task has a file of the size noted, from  *)
(* the shape check to the backup neither this file nor the object is a     *)
(* rewrite, and the PUT is of the rewrite of a source of the backup's      *)
(* size.                                                                   *)
Checked(k, s) == backup[k] # None /\ Size[backup[k]] = Size[Source(s)]
Sound(k) ==
  /\ obj[k].rewritten => Checked(k, obj[k].src)
  /\ pc[k] \in HasSource \cup {"shape"} =>
       orig[Path(k)] \in Objects /\ got[k] = Size[orig[Path(k)]]
  /\ pc[k] = "shape" /\ obj[k].rewritten => orig[Path(k)].rewritten
  /\ pc[k] \in HasSource => ~obj[k].rewritten /\ ~orig[Path(k)].rewritten
  /\ pc[k] \in HasRewrite => new[Path(k)] \in Objects /\ new[Path(k)].rewritten
  /\ pc[k] \in HasRewrite \cap HasSource => new[Path(k)].src = orig[Path(k)].src
  /\ pc[k] \in {"upload", "head"} => Checked(k, new[Path(k)].src)

BInv == TypeOK /\ \A k \in Keys : Sound(k)

(* Sound depends on no more than Owned does, ... *)
LEMMA SoundElsewhere ==
  ASSUME NEW j \in Keys, Sound(j), Frame(j)
  PROVE  Sound(j)'
BY DEF Sound, Checked, Frame, Idle, HasSource, HasRewrite, Path

(* ... and claims only the first conjunct of a task that ends or begins. *)
LEMMA SoundFinish ==
  ASSUME NEW j \in Keys, Sound(j), obj'[j] = obj[j], backup'[j] = backup[j], pc'[j] \in Idle
  PROVE  Sound(j)'
BY DEF Sound, Checked, Idle, HasSource, HasRewrite

(* A step of a task leaves its own key with a backup to match: the copy is *)
(* made while the object is no rewrite, and its size is checked before the *)
(* PUT.                                                                    *)
LEMMA SoundOwn ==
  ASSUME Careful, TypeOK, TypeOK', NEW k \in Keys, Sound(k), Step(k)
  PROVE  Sound(k)'
<1> USE DEF HasSource, HasRewrite
<1>p. Path(k) \in Keys /\ Path(k)' = Path(k)
  BY DataAssumption DEF Path
<1>g. \A p : Goto(k, p) \/ Again(k, p) \/ Return(k, p) => pc'[k] = p
  BY DEF Goto, Again, Return, TypeOK
<1>a. \A p : AttemptFails(k, p) => pc'[k] = "failed" \/ (pc'[k] = p /\ UNCHANGED scratch)
  BY <1>g DEF AttemptFails
<1>k. UNCHANGED <<obj, backup>> => (obj'[k].rewritten => Checked(k, obj[k].src)')
  BY DEF Sound, Checked
<1>1. CASE classify(k)
  <2>1. pc'[k] \in Idle
    BY <1>1, <1>g DEF classify, Idle
  <2>2. QED
    BY <1>1, <2>1, SoundFinish DEF classify, remote
<1>2. CASE Spawn(k)
  <2>1. pc'[k] \in Idle
    BY <1>2 DEF Spawn, Idle
  <2>2. QED
    BY <1>2, <2>1, SoundFinish DEF Spawn, remote
<1>3. CASE download(k)
  <2>1. UNCHANGED <<obj, backup>>
    BY <1>3 DEF download, remote
  <2>2. CASE AttemptFails(k, "download")
    BY <2>1, <2>2, <1>a, SoundFinish DEF Idle
  <2>3. CASE /\ orig' = [orig EXCEPT ![Path(k)] = obj[k]]
             /\ got' = [got EXCEPT ![k] = Size[obj[k]]]
             /\ Goto(k, "shape")
    <3>1. orig'[Path(k)] = obj[k] /\ got'[k] = Size[obj[k]] /\ pc'[k] = "shape"
          /\ obj[k] \in Objects
      BY <2>3, <1>p, <1>g DEF TypeOK
    <3>2. QED
      BY <2>1, <3>1, <1>p, <1>k DEF Sound
  <2>4. QED
    BY <1>3, <2>2, <2>3 DEF download
<1>4. CASE CheckShape(k)
  <2>1. UNCHANGED <<obj, backup, got>> /\ pc[k] = "shape"
    BY <1>4 DEF CheckShape, remote
  <2>2. CASE \E p \in {"failed", "skipped"} : Return(k, p)
    BY <2>1, <2>2, <1>g, SoundFinish DEF Idle
  <2>3. CASE Goto(k, "rewrite") /\ UNCHANGED scratch /\ gz_shape(orig[Path(k)]) = 1
    <3>1. orig[Path(k)] \in Objects /\ orig[Path(k)].src \in Sources
      BY <2>1 DEF Sound, Objects
    <3>2. ~orig[Path(k)].rewritten
      BY <2>3, <3>1 DEF gz_shape, Careful
    <3>3. pc'[k] = "rewrite"
      BY <2>3, <1>g
    <3>4. QED
      BY <2>1, <2>3, <3>1, <3>2, <3>3, <1>p, <1>k DEF Sound, scratch
  <2>4. QED
    BY <1>4, <2>2, <2>3 DEF CheckShape
<1>5. CASE RewriteFile(k)
  <2>1. UNCHANGED <<obj, backup, got>> /\ pc[k] = "rewrite"
    BY <1>5 DEF RewriteFile, remote
  <2>2. CASE Return(k, "failed")
    BY <2>1, <2>2, <1>g, SoundFinish DEF Idle
  <2>3. CASE /\ new' = [new EXCEPT ![Path(k)] = Rewrite(orig[Path(k)].src)]
             /\ Goto(k, "verify") /\ UNCHANGED orig
    <3>1. orig[Path(k)].src \in Sources
      BY <2>1 DEF Sound, Objects
    <3>2. new'[Path(k)] = Rewrite(orig[Path(k)].src)
      BY <2>3, <1>p DEF TypeOK
    <3>3. new'[Path(k)] \in Objects /\ new'[Path(k)].rewritten
          /\ new'[Path(k)].src = orig[Path(k)].src
      BY <3>1, <3>2, TwoKinds
    <3>4. pc'[k] = "verify"
      BY <2>3, <1>g
    <3>5. QED
      BY <2>1, <2>3, <3>3, <3>4, <1>p, <1>k DEF Sound
  <2>4. QED
    BY <1>5, <2>2, <2>3 DEF RewriteFile
<1>6. CASE Verify(k)
  <2>1. UNCHANGED <<obj, backup, got>> /\ pc[k] = "verify"
    BY <1>6 DEF Verify, remote
  <2>2. CASE \E p \in {"failed", "done"} : Return(k, p)
    BY <2>1, <2>2, <1>g, SoundFinish DEF Idle
  <2>3. CASE Goto(k, "copy") /\ UNCHANGED scratch
    <3>1. pc'[k] = "copy"
      BY <2>3, <1>g
    <3>2. QED
      BY <2>1, <2>3, <3>1, <1>p, <1>k DEF Sound, scratch
  <2>4. QED
    BY <1>6, <2>2, <2>3 DEF Verify
<1>7. CASE CopyBackup(k)
  <2>1. UNCHANGED <<obj, got>> /\ pc[k] = "copy"
    BY <1>7 DEF CopyBackup
  <2>2. CASE Return(k, "failed") /\ UNCHANGED backup
    BY <2>1, <2>2, <1>g, SoundFinish DEF Idle
  <2>3. CASE Goto(k, "backup") /\ UNCHANGED scratch
    <3>1. pc'[k] = "backup"
      BY <2>3, <1>g
    <3>2. QED
      BY <2>1, <2>3, <3>1, <1>p DEF Sound, scratch
  <2>4. QED
    BY <1>7, <2>2, <2>3 DEF CopyBackup
<1>8. CASE CheckBackup(k)
  <2>1. UNCHANGED <<obj, backup, got>> /\ pc[k] = "backup"
    BY <1>8 DEF CheckBackup, remote
  <2>2. CASE Return(k, "failed")
    BY <2>1, <2>2, <1>g, SoundFinish DEF Idle
  <2>3. CASE Size[backup[k]] = got[k] /\ Goto(k, "upload") /\ UNCHANGED scratch
    <3>1. pc'[k] = "upload"
      BY <2>3, <1>g
    <3>2. Source(orig[Path(k)].src) = orig[Path(k)]
      <4>1. orig[Path(k)] \in Objects /\ ~orig[Path(k)].rewritten
        BY <2>1 DEF Sound
      <4>2. QED
        BY <4>1 DEF Objects, Source
    <3>3. Checked(k, new[Path(k)].src)
      BY <2>1, <2>3, <3>2 DEF Sound, Checked, TypeOK
    <3>4. QED
      BY <2>1, <2>3, <3>1, <3>3, <1>p, <1>k DEF Sound, Checked, scratch
  <2>4. QED
    BY <1>8, <2>2, <2>3 DEF CheckBackup
<1>9. CASE Upload(k)
  <2>1. UNCHANGED backup /\ pc[k] = "upload" /\ Checked(k, new[Path(k)].src)
        /\ new[Path(k)] \in Objects /\ new[Path(k)].rewritten
    BY <1>9 DEF Upload, Sound
  <2>2. obj'[k].rewritten => Checked(k, obj[k].src)'
    <3>1. CASE Stored(k)
      <4>1. obj'[k] = new[Path(k)]
        BY <3>1 DEF Stored, TypeOK
      <4>2. QED
        BY <2>1, <4>1 DEF Checked
    <3>2. CASE UNCHANGED obj
      BY <2>1, <3>2, <1>k
    <3>3. QED
      BY <1>9, <3>1, <3>2 DEF Upload
  <2>3. CASE pc'[k] = "failed"
    BY <2>2, <2>3 DEF Sound
  <2>4. CASE pc'[k] \in {"upload", "head"} /\ UNCHANGED scratch
    BY <2>1, <2>2, <2>4, <1>p DEF Sound, Checked, scratch
  <2>5. CASE pc' = [pc EXCEPT ![k] = "head"] /\ UNCHANGED scratch
    BY <2>4, <2>5 DEF TypeOK
  <2>6. QED
    BY <1>9, <2>3, <2>4, <2>5, <1>a DEF Upload, scratch
<1>10. CASE CheckUpload(k)
  <2>1. UNCHANGED <<obj, backup>> /\ pc[k] = "head"
    BY <1>10 DEF CheckUpload, remote
  <2>2. CASE pc'[k] \in {"failed", "sidecar"}
    BY <2>1, <2>2, SoundFinish DEF Idle
  <2>3. CASE pc'[k] = "upload" /\ UNCHANGED scratch
    BY <2>1, <2>3, <1>p, <1>k DEF Sound, Checked, scratch
  <2>4. QED
    BY <1>10, <2>2, <2>3, <1>g, <1>a DEF CheckUpload
<1>11. CASE DropSidecar(k)
  <2>1. pc'[k] \in Idle
    BY <1>11, <1>g DEF DropSidecar, Idle
  <2>2. QED
    BY <1>11, <2>1, SoundFinish DEF DropSidecar
<1>12. QED
  BY <1>1, <1>2, <1>3, <1>4, <1>5, <1>6, <1>7, <1>8, <1>9, <1>10, <1>11 DEF Step

(* No step, a crawler's included, breaks the invariant. *)
LEMMA SoundStep == Careful /\ BInv /\ [Next]_vars => BInv'
<1> SUFFICES ASSUME Careful, BInv, [Next]_vars PROVE BInv'
  OBVIOUS
<1>t. TypeOK /\ TypeOK'
  BY TypeStep DEF BInv
<1>o. \A j \in Keys : Sound(j)
  BY DEF BInv
<1>1. ASSUME NEW k \in Keys, NEW s \in Sources, Replace(k, s) PROVE BInv'
  <2>1. /\ \A j \in Keys \ {k} : obj'[j] = obj[j]
        /\ ~obj'[k].rewritten
        /\ UNCHANGED <<backup, got, orig, new, pc>>
    BY <1>1, <1>t DEF Replace, TypeOK, scratch, task, Source
  <2>2. Sound(k)'
    BY <2>1, <1>o DEF Sound, Checked, Path
  <2>3. \A j \in Keys \ {k} : Frame(j)
    BY <2>1 DEF Frame
  <2>4. QED
    BY <2>2, <2>3, <1>t, <1>o, SoundElsewhere DEF BInv
<1>2. CASE \/ \E k \in Keys : ReadForIndex(k) \/ write_cdx_sidecar(k)
           \/ \E m \in Modes : StartRun(m)
           \/ EndRun
           \/ Crash
           \/ UNCHANGED vars
  <2>1. ASSUME NEW j \in Keys PROVE Sound(j)'
    BY <1>2, <1>t, <1>o, Between, SoundElsewhere, SoundFinish
  <2>2. QED
    BY <2>1, <1>t DEF BInv
<1>3. ASSUME NEW k \in Keys, Step(k) PROVE BInv'
  <2>1. ASSUME NEW j \in Keys, j # k PROVE Sound(j)'
    BY <1>3, <2>1, <1>t, <1>o, Others, SoundElsewhere
  <2>2. Sound(k)'
    BY <1>3, <1>t, <1>o, SoundOwn
  <2>3. QED
    BY <2>1, <2>2, <1>t DEF BInv
<1>4. QED
  BY <1>1, <1>2, <1>3 DEF Next

(* At whatever moments crawlers overwrite whichever objects, no key has a  *)
(* rewrite without a backup of the size of what was rewritten.             *)
THEOREM BackedUp ==
  ASSUME Careful
  PROVE  Spec => []BackupMatches
<1>1. Init => BInv
  <2> SUFFICES ASSUME Init PROVE BInv
    OBVIOUS
  <2>1. \A k \in Keys : pc[k] = "none" /\ ~obj[k].rewritten
    BY DEF Init, Source
  <2>2. \A k \in Keys : Sound(k)
    BY <2>1 DEF Sound, HasSource, HasRewrite
  <2>3. QED
    BY <2>2, TypeInit DEF BInv
<1>2. BInv => BackupMatches
  BY DEF BInv, Sound, Checked, BackupMatches
<1>3. BInv /\ [Next]_vars => BInv'
  BY Careful, SoundStep
<1>4. QED
  BY <1>1, <1>2, <1>3, PTL DEF Spec

(* Whatever fails or is killed on the way, however many tasks run and      *)
(* however often the command is started: the bytes a crawler has uploaded  *)
(* are under their key, or under its backup while the key has their        *)
(* rewrite - as long as no crawler overwrites them, and otherwise there is *)
(* a backup of the right size - if tasks do not share scratch files and no *)
(* source is of one record.                                                *)
THEOREM KeepsOriginal ==
  ASSUME Careful
  PROVE  Spec => []OriginalKept
<1>1. Init => IInv
  <2> SUFFICES ASSUME Init PROVE IInv
    OBVIOUS
  <2>1. \A k \in Keys : pc[k] = "none" /\ obj[k] = Source(Start[k])
    BY DEF Init
  <2>2. \A k \in Keys : Owned(k)
    BY <2>1 DEF Owned, Kept, HasSource, HasRewrite, HasBackup
  <2>3. QED
    BY <2>2, TypeInit DEF IInv
<1>2. IInv /\ BackupMatches => OriginalKept
  BY DEF IInv, OriginalKept, Owned, Kept
<1>3. IInv /\ [Next]_vars => IInv'
  BY Careful, InvStep
<1>4. Spec => []BackupMatches
  BY Careful, BackedUp
<1>5. QED
  BY <1>1, <1>2, <1>3, <1>4, PTL DEF Spec

=============================================================================
