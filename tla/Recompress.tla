----------------------------- MODULE Recompress -----------------------------
(***************************************************************************)
(* `tywb recompress` (crates/tywb/src/recompress.rs): WARC objects that    *)
(* were gzipped as one stream are replaced, in place, by one gzip member   *)
(* per record.  Beside it stand an index run that writes `<key>.cdx`       *)
(* sidecars and crawlers that overwrite objects.  S3 has no transactions:  *)
(* the listing, the download, the backup copy, the PUT, the HEAD after it  *)
(* and the removal of the sidecar are separate requests.                   *)
(*                                                                         *)
(* An object is a source - what a crawler uploaded - or the rewrite of     *)
(* one.  Of a source only its framing matters.                             *)
(***************************************************************************)
EXTENDS Naturals, FiniteSets

CONSTANTS
  Keys,      \* WARC objects
  Sources,   \* what crawlers upload
  Start,     \* Start[k]: the source at k in the beginning
  Members,   \* Members[s]: gzip members, a cut one included; 0: not gzip
  Records,   \* Records[s]: complete records
  Cut,       \* sources that end in the middle of a record
  Odd,       \* sources with something that is no WARC record
  Long,      \* sources whose first member runs past CLASSIFY_WINDOW
  Size,      \* Size[o]: size of object o
  Stem,      \* Stem[k]: name of the scratch files of k
  Modes,     \* how the command is started: files, salvage, kind
  Jobs,      \* --jobs
  Limit,     \* --limit
  Attempts,  \* CLASSIFY_, DOWNLOAD_, UPLOAD_ATTEMPTS
  None,
  MaxReplace, \* bound: objects a crawler overwrites, each once
  MaxFaults   \* bound: failing requests and killed processes

Objects == [src: Sources, rewritten: BOOLEAN]
Source(s) == [src |-> s, rewritten |-> FALSE]
Rewrite(s) == [src |-> s, rewritten |-> TRUE]

AllModes == [files: SUBSET Keys, salvage: BOOLEAN, kind: {"scan_only", "dry_run", "write"}]
Steps == {"none", "classify", "target", "download", "shape", "rewrite", "verify", "copy",
          "backup", "upload", "head", "sidecar", "skipped", "failed", "done"}
Ended == {"none", "classify", "target", "skipped", "failed", "done"}

ASSUME DataAssumption ==
  /\ IsFiniteSet(Keys)
  /\ Start \in [Keys -> Sources]
  /\ Members \in [Sources -> Nat]
  /\ Records \in [Sources -> Nat]
  /\ Cut \subseteq Sources /\ Odd \subseteq Sources /\ Long \subseteq Sources
  /\ Size \in [Objects -> Nat]
  /\ Stem \in [Keys -> Keys]
  /\ Modes \subseteq AllModes
  /\ {Jobs, Limit, Attempts} \subseteq Nat \ {0}
  /\ MaxReplace \in Nat
  /\ MaxFaults \in Nat
  /\ None \notin Objects

VARIABLES
  obj,      \* obj[k]: the object
  backup,   \* backup[k]: the object under the key with the backup suffix
  sidecar,  \* sidecar[k]: the object whose offsets <key>.cdx lists
  orig,     \* orig[p], new[p]: scratch files
  new,
  running,  \* the command is running
  mode,     \* its arguments
  listed,   \* listed[k]: size in the listing
  got,      \* got[k]: size of the download
  made,     \* made[k]: size of the rewrite
  tries,    \* tries[k]: failed attempts of the present step
  pc,       \* pc[k]: what is next for k
  indexed,  \* indexed[k]: what the index run has read of k
  faults,
  replaced  \* objects a crawler has overwritten

remote == <<obj, backup, sidecar>>
scratch == <<orig, new>>
command == <<running, mode, listed>>
task == <<got, made, tries, pc>>
vars == <<remote, scratch, command, task, indexed, faults, replaced>>

Fault == faults < MaxFaults /\ faults' = faults + 1
NoFault == UNCHANGED faults

-----------------------------------------------------------------------------
(* Framing. *)

(* gz_shape: members, a truncated tail counting as one. *)
gz_shape(o) == IF o.rewritten THEN Records[o.src] ELSE Members[o.src]
Truncated(o) == ~o.rewritten /\ o.src \in Cut

(* Mutant of Verdict: the two answers of first_member_ends_within swapped. *)
VerdictSwapped(o) ==
  IF gz_shape(o) = 0 THEN "NotGzip"
  ELSE IF ~o.rewritten /\ o.src \in Long THEN "PerRecord" ELSE "WholeFile"

(* first_member_ends_within, on the first CLASSIFY_WINDOW bytes. *)
Verdict(o) ==
  IF gz_shape(o) = 0 THEN "NotGzip"
  ELSE IF ~o.rewritten /\ o.src \in Long THEN "WholeFile" ELSE "PerRecord"

(* Whether rewrite_records succeeds: every structural surprise is an       *)
(* error, the end of the source inside a record only without salvage.      *)
rewrite_records(o, salvage) ==
  /\ o.src \notin Odd
  /\ Truncated(o) => salvage
  /\ Records[o.src] > 0

-----------------------------------------------------------------------------
Zero == [k \in Keys |-> 0]

Init ==
  /\ obj = [k \in Keys |-> Source(Start[k])]
  /\ backup = [k \in Keys |-> None]
  /\ sidecar = [k \in Keys |-> None]
  /\ orig = [p \in Keys |-> None]
  /\ new = [p \in Keys |-> None]
  /\ running = FALSE
  /\ mode \in Modes
  /\ listed = Zero
  /\ got = Zero
  /\ made = Zero
  /\ tries = Zero
  /\ pc = [k \in Keys |-> "none"]
  /\ indexed = [k \in Keys |-> None]
  /\ faults = 0
  /\ replaced = {}

(* A crawler overwrites an object. *)
Replace(k, s) ==
  /\ k \notin replaced
  /\ Cardinality(replaced) < MaxReplace
  /\ replaced' = replaced \cup {k}
  /\ obj[k].src # s
  /\ obj' = [obj EXCEPT ![k] = Source(s)]
  /\ UNCHANGED <<backup, sidecar, scratch, command, task, indexed, faults>>

(* The index run reads the object, and later its sidecar task writes the   *)
(* offsets it has seen - unless a sidecar is there.                        *)
ReadForIndex(k) ==
  /\ indexed[k] = None
  /\ sidecar[k] = None
  /\ indexed' = [indexed EXCEPT ![k] = obj[k]]
  /\ UNCHANGED <<remote, scratch, command, task, faults, replaced>>

write_cdx_sidecar(k) ==
  /\ indexed[k] # None
  /\ sidecar' = [sidecar EXCEPT ![k] = IF @ = None THEN indexed[k] ELSE @]
  /\ indexed' = [indexed EXCEPT ![k] = None]
  /\ UNCHANGED <<obj, backup, scratch, command, task, faults, replaced>>

-----------------------------------------------------------------------------
(* The command. *)

Goto(k, p) == pc' = [pc EXCEPT ![k] = p] /\ tries' = [tries EXCEPT ![k] = 0]

(* process_one: the scratch files of a key are named after its stem. *)
Path(k) == Stem[k]

(* process_one returns: FileCleanup removes the scratch files. *)
Return(k, p) ==
  /\ Goto(k, p)
  /\ orig' = [orig EXCEPT ![Path(k)] = None]
  /\ new' = [new EXCEPT ![Path(k)] = None]

(* An attempt has failed: back to step p, or the end of the task. *)
Last(k) == tries[k] + 1 >= Attempts
Again(k, p) == pc' = [pc EXCEPT ![k] = p] /\ tries' = [tries EXCEPT ![k] = @ + 1]
AttemptFails(k, p) ==
  IF Last(k) THEN Return(k, "failed") ELSE Again(k, p) /\ UNCHANGED scratch

(* run: the listing; named files are taken as they are. *)
StartRun(m) ==
  /\ ~running
  /\ running' = TRUE
  /\ mode' = m
  /\ listed' = [k \in Keys |-> Size[obj[k]]]
  /\ pc' = [k \in Keys |-> IF m.files = {} THEN "classify"
                           ELSE IF k \in m.files THEN "target" ELSE "none"]
  /\ UNCHANGED <<remote, scratch, got, made, tries, indexed, faults, replaced>>

(* classify: an object that cannot be read is taken as a target. *)
classify(k) ==
  /\ pc[k] = "classify"
  /\ \/ NoFault /\ Goto(k, IF Verdict(obj[k]) = "WholeFile" THEN "target" ELSE "none")
     \/ Fault /\ IF Last(k) THEN Goto(k, "target") ELSE Again(k, "classify")
  /\ UNCHANGED <<remote, scratch, command, got, made, indexed, replaced>>

(* collect_targets: the smallest Limit of them, when the bucket is scanned. *)
InLimit(T) ==
  IF mode.files # {} \/ Cardinality(T) <= Limit THEN {T}
  ELSE {U \in SUBSET T : Cardinality(U) = Limit
                          /\ \A j \in U : \A k \in T \ U : listed[j] <= listed[k]}

(* The tasks: those beyond the limit are forgotten, a permit lets one begin. *)
Spawn(k) ==
  /\ running
  /\ mode.kind # "scan_only"
  /\ pc[k] = "target"
  /\ \A j \in Keys : pc[j] # "classify"
  /\ Cardinality({j \in Keys : pc[j] \notin Ended}) < Jobs
  /\ \E U \in InLimit({j \in Keys : pc[j] \notin {"none", "classify"}}) :
       /\ k \in U
       /\ \A j \in Keys \ U : pc[j] \in {"none", "target"}
       /\ pc' = [j \in Keys |-> IF j = k THEN "download" ELSE IF j \in U THEN pc[j] ELSE "none"]
  /\ UNCHANGED <<remote, scratch, command, got, made, tries, indexed, faults, replaced>>

(* process_one: the download, whose size must be the listed one. *)
download(k) ==
  /\ pc[k] = "download"
  /\ \/ /\ listed[k] \in {0, Size[obj[k]]}
        /\ orig' = [orig EXCEPT ![Path(k)] = obj[k]]
        /\ got' = [got EXCEPT ![k] = Size[obj[k]]]
        /\ Goto(k, "shape")
        /\ NoFault
        /\ UNCHANGED new
     \/ /\ (listed[k] \notin {0, Size[obj[k]]} /\ NoFault) \/ Fault
        /\ AttemptFails(k, "download")
        /\ UNCHANGED got
  /\ UNCHANGED <<remote, command, made, indexed, replaced>>

(* process_one: is there anything to do?  What cannot be read as gzip, or  *)
(* ends too early, fails; what has several members or none is skipped.     *)
Empty(s) == Records[s] = 0 /\ s \notin Cut \cup Odd
CheckShape(k) ==
  /\ pc[k] = "shape"
  /\ LET o == orig[Path(k)] IN
     IF o = None \/ gz_shape(o) = 0 THEN Return(k, "failed")
     ELSE IF gz_shape(o) # 1 \/ Empty(o.src) THEN Return(k, "skipped")
     ELSE IF Truncated(o) /\ ~mode.salvage THEN Return(k, "failed")
     ELSE Goto(k, "rewrite") /\ UNCHANGED scratch
  /\ UNCHANGED <<remote, command, got, made, indexed, faults, replaced>>

RewriteFile(k) ==
  /\ pc[k] = "rewrite"
  /\ LET o == orig[Path(k)] IN
     IF o # None /\ rewrite_records(o, mode.salvage)
     THEN /\ new' = [new EXCEPT ![Path(k)] = Rewrite(o.src)]
          /\ Goto(k, "verify")
          /\ UNCHANGED orig
     ELSE Return(k, "failed")
  /\ UNCHANGED <<remote, command, got, made, indexed, faults, replaced>>

(* process_one: the rewrite must hold the payload of the original.  A dry  *)
(* run ends here.                                                          *)
Same(a, b) == a # None /\ b # None /\ a.src = b.src
Verify(k) ==
  /\ pc[k] = "verify"
  /\ IF ~Same(orig[Path(k)], new[Path(k)]) THEN Return(k, "failed") /\ UNCHANGED made
     ELSE /\ made' = [made EXCEPT ![k] = Size[new[Path(k)]]]
          /\ IF mode.kind = "dry_run" THEN Return(k, "done")
             ELSE Goto(k, "copy") /\ UNCHANGED scratch
  /\ UNCHANGED <<remote, command, got, indexed, faults, replaced>>

(* Mutant of CopyBackup: a copy that fails is only logged. *)
CopyOnce(k) ==
  /\ pc[k] = "copy"
  /\ \/ backup' = [backup EXCEPT ![k] = obj[k]] /\ NoFault
     \/ Fault /\ UNCHANGED backup
  /\ Goto(k, "upload")
  /\ UNCHANGED <<obj, sidecar, scratch, command, got, made, indexed, replaced>>

(* process_one: the server copies what is under the key now. *)
CopyBackup(k) ==
  /\ pc[k] = "copy"
  /\ \/ /\ backup' = [backup EXCEPT ![k] = obj[k]]
        /\ Goto(k, "backup")
        /\ NoFault
        /\ UNCHANGED scratch
     \/ Fault /\ Return(k, "failed") /\ UNCHANGED backup
  /\ UNCHANGED <<obj, sidecar, command, got, made, indexed, replaced>>

(* process_one: the backup must have the size of the download. *)
CheckBackup(k) ==
  /\ pc[k] = "backup"
  /\ \/ /\ Size[backup[k]] = got[k]
        /\ Goto(k, "upload")
        /\ NoFault
        /\ UNCHANGED scratch
     \/ /\ (Size[backup[k]] # got[k] /\ NoFault) \/ Fault
        /\ Return(k, "failed")
  /\ UNCHANGED <<remote, command, got, made, indexed, replaced>>

(* process_one: the PUT.  An answer that is lost leaves it in doubt        *)
(* whether the object was replaced.                                        *)
Stored(k) == new[Path(k)] # None /\ obj' = [obj EXCEPT ![k] = new[Path(k)]]
Upload(k) ==
  /\ pc[k] = "upload"
  /\ \/ /\ Stored(k)
        /\ pc' = [pc EXCEPT ![k] = "head"]
        /\ NoFault
        /\ UNCHANGED <<scratch, tries>>
     \/ /\ (new[Path(k)] = None /\ NoFault) \/ Fault
        /\ Stored(k) \/ UNCHANGED obj
        /\ AttemptFails(k, "upload")
  /\ UNCHANGED <<backup, sidecar, command, got, made, indexed, replaced>>

(* process_one: the HEAD after the PUT.  A size that differs is another    *)
(* failed attempt, a HEAD that fails ends the task.                        *)
CheckUpload(k) ==
  /\ pc[k] = "head"
  /\ \/ /\ Size[obj[k]] = made[k]
        /\ Goto(k, "sidecar")
        /\ NoFault
        /\ UNCHANGED scratch
     \/ /\ Size[obj[k]] # made[k]
        /\ AttemptFails(k, "upload")
        /\ NoFault
     \/ Fault /\ Return(k, "failed")
  /\ UNCHANGED <<remote, command, got, made, indexed, replaced>>

(* process_one: a sidecar lists offsets the rewrite has invalidated.  When *)
(* the HEAD or the DELETE fails it stays, with a warning.                  *)
DropSidecar(k) ==
  /\ pc[k] = "sidecar"
  /\ \/ sidecar' = [sidecar EXCEPT ![k] = None] /\ NoFault
     \/ sidecar[k] # None /\ Fault /\ UNCHANGED sidecar
  /\ Return(k, "done")
  /\ UNCHANGED <<obj, backup, command, got, made, indexed, replaced>>

(* run is over: all tasks were awaited and reported, or the process died. *)
Forget ==
  /\ running' = FALSE
  /\ pc' = [k \in Keys |-> "none"]
  /\ listed' = Zero /\ got' = Zero /\ made' = Zero /\ tries' = Zero
EndRun ==
  /\ running
  /\ \A k \in Keys : pc[k] \in {"none", "skipped", "failed", "done"}
                      \/ (pc[k] = "target" /\ mode.kind = "scan_only")
  /\ Forget
  /\ UNCHANGED <<remote, scratch, mode, indexed, faults, replaced>>

Crash ==
  /\ running
  /\ Fault
  /\ Forget
  /\ UNCHANGED <<remote, scratch, mode, indexed, replaced>>

-----------------------------------------------------------------------------
Step(k) ==
  \/ classify(k)
  \/ Spawn(k)
  \/ download(k)
  \/ CheckShape(k)
  \/ RewriteFile(k)
  \/ Verify(k)
  \/ CopyBackup(k)
  \/ CheckBackup(k)
  \/ Upload(k)
  \/ CheckUpload(k)
  \/ DropSidecar(k)

Next ==
  \/ \E k \in Keys : \E s \in Sources : Replace(k, s)
  \/ \E k \in Keys : ReadForIndex(k) \/ write_cdx_sidecar(k)
  \/ \E m \in Modes : StartRun(m)
  \/ \E k \in Keys : Step(k)
  \/ EndRun
  \/ Crash

Spec == Init /\ [][Next]_vars

(* The command is run again and again over the whole bucket, and a running *)
(* one goes on: every request and every retry ends.                        *)
Everything == [files |-> {}, salvage |-> FALSE, kind |-> "write"]
FairSpec ==
  /\ Spec
  /\ \A k \in Keys : WF_vars(Step(k))
  /\ WF_vars(EndRun)
  /\ SF_vars(StartRun(Everything))

-----------------------------------------------------------------------------
(* Properties *)

TypeOK ==
  /\ obj \in [Keys -> Objects]
  /\ backup \in [Keys -> Objects \cup {None}]
  /\ sidecar \in [Keys -> Objects \cup {None}]
  /\ orig \in [Keys -> Objects \cup {None}]
  /\ new \in [Keys -> Objects \cup {None}]
  /\ running \in BOOLEAN
  /\ mode \in Modes
  /\ listed \in [Keys -> Nat]
  /\ got \in [Keys -> Nat]
  /\ made \in [Keys -> Nat]
  /\ tries \in [Keys -> 0..Attempts - 1]
  /\ pc \in [Keys -> Steps]
  /\ indexed \in [Keys -> Objects \cup {None}]
  /\ faults \in 0..MaxFaults
  /\ replaced \subseteq Keys
  /\ \A k \in Keys : pc[k] = "backup" => backup[k] # None

(* The size check of the backup: at whatever moment a crawler overwrites   *)
(* an object, no key has a rewrite without a backup of the size of what    *)
(* was rewritten.  (Of the same size, the backup may be the later upload.) *)
BackupMatches ==
  \A k \in Keys : obj[k].rewritten =>
    backup[k] # None /\ Size[backup[k]] = Size[Source(obj[k].src)]

(* "The backup is verified before the original is overwritten" and "only   *)
(* the gzip framing changes": whatever fails, and however often the        *)
(* command is run, the bytes a crawler has uploaded are under their key,   *)
(* or under its backup while the key has the rewrite of just these bytes - *)
(* not of those of another task, though all share one scratch directory;   *)
(* and of objects a crawler overwrites meanwhile BackupMatches holds.      *)
(* About sources of more than one record.                                  *)
OriginalKept ==
  /\ TypeOK
  /\ BackupMatches
  /\ \A k \in Keys \ replaced :
       \/ obj[k] = Source(Start[k])
       \/ obj[k] = Rewrite(Start[k]) /\ backup[k] = Source(Start[k])

(* Every whole-file gzip that can be rewritten, a later upload included,   *)
(* is in the end one member per record.                                    *)
EventuallySplit ==
  \A k \in Keys :
    <>[](obj[k].rewritten \/ obj[k].src \notin Long \/ ~rewrite_records(obj[k], FALSE))
=============================================================================
