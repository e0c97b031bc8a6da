------------------------------ MODULE Updater ------------------------------
(***************************************************************************)
(* The command "awg-server update" (internal/update and runUpdate of       *)
(* main.go): several runs of it on one host, next to an installer that     *)
(* replaces the same file and a release server that publishes meanwhile    *)
(* and may answer with anything.  One action per step between which        *)
(* another process can act; the process may die before each of them.       *)
(***************************************************************************)
EXTENDS Integers, Sequences

CONSTANTS
  Procs,          \* runs of the command
  NoProc,
  MaxVersion,     \* bound: the newest release there will be
  Tag,            \* Tag[v]: the three components of its version, as digits
  Legacy,         \* releases whose signed manifest has other asset names
  InitFiles,      \* what may be installed before the first update
  MaxFaults       \* bound: failed steps, wrong answers and dead processes

\* Releases are numbered in the order they are published; Dev is the version of
\* a build without one, Unreadable what readBinaryVersion rejects.
Dev == 0
Stable == 1..MaxVersion
Unreadable == -1

ASSUME ProcAssumption == NoProc \notin Procs
ASSUME VersionAssumption == MaxVersion \in Nat \ {0} /\ Legacy \subseteq Stable
ASSUME FaultAssumption == MaxFaults \in Nat

\* Three components of decimal digits without leading zeroes.
parseStableVersion(text) ==
  /\ DOMAIN text = 1..3
  /\ \A i \in 1..3 : /\ text[i] \in Seq(0..9) \ {<<>>}
                     /\ Len(text[i]) > 1 => text[i][1] # 0

\* The numbers the components stand for grow from release to release.
Number(digits) ==
  LET n[i \in 0..Len(digits)] == IF i = 0 THEN 0 ELSE 10 * n[i - 1] + digits[i]
  IN n[Len(digits)]

ASSUME TagAssumption ==
  /\ DOMAIN Tag = Stable
  /\ \A v \in Stable : parseStableVersion(Tag[v])
  /\ \A v, w \in Stable : v < w =>
       \E i \in 1..3 : /\ Number(Tag[v][i]) < Number(Tag[w][i])
                       /\ \A j \in 1..(i - 1) : Tag[v][j] = Tag[w][j]

\* A file is the version it reports and whether the release workflow built it:
\* only then it has the public key embedded.  Its digest is the file itself.
Released(v) == [ver |-> v, official |-> TRUE]
Other(v) == [ver |-> v, official |-> FALSE]
Partial == Other(Unreadable)
NoFile == [ver |-> Unreadable, official |-> TRUE]
Files == [ver: {Unreadable, Dev} \cup Stable, official: BOOLEAN]

ASSUME FileAssumption == InitFiles \subseteq Files \ {Partial, NoFile}

\* The assets of one release: its binary, and a manifest and signature named by
\* the release they were made for, 0 for bytes that were made for none.
Manifests == 0..MaxVersion

VARIABLES
  installed,  \* the file at the executable path
  lock,       \* the process that holds the lock file's flock
  proc,       \* each run of the command
  writing,    \* the version the installer is copying to the path, 0 for none
  published,  \* the latest release
  last,       \* how the last step ended a run
  faults

vars == <<installed, lock, proc, writing, published, last, faults>>

\* A run: the version compiled into it, CheckResult.Latest, expectedDigest, the
\* temporary file, and whether the installer acted after the second version check.
Idle == [pc |-> "idle", current |-> Unreadable, latest |-> 0, digest |-> NoFile,
         tmp |-> NoFile, raced |-> FALSE]

Init ==
  /\ installed \in InitFiles
  /\ lock = NoProc
  /\ proc = [p \in Procs |-> Idle]
  /\ writing = 0
  /\ published = 1
  /\ last = "none"
  /\ faults = 0

-----------------------------------------------------------------------------
(***************************************************************************)
(* How a step ends.                                                        *)
(***************************************************************************)
Continue(p, next) == proc' = [proc EXCEPT ![p] = next] /\ UNCHANGED lock

\* The deferred lock.Close, which is there once the lock was acquired.
Unlocked(p) ==
  IF proc[p].pc \in {"idle", "noKey", "check", "apply"} THEN lock ELSE NoProc

\* A return of Check or Apply ends the process; the deferred calls remove the
\* temporary file and release the lock.
Return(p, res) ==
  /\ proc' = [proc EXCEPT ![p] = Idle]
  /\ lock' = Unlocked(p)
  /\ last' = res

Fault == faults < MaxFaults /\ faults' = faults + 1
NoFault == UNCHANGED faults

\* A call of this step failed: an I/O error, a timeout or a bad status.
Fails(p) == Fault /\ Return(p, "failed") /\ UNCHANGED <<installed, writing, published>>

Proceeds(p, next) ==
  /\ Continue(p, next)
  /\ last' = "step"
  /\ UNCHANGED <<installed, writing, published>>

Rejects(p, why) == NoFault /\ Return(p, why) /\ UNCHANGED <<installed, writing, published>>

(***************************************************************************)
(* Decisions.                                                              *)
(***************************************************************************)
\* Strings compare at the first digit that differs.
Before(left, right) ==
  \/ \E k \in DOMAIN left \cap DOMAIN right :
       left[k] < right[k] /\ \A j \in 1..(k - 1) : left[j] = right[j]
  \/ Len(left) < Len(right) /\ \A j \in DOMAIN left : left[j] = right[j]

\* Mutant of lessComponent: the components are compared as strings.
lessComponentText(left, right) == Before(left, right)

\* Without leading zeroes the shorter component is the smaller number.
lessComponent(left, right) ==
  Len(left) < Len(right) \/ (Len(left) = Len(right) /\ Before(left, right))

\* The first component that differs decides.
compareStableVersions(left, right) ==
  LET less(x, y) == \E i \in 1..3 : lessComponent(x[i], y[i]) /\ \A j \in 1..(i - 1) : x[j] = y[j]
  IN IF less(left, right) THEN -1 ELSE IF less(right, left) THEN 1 ELSE 0

\* Whatever the latest release is, "dev" is older.
compareCurrentVersion(current, latest) ==
  IF current = Dev THEN -1 ELSE compareStableVersions(Tag[current], Tag[latest])

\* Only a strictly newer release replaces a version that could be read.
validateUpgrade(current, target) ==
  current # Unreadable /\ compareCurrentVersion(current, target) < 0

\* The signature is over this manifest, and its lines are the asset names of
\* this generation of releases.
verifyReleaseManifest(manifest, signature) ==
  /\ manifest \in Stable
  /\ signature = manifest
  /\ manifest \notin Legacy

\* Mutant of downloadAccepted: the digest is not compared.
downloadAcceptedByVersion(r) == r.tmp.ver = r.latest

\* Mutant of downloadAccepted: any signed binary will do.
downloadAcceptedByDigest(r) == r.tmp = r.digest

\* The downloaded file has the signed digest, and it is the release asked for.
downloadAccepted(r) == r.tmp = r.digest /\ r.tmp.ver = r.latest

(***************************************************************************)
(* The steps of a run.                                                     *)
(***************************************************************************)
\* The file at the path is executed; version is compiled into it.
Launch(p) ==
  /\ proc[p].pc = "idle"
  /\ installed.ver # Unreadable
  /\ NoFault
  /\ Proceeds(p, [Idle EXCEPT !.pc = IF installed.official THEN "check" ELSE "noKey",
                              !.current = installed.ver])

\* parseReleasePublicKey: a build without the key makes no request.
NoKey(p) == proc[p].pc = "noKey" /\ Rejects(p, "noKey")

\* The answer names a release the server may still serve from a cache.
Check(p) ==
  /\ proc[p].pc = "check"
  /\ \/ Fails(p)
     \/ \E r \in 1..published :
          /\ IF r = published THEN NoFault ELSE Fault
          /\ IF compareCurrentVersion(proc[p].current, r) < 0
               THEN Proceeds(p, [proc[p] EXCEPT !.pc = "apply", !.latest = r])
               ELSE /\ Return(p, IF compareCurrentVersion(proc[p].current, r) = 0
                                   THEN "upToDate" ELSE "older")
                    /\ UNCHANGED <<installed, writing, published>>

\* Mutant of acquireUpdateLock: the lock is not exclusive.
acquireUpdateLockShared(p) == lock' = p

\* flock without waiting.
acquireUpdateLock(p) == lock = NoProc /\ lock' = p

Lock(p) ==
  /\ proc[p].pc = "apply"
  /\ \/ Fails(p)
     \/ /\ acquireUpdateLock(p)
        /\ NoFault
        /\ proc' = [proc EXCEPT ![p].pc = "inspect"]
        /\ last' = "step"
        /\ UNCHANGED <<installed, writing, published>>
     \/ lock # NoProc /\ Rejects(p, "locked")

\* The version on disk may differ from the one compiled into this process.
Inspect(p) ==
  /\ proc[p].pc = "inspect"
  /\ \/ Fails(p)
     \/ /\ validateUpgrade(installed.ver, proc[p].latest)
        /\ NoFault
        /\ Proceeds(p, [proc[p] EXCEPT !.pc = "manifest"])
     \/ ~validateUpgrade(installed.ver, proc[p].latest) /\ Rejects(p, "notNewer")

\* The manifest, then its signature.
FetchManifest(p) ==
  /\ proc[p].pc = "manifest"
  /\ \/ Fails(p)
     \/ \E manifest, signature \in Manifests :
          /\ IF {manifest, signature} = {proc[p].latest} THEN NoFault ELSE Fault
          /\ IF verifyReleaseManifest(manifest, signature)
               THEN Proceeds(p, [proc[p] EXCEPT !.pc = "download",
                                                !.digest = Released(manifest)])
               ELSE /\ Return(p, "manifest")
                    /\ UNCHANGED <<installed, writing, published>>

\* CreateTemp and downloadBinary: whatever the server sends, or nothing.
Download(p) ==
  /\ proc[p].pc = "download"
  /\ \/ Fails(p)
     \/ \E file \in Files \ {NoFile} :
          /\ IF file = Released(proc[p].latest) THEN NoFault ELSE Fault
          /\ Proceeds(p, [proc[p] EXCEPT !.pc = "verify", !.tmp = file])

\* Sync, Close, the digest, Chmod and the version of the new file.
Verify(p) ==
  /\ proc[p].pc = "verify"
  /\ \/ Fails(p)
     \/ /\ downloadAccepted(proc[p])
        /\ NoFault
        /\ Proceeds(p, [proc[p] EXCEPT !.pc = "recheck"])
     \/ ~downloadAccepted(proc[p]) /\ Rejects(p, "mismatch")

Recheck(p) ==
  /\ proc[p].pc = "recheck"
  /\ \/ Fails(p)
     \/ /\ validateUpgrade(installed.ver, proc[p].latest)
        /\ NoFault
        /\ Proceeds(p, [proc[p] EXCEPT !.pc = "replace"])
     \/ ~validateUpgrade(installed.ver, proc[p].latest) /\ Rejects(p, "notNewer")

\* Mutant of Replace: the file is overwritten in place, and an error leaves it
\* empty.
ReplaceInPlace(p) ==
  /\ proc[p].pc = "replace"
  /\ \/ Fault /\ installed' = NoFile
     \/ NoFault /\ installed' = proc[p].tmp
  /\ writing' = 0
  /\ Return(p, "updated")
  /\ UNCHANGED published

\* The rename also takes the path away from an installer that is writing.
Replace(p) ==
  /\ proc[p].pc = "replace"
  /\ \/ Fails(p)
     \/ /\ NoFault
        /\ installed' = proc[p].tmp
        /\ writing' = 0
        /\ Return(p, "updated")
        /\ UNCHANGED published

\* The process dies: the kernel releases the lock; nobody reads its temporary
\* file again.
Crash(p) ==
  /\ proc[p].pc # "idle"
  /\ Fault
  /\ proc' = [proc EXCEPT ![p] = Idle]
  /\ lock' = Unlocked(p)
  /\ last' = "crash"
  /\ UNCHANGED <<installed, writing, published>>

(***************************************************************************)
(* The rest of the host and the world.                                     *)
(***************************************************************************)
Publish ==
  /\ published < MaxVersion
  /\ published' = published + 1
  /\ last' = "publish"
  /\ UNCHANGED <<installed, lock, proc, writing, faults>>

\* install.sh takes no lock: "install" removes the file and writes a new one.
Raced == [p \in Procs |-> [proc[p] EXCEPT !.raced = proc[p].pc = "replace"]]

BeginInstall ==
  /\ writing = 0
  /\ Fault
  /\ installed' = Partial
  /\ writing' = published
  /\ proc' = Raced
  /\ last' = "install"
  /\ UNCHANGED <<lock, published>>

EndInstall ==
  /\ writing # 0
  /\ installed' = Released(writing)
  /\ writing' = 0
  /\ proc' = Raced
  /\ last' = "install"
  /\ UNCHANGED <<lock, published, faults>>

Step(p) == \/ NoKey(p) \/ Check(p) \/ Lock(p) \/ Inspect(p) \/ FetchManifest(p)
           \/ Download(p) \/ Verify(p) \/ Recheck(p) \/ Replace(p)

Next ==
  \/ \E p \in Procs : Launch(p) \/ Step(p) \/ Crash(p)
  \/ Publish \/ BeginInstall \/ EndInstall

\* The operator runs the command again and again (a timer does), every call has
\* a timeout, and a copy that was begun goes on.
Spec ==
  /\ Init /\ [][Next]_vars
  /\ \A p \in Procs : WF_vars(Launch(p)) /\ WF_vars(Step(p))
  /\ WF_vars(EndInstall)
-----------------------------------------------------------------------------
(***************************************************************************)
(* Properties.                                                             *)
(***************************************************************************)
TypeOK ==
  /\ installed \in Files \ {NoFile}
  /\ lock \in Procs \cup {NoProc}
  /\ proc \in [Procs -> [pc: {"idle", "noKey", "check", "apply", "inspect", "manifest",
                              "download", "verify", "recheck", "replace"},
                         current: {Unreadable, Dev} \cup Stable, latest: 0..MaxVersion,
                         digest: Files, tmp: Files, raced: BOOLEAN]]
  /\ writing \in 0..MaxVersion
  /\ published \in Stable
  /\ faults \in 0..MaxFaults

\* Whatever the server sends in whatever order, and wherever a run dies, the
\* path holds the file the operator put there or a genuine release, whole; only
\* an installer in the middle of its copy leaves part of one.
InstalledIsVerified ==
  \/ installed \in InitFiles
  \/ installed \in {Released(v) : v \in Stable}
  \/ installed = Partial /\ writing # 0

\* p's rename is the step.
Replaces(p) == last' = "updated" /\ proc[p].pc = "replace" /\ proc'[p].pc = "idle"

\* Two runs at once, one of which checked before a newer release came out, never
\* take the host back to an older version: the version a run saw under the lock
\* is what it replaces, unless an installer came in between.
NeverDowngrades ==
  [][\A p \in Procs : Replaces(p) => proc[p].raced \/ installed.ver < installed'.ver]_vars

\* "updated to X" is true, even if the server mixed up the assets of two releases.
UpdatedMeansLatest ==
  [][\A p \in Procs : Replaces(p) => installed'.ver = proc[p].latest]_vars

\* Once faults have stopped, an official binary that is told to update again and
\* again reaches every release it can verify, or a later one.
UpdateConverges ==
  \A v \in Stable \ Legacy :
    (installed.official /\ published = v) ~> (installed.ver >= v)
=============================================================================
