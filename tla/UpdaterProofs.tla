--------------------------- MODULE UpdaterProofs ---------------------------
(***************************************************************************)
(* Proofs about Updater for any number of runs, releases and faults, and   *)
(* whatever the release server answers.                                    *)
(***************************************************************************)
EXTENDS Updater, WellFoundedInduction, TLAPS

Pcs == {"idle", "noKey", "check", "apply", "inspect", "manifest", "download", "verify",
        "recheck", "replace"}
Runs == [pc: Pcs, current: {Unreadable, Dev} \cup Stable, latest: 0..MaxVersion,
         digest: Files, tmp: Files, raced: BOOLEAN]

\* What a run has established by the step it is at: past the manifest the digest
\* is that of a release, past the verification so is the temporary file, and it
\* is the release the run asked for.
SafeRun(r) ==
  /\ r.pc \in {"download", "verify", "recheck", "replace"} =>
       r.digest \in {Released(v) : v \in Stable}
  /\ r.pc \in {"recheck", "replace"} => downloadAccepted(r)

SafeRuns == \A p \in Procs : SafeRun(proc[p])

\* A release and a file that was cut short are files, and neither is "no file".
LEMMA FileTypes ==
  /\ Partial \in Files /\ NoFile \in Files /\ Partial # NoFile
  /\ \A v \in Stable : Released(v) \in Files /\ Released(v) # NoFile
  /\ Idle \in Runs
BY VersionAssumption
   DEF Partial, Other, NoFile, Released, Files, Idle, Runs, Pcs, Unreadable, Dev, Stable

\* Each way a step can end (Return, Continue, with or without a fault) keeps the types.
LEMMA ReturnTypes ==
  ASSUME TypeOK, NEW p \in Procs, NEW res, Return(p, res)
  PROVE  /\ lock' \in Procs \cup {NoProc}
         /\ proc' \in [Procs -> Runs]
BY FileTypes DEF TypeOK, Return, Unlocked, Runs, Pcs

\* The fields that the end of one step and the start of the next set.
LEMMA ContinueTypes ==
  ASSUME TypeOK, NEW p \in Procs, NEW next \in Runs, Continue(p, next)
  PROVE  /\ lock' \in Procs \cup {NoProc}
         /\ proc' \in [Procs -> Runs]
BY DEF TypeOK, Continue, Runs, Pcs

\* The count of failures stays within its bound.
LEMMA FaultTypes ==
  ASSUME TypeOK, Fault \/ NoFault
  PROVE  faults' \in 0..MaxFaults
BY FaultAssumption DEF TypeOK, Fault, NoFault

\* Every initial state has the types.
LEMMA TypeInit == Init => TypeOK
<1> SUFFICES ASSUME Init PROVE TypeOK OBVIOUS
<1>1. installed \in Files \ {NoFile} BY FileAssumption DEF Init
<1>2. proc \in [Procs -> Runs] BY FileTypes DEF Init
<1>3. published \in Stable BY VersionAssumption DEF Init, Stable
<1>4. writing \in 0..MaxVersion /\ faults \in 0..MaxFaults
  BY FaultAssumption, VersionAssumption DEF Init
<1>5. lock \in Procs \cup {NoProc} BY DEF Init
<1> QED BY <1>1, <1>2, <1>3, <1>4, <1>5 DEF TypeOK, Runs, Pcs

\* A run that may rename has a whole release as its temporary file.
LEMMA VerifiedTemp ==
  ASSUME SafeRuns, NEW p \in Procs, proc[p].pc = "replace"
  PROVE  /\ proc[p].tmp \in {Released(v) : v \in Stable}
         /\ proc[p].tmp.ver = proc[p].latest
<1>1. SafeRun(proc[p]) BY DEF SafeRuns
<1> QED BY <1>1 DEF SafeRun, downloadAccepted

\* Every step keeps the types, one step per action; the rename needs SafeRuns.
LEMMA TypeStep == TypeOK /\ SafeRuns /\ [Next]_vars => TypeOK'
<1> SUFFICES ASSUME TypeOK, SafeRuns, [Next]_vars PROVE TypeOK' OBVIOUS
<1>1. proc \in [Procs -> Runs] /\ installed \in Files \ {NoFile} BY DEF TypeOK, Runs, Pcs
<1>2. ASSUME /\ installed' \in Files \ {NoFile}
             /\ lock' \in Procs \cup {NoProc}
             /\ proc' \in [Procs -> Runs]
             /\ writing' \in 0..MaxVersion
             /\ published' \in Stable
                 /\ faults' \in 0..MaxFaults
      PROVE  TypeOK'
  BY <1>2 DEF TypeOK, Runs, Pcs
<1>3. ASSUME UNCHANGED <<installed, writing, published>>
      PROVE  installed' \in Files \ {NoFile} /\ writing' \in 0..MaxVersion /\ published' \in Stable
  BY <1>3 DEF TypeOK
<1>4. ASSUME NEW p \in Procs, NEW next \in Runs, Proceeds(p, next), Fault \/ NoFault
      PROVE  TypeOK'
  BY <1>2, <1>3, <1>4, ContinueTypes, FaultTypes DEF Proceeds
<1>5. ASSUME NEW p \in Procs, NEW res, Return(p, res), Fault \/ NoFault,
             UNCHANGED <<installed, writing, published>>
      PROVE  TypeOK'
  BY <1>2, <1>3, <1>5, ReturnTypes, FaultTypes
<1>6. ASSUME NEW p \in Procs, Fails(p) PROVE TypeOK' BY <1>5, <1>6 DEF Fails
<1>7. ASSUME NEW p \in Procs, NEW why, Rejects(p, why) PROVE TypeOK'
  BY <1>5, <1>7 DEF Rejects
<1>8. CASE UNCHANGED vars BY <1>8 DEF vars, TypeOK
<1>9. ASSUME NEW p \in Procs, Launch(p) PROVE TypeOK'
  <2> DEFINE next == [Idle EXCEPT !.pc = IF installed.official THEN "check" ELSE "noKey",
                                  !.current = installed.ver]
  <2>1. installed.ver \in {Unreadable, Dev} \cup Stable BY <1>1 DEF Files
  <2>2. next \in Runs BY <2>1, FileTypes DEF Runs, Pcs
  <2> QED BY <1>4, <1>9, <2>2 DEF Launch
<1>10. ASSUME NEW p \in Procs, NoKey(p) PROVE TypeOK' BY <1>7, <1>10 DEF NoKey
<1>11. ASSUME NEW p \in Procs, Check(p) PROVE TypeOK'
  <2>1. CASE Fails(p) BY <1>6, <2>1
  <2>2. ASSUME NEW r \in 1..published, Fault \/ NoFault,
               Proceeds(p, [proc[p] EXCEPT !.pc = "apply", !.latest = r])
        PROVE  TypeOK'
    <3>1. r \in 0..MaxVersion BY VersionAssumption DEF TypeOK, Stable
    <3>2. [proc[p] EXCEPT !.pc = "apply", !.latest = r] \in Runs BY <1>1, <3>1 DEF Runs, Pcs
    <3> QED BY <1>4, <2>2, <3>2
  <2> QED BY <1>5, <1>11, <2>1, <2>2 DEF Check
<1>12. ASSUME NEW p \in Procs, Lock(p) PROVE TypeOK'
  <2>1. CASE Fails(p) BY <1>6, <2>1
  <2>2. CASE Rejects(p, "locked") BY <1>7, <2>2
  <2>3. CASE /\ acquireUpdateLock(p) /\ NoFault
             /\ proc' = [proc EXCEPT ![p].pc = "inspect"]
             /\ UNCHANGED <<installed, writing, published>>
    <3>1. proc' \in [Procs -> Runs] BY <1>1, <2>3 DEF Runs, Pcs
    <3> QED BY <1>2, <1>3, <2>3, <3>1, FaultTypes DEF acquireUpdateLock, TypeOK
  <2> QED BY <1>12, <2>1, <2>2, <2>3 DEF Lock
<1>13. ASSUME NEW p \in Procs, NEW pc \in Pcs PROVE [proc[p] EXCEPT !.pc = pc] \in Runs
  BY <1>1 DEF Runs
<1>14. ASSUME NEW p \in Procs, Inspect(p) PROVE TypeOK'
  <2>1. [proc[p] EXCEPT !.pc = "manifest"] \in Runs BY <1>13 DEF Pcs
  <2> QED BY <1>4, <1>6, <1>7, <1>14, <2>1 DEF Inspect
<1>15. ASSUME NEW p \in Procs, FetchManifest(p) PROVE TypeOK'
  <2>1. CASE Fails(p) BY <1>6, <2>1
  <2>2. ASSUME NEW manifest \in Manifests, NEW signature \in Manifests, Fault \/ NoFault,
               verifyReleaseManifest(manifest, signature),
               Proceeds(p, [proc[p] EXCEPT !.pc = "download", !.digest = Released(manifest)])
        PROVE  TypeOK'
    <3>1. Released(manifest) \in Files BY <2>2, FileTypes DEF verifyReleaseManifest
    <3>2. [proc[p] EXCEPT !.pc = "download", !.digest = Released(manifest)] \in Runs
      BY <1>1, <3>1 DEF Runs, Pcs
    <3> QED BY <1>4, <2>2, <3>2
  <2> QED BY <1>5, <1>15, <2>1, <2>2 DEF FetchManifest
<1>16. ASSUME NEW p \in Procs, Download(p) PROVE TypeOK'
  <2>1. CASE Fails(p) BY <1>6, <2>1
  <2>2. ASSUME NEW file \in Files \ {NoFile}, Fault \/ NoFault,
               Proceeds(p, [proc[p] EXCEPT !.pc = "verify", !.tmp = file])
        PROVE  TypeOK'
    <3>1. [proc[p] EXCEPT !.pc = "verify", !.tmp = file] \in Runs BY <1>1 DEF Runs, Pcs
    <3> QED BY <1>4, <2>2, <3>1
  <2> QED BY <1>16, <2>1, <2>2 DEF Download
<1>17. ASSUME NEW p \in Procs, Verify(p) PROVE TypeOK'
  <2>1. [proc[p] EXCEPT !.pc = "recheck"] \in Runs BY <1>13 DEF Pcs
  <2> QED BY <1>4, <1>6, <1>7, <1>17, <2>1 DEF Verify
<1>18. ASSUME NEW p \in Procs, Recheck(p) PROVE TypeOK'
  <2>1. [proc[p] EXCEPT !.pc = "replace"] \in Runs BY <1>13 DEF Pcs
  <2> QED BY <1>4, <1>6, <1>7, <1>18, <2>1 DEF Recheck
<1>19. ASSUME NEW p \in Procs, Replace(p) PROVE TypeOK'
  <2>1. CASE Fails(p) BY <1>6, <2>1
  <2>2. CASE /\ NoFault /\ installed' = proc[p].tmp /\ writing' = 0
             /\ Return(p, "updated") /\ UNCHANGED published
    <3>1. proc[p].pc = "replace" BY <1>19 DEF Replace
    <3>2. installed' \in Files \ {NoFile} BY <2>2, <3>1, VerifiedTemp, FileTypes
    <3>3. writing' \in 0..MaxVersion /\ published' \in Stable
      BY <2>2, VersionAssumption DEF TypeOK
    <3> QED BY <1>2, <2>2, <3>2, <3>3, ReturnTypes, FaultTypes
  <2> QED BY <1>19, <2>1, <2>2 DEF Replace
<1>20. ASSUME NEW p \in Procs, Crash(p) PROVE TypeOK'
  <2>1. proc' \in [Procs -> Runs] BY <1>1, <1>20, FileTypes DEF Crash
  <2>2. lock' \in Procs \cup {NoProc} BY <1>20 DEF Crash, Unlocked, TypeOK
  <2> QED BY <1>2, <1>3, <1>20, <2>1, <2>2, FaultTypes DEF Crash
<1>21. CASE Publish
  <2>1. published' \in Stable BY <1>21, VersionAssumption DEF Publish, TypeOK, Stable
  <2> QED BY <1>1, <1>2, <1>21, <2>1 DEF Publish, TypeOK
<1>22. Raced \in [Procs -> Runs] BY <1>1 DEF Raced, Runs
<1>23. CASE BeginInstall
  <2>1. writing' \in 0..MaxVersion BY <1>23, VersionAssumption DEF BeginInstall, TypeOK, Stable
  <2> QED BY <1>2, <1>22, <1>23, <2>1, FileTypes, FaultTypes DEF BeginInstall, TypeOK
<1>24. CASE EndInstall
  <2>1. writing \in Stable BY <1>24, VersionAssumption DEF EndInstall, TypeOK, Stable
  <2>2. installed' \in Files \ {NoFile} BY <1>24, <2>1, FileTypes DEF EndInstall
  <2>3. writing' \in 0..MaxVersion BY <1>24, VersionAssumption DEF EndInstall
  <2> QED BY <1>2, <1>22, <1>24, <2>2, <2>3 DEF EndInstall, TypeOK
<1> QED BY <1>8, <1>9, <1>10, <1>11, <1>12, <1>14, <1>15, <1>16, <1>17, <1>18, <1>19, <1>20,
           <1>21, <1>23, <1>24 DEF Next, Step

\* Every initial state and every step keeps what the runs have established.
LEMMA SafeInit == Init => SafeRuns
<1>1. SafeRun(Idle) BY DEF SafeRun, Idle
<1>2. ASSUME Init PROVE \A p \in Procs : proc[p] = Idle BY <1>2 DEF Init
<1> QED BY <1>1, <1>2 DEF SafeRuns

\* Every step keeps what the runs have established.
LEMMA SafeStep == TypeOK /\ SafeRuns /\ [Next]_vars => SafeRuns'
<1> SUFFICES ASSUME TypeOK, SafeRuns, [Next]_vars PROVE SafeRuns' OBVIOUS
<1>1. proc \in [Procs -> Runs] BY DEF TypeOK, Runs, Pcs
<1>2. ASSUME NEW p \in Procs, NEW next, SafeRun(next), proc' = [proc EXCEPT ![p] = next]
      PROVE  SafeRuns'
  BY <1>1, <1>2 DEF SafeRuns, SafeRun, downloadAccepted
<1>3. SafeRun(Idle) BY DEF SafeRun, Idle
<1>4. ASSUME NEW p \in Procs, NEW res, Return(p, res) PROVE SafeRuns'
  BY <1>2, <1>3, <1>4 DEF Return
<1>5. ASSUME NEW p \in Procs, NEW next, SafeRun(next), Proceeds(p, next) PROVE SafeRuns'
  BY <1>2, <1>5 DEF Proceeds, Continue
<1>6. ASSUME NEW p \in Procs, Fails(p) PROVE SafeRuns' BY <1>4, <1>6 DEF Fails
<1>7. ASSUME NEW p \in Procs, NEW why, Rejects(p, why) PROVE SafeRuns'
  BY <1>4, <1>7 DEF Rejects
<1>8. ASSUME proc' = proc PROVE SafeRuns' BY <1>8 DEF SafeRuns
<1>9. CASE UNCHANGED vars BY <1>8, <1>9 DEF vars
<1>10. ASSUME NEW p \in Procs, Launch(p) PROVE SafeRuns'
  <2> DEFINE next == [Idle EXCEPT !.pc = IF installed.official THEN "check" ELSE "noKey",
                                  !.current = installed.ver]
  <2>1. SafeRun(next) BY DEF SafeRun, Idle
  <2> QED BY <1>5, <1>10, <2>1 DEF Launch
<1>11. ASSUME NEW p \in Procs, NoKey(p) PROVE SafeRuns' BY <1>7, <1>11 DEF NoKey
<1>12. ASSUME NEW p \in Procs PROVE proc[p] \in Runs /\ SafeRun(proc[p]) BY <1>1 DEF SafeRuns
<1>13. ASSUME NEW p \in Procs, Check(p) PROVE SafeRuns'
  <2>1. ASSUME NEW r PROVE SafeRun([proc[p] EXCEPT !.pc = "apply", !.latest = r])
    BY <1>12 DEF SafeRun, Runs
  <2> QED BY <1>4, <1>5, <1>6, <1>13, <2>1 DEF Check
<1>14. ASSUME NEW p \in Procs, NEW pc \in Pcs \ {"download", "verify", "recheck", "replace"}
       PROVE  SafeRun([proc[p] EXCEPT !.pc = pc])
  BY <1>12 DEF SafeRun, Runs
<1>15. ASSUME NEW p \in Procs, Lock(p) PROVE SafeRuns'
  <2>1. ASSUME proc' = [proc EXCEPT ![p].pc = "inspect"] PROVE SafeRuns'
    <3>1. proc' = [proc EXCEPT ![p] = [proc[p] EXCEPT !.pc = "inspect"]] BY <2>1
    <3> QED BY <1>2, <1>14, <3>1 DEF Pcs
  <2> QED BY <1>6, <1>7, <1>15, <2>1 DEF Lock
<1>16. ASSUME NEW p \in Procs, Inspect(p) PROVE SafeRuns'
  <2>1. SafeRun([proc[p] EXCEPT !.pc = "manifest"]) BY <1>14 DEF Pcs
  <2> QED BY <1>5, <1>6, <1>7, <1>16, <2>1 DEF Inspect
<1>17. ASSUME NEW p \in Procs, FetchManifest(p) PROVE SafeRuns'
  <2>1. ASSUME NEW manifest, NEW signature, verifyReleaseManifest(manifest, signature)
        PROVE  SafeRun([proc[p] EXCEPT !.pc = "download", !.digest = Released(manifest)])
    BY <1>12, <2>1 DEF SafeRun, Runs, verifyReleaseManifest
  <2> QED BY <1>4, <1>5, <1>6, <1>17, <2>1 DEF FetchManifest
<1>18. ASSUME NEW p \in Procs, Download(p) PROVE SafeRuns'
  <2>1. ASSUME NEW file PROVE SafeRun([proc[p] EXCEPT !.pc = "verify", !.tmp = file])
    BY <1>12, <1>18 DEF SafeRun, Runs, Download
  <2> QED BY <1>5, <1>6, <1>18, <2>1 DEF Download
<1>19. ASSUME NEW p \in Procs, Verify(p) PROVE SafeRuns'
  <2>1. ASSUME downloadAccepted(proc[p]) PROVE SafeRun([proc[p] EXCEPT !.pc = "recheck"])
    BY <1>12, <1>19, <2>1 DEF SafeRun, Runs, Verify, downloadAccepted
  <2> QED BY <1>5, <1>6, <1>7, <1>19, <2>1 DEF Verify
<1>20. ASSUME NEW p \in Procs, Recheck(p) PROVE SafeRuns'
  <2>1. SafeRun([proc[p] EXCEPT !.pc = "replace"])
    BY <1>12, <1>20 DEF SafeRun, Runs, Recheck, downloadAccepted
  <2> QED BY <1>5, <1>6, <1>7, <1>20, <2>1 DEF Recheck
<1>21. ASSUME NEW p \in Procs, Replace(p) PROVE SafeRuns' BY <1>4, <1>6, <1>21 DEF Replace
<1>22. ASSUME NEW p \in Procs, Crash(p) PROVE SafeRuns' BY <1>2, <1>3, <1>22 DEF Crash
<1>23. CASE Publish BY <1>8, <1>23 DEF Publish
<1>24. ASSUME proc' = Raced PROVE SafeRuns'
  <2>1. ASSUME NEW p \in Procs PROVE SafeRun([proc[p] EXCEPT !.raced = proc[p].pc = "replace"])
    BY <1>12 DEF SafeRun, Runs, downloadAccepted
  <2> QED BY <1>24, <2>1 DEF SafeRuns, Raced, SafeRun, downloadAccepted
<1>25. CASE BeginInstall \/ EndInstall BY <1>24, <1>25 DEF BeginInstall, EndInstall
<1> QED BY <1>9, <1>10, <1>11, <1>13, <1>15, <1>16, <1>17, <1>18, <1>19, <1>20, <1>21, <1>22,
           <1>23, <1>25 DEF Next, Step

\* In every reachable state the types hold (the path never holds an empty file in
\* particular), and so does what each run has established.
THEOREM RunsAreSafe == Spec => [](TypeOK /\ SafeRuns)
<1>1. Init => TypeOK /\ SafeRuns BY TypeInit, SafeInit
<1>2. (TypeOK /\ SafeRuns) /\ [Next]_vars => (TypeOK /\ SafeRuns)' BY TypeStep, SafeStep
<1> QED BY <1>1, <1>2, PTL DEF Spec

\* The types alone, as the run checks them.
THEOREM Typed == Spec => []TypeOK
BY RunsAreSafe, PTL

-----------------------------------------------------------------------------
\* Which actions touch the path, and what they leave there.
LEMMA PathSteps ==
  ASSUME TypeOK, SafeRuns, [Next]_vars
  PROVE  \/ UNCHANGED <<installed, writing>>
         \/ \E p \in Procs : /\ proc[p].pc = "replace"
                             /\ Return(p, "updated")
                             /\ installed' = proc[p].tmp
         \/ installed' = Partial /\ writing' # 0 /\ proc' = Raced
         \/ installed' \in {Released(v) : v \in Stable} /\ proc' = Raced
<1>1. CASE UNCHANGED vars BY <1>1 DEF vars
<1>2. ASSUME NEW p \in Procs, Fails(p) \/ (\E why : Rejects(p, why)) \/ (\E next : Proceeds(p, next))
      PROVE  UNCHANGED <<installed, writing>>
  BY <1>2 DEF Fails, Rejects, Proceeds
<1>3. ASSUME NEW p \in Procs, Launch(p) \/ NoKey(p) \/ Check(p) \/ Lock(p) PROVE UNCHANGED <<installed, writing>>
  BY <1>2, <1>3 DEF Launch, NoKey, Check, Lock
<1>4. ASSUME NEW p \in Procs, Inspect(p) \/ FetchManifest(p) \/ Download(p)
      PROVE  UNCHANGED <<installed, writing>>
  BY <1>2, <1>4 DEF Inspect, FetchManifest, Download
<1>5. ASSUME NEW p \in Procs, Verify(p) \/ Recheck(p) \/ Crash(p)
      PROVE  UNCHANGED <<installed, writing>>
  BY <1>2, <1>5 DEF Verify, Recheck, Crash
<1>6. ASSUME NEW p \in Procs, Replace(p)
      PROVE  \/ UNCHANGED <<installed, writing>>
             \/ /\ proc[p].pc = "replace" /\ Return(p, "updated") /\ installed' = proc[p].tmp
  BY <1>2, <1>6 DEF Replace
<1>7. CASE Publish BY <1>7 DEF Publish
<1>8. CASE BeginInstall BY <1>8, VersionAssumption DEF BeginInstall, TypeOK, Stable
<1>9. CASE EndInstall
  <2>1. writing \in Stable BY <1>9, VersionAssumption DEF EndInstall, TypeOK, Stable
  <2> QED BY <1>9, <2>1 DEF EndInstall
<1> QED BY <1>1, <1>3, <1>4, <1>5, <1>6, <1>7, <1>8, <1>9 DEF Next, Step

\* For any number of runs, releases and faults: the path holds what the operator
\* put there or a whole genuine release, or an installer is in its copy.
THEOREM Verified == Spec => []InstalledIsVerified
<1>1. Init => InstalledIsVerified BY DEF Init, InstalledIsVerified
<1>2. TypeOK /\ SafeRuns /\ InstalledIsVerified /\ [Next]_vars => InstalledIsVerified'
  <2> SUFFICES ASSUME TypeOK, SafeRuns, InstalledIsVerified, [Next]_vars
               PROVE  InstalledIsVerified'
    OBVIOUS
  <2>1. CASE UNCHANGED <<installed, writing>> BY <2>1 DEF InstalledIsVerified
  <2>2. ASSUME NEW p \in Procs, proc[p].pc = "replace", installed' = proc[p].tmp
        PROVE  InstalledIsVerified'
    BY <2>2, VerifiedTemp DEF InstalledIsVerified
  <2>3. CASE installed' = Partial /\ writing' # 0 BY <2>3 DEF InstalledIsVerified
  <2>4. CASE installed' \in {Released(v) : v \in Stable} BY <2>4 DEF InstalledIsVerified
  <2> QED BY <2>1, <2>2, <2>3, <2>4, PathSteps
<1> QED BY <1>1, <1>2, RunsAreSafe, PTL DEF Spec

\* Only Replace reports "updated": the step that Replaces(p) describes is p's rename.
LEMMA Renames ==
  ASSUME TypeOK, [Next]_vars, NEW p \in Procs, Replaces(p)
  PROVE  proc[p].pc = "replace" /\ installed' = proc[p].tmp
<1>1. last' = "updated" /\ proc[p].pc = "replace" /\ proc'[p] # proc[p] BY DEF Replaces
<1>2. ASSUME NEW q \in Procs, Fails(q) \/ (\E next : Proceeds(q, next)) PROVE FALSE
  BY <1>1, <1>2 DEF Fails, Return, Proceeds
<1>3. ASSUME NEW q \in Procs, NEW why \in {"noKey", "upToDate", "older", "locked", "notNewer",
                                          "manifest", "mismatch"}, Return(q, why)
      PROVE  FALSE
  BY <1>1, <1>3 DEF Return
<1>4. ASSUME NEW q \in Procs, Launch(q) \/ NoKey(q) \/ Check(q) \/ Lock(q) PROVE FALSE
  BY <1>1, <1>2, <1>3, <1>4 DEF Launch, NoKey, Check, Lock, Rejects
<1>5. ASSUME NEW q \in Procs, Inspect(q) \/ FetchManifest(q) \/ Download(q) PROVE FALSE
  BY <1>2, <1>3, <1>5 DEF Inspect, FetchManifest, Download, Rejects
<1>6. ASSUME NEW q \in Procs, Verify(q) \/ Recheck(q) \/ Crash(q) PROVE FALSE
  BY <1>1, <1>2, <1>3, <1>6 DEF Verify, Recheck, Crash, Rejects
<1>7. ASSUME NEW q \in Procs, Replace(q) PROVE installed' = proc[p].tmp
  <2>1. Return(q, "updated") /\ installed' = proc[q].tmp BY <1>2, <1>7 DEF Replace
  <2>2. q = p BY <1>1, <2>1 DEF Return, TypeOK
  <2> QED BY <2>1, <2>2
<1>8. ~(Publish \/ BeginInstall \/ EndInstall) BY <1>1 DEF Publish, BeginInstall, EndInstall
<1>9. ~UNCHANGED vars BY <1>1 DEF vars
<1> QED BY <1>1, <1>4, <1>5, <1>6, <1>7, <1>8, <1>9 DEF Next, Step

\* A rename installs the release the run asked for, whatever assets it was sent.
THEOREM Latest == Spec => UpdatedMeansLatest
<1>1. TypeOK /\ SafeRuns /\ [Next]_vars =>
        [\A p \in Procs : Replaces(p) => installed'.ver = proc[p].latest]_vars
  BY Renames, VerifiedTemp
<1> QED BY <1>1, RunsAreSafe, PTL DEF Spec, UpdatedMeansLatest

-----------------------------------------------------------------------------
(***************************************************************************)
(* No downgrade.  The lock makes the runs between Inspect and Replace      *)
(* exclusive, so what Recheck saw at the path is still there at the rename *)
(* unless an installer came in between.                                    *)
(***************************************************************************)
Held(r) == r.pc \in {"inspect", "manifest", "download", "verify", "recheck", "replace"}

Locked == \A p \in Procs : Held(proc[p]) => lock = p

SeenOlder ==
  \A p \in Procs : proc[p].pc = "replace" /\ ~proc[p].raced =>
    validateUpgrade(installed.ver, proc[p].latest)

\* What a step of p does to its record and to the lock.
Moves(p, next) ==
  /\ proc' = [proc EXCEPT ![p] = next]
  /\ Held(next) => lock' = p
  /\ lock' # lock => Held(proc[p]) \/ lock = NoProc
  /\ next.pc = "replace" => /\ validateUpgrade(installed.ver, next.latest)
                            /\ UNCHANGED installed
  /\ UNCHANGED installed \/ proc[p].pc = "replace"

\* Every step of a run is a move.
LEMMA RunStep ==
  ASSUME TypeOK, Locked, NEW p \in Procs, Launch(p) \/ Step(p) \/ Crash(p)
  PROVE  \E next : Moves(p, next)
<1>1. proc \in [Procs -> Runs] BY DEF TypeOK, Runs, Pcs
<1>2. ~Held(Idle) /\ Idle.pc # "replace" BY DEF Held, Idle
<1>3. proc[p].pc \in Pcs BY <1>1 DEF Runs
<1>4. Unlocked(p) # lock => Held(proc[p]) BY <1>3 DEF Unlocked, Held, Pcs
<1>5. ASSUME NEW res, Return(p, res), UNCHANGED installed \/ proc[p].pc = "replace"
      PROVE  Moves(p, Idle)
  BY <1>2, <1>4, <1>5 DEF Return, Moves
<1>6. ASSUME Fails(p) \/ \E why : Rejects(p, why) PROVE Moves(p, Idle)
  BY <1>5, <1>6 DEF Fails, Rejects
<1>7. ASSUME NEW next, Proceeds(p, next), Held(next) => Held(proc[p]),
             next.pc = "replace" => validateUpgrade(installed.ver, next.latest)
      PROVE  Moves(p, next)
  BY <1>7 DEF Proceeds, Continue, Moves, Locked
<1>8. CASE Launch(p)
  <2> DEFINE next == [Idle EXCEPT !.pc = IF installed.official THEN "check" ELSE "noKey",
                                  !.current = installed.ver]
  <2>1. ~Held(next) /\ next.pc # "replace" BY DEF Held, Idle
  <2> QED BY <1>7, <1>8, <2>1 DEF Launch
<1>9. CASE NoKey(p) BY <1>6, <1>9 DEF NoKey
<1>10. ASSUME NEW r PROVE /\ ~Held([proc[p] EXCEPT !.pc = "apply", !.latest = r])
                          /\ [proc[p] EXCEPT !.pc = "apply", !.latest = r].pc # "replace"
  BY <1>1 DEF Held, Runs
<1>11. CASE Check(p) BY <1>5, <1>6, <1>7, <1>10, <1>11 DEF Check
<1>12. CASE Lock(p)
  <2>1. CASE Fails(p) \/ Rejects(p, "locked") BY <1>6, <2>1
  <2>2. CASE acquireUpdateLock(p) /\ UNCHANGED installed
             /\ proc' = [proc EXCEPT ![p].pc = "inspect"]
    <3>1. Moves(p, [proc[p] EXCEPT !.pc = "inspect"])
      BY <1>1, <2>2 DEF Moves, acquireUpdateLock, Runs
    <3> QED BY <3>1
  <2> QED BY <1>12, <2>1, <2>2 DEF Lock
<1>13. ASSUME NEW pc \in Pcs \ {"replace"}, Held(proc[p]),
              Proceeds(p, [proc[p] EXCEPT !.pc = pc])
       PROVE  Moves(p, [proc[p] EXCEPT !.pc = pc])
  <2>1. [proc[p] EXCEPT !.pc = pc].pc # "replace" BY <1>1, <1>13 DEF Runs
  <2> QED BY <1>7, <1>13, <2>1
<1>14. CASE Inspect(p)
  <2>1. Held(proc[p]) BY <1>14 DEF Inspect, Held
  <2> QED BY <1>6, <1>13, <1>14, <2>1 DEF Inspect, Pcs
<1>15. CASE FetchManifest(p)
  <2>1. Held(proc[p]) BY <1>15 DEF FetchManifest, Held
  <2>2. ASSUME NEW d PROVE [proc[p] EXCEPT !.pc = "download", !.digest = d].pc # "replace"
    BY <1>1 DEF Runs
  <2>3. ASSUME NEW d, Proceeds(p, [proc[p] EXCEPT !.pc = "download", !.digest = d])
        PROVE  \E next : Moves(p, next)
    BY <1>7, <2>1, <2>2, <2>3
  <2> QED BY <1>5, <1>6, <1>15, <2>3 DEF FetchManifest
<1>16. CASE Download(p)
  <2>1. Held(proc[p]) BY <1>16 DEF Download, Held
  <2>2. ASSUME NEW f PROVE [proc[p] EXCEPT !.pc = "verify", !.tmp = f].pc # "replace"
    BY <1>1 DEF Runs
  <2>3. ASSUME NEW f, Proceeds(p, [proc[p] EXCEPT !.pc = "verify", !.tmp = f])
        PROVE  \E next : Moves(p, next)
    BY <1>7, <2>1, <2>2, <2>3
  <2> QED BY <1>6, <1>16, <2>3 DEF Download
<1>17. CASE Verify(p)
  <2>1. Held(proc[p]) BY <1>17 DEF Verify, Held
  <2> QED BY <1>6, <1>13, <1>17, <2>1 DEF Verify, Pcs
<1>18. CASE Recheck(p)
  <2>1. Held(proc[p]) BY <1>18 DEF Recheck, Held
  <2>2. [proc[p] EXCEPT !.pc = "replace"].latest = proc[p].latest BY <1>1 DEF Runs
  <2>3. CASE /\ validateUpgrade(installed.ver, proc[p].latest)
             /\ Proceeds(p, [proc[p] EXCEPT !.pc = "replace"])
    BY <1>7, <2>1, <2>2, <2>3
  <2> QED BY <1>6, <1>18, <2>3 DEF Recheck
<1>19. CASE Replace(p) BY <1>5, <1>6, <1>19 DEF Replace
<1>20. CASE Crash(p) BY <1>2, <1>4, <1>20 DEF Crash, Moves
<1> QED BY <1>8, <1>9, <1>11, <1>12, <1>14, <1>15, <1>16, <1>17, <1>18, <1>19, <1>20 DEF Step

\* The lock and what was seen under it are kept by every step.
LEMMA LockInit == Init => Locked /\ SeenOlder
<1>1. ASSUME Init PROVE \A p \in Procs : proc[p] = Idle BY <1>1 DEF Init
<1>2. ~Held(Idle) /\ Idle.pc # "replace" BY DEF Held, Idle
<1> QED BY <1>1, <1>2 DEF Locked, SeenOlder

\* Every step keeps the lock with the run that changes the installation.
LEMMA LockStep == TypeOK /\ Locked /\ SeenOlder /\ [Next]_vars => (Locked /\ SeenOlder)'
<1> SUFFICES ASSUME TypeOK, Locked, SeenOlder, [Next]_vars PROVE (Locked /\ SeenOlder)'
  OBVIOUS
<1>1. proc \in [Procs -> Runs] BY DEF TypeOK, Runs, Pcs
<1>2. ASSUME NEW p \in Procs, NEW next, Moves(p, next) PROVE (Locked /\ SeenOlder)'
  <2>1. proc'[p] = next /\ \A q \in Procs \ {p} : proc'[q] = proc[q]
    BY <1>1, <1>2 DEF Moves
  <2>2. ASSUME NEW q \in Procs \ {p}, Held(proc[q])
        PROVE  lock' = q /\ installed' = installed
    <3>1. lock = q BY <2>2 DEF Locked
    <3>2. ~Held(proc[p]) BY <2>2, <3>1 DEF Locked
    <3>3. lock # NoProc BY <3>1, ProcAssumption
    <3> QED BY <1>2, <3>1, <3>2, <3>3 DEF Moves, Held
  <2>3. Locked' BY <1>2, <2>1, <2>2 DEF Locked, Moves, Held
  <2>4. ASSUME NEW q \in Procs, (proc[q].pc = "replace" /\ ~proc[q].raced)'
        PROVE  validateUpgrade(installed.ver, proc[q].latest)'
    <3>1. CASE q = p
      <4>1. validateUpgrade(installed.ver, next.latest) /\ installed' = installed
        BY <1>2, <2>1, <2>4, <3>1 DEF Moves
      <4> QED BY <2>1, <3>1, <4>1 DEF validateUpgrade, compareCurrentVersion
    <3>2. CASE q # p
      <4>1. proc'[q] = proc[q] /\ installed' = installed
        BY <2>1, <2>2, <2>4, <3>2 DEF Held
      <4>2. validateUpgrade(installed.ver, proc[q].latest) BY <2>4, <4>1 DEF SeenOlder
      <4> QED BY <4>1, <4>2 DEF validateUpgrade, compareCurrentVersion
    <3> QED BY <3>1, <3>2
  <2> QED BY <2>3, <2>4 DEF SeenOlder
<1>3. ASSUME NEW p \in Procs, Launch(p) \/ Step(p) \/ Crash(p) PROVE (Locked /\ SeenOlder)'
  BY <1>2, <1>3, RunStep
<1>4. ASSUME UNCHANGED <<proc, lock, installed>> PROVE (Locked /\ SeenOlder)'
  BY <1>4 DEF Locked, SeenOlder, validateUpgrade, compareCurrentVersion
<1>5. CASE UNCHANGED vars \/ Publish BY <1>4, <1>5 DEF vars, Publish
<1>6. CASE BeginInstall \/ EndInstall
  <2>1. proc' = Raced /\ lock' = lock BY <1>6 DEF BeginInstall, EndInstall
  <2>2. \A p \in Procs : /\ proc'[p].pc = proc[p].pc
                         /\ proc'[p].raced = (proc[p].pc = "replace")
    BY <1>1, <2>1 DEF Raced, Runs
  <2>3. Locked' BY <2>1, <2>2 DEF Locked, Held
  <2>4. SeenOlder' BY <2>2 DEF SeenOlder
  <2> QED BY <2>3, <2>4
<1> QED BY <1>3, <1>5, <1>6 DEF Next

(***************************************************************************)
(* The comparison of versions.  Digit strings without leading zeroes have  *)
(* the order of their numbers; the provers get the induction over the      *)
(* digits as the search for a least counterexample.                        *)
(***************************************************************************)
\* Every nonempty set of naturals has a least element.
LEMMA Least ==
  ASSUME NEW T, T \subseteq Nat, T # {}
  PROVE  \E n \in T : \A k \in T : n <= k
<1> DEFINE R == OpToRel(<, Nat)
<1>1. IsWellFoundedOn(R, Nat)
  BY NatLessThanWellFounded, Zenon
<1>2. \A x, y \in Nat : x < y => <<x, y>> \in R
  BY DEF OpToRel
<1> HIDE DEF R
<1>3. PICK n \in T : \A k \in T : ~(<<k, n>> \in R)
  BY <1>1, WFMin
<1>4. \A k \in T : ~(k < n)
  BY <1>2, <1>3
<1> QED BY <1>4

\* f[i] is the number of the first i of the digits d, for i up to n.
Prefix(d, f, n) == f = [i \in 0..n |-> IF i = 0 THEN 0 ELSE 10 * f[i - 1] + d[i]]

\* The recursion of Number defines a function.
LEMMA PrefixExists ==
  ASSUME NEW d, NEW n \in Nat
  PROVE  \E f : Prefix(d, f, n)
<1> DEFINE T == {i \in Nat : ~\E f : Prefix(d, f, i)}
<1>1. SUFFICES ASSUME T # {} PROVE FALSE
  OBVIOUS
<1>2. T \subseteq Nat
  OBVIOUS
<1> HIDE DEF T
<1>3. PICK l \in T : \A k \in T : l <= k
  BY <1>1, <1>2, Least
<1>4. l \in Nat /\ ~\E f : Prefix(d, f, l)
  BY <1>3 DEF T
<1>5. CASE l = 0
  <2> DEFINE f == [i \in 0..0 |-> 0]
  <2>1. f = [i \in 0..0 |-> IF i = 0 THEN 0 ELSE 10 * f[i - 1] + d[i]]
    OBVIOUS
  <2> QED BY <1>4, <1>5, <2>1 DEF Prefix
<1>6. CASE l # 0
  <2>1. l - 1 \in Nat /\ l - 1 \notin T
    BY <1>3, <1>4, <1>6
  <2>2. PICK g : Prefix(d, g, l - 1)
    BY <2>1 DEF T
  <2> DEFINE end == 10 * g[l - 1] + d[l]
             f == [i \in 0..l |-> IF i = l THEN end ELSE g[i]]
  <2>3. \A i \in 0..(l - 1) : g[i] = IF i = 0 THEN 0 ELSE 10 * g[i - 1] + d[i]
    BY <2>2 DEF Prefix
  <2>4. \A i \in 0..l : f[i] = IF i = 0 THEN 0 ELSE 10 * f[i - 1] + d[i]
    <3> TAKE i \in 0..l
    <3>1. CASE i = l
      <4>1. f[i] = end /\ f[i - 1] = g[l - 1]
        BY <1>4, <1>6, <3>1
      <4> QED BY <1>6, <3>1, <4>1
    <3>2. CASE i # l
      <4>1. f[i] = g[i] /\ i \in 0..(l - 1)
        BY <1>4, <3>2
      <4>2. i # 0 => f[i - 1] = g[i - 1]
        BY <1>4, <3>2
      <4> QED BY <2>3, <4>1, <4>2
    <3> QED BY <3>1, <3>2
  <2>5. f = [i \in 0..l |-> IF i = 0 THEN 0 ELSE 10 * f[i - 1] + d[i]]
    BY <2>4
  <2> QED BY <1>4, <2>5 DEF Prefix
<1> QED BY <1>5, <1>6

\* Appending digits: the larger number stays larger, the next digit decides, and
\* nothing shrinks.
LEMMA Digits ==
  ASSUME NEW x \in Nat, NEW y \in Nat, NEW c \in 0..9, NEW d \in 0..9
  PROVE  /\ 10 * x + c \in Nat
         /\ x < y => 10 * x + c < 10 * y + d
         /\ c < d => 10 * x + c < 10 * x + d
         /\ x > 0 \/ c > 0 => 10 * x + c > 0
OBVIOUS

\* f has the numbers of the prefixes of d: each next digit is appended.
Reads(d, f) ==
  /\ f[0] = 0
  /\ \A i \in 0..Len(d) : f[i] \in Nat
  /\ \A i \in 1..Len(d) : d[i] \in 0..9 /\ f[i] = 10 * f[i - 1] + d[i]

\* Number(d) is the last of them.
LEMMA NumberReads ==
  ASSUME NEW d \in Seq(0..9)
  PROVE  \E f : Reads(d, f) /\ Number(d) = f[Len(d)]
<1> DEFINE L == Len(d)
           f == CHOOSE g : Prefix(d, g, L)
<1>1. L \in Nat /\ \A i \in 1..L : d[i] \in 0..9
  OBVIOUS
<1>2. Number(d) = f[L]
  BY DEF Number, Prefix
<1>3. Prefix(d, f, L)
  BY <1>1, PrefixExists
<1> HIDE DEF L, f
<1>4. \A i \in 0..L : f[i] = IF i = 0 THEN 0 ELSE 10 * f[i - 1] + d[i]
  BY <1>3 DEF Prefix
<1>5. ASSUME NEW i \in 0..L PROVE f[i] \in Nat
  <2> DEFINE T == {j \in 0..L : f[j] \notin Nat}
  <2>1. SUFFICES ASSUME T # {} PROVE FALSE
    BY <1>5
  <2>2. T \subseteq Nat
    BY <1>1
  <2> HIDE DEF T
  <2>3. PICK l \in T : \A k \in T : l <= k
    BY <2>1, <2>2, Least
  <2>4. l \in 0..L /\ f[l] \notin Nat
    BY <2>3 DEF T
  <2>5. l # 0
    BY <1>1, <1>4, <2>4
  <2>6. l - 1 \in 0..L /\ l - 1 \notin T
    BY <1>1, <2>2, <2>3, <2>4, <2>5
  <2>7. f[l - 1] \in Nat
    BY <2>6 DEF T
  <2>8. f[l] = 10 * f[l - 1] + d[l] /\ d[l] \in 0..9
    BY <1>1, <1>4, <2>4, <2>5
  <2> QED BY <2>4, <2>7, <2>8, Digits
<1>6. f[0] = 0
  BY <1>1, <1>4
<1>7. \A i \in 1..L : f[i] = 10 * f[i - 1] + d[i]
  BY <1>1, <1>4
<1>8. Reads(d, f)
  BY <1>1, <1>5, <1>6, <1>7 DEF Reads, L
<1> QED BY <1>2, <1>8 DEF L

\* A number that is ahead stays ahead, whatever digits follow: a is compared with
\* the prefix of b that is s digits longer.
LEMMA Ahead ==
  ASSUME NEW a \in Seq(0..9), NEW b \in Seq(0..9), NEW f, NEW g, Reads(a, f), Reads(b, g),
         NEW s \in Nat, Len(a) + s = Len(b),
         NEW k \in 0..Len(a), f[k] < g[k + s]
  PROVE  f[Len(a)] < g[Len(b)]
<1> DEFINE L == Len(a)
           T == {j \in k..L : ~(f[j] < g[j + s])}
<1>1. L \in Nat /\ k \in Nat /\ k <= L
  OBVIOUS
<1>2. SUFFICES ASSUME T # {} PROVE FALSE
  BY <1>1, SMTT(30)
<1>3. T \subseteq Nat
  BY <1>1
<1> HIDE DEF T
<1>4. PICK l \in T : \A j \in T : l <= j
  BY <1>2, <1>3, Least
<1>5. l \in k..L /\ ~(f[l] < g[l + s])
  BY <1>4 DEF T
<1>6. l # k
  BY <1>5
<1>7. l - 1 \in k..L /\ l - 1 \notin T
  BY <1>1, <1>3, <1>4, <1>5, <1>6
<1>8. f[l - 1] < g[l - 1 + s]
  BY <1>7 DEF T
<1>9. f[l] = 10 * f[l - 1] + a[l] /\ a[l] \in 0..9 /\ f[l - 1] \in Nat
  BY <1>1, <1>5, <1>6 DEF Reads
<1>10. l + s \in 1..Len(b) /\ (l + s) - 1 = l - 1 + s /\ (l + s) - 1 \in 0..Len(b)
  BY <1>1, <1>5, <1>6
<1>11. g[l + s] = 10 * g[(l + s) - 1] + b[l + s] /\ b[l + s] \in 0..9 /\ g[(l + s) - 1] \in Nat
  BY <1>10 DEF Reads
<1>12. f[l] < g[l + s]
  BY <1>8, <1>9, <1>10, <1>11, Digits
<1> QED BY <1>5, <1>12

\* Equal digits have equal numbers.
LEMMA SamePrefix ==
  ASSUME NEW a \in Seq(0..9), NEW b \in Seq(0..9), NEW f, NEW g, Reads(a, f), Reads(b, g),
         NEW k \in 1..Len(a), k <= Len(b), \A j \in 1..(k - 1) : a[j] = b[j]
  PROVE  f[k - 1] = g[k - 1]
<1> DEFINE T == {j \in 0..(k - 1) : f[j] # g[j]}
<1>1. k \in Nat \ {0} /\ k <= Len(a)
  OBVIOUS
<1>2. SUFFICES ASSUME T # {} PROVE FALSE
  BY <1>1
<1>3. T \subseteq Nat
  BY <1>1
<1> HIDE DEF T
<1>4. PICK l \in T : \A j \in T : l <= j
  BY <1>2, <1>3, Least
<1>5. l \in 0..(k - 1) /\ f[l] # g[l]
  BY <1>4 DEF T
<1>6. l # 0
  BY <1>5 DEF Reads
<1>7. l - 1 \in 0..(k - 1) /\ l - 1 \notin T
  BY <1>1, <1>3, <1>4, <1>5, <1>6
<1>8. f[l - 1] = g[l - 1]
  BY <1>7 DEF T
<1>9. l \in 1..Len(a) /\ l \in 1..Len(b) /\ l \in 1..(k - 1)
  BY <1>1, <1>5, <1>6
<1>10. f[l] = 10 * f[l - 1] + a[l] /\ g[l] = 10 * g[l - 1] + b[l] /\ a[l] = b[l]
  BY <1>9 DEF Reads
<1> QED BY <1>5, <1>8, <1>10

\* A number without leading zeroes is not zero after its first digit.
LEMMA Positive ==
  ASSUME NEW b \in Seq(0..9), NEW g, Reads(b, g), Len(b) > 1, b[1] # 0,
         NEW s \in 1..Len(b)
  PROVE  g[s] > 0
<1> DEFINE T == {j \in 1..Len(b) : ~(g[j] > 0)}
<1>1. Len(b) \in Nat
  OBVIOUS
<1>2. SUFFICES ASSUME T # {} PROVE FALSE
  OBVIOUS
<1>3. T \subseteq Nat
  BY <1>1
<1> HIDE DEF T
<1>4. PICK l \in T : \A j \in T : l <= j
  BY <1>2, <1>3, Least
<1>5. l \in 1..Len(b) /\ ~(g[l] > 0)
  BY <1>4 DEF T
<1>6. g[l] = 10 * g[l - 1] + b[l] /\ b[l] \in 0..9 /\ g[l - 1] \in Nat
  BY <1>1, <1>5 DEF Reads
<1>7. CASE l = 1
  BY <1>5, <1>6, <1>7
<1>8. CASE l # 1
  <2>1. l - 1 \in 1..Len(b) /\ l - 1 \notin T
    BY <1>1, <1>3, <1>4, <1>5, <1>8
  <2>2. g[l - 1] > 0
    BY <2>1 DEF T
  <2> QED BY <1>5, <1>6, <2>2, Digits
<1> QED BY <1>7, <1>8

\* A component of a version: digits without leading zeroes.
Component(d) == d \in Seq(0..9) \ {<<>>} /\ (Len(d) > 1 => d[1] # 0)

\* compareStableVersions compares components as the numbers they stand for.
LEMMA ComponentOrder ==
  ASSUME NEW a, NEW b, Component(a), Component(b), lessComponent(a, b)
  PROVE  Number(a) < Number(b)
<1>1. a \in Seq(0..9) /\ b \in Seq(0..9) /\ a # <<>>
  BY DEF Component
<1>2. Len(a) \in Nat /\ Len(b) \in Nat /\ Len(a) > 0
  BY <1>1
<1>3. PICK f : Reads(a, f) /\ Number(a) = f[Len(a)]
  BY <1>1, NumberReads
<1>4. PICK g : Reads(b, g) /\ Number(b) = g[Len(b)]
  BY <1>1, NumberReads
<1>5. CASE Len(a) < Len(b)
  <2> DEFINE s == Len(b) - Len(a)
  <2>1. s \in 1..Len(b) /\ Len(b) > 1 /\ s \in Nat /\ Len(a) + s = Len(b)
    BY <1>2, <1>5
  <2> HIDE DEF s
  <2>2. g[s] > 0
    BY <1>1, <1>4, <2>1, Positive DEF Component
  <2>3. f[0] < g[0 + s] /\ 0 \in 0..Len(a)
    BY <1>2, <1>3, <2>1, <2>2 DEF Reads
  <2>4. f[Len(a)] < g[Len(b)]
    BY <1>1, <1>3, <1>4, <2>1, <2>3, Ahead
  <2> QED BY <1>3, <1>4, <2>4
<1>6. CASE Len(a) = Len(b) /\ Before(a, b)
  <2>1. DOMAIN a = 1..Len(a) /\ DOMAIN b = 1..Len(b)
    BY <1>1
  <2>2. PICK k \in 1..Len(a) : a[k] < b[k] /\ \A j \in 1..(k - 1) : a[j] = b[j]
    BY <1>2, <1>6, <2>1 DEF Before
  <2>3. f[k - 1] = g[k - 1]
    BY <1>1, <1>3, <1>4, <1>6, <2>2, SamePrefix
  <2>4. f[k] = 10 * f[k - 1] + a[k] /\ g[k] = 10 * g[k - 1] + b[k] /\ f[k - 1] \in Nat
    BY <1>2, <1>3, <1>4, <1>6, <2>2 DEF Reads
  <2>5. a[k] \in 0..9 /\ b[k] \in 0..9
    BY <1>3, <1>4, <1>6, <2>2 DEF Reads
  <2>6. f[k] < g[k + 0] /\ k \in 0..Len(a) /\ Len(a) + 0 = Len(b) /\ 0 \in Nat
    <3>1. f[k] < g[k]
      BY <2>2, <2>3, <2>4, <2>5, Digits, ZenonT(40)
    <3> QED BY <1>2, <1>6, <2>2, <3>1
  <2>7. f[Len(a)] < g[Len(b)]
    BY <1>1, <1>3, <1>4, <2>6, Ahead
  <2> QED BY <1>3, <1>4, <2>7
<1> QED BY <1>5, <1>6 DEF lessComponent

\* The order of the tags, as compareStableVersions sees it, is the order in which
\* the releases were published.
LEMMA OrderKept ==
  ASSUME NEW v \in Stable, NEW w \in Stable, compareStableVersions(Tag[v], Tag[w]) < 0
  PROVE  v < w
<1>1. PICK i \in 1..3 : /\ lessComponent(Tag[v][i], Tag[w][i])
                        /\ \A j \in 1..(i - 1) : Tag[v][j] = Tag[w][j]
  BY DEF compareStableVersions
<1>2. ASSUME NEW x \in Stable, NEW j \in 1..3
      PROVE  Component(Tag[x][j]) /\ Number(Tag[x][j]) \in Int
  <2>1. Component(Tag[x][j])
    <3>1. parseStableVersion(Tag[x])
      BY TagAssumption
    <3> QED BY <3>1, Zenon DEF parseStableVersion, Component
  <2>2. PICK f : Reads(Tag[x][j], f) /\ Number(Tag[x][j]) = f[Len(Tag[x][j])]
    BY <2>1, NumberReads DEF Component
  <2> QED BY <2>1, <2>2 DEF Reads, Component
<1>3. Number(Tag[v][i]) < Number(Tag[w][i])
  BY <1>1, <1>2, ComponentOrder
<1>4. v \in Int /\ w \in Int
  BY VersionAssumption DEF Stable
<1>5. v # w
  BY <1>2, <1>3
<1>6. ASSUME w < v PROVE FALSE
  <2>1. PICK j \in 1..3 : /\ Number(Tag[w][j]) < Number(Tag[v][j])
                          /\ \A l \in 1..(j - 1) : Tag[w][l] = Tag[v][l]
    BY <1>6, TagAssumption
  <2>2. CASE i < j
    <3>1. Tag[w][i] = Tag[v][i]
      BY <2>1, <2>2
    <3> QED BY <1>2, <1>3, <3>1
  <2>3. CASE j < i
    <3>1. Tag[v][j] = Tag[w][j]
      BY <1>1, <2>3
    <3> QED BY <1>2, <2>1, <3>1
  <2>4. CASE i = j
    BY <1>2, <1>3, <2>1, <2>4
  <2> QED BY <2>2, <2>3, <2>4
<1> QED BY <1>4, <1>5, <1>6

\* For any number of runs and releases: a rename that no installer raced leaves a
\* newer version, because the recheck and the rename are under one lock and the
\* comparison of digits is the order of publication.
THEOREM NoDowngrade == Spec => NeverDowngrades
<1>1. Spec => [](Locked /\ SeenOlder)
  <2>1. TypeOK /\ Locked /\ SeenOlder /\ [Next]_vars => (Locked /\ SeenOlder)' BY LockStep
  <2> QED BY <2>1, LockInit, Typed, PTL DEF Spec
<1>2. TypeOK /\ SafeRuns /\ SeenOlder /\ [Next]_vars =>
        [\A p \in Procs : Replaces(p) => proc[p].raced \/ installed.ver < installed'.ver]_vars
  <2> SUFFICES ASSUME TypeOK, SafeRuns, SeenOlder, [Next]_vars,
                      NEW p \in Procs, Replaces(p), ~proc[p].raced
               PROVE  installed.ver < installed'.ver
    OBVIOUS
  <2>1. proc[p].pc = "replace" /\ installed' = proc[p].tmp BY Renames
  <2>2. installed'.ver = proc[p].latest /\ proc[p].latest \in Stable
    BY <2>1, VerifiedTemp DEF Released
  <2>3. validateUpgrade(installed.ver, proc[p].latest) BY <2>1 DEF SeenOlder
  <2>4. installed.ver \in {Dev} \cup Stable BY <2>3 DEF validateUpgrade, TypeOK, Files
  <2>5. CASE installed.ver = Dev BY <2>2, <2>5 DEF Dev, Stable
  <2>6. CASE installed.ver \in Stable /\ installed.ver # Dev
    <3>1. compareStableVersions(Tag[installed.ver], Tag[proc[p].latest]) < 0
      BY <2>3, <2>6 DEF validateUpgrade, compareCurrentVersion
    <3> QED BY <2>2, <2>6, <3>1, OrderKept
  <2> QED BY <2>4, <2>5, <2>6
<1> QED BY <1>1, <1>2, RunsAreSafe, PTL DEF Spec, NeverDowngrades

=============================================================================
