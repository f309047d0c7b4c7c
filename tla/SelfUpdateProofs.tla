-------------------------- MODULE SelfUpdateProofs --------------------------
(***************************************************************************)
(* Proofs about how the Gateway updates itself: the update manager, the    *)
(* auto-applier that starts it, and the order of versions that both rely   *)
(* on.                                                                     *)
(***************************************************************************)
EXTENDS SelfUpdate, Versioning, SequenceTheorems, WellFoundedInduction, TLAPS

Places == {"off", "check", "checking", "decide", "download", "rechecking",
           "read", "downloading", "downloaded", "apply", "copying", "applied",
           "stage"}
WorkerStates == [at : Places, again : BOOLEAN]
CheckStates == [at : {"idle", "fetch", "notes"}, channel : Channels \cup {"none"}]
RestartStates == [asked : BOOLEAN, soft : BOOLEAN]
NoneOr == Versions \cup {0}

\* The parts of the manager's type invariant.
ReleasesOK ==
  /\ published \in [Channels -> Versions] /\ allowed \in [Channels -> Versions]
  /\ acks \in SUBSET Channels /\ channel \in Channels
KnownOK == manifest \in NoneOr /\ server_latest \in NoneOr /\ required \in BOOLEAN
FilesOK ==
  fetching \in NoneOr /\ zip \in NoneOr /\ slot \in NoneOr /\ pending \in NoneOr
ChecksOK == checks \in [Threads -> CheckStates]
WorkerOK ==
  /\ worker \in WorkerStates
  /\ busy = (worker.at # "off")
PhaseOK == phase \in Phases
EndOK ==
  /\ restart \in RestartStates
  /\ ended \in {"no", "exit", "rerun"} /\ raced \in BOOLEAN
BoundsOK ==
  /\ starts \in 0..MaxStarts /\ switches \in 0..MaxSwitches
  /\ restarts \in 0..MaxRestarts

Parts ==
  /\ ReleasesOK /\ KnownOK /\ FilesOK /\ ChecksOK
  /\ WorkerOK /\ PhaseOK /\ EndOK /\ BoundsOK

\* A check of the worker's own runs exactly where the worker waits for one.
OwnCheck ==
  checks["worker"].at # "idle" <=> worker.at \in {"checking", "rechecking"}

\* A check under way asks a channel.
Asked ==
  \A k \in Threads :
    checks[k].at # "idle" => checks[k].channel \in Channels

Tidy == TypeOK /\ OwnCheck /\ Asked

LEMMA ManagerParts == TypeOK <=> Parts
<1>1. (acks \subseteq Channels) <=> (acks \in SUBSET Channels)
  OBVIOUS
<1>2. ({manifest, server_latest, fetching, zip, slot, pending} \subseteq NoneOr)
        <=> /\ manifest \in NoneOr /\ server_latest \in NoneOr
            /\ FilesOK
  BY DEF FilesOK
<1> QED
  BY <1>1, <1>2, Zenon DEF TypeOK, ReleasesOK, KnownOK, ChecksOK, WorkerOK, PhaseOK,
     EndOK, BoundsOK, NoneOr, WorkerStates, CheckStates, RestartStates, Places,
     Parts

LEMMA ManagerPartsNext ==
  ASSUME ReleasesOK', KnownOK', FilesOK', ChecksOK', WorkerOK', PhaseOK',
         EndOK', BoundsOK'
  PROVE  TypeOK'
<1>1. Parts'
  BY DEF Parts
<1> QED
  BY <1>1, ManagerParts, PTL

LEMMA MovedWorker ==
  ASSUME NEW w \in WorkerStates, NEW place \in Places
  PROVE  /\ [w EXCEPT !.at = place] \in WorkerStates
         /\ [w EXCEPT !.at = place].at = place
         /\ [w EXCEPT !.at = place].again = w.again
BY DEF WorkerStates

LEMMA MovedCheck ==
  ASSUME NEW c \in [Threads -> CheckStates], NEW k \in Threads,
         NEW d \in CheckStates
  PROVE  /\ [c EXCEPT ![k] = d] \in [Threads -> CheckStates]
         /\ [c EXCEPT ![k] = d][k] = d
         /\ \A j \in Threads : j # k => [c EXCEPT ![k] = d][j] = c[j]
OBVIOUS

LEMMA WorkerGoes ==
  ASSUME WorkerOK, NEW place \in Places,
         worker' = [worker EXCEPT !.at = place], UNCHANGED busy,
         worker.at # "off", place # "off"
  PROVE  WorkerOK'
<1>1. worker' \in WorkerStates /\ worker'.at = place
  BY MovedWorker DEF WorkerOK
<1> QED
  BY <1>1 DEF WorkerOK

LEMMA SequenceEnded ==
  ASSUME EndSequence
  PROVE  WorkerOK'
<1>1. worker' \in WorkerStates /\ worker'.at = "off"
  BY DEF EndSequence, WorkerStates, Places
<1> QED
  BY <1>1 DEF WorkerOK, EndSequence

LEMMA NoOwnCheck ==
  ASSUME OwnCheck, UNCHANGED checks,
         worker.at \notin {"checking", "rechecking"},
         worker'.at \notin {"checking", "rechecking"}
  PROVE  OwnCheck'
BY DEF OwnCheck

\* What one thread does leaves the others' checks alone.
LEMMA CheckMoves ==
  ASSUME ChecksOK, Asked, NEW k \in Threads, NEW d \in CheckStates,
         d.at # "idle" => d.channel \in Channels,
         checks' = [checks EXCEPT ![k] = d]
  PROVE  /\ ChecksOK' /\ Asked'
         /\ checks'[k] = d
         /\ k # "worker" => checks'["worker"] = checks["worker"]
<1>1. "worker" \in Threads
  BY DEF Threads
<1>2. /\ checks' \in [Threads -> CheckStates]
      /\ checks'[k] = d
      /\ \A j \in Threads : j # k => checks'[j] = checks[j]
  BY MovedCheck DEF ChecksOK
<1>3. ChecksOK'
  BY <1>2 DEF ChecksOK, Threads
<1>4. Asked'
  BY <1>2 DEF Asked, Threads
<1> QED
  BY <1>1, <1>2, <1>3, <1>4

LEMMA StartUpdateTidy ==
  ASSUME Tidy, StartUpdate
  PROVE  Tidy'
<1>1. Parts /\ OwnCheck /\ Asked
  BY ManagerParts DEF Tidy
<1>2. /\ ReleasesOK' /\ KnownOK' /\ FilesOK' /\ ChecksOK'
      /\ Asked'
  BY <1>1 DEF Parts, StartUpdate, ReleasesOK, KnownOK, FilesOK,
     ChecksOK, Asked, external, known, files,
     Threads
<1>3. WorkerOK'
  BY DEF StartUpdate, WorkerOK, WorkerStates, Places
<1>4. PhaseOK'
  BY DEF StartUpdate, PhaseOK, Phases
<1>5. EndOK'
  BY <1>1 DEF StartUpdate, Parts, EndOK
<1>6. BoundsOK'
  BY <1>1, UpdateAssumption DEF StartUpdate, Parts, BoundsOK,
     UpdateAssumption
<1>7. OwnCheck'
  BY <1>1, NoOwnCheck DEF StartUpdate, At
<1> QED
  BY <1>2, <1>3, <1>4, <1>5, <1>6, <1>7, ManagerPartsNext DEF Tidy

LEMMA CheckBeginTidy ==
  ASSUME Tidy, NEW k \in Checkers, CheckBegin(k)
  PROVE  Tidy'
<1>1. Parts /\ OwnCheck /\ Asked
  BY ManagerParts DEF Tidy
<1>2. /\ ReleasesOK' /\ KnownOK' /\ FilesOK' /\ WorkerOK'
      /\ PhaseOK' /\ EndOK' /\ BoundsOK'
  BY <1>1 DEF Parts, CheckBegin, ReleasesOK, KnownOK, FilesOK,
     WorkerOK, PhaseOK, EndOK, BoundsOK, external, known,
     files, bounds
<1>3. ChecksOK' /\ Asked'
  <2>1. [at |-> "fetch", channel |-> channel] \in CheckStates /\ channel \in Channels
    BY <1>1 DEF Parts, ReleasesOK, CheckStates
  <2> QED
    BY <1>1, <2>1, CheckMoves DEF CheckBegin, Begun,
       Threads, Parts
<1>4. OwnCheck'
  <2>1. checks'["worker"] = checks["worker"]
    BY <1>1, UpdateAssumption DEF CheckBegin, Begun,
       Threads, Parts, ChecksOK, UpdateAssumption
  <2> QED
    BY <1>1, <2>1 DEF OwnCheck, CheckBegin
<1> QED
  BY <1>2, <1>3, <1>4, ManagerPartsNext DEF Tidy

LEMMA ManifestArrivesTidy ==
  ASSUME Tidy, NEW k \in Threads, ManifestArrives(k)
  PROVE  Tidy'
<1>1. Parts /\ OwnCheck /\ Asked
  BY ManagerParts DEF Tidy
<1>2. /\ ReleasesOK' /\ FilesOK' /\ WorkerOK' /\ PhaseOK'
      /\ BoundsOK'
  BY <1>1 DEF Parts, ManifestArrives, ReleasesOK, FilesOK, WorkerOK,
     PhaseOK, BoundsOK, external, files, bounds
<1>3. KnownOK'
  <2>1. published[checks[k].channel] \in NoneOr
    BY <1>1 DEF Parts, ReleasesOK, NoneOr, Asked, ManifestArrives
  <2> QED
    BY <1>1, <2>1 DEF ManifestArrives, Parts, KnownOK, Newer
<1>4. ChecksOK' /\ Asked'
  <2>1. /\ [checks[k] EXCEPT !.at = "notes"] \in CheckStates
        /\ [checks[k] EXCEPT !.at = "notes"].channel \in Channels
    BY <1>1 DEF Parts, ChecksOK, CheckStates, Asked, ManifestArrives
  <2>2. checks' = [checks EXCEPT ![k] = [checks[k] EXCEPT !.at = "notes"]]
    BY <1>1 DEF ManifestArrives, Parts, ChecksOK
  <2> QED
    BY <1>1, <2>1, <2>2, CheckMoves DEF Parts
<1>5. EndOK'
  BY <1>1 DEF ManifestArrives, Raced, Parts, EndOK, WorkerOK
<1>6. OwnCheck'
  <2>1. checks'["worker"].at # "idle" <=> checks["worker"].at # "idle"
    BY <1>1 DEF ManifestArrives, Threads, Parts, ChecksOK,
       CheckStates
  <2> QED
    BY <1>1, <2>1 DEF OwnCheck, ManifestArrives
<1> QED
  BY <1>2, <1>3, <1>4, <1>5, <1>6, ManagerPartsNext DEF Tidy

LEMMA CheckEndsTidy ==
  ASSUME Tidy, NEW k \in Threads, CheckEnds(k)
  PROVE  Tidy'
<1>1. Parts /\ OwnCheck /\ Asked
  BY ManagerParts DEF Tidy
<1>2. /\ ReleasesOK' /\ KnownOK' /\ FilesOK' /\ BoundsOK'
  BY <1>1 DEF Parts, CheckEnds, ReleasesOK, KnownOK, FilesOK,
     BoundsOK, external, known, files,
     bounds
<1>3. ChecksOK' /\ Asked'
  <2>1. NotChecking \in CheckStates /\ NotChecking.at = "idle"
    BY DEF CheckStates, NotChecking
  <2> QED
    BY <1>1, <2>1, CheckMoves DEF Parts, CheckEnds
<1>4. WorkerOK'
  <2>1. CASE k # "worker"
    BY <1>1, <2>1 DEF CheckEnds, Parts, WorkerOK
  <2>2. CASE k = "worker"
    <3>1. checks["worker"].at # "idle"
      BY <2>2 DEF CheckEnds
    <3>2. worker.at # "off"
      BY <1>1, <3>1 DEF OwnCheck
    <3>3. PICK place \in {"decide", "read"} :
            worker' = [worker EXCEPT !.at = place] /\ UNCHANGED busy
      BY <1>1, <2>2 DEF CheckEnds, Resumed, Parts, WorkerOK, WorkerStates
    <3> QED
      BY <1>1, <3>2, <3>3, WorkerGoes DEF Parts, Places
  <2> QED
    BY <2>1, <2>2
<1>5. PhaseOK'
  BY DEF CheckEnds, PhaseOK, Phases
<1>6. EndOK'
  BY <1>1 DEF CheckEnds, Raced, Parts, EndOK, WorkerOK
<1>7. OwnCheck'
  <2>1. CASE k # "worker"
    BY <1>1, <2>1, CheckMoves DEF OwnCheck, CheckEnds, Threads,
       Parts, ChecksOK
  <2>2. CASE k = "worker"
    <3>1. checks'["worker"].at = "idle"
      BY <1>1, <2>2 DEF CheckEnds, Parts, ChecksOK, NotChecking
    <3>2. worker'.at \in {"decide", "read"}
      BY <1>1, <2>2 DEF CheckEnds, Resumed, Parts, WorkerOK, WorkerStates
    <3> QED
      BY <3>1, <3>2 DEF OwnCheck
  <2> QED
    BY <2>1, <2>2
<1> QED
  BY <1>2, <1>3, <1>4, <1>5, <1>6, <1>7, ManagerPartsNext DEF Tidy

LEMMA WorkerChecksTidy ==
  ASSUME Tidy, WorkerChecks
  PROVE  Tidy'
<1>1. Parts /\ OwnCheck /\ Asked
  BY ManagerParts DEF Tidy
<1>2. /\ ReleasesOK' /\ KnownOK' /\ FilesOK' /\ PhaseOK'
      /\ EndOK' /\ BoundsOK'
  BY <1>1 DEF Parts, WorkerChecks, ReleasesOK, KnownOK, FilesOK,
     PhaseOK, EndOK, BoundsOK, external, known,
     files, bounds
<1>3. ChecksOK' /\ Asked'
  <2>1. [at |-> "fetch", channel |-> channel] \in CheckStates /\ channel \in Channels
    BY <1>1 DEF Parts, ReleasesOK, CheckStates
  <2>2. CASE UNCHANGED checks
    BY <1>1, <2>2 DEF Parts, ChecksOK, Asked, Threads
  <2>3. CASE Begun("worker")
    BY <1>1, <2>1, <2>3, CheckMoves DEF Begun, Threads, Parts
  <2> QED
    BY <2>2, <2>3 DEF WorkerChecks
<1>4. WorkerOK'
  <2>1. PICK place \in {"decide", "read", "checking", "rechecking"} :
          worker' = [worker EXCEPT !.at = place] /\ UNCHANGED busy
    BY DEF WorkerChecks, Goto
  <2>2. worker.at # "off"
    BY DEF WorkerChecks, At
  <2> QED
    BY <1>1, <2>1, <2>2, WorkerGoes DEF Parts, Places
<1>5. OwnCheck'
  <2>1. worker.at \in {"check", "download"}
    BY DEF WorkerChecks, At
  <2>2. ASSUME Refused PROVE OwnCheck'
    <3>1. worker'.at \in {"decide", "read"} /\ UNCHANGED checks
      BY <1>1, <2>2 DEF WorkerChecks, Goto, Parts, WorkerOK, WorkerStates
    <3> QED
      BY <1>1, <2>1, <3>1, NoOwnCheck
  <2>3. ASSUME ~Refused PROVE OwnCheck'
    <3>1. worker'.at \in {"checking", "rechecking"}
      BY <1>1, <2>3 DEF WorkerChecks, Goto, Parts, WorkerOK, WorkerStates
    <3>2. checks'["worker"].at = "fetch"
      BY <1>1, <2>3 DEF WorkerChecks, Begun, Parts, ChecksOK,
         Threads
    <3> QED
      BY <3>1, <3>2 DEF OwnCheck
  <2> QED
    BY <2>2, <2>3
<1> QED
  BY <1>2, <1>3, <1>4, <1>5, ManagerPartsNext DEF Tidy

LEMMA DecideTidy ==
  ASSUME Tidy, Decide
  PROVE  Tidy'
<1>1. Parts /\ OwnCheck /\ Asked
  BY ManagerParts DEF Tidy
<1>2. /\ ReleasesOK' /\ KnownOK' /\ FilesOK' /\ ChecksOK'
      /\ EndOK' /\ BoundsOK' /\ Asked'
  BY <1>1 DEF Parts, Decide, ReleasesOK, KnownOK, FilesOK, ChecksOK,
     EndOK, BoundsOK, Asked, external, known, files,
     bounds, Threads
<1>3. WorkerOK'
  <2>1. CASE Available
    <3>1. worker' = [worker EXCEPT !.at = "download"] /\ UNCHANGED busy
      BY <2>1 DEF Decide, Goto
    <3> QED
      BY <1>1, <3>1, WorkerGoes DEF Decide, At, Parts, Places
  <2>2. CASE ~Available
    BY <2>2, SequenceEnded DEF Decide
  <2> QED
    BY <2>1, <2>2
<1>4. PhaseOK'
  BY <1>1 DEF Decide, Parts, PhaseOK, Phases
<1>5. OwnCheck'
  <2>1. /\ worker.at \notin {"checking", "rechecking"} /\ UNCHANGED checks
        /\ worker'.at \notin {"checking", "rechecking"}
    BY <1>1 DEF Decide, At, Goto, Parts, WorkerOK,
       WorkerStates, EndSequence
  <2> QED
    BY <1>1, <2>1, NoOwnCheck
<1> QED
  BY <1>2, <1>3, <1>4, <1>5, ManagerPartsNext DEF Tidy

LEMMA DownloadTidy ==
  ASSUME Tidy, Download
  PROVE  Tidy'
<1>1. Parts /\ OwnCheck /\ Asked
  BY ManagerParts DEF Tidy
<1>2. /\ ReleasesOK' /\ KnownOK' /\ ChecksOK' /\ EndOK'
      /\ BoundsOK' /\ Asked'
  BY <1>1 DEF Parts, Download, ReleasesOK, KnownOK, ChecksOK, EndOK,
     BoundsOK, Asked, external, known, bounds,
     Threads
<1>3. FilesOK'
  BY <1>1 DEF Download, Parts, FilesOK, KnownOK, files
<1>4. WorkerOK'
  <2>1. PICK place \in {"downloaded", "apply", "applied", "downloading"} :
          worker' = [worker EXCEPT !.at = place] /\ UNCHANGED busy
    BY DEF Download, Goto, AfterDownload
  <2>2. worker.at # "off"
    BY DEF Download, At
  <2> QED
    BY <1>1, <2>1, <2>2, WorkerGoes DEF Parts, Places
<1>5. PhaseOK'
  BY <1>1 DEF Download, Parts, PhaseOK, Phases
<1>6. OwnCheck'
  <2>1. /\ worker.at \notin {"checking", "rechecking"} /\ UNCHANGED checks
        /\ worker'.at \notin {"checking", "rechecking"}
    BY <1>1 DEF Download, At, Goto, Parts, WorkerOK,
       WorkerStates, AfterDownload
  <2> QED
    BY <1>1, <2>1, NoOwnCheck
<1> QED
  BY <1>2, <1>3, <1>4, <1>5, <1>6, ManagerPartsNext DEF Tidy

LEMMA DownloadEndsTidy ==
  ASSUME Tidy, DownloadEnds
  PROVE  Tidy'
<1>1. Parts /\ OwnCheck /\ Asked
  BY ManagerParts DEF Tidy
<1>2. /\ ReleasesOK' /\ KnownOK' /\ ChecksOK' /\ EndOK'
      /\ BoundsOK' /\ Asked'
  BY <1>1 DEF Parts, DownloadEnds, ReleasesOK, KnownOK, ChecksOK,
     EndOK, BoundsOK, Asked, external, known,
     bounds, Threads
<1>3. FilesOK'
  BY <1>1 DEF DownloadEnds, Parts, FilesOK
<1>4. WorkerOK'
  <2>1. PICK place \in {"downloaded", "apply", "applied"} :
          worker' = [worker EXCEPT !.at = place] /\ UNCHANGED busy
    BY DEF DownloadEnds, Goto, AfterDownload
  <2>2. worker.at # "off"
    BY DEF DownloadEnds, At
  <2> QED
    BY <1>1, <2>1, <2>2, WorkerGoes DEF Parts, Places
<1>5. PhaseOK'
  BY DEF DownloadEnds, PhaseOK, Phases
<1>6. OwnCheck'
  <2>1. /\ worker.at \notin {"checking", "rechecking"} /\ UNCHANGED checks
        /\ worker'.at \notin {"checking", "rechecking"}
    BY <1>1 DEF DownloadEnds, At, Goto, Parts, WorkerOK,
       WorkerStates, AfterDownload
  <2> QED
    BY <1>1, <2>1, NoOwnCheck
<1> QED
  BY <1>2, <1>3, <1>4, <1>5, <1>6, ManagerPartsNext DEF Tidy

LEMMA TestPhaseTidy ==
  ASSUME Tidy, TestPhase
  PROVE  Tidy'
<1>1. Parts /\ OwnCheck /\ Asked
  BY ManagerParts DEF Tidy
<1>2. /\ ReleasesOK' /\ KnownOK' /\ FilesOK' /\ ChecksOK'
      /\ PhaseOK' /\ EndOK' /\ BoundsOK' /\ Asked'
  BY <1>1 DEF Parts, TestPhase, ReleasesOK, KnownOK, FilesOK,
     ChecksOK, PhaseOK, EndOK, BoundsOK, Asked, external,
     known, files, bounds, Threads
<1>3. WorkerOK'
  <2>1. CASE Failed
    BY <2>1, SequenceEnded DEF TestPhase
  <2>2. CASE ~Failed
    <3>1. PICK place \in {"apply", "stage"} :
            worker' = [worker EXCEPT !.at = place] /\ UNCHANGED busy
      BY <2>2 DEF TestPhase, Goto
    <3> QED
      BY <1>1, <3>1, WorkerGoes DEF TestPhase, At, Parts, Places
  <2> QED
    BY <2>1, <2>2
<1>4. OwnCheck'
  <2>1. /\ worker.at \notin {"checking", "rechecking"} /\ UNCHANGED checks
        /\ worker'.at \notin {"checking", "rechecking"}
    BY <1>1 DEF TestPhase, At, Goto, Parts, WorkerOK,
       WorkerStates, EndSequence
  <2> QED
    BY <1>1, <2>1, NoOwnCheck
<1> QED
  BY <1>2, <1>3, <1>4, ManagerPartsNext DEF Tidy

LEMMA ApplyTidy ==
  ASSUME Tidy, Apply
  PROVE  Tidy'
<1>1. Parts /\ OwnCheck /\ Asked
  BY ManagerParts DEF Tidy
<1>2. /\ ReleasesOK' /\ KnownOK' /\ FilesOK' /\ ChecksOK'
      /\ EndOK' /\ BoundsOK' /\ Asked'
  BY <1>1 DEF Parts, Apply, ReleasesOK, KnownOK, FilesOK, ChecksOK,
     EndOK, BoundsOK, Asked, external, known, files,
     bounds, Threads
<1>3. WorkerOK'
  <2>1. CASE zip = 0
    <3>1. worker' = [at |-> "download", again |-> TRUE] /\ UNCHANGED busy
      BY <2>1 DEF Apply
    <3>2. worker' \in WorkerStates /\ worker'.at = "download"
      BY <3>1 DEF WorkerStates, Places
    <3> QED
      BY <1>1, <3>1, <3>2 DEF WorkerOK, Parts, Apply, At
  <2>2. CASE zip # 0
    BY <1>1, <2>2, WorkerGoes DEF Apply, Goto, At, Parts, Places
  <2> QED
    BY <2>1, <2>2
<1>4. PhaseOK'
  BY <1>1 DEF Apply, Parts, PhaseOK, Phases
<1>5. OwnCheck'
  <2>1. /\ worker.at \notin {"checking", "rechecking"} /\ UNCHANGED checks
        /\ worker'.at \notin {"checking", "rechecking"}
    BY <1>1 DEF Apply, At, Goto, Parts, WorkerOK,
       WorkerStates
  <2> QED
    BY <1>1, <2>1, NoOwnCheck
<1> QED
  BY <1>2, <1>3, <1>4, <1>5, ManagerPartsNext DEF Tidy

LEMMA CopyEndsTidy ==
  ASSUME Tidy, CopyEnds
  PROVE  Tidy'
<1>1. Parts /\ OwnCheck /\ Asked
  BY ManagerParts DEF Tidy
<1>2. /\ ReleasesOK' /\ KnownOK' /\ ChecksOK' /\ EndOK'
      /\ BoundsOK' /\ Asked'
  BY <1>1 DEF Parts, CopyEnds, ReleasesOK, KnownOK, ChecksOK, EndOK,
     BoundsOK, Asked, external, known, bounds,
     Threads
<1>3. FilesOK'
  BY <1>1 DEF CopyEnds, Parts, FilesOK, NoneOr
<1>4. WorkerOK'
  <2>1. PICK place \in {"applied"} :
          worker' = [worker EXCEPT !.at = place] /\ UNCHANGED busy
    BY DEF CopyEnds, Goto
  <2>2. worker.at # "off"
    BY DEF CopyEnds, At
  <2> QED
    BY <1>1, <2>1, <2>2, WorkerGoes DEF Parts, Places
<1>5. PhaseOK'
  BY DEF CopyEnds, PhaseOK, Phases
<1>6. OwnCheck'
  <2>1. /\ worker.at \notin {"checking", "rechecking"} /\ UNCHANGED checks
        /\ worker'.at \notin {"checking", "rechecking"}
    BY <1>1 DEF CopyEnds, At, Goto, Parts, WorkerOK,
       WorkerStates
  <2> QED
    BY <1>1, <2>1, NoOwnCheck
<1> QED
  BY <1>2, <1>3, <1>4, <1>5, <1>6, ManagerPartsNext DEF Tidy

LEMMA StageSwitchTidy ==
  ASSUME Tidy, StageSwitch
  PROVE  Tidy'
<1>1. Parts /\ OwnCheck /\ Asked
  BY ManagerParts DEF Tidy
<1>2. /\ ReleasesOK' /\ KnownOK' /\ ChecksOK' /\ BoundsOK'
      /\ Asked'
  BY <1>1 DEF Parts, StageSwitch, ReleasesOK, KnownOK, ChecksOK,
     BoundsOK, Asked, external, known, bounds,
     Threads
<1>3. FilesOK'
  BY <1>1 DEF StageSwitch, Parts, FilesOK, KnownOK
<1>4. WorkerOK'
  BY SequenceEnded DEF StageSwitch
<1>5. PhaseOK'
  BY DEF StageSwitch, PhaseOK, Phases
<1>6. EndOK'
  BY <1>1 DEF StageSwitch, Parts, EndOK, RestartStates
<1>7. OwnCheck'
  <2>1. /\ worker.at \notin {"checking", "rechecking"} /\ UNCHANGED checks
        /\ worker'.at \notin {"checking", "rechecking"}
    BY <1>1 DEF StageSwitch, At, Goto, Parts, WorkerOK,
       WorkerStates, EndSequence
  <2> QED
    BY <1>1, <2>1, NoOwnCheck
<1> QED
  BY <1>2, <1>3, <1>4, <1>5, <1>6, <1>7, ManagerPartsNext DEF Tidy

LEMMA SetChannelTidy ==
  ASSUME Tidy, NEW ch \in Channels, SetChannel(ch)
  PROVE  Tidy'
<1>1. Parts /\ OwnCheck /\ Asked
  BY ManagerParts DEF Tidy
<1>2. /\ FilesOK' /\ ChecksOK' /\ WorkerOK' /\ PhaseOK'
      /\ Asked'
  BY <1>1 DEF Parts, SetChannel, FilesOK, ChecksOK, WorkerOK,
     PhaseOK, Asked, files, Threads
<1>3. ReleasesOK'
  BY <1>1 DEF SetChannel, Parts, ReleasesOK
<1>4. KnownOK'
  BY <1>1 DEF SetChannel, known, Parts, KnownOK, NoneOr
<1>5. EndOK'
  BY <1>1 DEF SetChannel, Raced, Parts, EndOK, WorkerOK
<1>6. BoundsOK'
  BY <1>1, UpdateAssumption DEF SetChannel, Parts, BoundsOK,
     UpdateAssumption
<1>7. OwnCheck'
  BY <1>1 DEF OwnCheck, SetChannel
<1> QED
  BY <1>2, <1>3, <1>4, <1>5, <1>6, <1>7, ManagerPartsNext DEF Tidy

LEMMA ConnectTidy ==
  ASSUME Tidy, Connect
  PROVE  Tidy'
<1>1. Parts /\ OwnCheck /\ Asked
  BY ManagerParts DEF Tidy
<1>2. /\ KnownOK' /\ FilesOK' /\ ChecksOK' /\ WorkerOK'
      /\ PhaseOK' /\ EndOK' /\ BoundsOK' /\ Asked'
  BY <1>1 DEF Parts, Connect, KnownOK, FilesOK, ChecksOK, WorkerOK,
     PhaseOK, EndOK, BoundsOK, Asked, known, files,
     bounds, Threads
<1>3. ReleasesOK'
  BY <1>1 DEF Connect, Parts, ReleasesOK
<1>4. OwnCheck'
  BY <1>1 DEF OwnCheck, Connect
<1> QED
  BY <1>2, <1>3, <1>4, ManagerPartsNext DEF Tidy

LEMMA HelloAckTidy ==
  ASSUME Tidy, NEW ch \in Channels, HelloAck(ch)
  PROVE  Tidy'
<1>1. Parts /\ OwnCheck /\ Asked
  BY ManagerParts DEF Tidy
<1>2. /\ FilesOK' /\ ChecksOK' /\ WorkerOK' /\ PhaseOK'
      /\ EndOK' /\ BoundsOK' /\ Asked'
  BY <1>1 DEF Parts, HelloAck, FilesOK, ChecksOK, WorkerOK, PhaseOK,
     EndOK, BoundsOK, Asked, files, bounds, Threads
<1>3. ReleasesOK'
  BY <1>1 DEF HelloAck, Parts, ReleasesOK
<1>4. KnownOK'
  BY <1>1 DEF HelloAck, Newer, Parts, KnownOK, ReleasesOK,
     NoneOr
<1>5. OwnCheck'
  BY <1>1 DEF OwnCheck, HelloAck
<1> QED
  BY <1>2, <1>3, <1>4, <1>5, ManagerPartsNext DEF Tidy

LEMMA RestartTidy ==
  ASSUME Tidy, Restart
  PROVE  Tidy'
<1>1. Parts /\ OwnCheck /\ Asked
  BY ManagerParts DEF Tidy
<1>2. /\ ReleasesOK' /\ KnownOK' /\ FilesOK' /\ ChecksOK'
      /\ WorkerOK' /\ Asked'
  BY <1>1 DEF Parts, Restart, ReleasesOK, KnownOK, FilesOK,
     ChecksOK, WorkerOK, Asked, external, known,
     files, Threads
<1>3. PhaseOK'
  BY DEF Restart, PhaseOK, Phases
<1>4. EndOK'
  BY <1>1 DEF Restart, Raced, Parts, EndOK, WorkerOK,
     RestartStates
<1>5. BoundsOK'
  BY <1>1, UpdateAssumption DEF Restart, Parts, BoundsOK,
     UpdateAssumption
<1>6. OwnCheck'
  BY <1>1 DEF OwnCheck, Restart
<1> QED
  BY <1>2, <1>3, <1>4, <1>5, <1>6, ManagerPartsNext DEF Tidy

LEMMA RunEndsTidy ==
  ASSUME Tidy, RunEnds
  PROVE  Tidy'
<1>1. Parts /\ OwnCheck /\ Asked
  BY ManagerParts DEF Tidy
<1>2. /\ ReleasesOK' /\ KnownOK' /\ FilesOK' /\ ChecksOK'
      /\ WorkerOK' /\ PhaseOK' /\ BoundsOK' /\ Asked'
  BY <1>1 DEF Parts, RunEnds, ReleasesOK, KnownOK, FilesOK,
     ChecksOK, WorkerOK, PhaseOK, BoundsOK, Asked, external,
     known, files, bounds, Threads
<1>3. EndOK'
  BY <1>1 DEF RunEnds, Parts, EndOK
<1>4. OwnCheck'
  BY <1>1 DEF OwnCheck, RunEnds
<1> QED
  BY <1>2, <1>3, <1>4, ManagerPartsNext DEF Tidy

LEMMA PublishTidy ==
  ASSUME Tidy, NEW ch \in Channels, Publish(ch)
  PROVE  Tidy'
<1>1. Parts /\ OwnCheck /\ Asked
  BY ManagerParts DEF Tidy
<1>2. /\ KnownOK' /\ FilesOK' /\ ChecksOK' /\ WorkerOK'
      /\ PhaseOK' /\ EndOK' /\ BoundsOK' /\ Asked'
  BY <1>1 DEF Parts, Publish, KnownOK, FilesOK, ChecksOK, WorkerOK,
     PhaseOK, EndOK, BoundsOK, Asked, known, files,
     bounds, Threads
<1>3. ReleasesOK'
  BY <1>1 DEF Publish, Parts, ReleasesOK
<1>4. OwnCheck'
  BY <1>1 DEF OwnCheck, Publish
<1> QED
  BY <1>2, <1>3, <1>4, ManagerPartsNext DEF Tidy

LEMMA ManagerInitTidy == Init => Tidy
<1> SUFFICES ASSUME Init PROVE Tidy
  OBVIOUS
<1>1. ReleasesOK /\ KnownOK /\ FilesOK
  BY DEF Init, ReleasesOK, KnownOK, FilesOK, NoneOr
<1>2. ChecksOK /\ OwnCheck /\ Asked
  BY DEF Init, Threads, NotChecking, ChecksOK,
     CheckStates, OwnCheck, Asked
<1>3. WorkerOK /\ PhaseOK /\ EndOK
  BY DEF Init, WorkerOK, WorkerStates, Places, PhaseOK, Phases,
     EndOK, RestartStates
<1>4. BoundsOK
  BY UpdateAssumption DEF Init, BoundsOK, UpdateAssumption
<1> QED
  BY <1>1, <1>2, <1>3, <1>4, ManagerParts DEF Tidy, Parts

LEMMA ManagerStutterTidy ==
  ASSUME Tidy, UNCHANGED vars
  PROVE  Tidy'
<1>1. Parts /\ OwnCheck /\ Asked
  BY ManagerParts DEF Tidy
<1>2. /\ ReleasesOK' /\ KnownOK' /\ FilesOK' /\ WorkerOK'
      /\ PhaseOK' /\ EndOK' /\ BoundsOK'
  BY <1>1 DEF Parts, vars, ReleasesOK, KnownOK, FilesOK, WorkerOK,
     PhaseOK, EndOK, BoundsOK
<1>3. ChecksOK' /\ OwnCheck' /\ Asked'
  BY <1>1 DEF Parts, vars, Threads, ChecksOK, OwnCheck, Asked
<1> QED
  BY <1>2, <1>3, ManagerPartsNext DEF Tidy

LEMMA TidyInductive ==
  ASSUME Tidy, [Next]_vars
  PROVE  Tidy'
<1>1. CASE StartUpdate
  BY <1>1, StartUpdateTidy
<1>2. CASE Worker
  <2>1. "worker" \in Threads
    BY DEF Threads
  <2> QED
    BY <1>2, <2>1, WorkerChecksTidy, DecideTidy, DownloadTidy, DownloadEndsTidy,
       TestPhaseTidy, ApplyTidy, CopyEndsTidy, StageSwitchTidy,
       ManifestArrivesTidy, CheckEndsTidy DEF Worker
<1>3. ASSUME NEW k \in Checkers,
             \/ CheckBegin(k) \/ ManifestArrives(k)
             \/ CheckEnds(k)
      PROVE  Tidy'
  <2>1. k \in Threads
    BY DEF Threads
  <2> QED
    BY <1>3, <2>1, CheckBeginTidy, ManifestArrivesTidy, CheckEndsTidy
<1>4. ASSUME NEW ch \in Channels,
             SetChannel(ch) \/ HelloAck(ch) \/ Publish(ch)
      PROVE  Tidy'
  BY <1>4, SetChannelTidy, HelloAckTidy, PublishTidy
<1>5. CASE Connect \/ Restart \/ RunEnds
  BY <1>5, ConnectTidy, RestartTidy, RunEndsTidy
<1>6. CASE UNCHANGED vars
  BY <1>6, ManagerStutterTidy
<1> QED
  BY <1>1, <1>2, <1>3, <1>4, <1>5, <1>6 DEF Next

\* Every variable of the update manager keeps its type, for any channels,
\* versions and threads that check.
THEOREM ManagerTypeCorrect == Spec => []TypeOK
<1>1. Tidy => TypeOK
  BY DEF Tidy
<1> QED
  BY <1>1, ManagerInitTidy, TidyInductive, PTL DEF Spec

-----------------------------------------------------------------------------
(* What the worker stages *)

\* As long as no other thread interferes, what is on the way is the version
\* of the manifest, and each of the worker's steps has either left it behind
\* in whole or put "error" into the phase.
OnTheWay == fetching # 0 /\ fetching = manifest

Straight ==
  busy /\ ~raced =>
    /\ ~worker.again
    /\ worker.at = "downloading" => OnTheWay
    /\ worker.at = "downloaded" => phase = "error" \/ (OnTheWay /\ zip = fetching)
    /\ worker.at \in {"apply", "copying"} => OnTheWay /\ zip = fetching
    /\ worker.at = "applied" => phase = "error" \/ (OnTheWay /\ slot = fetching)
    /\ worker.at = "stage" => OnTheWay /\ slot = fetching

Whole == pending' # pending /\ ~raced => slot # 0 /\ slot = fetching /\ pending' = slot

\* A step that touches nothing the worker's sequence is about.
LEMMA StraightKept ==
  ASSUME Straight,
         UNCHANGED <<busy, raced, worker, phase, manifest, fetching, zip, slot>>
  PROVE  Straight'
BY DEF Straight, OnTheWay

\* Another thread's interference is remembered as such.
LEMMA StraightRaced ==
  ASSUME Straight, EndOK, UNCHANGED busy, raced' = Raced(TRUE)
  PROVE  Straight'
BY DEF Straight, EndOK, Raced

\* Off the way between the download and the switch there is nothing to keep.
LEMMA StraightElsewhere ==
  ASSUME ~worker'.again,
         worker'.at \notin {"downloading", "downloaded", "apply", "copying",
                            "applied", "stage"}
  PROVE  Straight'
BY DEF Straight

LEMMA StartStraight ==
  ASSUME StartUpdate
  PROVE  Straight'
BY DEF StartUpdate, Straight

LEMMA CheckStraight ==
  ASSUME Tidy, Straight, NEW k \in Threads,
         ManifestArrives(k) \/ CheckEnds(k)
  PROVE  Straight'
<1>1. WorkerOK /\ ChecksOK /\ EndOK /\ OwnCheck
  BY ManagerParts DEF Tidy, Parts
<1>2. UNCHANGED busy /\ raced' = Raced(k # "worker")
  BY DEF ManifestArrives, CheckEnds
<1>3. CASE k # "worker"
  <2>1. (k # "worker") = TRUE
    BY <1>3
  <2> QED
    BY <1>1, <1>2, <2>1, StraightRaced
<1>4. CASE k = "worker"
  <2>1. worker.at \in {"checking", "rechecking"}
    BY <1>1, <1>4 DEF OwnCheck, ManifestArrives, CheckEnds
  <2>2. /\ worker'.at \in {"checking", "rechecking", "decide", "read"}
        /\ worker'.again = worker.again
    BY <1>1, <1>4, <2>1 DEF ManifestArrives, CheckEnds,
       Resumed, WorkerOK, WorkerStates
  <2>3. raced' = raced
    BY <1>1, <1>2, <1>4 DEF Raced, EndOK
  <2> QED
    BY <1>2, <2>2, <2>3 DEF Straight
<1> QED
  BY <1>3, <1>4

LEMMA WorkerChecksStraight ==
  ASSUME Tidy, Straight, WorkerChecks
  PROVE  Straight'
<1>1. WorkerOK
  BY ManagerParts DEF Tidy, Parts
<1>2. /\ worker'.at \in {"decide", "read", "checking", "rechecking"}
      /\ worker'.again = worker.again
  BY <1>1 DEF WorkerChecks, Goto, WorkerOK, WorkerStates
<1>3. UNCHANGED <<busy, raced>>
  BY DEF WorkerChecks
<1> QED
  BY <1>2, <1>3 DEF Straight

LEMMA DecideStraight ==
  ASSUME Tidy, Straight, Decide
  PROVE  Straight'
<1>1. WorkerOK
  BY ManagerParts DEF Tidy, Parts
<1>2. raced' = raced
  BY DEF Decide
<1>3. CASE ~Available
  BY <1>3 DEF Straight, Decide, EndSequence
<1>4. CASE Available
  <2>1. worker'.at = "download" /\ worker'.again = worker.again /\ UNCHANGED busy
    BY <1>1, <1>4 DEF Decide, Goto, WorkerOK, WorkerStates
  <2> QED
    BY <1>2, <2>1 DEF Straight
<1> QED
  BY <1>3, <1>4

\* download() begins with what the manifest says at that moment.
LEMMA DownloadStraight ==
  ASSUME Tidy, Straight, Download
  PROVE  Straight'
<1> SUFFICES ASSUME busy', ~raced' PROVE Straight'
  BY DEF Straight
<1>1. WorkerOK
  BY ManagerParts DEF Tidy, Parts
<1>2. UNCHANGED <<busy, raced, manifest>>
  BY DEF Download, known
<1>3. ~worker.again
  BY <1>2 DEF Straight
<1>4. CASE manifest = 0
  <2>1. worker'.at = "downloaded" /\ ~worker'.again /\ phase' = "error"
    BY <1>1, <1>3, <1>4 DEF Download, AfterDownload, Goto,
       WorkerOK, WorkerStates
  <2> QED
    BY <2>1 DEF Straight
<1>5. CASE manifest # 0
  <2>1. worker'.at = "downloading" /\ ~worker'.again /\ fetching' = manifest
    BY <1>1, <1>3, <1>5 DEF Download, Goto, WorkerOK, WorkerStates
  <2> QED
    BY <1>2, <1>5, <2>1 DEF Straight, OnTheWay
<1> QED
  BY <1>4, <1>5

LEMMA DownloadEndsStraight ==
  ASSUME Tidy, Straight, DownloadEnds
  PROVE  Straight'
<1> SUFFICES ASSUME busy', ~raced' PROVE Straight'
  BY DEF Straight
<1>1. WorkerOK
  BY ManagerParts DEF Tidy, Parts
<1>2. /\ UNCHANGED <<busy, raced, manifest, fetching>>
      /\ worker.at = "downloading"
  BY DEF DownloadEnds, known, At
<1>3. ~worker.again /\ OnTheWay
  BY <1>2 DEF Straight
<1>4. worker'.at = "downloaded" /\ ~worker'.again
  BY <1>1, <1>3 DEF DownloadEnds, AfterDownload, Goto,
     WorkerOK, WorkerStates
<1>5. phase' = "error" \/ zip' = fetching'
  BY <1>2 DEF DownloadEnds
<1> QED
  BY <1>2, <1>3, <1>4, <1>5 DEF Straight, OnTheWay

LEMMA TestPhaseStraight ==
  ASSUME Tidy, Straight, TestPhase
  PROVE  Straight'
<1> SUFFICES ASSUME busy', ~raced' PROVE Straight'
  BY DEF Straight
<1>1. WorkerOK
  BY ManagerParts DEF Tidy, Parts
<1>2. ~Failed
  BY DEF TestPhase, EndSequence
<1>3. /\ UNCHANGED <<busy, raced, manifest, fetching, zip, slot>>
      /\ \/ worker.at = "downloaded" /\ worker' = [worker EXCEPT !.at = "apply"]
         \/ worker.at = "applied" /\ worker' = [worker EXCEPT !.at = "stage"]
  BY <1>2 DEF TestPhase, known, files, At,
     Goto
<1>4. /\ ~worker.again
      /\ worker.at = "downloaded" => OnTheWay /\ zip = fetching
      /\ worker.at = "applied" => OnTheWay /\ slot = fetching
  BY <1>2, <1>3 DEF Straight, Failed
<1>5. /\ ~worker'.again
      /\ \/ worker'.at = "apply" /\ OnTheWay /\ zip = fetching
         \/ worker'.at = "stage" /\ OnTheWay /\ slot = fetching
  BY <1>1, <1>3, <1>4 DEF WorkerOK, WorkerStates
<1> QED
  BY <1>3, <1>5 DEF Straight, OnTheWay

\* apply() downloads again only when there is no zip, which on the straight
\* way there is.
LEMMA ApplyStraight ==
  ASSUME Tidy, Straight, Apply
  PROVE  Straight'
<1> SUFFICES ASSUME busy', ~raced' PROVE Straight'
  BY DEF Straight
<1>1. WorkerOK
  BY ManagerParts DEF Tidy, Parts
<1>2. /\ UNCHANGED <<busy, raced, manifest, fetching, zip>>
      /\ worker.at = "apply"
  BY DEF Apply, known, files, At
<1>3. ~worker.again /\ OnTheWay /\ zip = fetching
  BY <1>2 DEF Straight
<1>4. worker'.at = "copying" /\ ~worker'.again
  BY <1>1, <1>3 DEF Apply, Goto, OnTheWay, WorkerOK, WorkerStates
<1> QED
  BY <1>2, <1>3, <1>4 DEF Straight, OnTheWay

LEMMA CopyEndsStraight ==
  ASSUME Tidy, Straight, CopyEnds
  PROVE  Straight'
<1> SUFFICES ASSUME busy', ~raced' PROVE Straight'
  BY DEF Straight
<1>1. WorkerOK
  BY ManagerParts DEF Tidy, Parts
<1>2. /\ UNCHANGED <<busy, raced, manifest, fetching, zip>>
      /\ worker.at = "copying"
  BY DEF CopyEnds, known, At
<1>3. ~worker.again /\ OnTheWay /\ zip = fetching
  BY <1>2 DEF Straight
<1>4. worker'.at = "applied" /\ ~worker'.again
  BY <1>1, <1>3 DEF CopyEnds, Goto, WorkerOK, WorkerStates
<1>5. phase' = "error" \/ slot' = zip
  BY DEF CopyEnds
<1> QED
  BY <1>2, <1>3, <1>4, <1>5 DEF Straight, OnTheWay

LEMMA StageSwitchStraight ==
  ASSUME Tidy, Straight, StageSwitch
  PROVE  Straight' /\ Whole
<1>1. ~busy' /\ raced' = raced /\ UNCHANGED <<slot, fetching>>
  BY DEF StageSwitch, EndSequence
<1>2. Straight'
  BY <1>1 DEF Straight
<1>3. Whole
  <2> SUFFICES ASSUME ~raced
               PROVE  slot # 0 /\ slot = fetching /\ pending' = slot
    BY DEF Whole
  <2>1. busy /\ worker.at = "stage"
    BY ManagerParts DEF Tidy, Parts, WorkerOK, StageSwitch, At
  <2>2. OnTheWay /\ slot = fetching
    BY <2>1 DEF Straight
  <2> QED
    BY <2>2 DEF OnTheWay, StageSwitch
<1> QED
  BY <1>2, <1>3

LEMMA OthersStraight ==
  ASSUME Tidy, Straight,
         \/ \E k \in Checkers : CheckBegin(k)
         \/ \E ch \in Channels : HelloAck(ch) \/ Publish(ch)
         \/ Connect \/ RunEnds
  PROVE  Straight'
<1>1. CASE \/ \E k \in Checkers : CheckBegin(k)
           \/ \E ch \in Channels : Publish(ch)
           \/ Connect \/ RunEnds
  BY <1>1, StraightKept DEF CheckBegin, Publish,
     Connect, RunEnds, known, files
<1>2. CASE \E ch \in Channels : HelloAck(ch)
  BY <1>2, StraightKept DEF HelloAck, files
<1> QED
  BY <1>1, <1>2

LEMMA InterferenceStraight ==
  ASSUME Tidy, Straight,
         (\E ch \in Channels : SetChannel(ch)) \/ Restart
  PROVE  Straight'
<1>1. EndOK
  BY ManagerParts DEF Tidy, Parts
<1>2. UNCHANGED busy /\ raced' = Raced(TRUE)
  BY DEF SetChannel, Restart
<1> QED
  BY <1>1, <1>2, StraightRaced

\* Only _stage_switch() writes the pending version.
LEMMA PendingKept ==
  ASSUME Next, ~StageSwitch
  PROVE  UNCHANGED pending
<1>1. CASE StartUpdate \/ Connect \/ Restart \/ RunEnds
  BY <1>1 DEF StartUpdate, Connect, Restart,
     RunEnds, files
<1>2. CASE Worker
  BY <1>2 DEF Worker, WorkerChecks, Decide,
     Download, DownloadEnds, TestPhase, Apply,
     CopyEnds, ManifestArrives, CheckEnds, files
<1>3. CASE \E k \in Checkers : \/ CheckBegin(k) \/ ManifestArrives(k)
                               \/ CheckEnds(k)
  BY <1>3 DEF CheckBegin, ManifestArrives, CheckEnds,
     files
<1>4. CASE \E ch \in Channels : \/ SetChannel(ch) \/ HelloAck(ch)
                                \/ Publish(ch)
  BY <1>4 DEF SetChannel, HelloAck, Publish, files
<1> QED
  BY <1>1, <1>2, <1>3, <1>4 DEF Next

LEMMA StraightInductive ==
  ASSUME Tidy, Straight, [Next]_vars
  PROVE  Straight'
<1>1. CASE StartUpdate
  BY <1>1, StartStraight
<1>2. CASE Worker
  <2>1. "worker" \in Threads
    BY DEF Threads
  <2> QED
    BY <1>2, <2>1, WorkerChecksStraight, DecideStraight, DownloadStraight,
       DownloadEndsStraight, TestPhaseStraight, ApplyStraight,
       CopyEndsStraight, StageSwitchStraight, CheckStraight DEF Worker
<1>3. CASE \E k \in Checkers : ManifestArrives(k) \/ CheckEnds(k)
  <2>1. Checkers \subseteq Threads
    BY DEF Threads
  <2> QED
    BY <1>3, <2>1, CheckStraight
<1>4. CASE \/ \E k \in Checkers : CheckBegin(k)
           \/ \E ch \in Channels : HelloAck(ch) \/ Publish(ch)
           \/ Connect \/ RunEnds
  BY <1>4, OthersStraight
<1>5. CASE (\E ch \in Channels : SetChannel(ch)) \/ Restart
  BY <1>5, InterferenceStraight
<1>6. CASE UNCHANGED vars
  BY <1>6, StraightKept DEF vars
<1> QED
  BY <1>1, <1>2, <1>3, <1>4, <1>5, <1>6 DEF Next

\* Whatever the other threads do, what an undisturbed sequence stages is the
\* release it downloaded, copied in whole, under that release's version.
THEOREM StagedWholeAlways == Spec => StagedWhole
<1>1. Init => Tidy /\ Straight
  <2>1. Init => Straight
    BY DEF Init, Straight
  <2> QED
    BY <2>1, ManagerInitTidy
<1>2. Tidy /\ Straight /\ [Next]_vars => (Tidy /\ Straight)'
  BY TidyInductive, StraightInductive
<1>3. Tidy /\ Straight /\ [Next]_vars
        => [Whole]_vars
  <2> SUFFICES ASSUME Tidy, Straight, Next PROVE Whole
    OBVIOUS
  <2>1. CASE StageSwitch
    BY <2>1, StageSwitchStraight
  <2>2. CASE ~StageSwitch
    BY <2>2, PendingKept DEF Whole
  <2> QED
    BY <2>1, <2>2
<1> QED
  BY <1>1, <1>2, <1>3, PTL DEF Spec, StagedWhole, Whole

-----------------------------------------------------------------------------
(* The composition is one of the manager's own behaviours *)

LEMMA PassIsManaged ==
  ASSUME MainPass
  PROVE  StartUpdate \/ UNCHANGED vars
<1>1. CASE Attempts
  BY <1>1 DEF MainPass
<1>2. CASE ~Attempts
  <2>1. UNCHANGED <<busy, required>>
    BY <1>2 DEF MainPass, Pass, Service
  <2>2. UNCHANGED manager
    BY <1>2 DEF MainPass
  <2> QED
    BY <2>1, <2>2 DEF manager, vars
<1> QED
  BY <1>1, <1>2

LEMMA ComposedIsManaged ==
  ASSUME [ComposedNext]_allVars
  PROVE  [Next]_vars
<1>1. CASE MainPass
  BY <1>1, PassIsManaged DEF Next
<1>2. CASE ByHand
  BY <1>2 DEF ByHand, Next
<1>3. CASE ManagerStep
  BY <1>3 DEF ManagerStep, Next
<1>4. CASE DeviceStep
  BY <1>4 DEF DeviceStep, DeviceArrives, DeviceLeaves, manager, vars
<1>5. CASE UNCHANGED allVars
  BY <1>5 DEF allVars, manager, vars
<1> QED
  BY <1>1, <1>2, <1>3, <1>4, <1>5 DEF ComposedNext

\* Joined with the main loop, the update manager still does nothing but what
\* it may do on its own.
THEOREM ComposedRefinesManager == ComposedSpec => Spec
<1>1. ComposedInit => Init
  BY DEF ComposedInit
<1> QED
  BY <1>1, ComposedIsManaged, PTL DEF ComposedSpec, Spec

\* So what the composed system stages is whole, too.
THEOREM ComposedStagedWhole == ComposedSpec => StagedWhole
BY ComposedRefinesManager, StagedWholeAlways, PTL

-----------------------------------------------------------------------------
(* The auto-applier's clock *)

LEMMA LongestDelay ==
  /\ Longest \in Nat
  /\ BootGrace <= Longest /\ IdleTime <= Longest /\ RetryTime <= Longest
<1> DEFINE Delays == {BootGrace, IdleTime, RetryTime}
           Covers(t) == t >= BootGrace /\ t >= IdleTime /\ t >= RetryTime
<1>1. BootGrace \in Nat /\ IdleTime \in Nat /\ RetryTime \in Nat
  BY DelayAssumption DEF DelayAssumption
<1>2. \E t \in Delays : Covers(t)
  <2>1. CASE Covers(BootGrace)
    BY <2>1
  <2>2. CASE Covers(IdleTime)
    BY <2>2
  <2>3. CASE Covers(RetryTime)
    BY <2>3
  <2> QED
    BY <1>1, <2>1, <2>2, <2>3
<1>3. Longest \in Delays /\ Covers(Longest)
  BY <1>2, Zenon DEF Longest
<1> QED
  BY <1>1, <1>3

LEMMA OlderAge ==
  ASSUME NEW age \in Never..(Longest + 1)
  PROVE  /\ Older(age) \in Never..(Longest + 1)
         /\ age = Never => Older(age) = Never
         /\ age # Never => /\ Older(age) \in 0..(Longest + 1)
                           /\ age \in 0..(Longest + 1)
                           /\ Older(age) = age + 1 \/ (age > Longest /\ Older(age) = age)
BY LongestDelay DEF Older, Never

FlagsOK ==
  required \in BOOLEAN /\ busy \in BOOLEAN /\ serving \in BOOLEAN
    /\ attempted \in BOOLEAN
TimesOK ==
  /\ uptime \in 0..(Longest + 1) /\ quiet \in 0..(Longest + 1)
  /\ idle_for \in Never..(Longest + 1) /\ attempt_age \in Never..(Longest + 1)
  /\ blocked \in 0..RetryTime /\ manual \in 0..MaxManual

LEMMA ApplierParts == ApplierTypeOK <=> FlagsOK /\ TimesOK
<1>1. ({required, busy, serving, attempted} \subseteq BOOLEAN) <=> FlagsOK
  BY DEF FlagsOK
<1>2. /\ ({uptime, quiet} \subseteq 0..(Longest + 1))
           <=> uptime \in 0..(Longest + 1) /\ quiet \in 0..(Longest + 1)
      /\ ({idle_for, attempt_age} \subseteq Never..(Longest + 1))
           <=> idle_for \in Never..(Longest + 1) /\ attempt_age \in Never..(Longest + 1)
  OBVIOUS
<1> QED
  BY <1>1, <1>2, Zenon DEF ApplierTypeOK, TimesOK

\* The attempts of its own leave the applier blocked: once one is over, the
\* time since it began and the time the block still lasts make up RETRY_SEC.
Spaced ==
  attempt_age # Never /\ ~attempted =>
    attempt_age > Longest \/ attempt_age + blocked >= RetryTime + 1

\* As long as nothing was started by hand, the idle time runs only while
\* nothing else holds the applier back, and within a stretch of passes that
\* saw no device served.
Undisturbed ==
  manual = 0 /\ idle_for # Never =>
    /\ ~busy /\ ~attempted /\ blocked = 0 /\ uptime >= BootGrace
    /\ quiet > idle_for \/ quiet > Longest

Timed == TimesOK /\ Spaced /\ Undisturbed

LEMMA PassClock ==
  ASSUME TimesOK
  PROVE  /\ Now.uptime \in 0..(Longest + 1) /\ Now.uptime >= uptime
         /\ Now.idle = Older(idle_for) /\ Now.idle \in Never..(Longest + 1)
         /\ Now.left \in 0..RetryTime
         /\ blocked = 0 => Now.left = 0
         /\ blocked > 0 => Now.left = blocked - 1
         /\ LeftBlocked \in 0..RetryTime
         /\ attempted => LeftBlocked = RetryTime
         /\ ~attempted => LeftBlocked = Now.left
<1>1. /\ Now.uptime = Older(uptime) /\ Now.idle = Older(idle_for)
      /\ Now.left = IF blocked > 0 THEN blocked - 1 ELSE 0
  BY DEF Now
<1>2. blocked \in 0..RetryTime /\ RetryTime \in Nat
  BY DelayAssumption DEF TimesOK, DelayAssumption
<1>3. /\ Older(uptime) \in 0..(Longest + 1) /\ Older(uptime) >= uptime
      /\ Older(idle_for) \in Never..(Longest + 1)
  BY LongestDelay, OlderAge DEF TimesOK, Never
<1>4. /\ Now.left \in 0..RetryTime
      /\ blocked = 0 => Now.left = 0
      /\ blocked > 0 => Now.left = blocked - 1
  BY <1>1, <1>2
<1> QED
  BY <1>1, <1>2, <1>3, <1>4 DEF LeftBlocked

\* When a pass starts an update, the idle time it has just reached is one of
\* quiet passes, and no earlier attempt is less than RETRY_SEC ago.
LEMMA AttemptIsDue ==
  ASSUME Timed, FlagsOK, Attempts
  PROVE  /\ attempt_age = Never \/ attempt_age >= RetryTime
         /\ ~serving /\ Now.uptime >= BootGrace
         /\ manual > 0 \/ quiet >= IdleTime
<1>1. /\ ~serving /\ LeftBlocked = 0 /\ Now.uptime >= BootGrace
      /\ Now.idle # Never /\ Now.idle >= IdleTime
  <2>1. ~(LeftBlocked > 0) /\ ~(Now.uptime < BootGrace)
    BY DEF Attempts, Waits
  <2> QED
    BY <2>1, PassClock, LongestDelay, DelayAssumption
       DEF Attempts, IdleLongEnough, Timed, DelayAssumption
<1>2. RetryTime \in Nat \ {0} /\ IdleTime \in Nat \ {0} /\ blocked \in 0..RetryTime
  BY DelayAssumption DEF DelayAssumption, Timed, TimesOK
<1>3. ~attempted /\ blocked <= 1
  BY <1>1, <1>2, PassClock DEF Timed
<1>4. attempt_age = Never \/ attempt_age >= RetryTime
  BY <1>2, <1>3, LongestDelay DEF Timed, TimesOK, Spaced, Never
<1>5. manual > 0 \/ quiet >= IdleTime
  <2> SUFFICES ASSUME manual = 0 PROVE quiet >= IdleTime
    BY DelayAssumption DEF Timed, TimesOK, DelayAssumption
  <2>1. /\ idle_for # Never
        /\ Now.idle = idle_for + 1 \/ (idle_for > Longest /\ Now.idle = idle_for)
    BY <1>1, PassClock, OlderAge DEF Timed, TimesOK
  <2>2. quiet > idle_for \/ quiet > Longest
    BY <2>1 DEF Timed, Undisturbed
  <2> QED
    BY <1>1, <1>2, <2>1, <2>2, LongestDelay DEF Timed, TimesOK, Never
<1> QED
  BY <1>1, <1>4, <1>5

LEMMA PassTimesOK ==
  ASSUME TimesOK, FlagsOK, Pass
  PROVE  TimesOK' /\ attempted' \in BOOLEAN
<1>1. /\ 0 \in 0..RetryTime /\ 0 \in 0..(Longest + 1)
      /\ 0 \in Never..(Longest + 1) /\ Never \in Never..(Longest + 1)
  BY LongestDelay, DelayAssumption DEF DelayAssumption, Never
<1>2. /\ Older(attempt_age) \in Never..(Longest + 1)
      /\ Older(quiet) \in 0..(Longest + 1)
  BY LongestDelay, OlderAge DEF TimesOK, Never
<1>3. /\ uptime' \in 0..(Longest + 1) /\ quiet' \in 0..(Longest + 1)
      /\ manual' \in 0..MaxManual
  BY <1>1, <1>2, PassClock DEF Pass, TimesOK
<1>4. /\ blocked' \in {Now.left, LeftBlocked}
      /\ attempt_age' \in {0, Older(attempt_age)}
      /\ idle_for' \in {Never, 0, Now.idle}
      /\ attempted' \in {attempted, TRUE, FALSE}
  BY DEF Pass, Service, Start, IdleReset
<1> QED
  BY <1>1, <1>2, <1>3, <1>4, PassClock DEF TimesOK, FlagsOK

LEMMA MoreThan ==
  ASSUME NEW a \in Nat, NEW b \in Nat, a >= 1
  PROVE  a + b >= b + 1
OBVIOUS

LEMMA PassSpaced ==
  ASSUME Timed, FlagsOK, Pass
  PROVE  Spaced'
<1> SUFFICES ASSUME attempt_age' # Never, ~attempted'
             PROVE  attempt_age' > Longest \/ attempt_age' + blocked' >= RetryTime + 1
  BY DEF Spaced
<1>1. ~Attempts /\ attempt_age' = Older(attempt_age)
  BY DEF Attempts, Pass, Service, Start
<1>2. /\ attempt_age # Never /\ attempt_age \in 0..(Longest + 1)
      /\ attempt_age' \in 0..(Longest + 1)
      /\ attempt_age' = attempt_age + 1
           \/ (attempt_age > Longest /\ attempt_age' = attempt_age)
  BY <1>1, OlderAge DEF Timed, TimesOK
<1>3. CASE attempted
  <2>1. blocked' = RetryTime
    BY <1>1, <1>3, PassClock DEF Pass, Service, Timed
  <2>2. RetryTime \in Nat /\ Longest \in Nat
    BY LongestDelay, DelayAssumption DEF DelayAssumption
  <2>3. attempt_age' \in Nat /\ attempt_age' >= 1
    BY <1>2, <2>2
  <2>4. attempt_age' + RetryTime >= RetryTime + 1
    BY <2>2, <2>3, MoreThan
  <2> QED
    BY <2>1, <2>4
<1>4. CASE ~attempted
  <2>1. blocked' = Now.left
    BY <1>1, <1>4, PassClock DEF Pass, Service, Timed
  <2>2. attempt_age > Longest \/ attempt_age + blocked >= RetryTime + 1
    BY <1>2, <1>4 DEF Timed, Spaced
  <2>3. /\ blocked \in 0..RetryTime /\ RetryTime \in Nat
        /\ blocked = 0 => blocked' = 0
        /\ blocked > 0 => blocked' = blocked - 1
    BY <2>1, PassClock, DelayAssumption DEF Timed, TimesOK, DelayAssumption
  <2> QED
    BY <1>2, <2>2, <2>3, LongestDelay
<1> QED
  BY <1>3, <1>4 DEF FlagsOK

LEMMA PassUndisturbed ==
  ASSUME Timed, FlagsOK, Pass
  PROVE  Undisturbed'
<1> SUFFICES ASSUME manual = 0, idle_for' # Never
             PROVE  /\ ~busy' /\ ~attempted' /\ blocked' = 0 /\ uptime' >= BootGrace
                    /\ quiet' > idle_for' \/ quiet' > Longest
  BY DEF Undisturbed, Pass
<1>1. /\ idle_for = Never => Now.idle = Never
      /\ idle_for # Never =>
           /\ idle_for \in 0..(Longest + 1)
           /\ Now.idle = idle_for + 1 \/ (idle_for > Longest /\ Now.idle = idle_for)
  BY PassClock, OlderAge DEF Timed, TimesOK
<1>2. /\ quiet \in 0..(Longest + 1) /\ Older(quiet) \in 0..(Longest + 1)
      /\ Older(quiet) = quiet + 1 \/ (quiet > Longest /\ Older(quiet) = quiet)
  BY LongestDelay, OlderAge DEF Timed, TimesOK, Never
<1>3. ~busy
  BY <1>1, PassClock DEF Pass, Service, Timed, Undisturbed
<1>4. ~Attempts /\ ~busy' /\ ~attempted' /\ blocked' = LeftBlocked
  BY <1>3 DEF Pass, Service, Start
<1>5. /\ ~attempted /\ blocked' = 0 /\ uptime' >= BootGrace
  BY <1>3, <1>4, <1>1, PassClock, DelayAssumption DEF Pass, Service, Timed,
     Undisturbed, Waits, DelayAssumption, TimesOK
<1>6. ~Waits(LeftBlocked)
  BY <1>4, <1>5, PassClock, DelayAssumption DEF Pass, Waits, Timed, DelayAssumption
<1>7. ~serving /\ idle_for' = IF idle_for = Never THEN 0 ELSE Now.idle
  BY <1>3, <1>4, <1>6 DEF Pass, Service, IdleReset
<1>8. quiet' = Older(quiet)
  BY <1>7 DEF Pass
<1>9. quiet' > idle_for' \/ quiet' > Longest
  <2>1. CASE idle_for = Never
    BY <1>2, <1>7, <1>8, <2>1, LongestDelay
  <2>2. CASE idle_for # Never
    <3>1. quiet > idle_for \/ quiet > Longest
      BY <2>2 DEF Timed, Undisturbed
    <3> QED
      BY <1>1, <1>2, <1>7, <1>8, <2>2, <3>1, LongestDelay
  <2> QED
    BY <2>1, <2>2
<1> QED
  BY <1>4, <1>5, <1>9

\* Nothing but a start makes the manager busy.
LEMMA ManagerNeverStarts ==
  ASSUME ManagerStep
  PROVE  busy' = busy \/ ~busy'
<1>1. CASE Worker
  BY <1>1 DEF Worker, WorkerChecks, Decide,
     Download, DownloadEnds, TestPhase, Apply,
     CopyEnds, StageSwitch, EndSequence,
     ManifestArrives, CheckEnds
<1>2. CASE Connect \/ Restart \/ RunEnds
  BY <1>2 DEF Connect, Restart, RunEnds
<1>3. CASE \E ch \in Channels : \/ SetChannel(ch) \/ HelloAck(ch)
                                \/ Publish(ch)
  BY <1>3 DEF SetChannel, HelloAck, Publish
<1>4. CASE \E k \in Checkers : \/ CheckBegin(k) \/ ManifestArrives(k)
                               \/ CheckEnds(k)
  BY <1>4 DEF CheckBegin, ManifestArrives, CheckEnds
<1> QED
  BY <1>1, <1>2, <1>3, <1>4 DEF ManagerStep

ComposedInv ==
  /\ Tidy /\ Timed
  /\ serving \in BOOLEAN /\ attempted \in BOOLEAN

LEMMA ComposedFlags == ComposedInv => FlagsOK
BY ManagerParts DEF ComposedInv, Tidy, Parts, KnownOK, WorkerOK, FlagsOK

LEMMA ComposedInitInv == ComposedInit => ComposedInv
<1> SUFFICES ASSUME ComposedInit PROVE ComposedInv
  OBVIOUS
<1>1. Tidy
  BY ManagerInitTidy DEF ComposedInit
<1>2. /\ 0 \in 0..RetryTime /\ 0 \in 0..(Longest + 1) /\ 0 \in 0..MaxManual
      /\ Never \in Never..(Longest + 1)
  BY LongestDelay, DelayAssumption DEF DelayAssumption, Never
<1>3. Timed
  BY <1>2 DEF ComposedInit, ApplierInit, Timed, TimesOK, Spaced, Undisturbed
<1> QED
  BY <1>1, <1>3 DEF ComposedInit, ApplierInit, ComposedInv

LEMMA ManagedTimed ==
  ASSUME ComposedInv, ManagerStep
  PROVE  Timed' /\ serving' \in BOOLEAN /\ attempted' \in BOOLEAN
<1>1. UNCHANGED applier
  BY DEF ManagerStep
<1>2. FlagsOK /\ (busy' = busy \/ ~busy')
  BY ComposedFlags, ManagerNeverStarts
<1>3. TimesOK' /\ Spaced'
  BY <1>1 DEF applier, ComposedInv, Timed, TimesOK, Spaced
<1>4. Undisturbed'
  BY <1>1, <1>2 DEF applier, ComposedInv, Timed, Undisturbed, FlagsOK
<1> QED
  BY <1>1, <1>3, <1>4 DEF applier, ComposedInv, Timed

LEMMA ByHandTimed ==
  ASSUME ComposedInv, ByHand
  PROVE  Timed' /\ serving' \in BOOLEAN /\ attempted' \in BOOLEAN
<1>1. MaxManual \in Nat /\ manual \in 0..MaxManual
  BY DelayAssumption DEF DelayAssumption, ComposedInv, Timed, TimesOK
<1>2. manual' \in 0..MaxManual /\ manual' # 0
  BY <1>1 DEF ByHand, ManualStart
<1>3. TimesOK' /\ Spaced'
  BY <1>2 DEF ByHand, ManualStart, ComposedInv, Timed, TimesOK, Spaced
<1>4. Undisturbed'
  BY <1>2 DEF Undisturbed
<1> QED
  BY <1>3, <1>4 DEF ByHand, ManualStart, ComposedInv, Timed

LEMMA DeviceTimed ==
  ASSUME ComposedInv, DeviceStep
  PROVE  Timed' /\ serving' \in BOOLEAN /\ attempted' \in BOOLEAN
<1>1. /\ UNCHANGED <<busy, uptime, idle_for, blocked, attempted, quiet,
                     attempt_age, manual>>
      /\ serving' \in BOOLEAN
  BY DEF DeviceStep, DeviceArrives, DeviceLeaves
<1>2. TimesOK'
  BY <1>1 DEF ComposedInv, Timed, TimesOK
<1>3. Spaced' /\ Undisturbed'
  BY <1>1 DEF ComposedInv, Timed, Spaced, Undisturbed
<1> QED
  BY <1>1, <1>2, <1>3 DEF ComposedInv, Timed

LEMMA PassTimed ==
  ASSUME ComposedInv, MainPass
  PROVE  Timed' /\ serving' \in BOOLEAN /\ attempted' \in BOOLEAN
<1>1. FlagsOK /\ Timed /\ TimesOK /\ Pass
  BY ComposedFlags DEF ComposedInv, Timed, MainPass
<1> QED
  BY <1>1, PassTimesOK, PassSpaced, PassUndisturbed DEF Timed, Pass, FlagsOK

LEMMA ComposedInductive ==
  ASSUME ComposedInv, [ComposedNext]_allVars
  PROVE  ComposedInv'
<1>1. Tidy'
  BY ComposedIsManaged, TidyInductive DEF ComposedInv
<1>2. CASE UNCHANGED allVars
  BY <1>1, <1>2 DEF allVars, applier, ComposedInv, Timed, TimesOK, Spaced,
     Undisturbed
<1> QED
  BY <1>1, <1>2, ManagedTimed, ByHandTimed, DeviceTimed, PassTimed
     DEF ComposedNext, ComposedInv

\* A start that is not the operator's is an attempt of the main loop, which
\* was due.
LEMMA OwnStartIsDue ==
  ASSUME ComposedInv, [ComposedNext]_allVars, OwnStart
  PROVE  /\ attempt_age = Never \/ attempt_age >= RetryTime
         /\ ~serving /\ uptime' >= BootGrace
         /\ manual > 0 \/ quiet >= IdleTime
<1>1. ~busy /\ busy' /\ UNCHANGED manual
  BY DEF OwnStart
<1>2. ~ByHand
  <2> SUFFICES ASSUME ByHand PROVE FALSE
    OBVIOUS
  <2>1. manual \in 0..MaxManual /\ manual' = manual + 1
    BY DEF ByHand, ManualStart, ComposedInv, Timed, TimesOK
  <2> QED
    BY <1>1, <2>1, DelayAssumption DEF DelayAssumption
<1>3. ~ManagerStep
  BY <1>1, ManagerNeverStarts
<1>4. ~DeviceStep /\ ~UNCHANGED allVars
  BY <1>1 DEF DeviceStep, DeviceArrives, DeviceLeaves, allVars
<1>5. MainPass
  BY <1>2, <1>3, <1>4 DEF ComposedNext
<1>6. Attempts /\ uptime' = Now.uptime
  BY <1>1, <1>5 DEF MainPass, Pass, Service
<1> QED
  BY <1>6, AttemptIsDue, ComposedFlags DEF ComposedInv

\* Every variable of the auto-applier keeps its type, for any delays.
THEOREM TypeCorrect == ComposedSpec => []ApplierTypeOK
<1>1. ComposedInv => ApplierTypeOK
  BY ComposedFlags, ApplierParts DEF ComposedInv, Timed
<1> QED
  BY <1>1, ComposedInitInv, ComposedInductive, PTL DEF ComposedSpec

\* An attempt that left the Gateway running is not repeated before RETRY_SEC,
\* whatever is started by hand and however the manager's sequences end; and no
\* attempt is made while a device is served or before BootGrace.
THEOREM AttemptsAreSpacedAlways == ComposedSpec => AttemptsAreSpaced
<1> DEFINE Due == /\ attempt_age = Never \/ attempt_age >= RetryTime
                  /\ ~serving /\ uptime' >= BootGrace
<1>1. ComposedInv /\ [ComposedNext]_allVars => [OwnStart => Due]_applierVars
  BY OwnStartIsDue
<1> QED
  BY <1>1, ComposedInitInv, ComposedInductive, PTL
     DEF ComposedSpec, AttemptsAreSpaced

\* Without updates by hand, the main loop starts an update only after
\* IDLE_SEC of passes none of which saw a device served.
THEOREM AppliesOnlyWhenQuietAlways == ComposedSpec => AppliesOnlyWhenQuiet
<1>1. ComposedInv /\ [ComposedNext]_allVars
        => [OwnStart => manual > 0 \/ quiet >= IdleTime]_applierVars
  BY OwnStartIsDue
<1> QED
  BY <1>1, ComposedInitInv, ComposedInductive, PTL
     DEF ComposedSpec, AppliesOnlyWhenQuiet

-----------------------------------------------------------------------------
(* The order of versions (Versioning): first differences *)

\* Any set of positions has a first one.
LEMMA FirstOf ==
  ASSUME NEW n \in Nat, NEW D \in SUBSET (1..n), D # {}
  PROVE  Min(D) \in D /\ \A l \in D : Min(D) <= l
<1> DEFINE R == {ss \in Nat \X Nat : ss[1] < ss[2]}
<1>1. IsWellFoundedOn(R, Nat)
  BY NatLessThanWellFounded DEF OpToRel
<1>2. D \subseteq Nat
  OBVIOUS
<1>3. PICK m \in D : \A l \in D : ~(<<l, m>> \in R)
  BY <1>1, <1>2, WFMin
<1>4. ASSUME NEW l \in D PROVE m <= l
  <2>1. m \in Nat /\ l \in Nat
    BY <1>2
  <2>2. ~(l < m)
    BY <1>3, <2>1, <<l, m>> \in Nat \X Nat
  <2> QED
    BY <2>1, <2>2
<1> QED
  BY <1>3, <1>4 DEF Min

\* The token of an identifier, as in Tokens.
Digest(d) == IF d.digits THEN <<1, d.value>> ELSE <<2, d.value>>

\* Identifiers compare as their tokens do.
LEMMA IdentifiersCompare ==
  ASSUME VersioningAssumption, NEW a \in Identifiers, NEW b \in Identifiers
  PROVE  /\ CompareIdentifier(a, b) > 0 <=> Before(Digest(b), Digest(a))
         /\ CompareIdentifier(a, b) = 0 <=> Digest(a) = Digest(b)
         /\ CompareIdentifier(a, b) \in {-1, 0, 1}
<1>1. a.value \in Nat /\ b.value \in Nat /\ a.digits \in BOOLEAN /\ b.digits \in BOOLEAN
  BY DEF Identifiers, VersioningAssumption
<1> QED
  BY <1>1 DEF CompareIdentifier, Sign, Before, Digest

\* So do the numbers: the first that differs decides.
LEMMA CoresCompare ==
  ASSUME NEW c \in [1..3 -> Nat], NEW d \in [1..3 -> Nat]
  PROVE  /\ CompareCore(c, d) > 0 <=>
              \E k \in 1..3 : c[k] > d[k] /\ \A l \in 1..(k - 1) : c[l] = d[l]
         /\ CompareCore(c, d) = 0 <=> c = d
<1> DEFINE D == {k \in 1..3 : c[k] # d[k]}
<1>1. CASE D = {}
  <2>1. c = d
    BY <1>1
  <2>2. CompareCore(c, d) = 0
    BY <1>1 DEF CompareCore
  <2> QED
    BY <2>1, <2>2
<1>2. CASE D # {}
  <2>1. Min(D) \in D /\ \A l \in D : Min(D) <= l
    BY <1>2, FirstOf
  <2>2. PICK m \in 1..3 : m = Min(D)
    BY <2>1
  <2>3. c[m] # d[m] /\ \A l \in 1..(m - 1) : c[l] = d[l]
    BY <2>1, <2>2
  <2>4. CompareCore(c, d) = Sign(c[m] - d[m])
    BY <1>2, <2>2 DEF CompareCore
  <2>5. c[m] \in Nat /\ d[m] \in Nat
    OBVIOUS
  <2>6. CompareCore(c, d) # 0 /\ (CompareCore(c, d) > 0 <=> c[m] > d[m])
    BY <2>3, <2>4, <2>5 DEF Sign
  <2>7. ASSUME NEW k \in 1..3, c[k] > d[k], \A l \in 1..(k - 1) : c[l] = d[l]
        PROVE  k = m
    BY <2>2, <2>3, <2>7
  <2> QED
    BY <2>3, <2>6, <2>7
<1> QED
  BY <1>1, <1>2

-----------------------------------------------------------------------------
(* Prereleases *)

\* p comes after q: the first place at which they differ decides, or else q
\* is the beginning of p.
After(p, q) ==
  \E k \in 1..Len(p) :
    /\ \A l \in 1..(k - 1) : l <= Len(q) /\ Digest(p[l]) = Digest(q[l])
    /\ k = Len(q) + 1 \/ (k <= Len(q) /\ Before(Digest(q[k]), Digest(p[k])))

\* The loop over both prereleases finds just that.
LEMMA PresCompare ==
  ASSUME VersioningAssumption, NEW p \in Seq(Identifiers), NEW q \in Seq(Identifiers)
  PROVE  ComparePre(p, q) > 0 <=> After(p, q)
<1> DEFINE n == Shorter(p, q)
           D == {k \in 1..n : CompareIdentifier(p[k], q[k]) # 0}
<1>1. /\ Len(p) \in Nat /\ Len(q) \in Nat /\ n \in Nat
      /\ n <= Len(p) /\ n <= Len(q) /\ (n = Len(p) \/ n = Len(q))
  BY DEF Shorter
<1>2. \A k \in 1..n : p[k] \in Identifiers /\ q[k] \in Identifiers
  BY <1>1
<1> HIDE DEF n
<1>3. \A k \in 1..n :
        /\ CompareIdentifier(p[k], q[k]) > 0 <=> Before(Digest(q[k]), Digest(p[k]))
        /\ CompareIdentifier(p[k], q[k]) = 0 <=> Digest(p[k]) = Digest(q[k])
  BY <1>2, IdentifiersCompare
<1>4. CASE D = {}
  <2>1. \A k \in 1..n : Digest(p[k]) = Digest(q[k])
    BY <1>3, <1>4
  <2>2. ComparePre(p, q) = Sign(Len(p) - Len(q))
    BY <1>4 DEF ComparePre, n
  <2>3. ComparePre(p, q) > 0 <=> Len(p) > Len(q)
    BY <1>1, <2>2 DEF Sign
  <2>4. ASSUME Len(p) > Len(q) PROVE After(p, q)
    <3>1. n = Len(q) /\ n + 1 \in 1..Len(p)
      BY <1>1, <2>4
    <3>2. \A l \in 1..(n + 1 - 1) : l <= Len(q) /\ Digest(p[l]) = Digest(q[l])
      BY <1>1, <2>1, <3>1
    <3> QED
      BY <3>1, <3>2 DEF After
  <2>5. ASSUME NEW k \in 1..Len(p), k <= Len(q), Before(Digest(q[k]), Digest(p[k]))
        PROVE  FALSE
    <3>1. k \in 1..n
      BY <1>1, <2>5
    <3>2. Digest(p[k]) = Digest(q[k]) /\ CompareIdentifier(p[k], q[k]) = 0
      BY <1>3, <2>1, <3>1
    <3> QED
      BY <1>3, <2>5, <3>1, <3>2
  <2>6. ASSUME After(p, q) PROVE Len(p) > Len(q)
    BY <1>1, <2>5, <2>6 DEF After
  <2> QED
    BY <2>3, <2>4, <2>6
<1>5. CASE D # {}
  <2>1. Min(D) \in D /\ \A l \in D : Min(D) <= l
    BY <1>1, <1>5, FirstOf
  <2>2. PICK m \in 1..n : m = Min(D)
    BY <2>1
  <2>3. CompareIdentifier(p[m], q[m]) # 0
    BY <2>1, <2>2
  <2>4. \A l \in 1..(m - 1) : l \in 1..n /\ Digest(p[l]) = Digest(q[l])
    BY <1>1, <1>3, <2>1, <2>2
  <2>5. ComparePre(p, q) = CompareIdentifier(p[m], q[m])
    BY <1>5, <2>2 DEF ComparePre, n
  <2>6. ComparePre(p, q) > 0 <=> Before(Digest(q[m]), Digest(p[m]))
    BY <1>3, <2>5
  <2>7. Digest(p[m]) # Digest(q[m])
    BY <1>3, <2>3
  <2>8. ASSUME Before(Digest(q[m]), Digest(p[m])) PROVE After(p, q)
    <3>1. m \in 1..Len(p) /\ m <= Len(q)
      BY <1>1
    <3>2. \A l \in 1..(m - 1) : l <= Len(q) /\ Digest(p[l]) = Digest(q[l])
      BY <1>1, <2>4
    <3> QED
      BY <2>8, <3>1, <3>2 DEF After
  <2>9. ASSUME After(p, q) PROVE Before(Digest(q[m]), Digest(p[m]))
    <3>1. PICK k \in 1..Len(p) :
            /\ \A l \in 1..(k - 1) : l <= Len(q) /\ Digest(p[l]) = Digest(q[l])
            /\ k = Len(q) + 1 \/ (k <= Len(q) /\ Before(Digest(q[k]), Digest(p[k])))
      BY <2>9 DEF After
    <3>2. k <= m
      <4>1. ~(m \in 1..(k - 1))
        BY <2>7, <3>1
      <4> QED
        BY <1>1, <4>1
    <3>3. k \in 1..n /\ Before(Digest(q[k]), Digest(p[k]))
      BY <1>1, <3>1, <3>2
    <3>4. CompareIdentifier(p[k], q[k]) > 0
      BY <1>3, <3>3
    <3>5. k \in D
      BY <3>3, <3>4
    <3> QED
      BY <1>1, <2>1, <2>2, <3>2, <3>3, <3>5
  <2> QED
    BY <2>6, <2>8, <2>9
<1> QED
  BY <1>4, <1>5

-----------------------------------------------------------------------------
(* Strings and their tokens *)

\* The three numbers of a version, and the token its tokens end with.
Core(v) == Parsed(v).core
Finish(v) == IF v.pre = <<>> THEN <<3, 0>> ELSE <<0, 0>>

\* Concatenation, place by place.
LEMMA Joined ==
  ASSUME NEW S, NEW s \in Seq(S), NEW t \in Seq(S)
  PROVE  /\ s \o t \in Seq(S) /\ Len(s \o t) = Len(s) + Len(t)
         /\ \A k \in 1..Len(s) : (s \o t)[k] = s[k]
         /\ \A k \in 1..Len(t) : (s \o t)[k + Len(s)] = t[k]
<1>1. s \o t \in Seq(S) /\ Len(s \o t) = Len(s) + Len(t)
  OBVIOUS
<1>2. \A k \in 1..Len(s) : (s \o t)[k] = s[k]
  OBVIOUS
<1>3. \A k \in 1..Len(t) : (s \o t)[k + Len(s)] = t[k]
  OBVIOUS
<1> QED
  BY <1>1, <1>2, <1>3

\* What the regular expression finds in a string.
LEMMA StringParts ==
  ASSUME VersioningAssumption, NEW v \in Strings
  PROVE  /\ v.pre \in Seq(Identifiers) /\ Len(v.pre) \in Nat
         /\ v.pre = <<>> <=> Len(v.pre) = 0
         /\ DOMAIN v.pre = 1..Len(v.pre)
         /\ Core(v) \in [1..3 -> Nat] /\ Parsed(v).pre = v.pre
<1>1. /\ v.core = <<>> \/ v.core \in Upto(3, Numbers)
      /\ v.pre = <<>> \/ v.pre \in Upto(MaxPre, Identifiers)
  BY DEF Strings
<1>2. ASSUME NEW S, NEW n \in Nat, NEW s \in Upto(n, S) PROVE s \in Seq(S)
  <2>1. PICK k \in 0..n : s \in [1..k -> S]
    BY DEF Upto
  <2> QED
    BY <2>1
<1>3. v.pre \in Seq(Identifiers)
  <2>1. ASSUME v.pre \in Upto(MaxPre, Identifiers) PROVE v.pre \in Seq(Identifiers)
    <3>1. MaxPre \in Nat
      BY DEF VersioningAssumption
    <3> QED
      BY <1>2, <2>1, <3>1
  <2>2. ASSUME v.pre = <<>> PROVE v.pre \in Seq(Identifiers)
    BY <2>2, EmptySeq
  <2> QED
    BY <1>1, <2>1, <2>2
<1>4. v.core \in Seq(Numbers)
  <2>1. ASSUME v.core \in Upto(3, Numbers) PROVE v.core \in Seq(Numbers)
    <3>1. 3 \in Nat
      OBVIOUS
    <3> QED
      BY <1>2, <2>1, <3>1
  <2>2. ASSUME v.core = <<>> PROVE v.core \in Seq(Numbers)
    BY <2>2, EmptySeq
  <2> QED
    BY <1>1, <2>1, <2>2
<1>5. \A k \in 1..3 : (IF k <= Len(v.core) THEN v.core[k] ELSE 0) \in Nat
  <2>1. \A k \in 1..Len(v.core) : v.core[k] \in Nat
    <3>1. \A k \in 1..Len(v.core) : v.core[k] \in Numbers
      BY <1>4, ElementOfSeq
    <3> QED
      BY <3>1 DEF VersioningAssumption
  <2>2. Len(v.core) \in Nat
    BY <1>4
  <2>3. ASSUME NEW k \in 1..3, k <= Len(v.core) PROVE v.core[k] \in Nat
    BY <2>1, <2>2, <2>3
  <2> QED
    BY <2>3
<1>6. Core(v) \in [1..3 -> Nat] /\ Parsed(v).pre = v.pre
  BY <1>5 DEF Core, Parsed
<1> QED
  BY <1>3, <1>6

\* The tokens of a version, place by place.
LEMMA TokensAre ==
  ASSUME VersioningAssumption, NEW v \in Strings
  PROVE  /\ DOMAIN Tokens(v) = 1..(Len(v.pre) + 4)
         /\ \A k \in 1..3 : Tokens(v)[k] = <<1, Core(v)[k]>>
         /\ \A k \in 1..Len(v.pre) : Tokens(v)[k + 3] = Digest(v.pre[k])
         /\ Tokens(v)[Len(v.pre) + 4] = Finish(v)
<1> DEFINE A == [k \in 1..3 |-> <<1, Core(v)[k]>>]
           B == [k \in DOMAIN v.pre |-> Digest(v.pre[k])]
           C == <<Finish(v)>>
           X == Nat \X Nat
<1>1. Tokens(v) = (A \o B) \o C
  BY DEF Tokens, Core, Digest, Finish
<1>2. v.pre \in Seq(Identifiers) /\ DOMAIN v.pre = 1..Len(v.pre) /\ Core(v) \in [1..3 -> Nat]
  BY StringParts
<1>3. A \in Seq(X) /\ Len(A) = 3 /\ \A k \in 1..3 : A[k] = <<1, Core(v)[k]>>
  BY <1>2
<1>4. \A k \in 1..Len(v.pre) : Digest(v.pre[k]) \in X
  <2>1. \A k \in 1..Len(v.pre) : v.pre[k] \in Identifiers
    BY <1>2
  <2> QED
    BY <2>1 DEF Digest, Identifiers, VersioningAssumption
<1>5. /\ B \in Seq(X) /\ Len(B) = Len(v.pre)
      /\ \A k \in 1..Len(v.pre) : B[k] = Digest(v.pre[k])
  BY <1>2, <1>4
<1>6. C \in Seq(X) /\ Len(C) = 1 /\ C[1] = Finish(v)
  BY DEF Finish
<1> HIDE DEF A, B, C, X
<1>7. /\ A \o B \in Seq(X) /\ Len(A \o B) = 3 + Len(v.pre)
      /\ \A k \in 1..3 : (A \o B)[k] = A[k]
      /\ \A k \in 1..Len(v.pre) : (A \o B)[k + 3] = B[k]
  <2>1. /\ A \o B \in Seq(X) /\ Len(A \o B) = Len(A) + Len(B)
        /\ \A k \in 1..Len(A) : (A \o B)[k] = A[k]
        /\ \A k \in 1..Len(B) : (A \o B)[k + Len(A)] = B[k]
    <3>1. A \in Seq(X) /\ B \in Seq(X)
      BY <1>3, <1>5
    <3> QED
      BY <3>1, Joined
  <2> QED
    BY <1>3, <1>5, <2>1
<1>8. /\ Len((A \o B) \o C) = Len(v.pre) + 4
      /\ DOMAIN ((A \o B) \o C) = 1..(Len(v.pre) + 4)
      /\ \A k \in 1..(3 + Len(v.pre)) : ((A \o B) \o C)[k] = (A \o B)[k]
      /\ ((A \o B) \o C)[Len(v.pre) + 4] = C[1]
  <2> DEFINE D == A \o B
  <2>0. D \in Seq(X) /\ Len(D) = 3 + Len(v.pre) /\ Len(v.pre) \in Nat
    BY <1>7, StringParts
  <2> HIDE DEF D
  <2>1. /\ D \o C \in Seq(X) /\ Len(D \o C) = Len(D) + Len(C)
        /\ \A k \in 1..Len(D) : (D \o C)[k] = D[k]
        /\ \A k \in 1..Len(C) : (D \o C)[k + Len(D)] = C[k]
    BY <1>6, <2>0, Joined
  <2>2. (D \o C)[Len(v.pre) + 4] = C[1]
    <3>1. 1 \in 1..Len(C) /\ 1 + Len(D) = Len(v.pre) + 4
      BY <1>6, <2>0
    <3> QED
      BY <2>1, <3>1
  <2>3. Len(D \o C) = Len(v.pre) + 4 /\ DOMAIN (D \o C) = 1..(Len(v.pre) + 4)
    BY <1>6, <2>0, <2>1, LenProperties
  <2> QED
    BY <2>0, <2>1, <2>2, <2>3 DEF D
<1>9. \A k \in 1..3 : Tokens(v)[k] = <<1, Core(v)[k]>>
  <2>1. \A k \in 1..3 : k \in 1..(3 + Len(v.pre))
    BY <1>2
  <2> QED
    BY <1>1, <1>3, <1>7, <1>8, <2>1
<1>10. \A k \in 1..Len(v.pre) : Tokens(v)[k + 3] = Digest(v.pre[k])
  <2>1. \A k \in 1..Len(v.pre) : k + 3 \in 1..(3 + Len(v.pre))
    BY <1>2
  <2> QED
    BY <1>1, <1>5, <1>7, <1>8, <2>1
<1> QED
  BY <1>1, <1>6, <1>8, <1>9, <1>10

TokenSet == Nat \X Nat

\* The end of a prerelease comes before any identifier, the end of a release
\* after it.
LEMMA DigestToken ==
  ASSUME VersioningAssumption, NEW a \in Identifiers
  PROVE  /\ Digest(a) \in TokenSet
         /\ ~Before(Digest(a), <<0, 0>>) /\ Before(<<0, 0>>, Digest(a))
         /\ Before(Digest(a), <<3, 0>>) /\ ~Before(<<3, 0>>, Digest(a))
         /\ Digest(a) # <<0, 0>> /\ Digest(a) # <<3, 0>>
<1>1. a.value \in Nat /\ a.digits \in BOOLEAN
  BY DEF Identifiers, VersioningAssumption
<1> QED
  BY <1>1 DEF Digest, Before, TokenSet

-----------------------------------------------------------------------------
(* Precedence *)

\* v is newer than w as the code decides it.
LEMMA NewerCases ==
  ASSUME VersioningAssumption, NEW v \in Strings, NEW w \in Strings
  PROVE  IsNewer(v, w) <=>
           \/ \E k \in 1..3 : /\ Core(v)[k] > Core(w)[k]
                              /\ \A l \in 1..(k - 1) : Core(v)[l] = Core(w)[l]
           \/ /\ Core(v) = Core(w)
              /\ \/ v.pre = <<>> /\ w.pre # <<>>
                 \/ v.pre # <<>> /\ w.pre # <<>> /\ After(v.pre, w.pre)
<1> DEFINE c == CompareCore(Core(v), Core(w))
<1>1. /\ Core(v) \in [1..3 -> Nat] /\ Core(w) \in [1..3 -> Nat]
      /\ Parsed(v).pre = v.pre /\ Parsed(w).pre = w.pre
      /\ v.pre \in Seq(Identifiers) /\ w.pre \in Seq(Identifiers)
  BY StringParts
<1>2. /\ c > 0 <=> \E k \in 1..3 : /\ Core(v)[k] > Core(w)[k]
                                   /\ \A l \in 1..(k - 1) : Core(v)[l] = Core(w)[l]
      /\ c = 0 <=> Core(v) = Core(w)
  BY <1>1, CoresCompare
<1>3. ComparePre(v.pre, w.pre) > 0 <=> After(v.pre, w.pre)
  BY <1>1, PresCompare
<1>4. CompareVersions(v, w) =
        IF c # 0 THEN c
        ELSE IF v.pre = <<>> \/ w.pre = <<>>
        THEN (IF v.pre = <<>> THEN 1 ELSE 0) - (IF w.pre = <<>> THEN 1 ELSE 0)
        ELSE ComparePre(v.pre, w.pre)
  BY <1>1 DEF CompareVersions, Core
<1> HIDE DEF c
<1>5. CASE c # 0
  <2>1. ~(Core(v) = Core(w)) /\ (IsNewer(v, w) <=> c > 0)
    BY <1>2, <1>4, <1>5 DEF IsNewer
  <2> QED
    BY <1>2, <2>1
<1>6. CASE c = 0
  <2>1. Core(v) = Core(w) /\ ~(c > 0)
    BY <1>2, <1>6
  <2>2. IsNewer(v, w) <=> \/ v.pre = <<>> /\ w.pre # <<>>
                          \/ v.pre # <<>> /\ w.pre # <<>> /\ After(v.pre, w.pre)
    <3>1. CASE v.pre = <<>> \/ w.pre = <<>>
      BY <1>4, <1>6, <3>1 DEF IsNewer
    <3>2. CASE v.pre # <<>> /\ w.pre # <<>>
      BY <1>3, <1>4, <1>6, <3>2 DEF IsNewer
    <3> QED
      BY <3>1, <3>2
  <2> QED
    BY <1>2, <2>1, <2>2
<1> QED
  BY <1>5, <1>6

\* The comparison step by step is the published rule.
LEMMA NewerPrecedes ==
  ASSUME VersioningAssumption, NEW v \in Strings, NEW w \in Strings
  PROVE  IsNewer(v, w) <=> Precedes(w, v)
<1> DEFINE s == Tokens(w)
           t == Tokens(v)
           n == Len(v.pre)
           m == Len(w.pre)
<1>1. /\ n \in Nat /\ m \in Nat
      /\ v.pre = <<>> <=> n = 0
      /\ w.pre = <<>> <=> m = 0
      /\ Core(v) \in [1..3 -> Nat] /\ Core(w) \in [1..3 -> Nat]
  BY StringParts
<1>2. /\ DOMAIN s = 1..(m + 4) /\ DOMAIN t = 1..(n + 4)
      /\ \A k \in 1..3 : s[k] = <<1, Core(w)[k]>> /\ t[k] = <<1, Core(v)[k]>>
      /\ \A k \in 1..m : s[k + 3] = Digest(w.pre[k])
      /\ \A k \in 1..n : t[k + 3] = Digest(v.pre[k])
      /\ s[m + 4] = Finish(w) /\ t[n + 4] = Finish(v)
  BY TokensAre
<1>3. /\ \A k \in 1..n : v.pre[k] \in Identifiers
      /\ \A k \in 1..m : w.pre[k] \in Identifiers
  BY StringParts, ElementOfSeq
<1>4. /\ \A k \in 1..n : /\ ~Before(Digest(v.pre[k]), <<0, 0>>)
                         /\ Before(<<0, 0>>, Digest(v.pre[k]))
                         /\ ~Before(<<3, 0>>, Digest(v.pre[k]))
                         /\ Digest(v.pre[k]) # <<0, 0>>
      /\ \A k \in 1..m : /\ ~Before(Digest(w.pre[k]), <<0, 0>>)
                         /\ Before(Digest(w.pre[k]), <<3, 0>>)
                         /\ Digest(w.pre[k]) # <<0, 0>>
  BY <1>3, DigestToken
<1>5. Precedes(w, v) <=>
        \E k \in 1..(m + 4) : /\ k <= n + 4 /\ Before(s[k], t[k])
                              /\ \A l \in 1..(k - 1) : s[l] = t[l]
  <2>1. Precedes(w, v) <=>
          \E k \in DOMAIN s \cap DOMAIN t : /\ Before(s[k], t[k])
                                            /\ \A l \in 1..(k - 1) : s[l] = t[l]
    BY DEF Precedes
  <2> HIDE DEF s, t, n, m
  <2>2. \A k : k \in DOMAIN s \cap DOMAIN t <=> k \in 1..(m + 4) /\ k <= n + 4
    BY <1>1, <1>2
  <2> QED
    BY <2>1, <2>2
<1> HIDE DEF s, t, n, m
<1>6. ASSUME NEW k \in 1..3, Core(v)[k] > Core(w)[k],
             \A l \in 1..(k - 1) : Core(v)[l] = Core(w)[l]
      PROVE  Precedes(w, v)
  <2>1. s[k] = <<1, Core(w)[k]>> /\ t[k] = <<1, Core(v)[k]>>
    BY <1>2
  <2>2. Before(s[k], t[k])
    BY <1>1, <1>6, <2>1 DEF Before
  <2>3. \A l \in 1..(k - 1) : s[l] = t[l]
    BY <1>2, <1>6
  <2>4. k \in 1..(m + 4) /\ k <= n + 4
    BY <1>1
  <2> QED
    BY <1>5, <2>2, <2>3, <2>4
<1>7. ASSUME Core(v) = Core(w), n = 0, m # 0
      PROVE  Precedes(w, v)
  <2>1. t[4] = <<3, 0>>
    BY <1>1, <1>2, <1>7 DEF Finish
  <2>2. 1 \in 1..m /\ s[4] = Digest(w.pre[1])
    <3>1. 1 \in 1..m /\ 1 + 3 = 4
      BY <1>1, <1>7
    <3> QED
      BY <1>2, <3>1
  <2>3. Before(s[4], t[4])
    BY <1>4, <2>1, <2>2
  <2>4. \A l \in 1..(4 - 1) : s[l] = t[l]
    BY <1>2, <1>7
  <2>5. 4 \in 1..(m + 4) /\ 4 <= n + 4
    BY <1>1
  <2> QED
    BY <1>5, <2>3, <2>4, <2>5
<1>8. ASSUME Core(v) = Core(w), n # 0, m # 0, After(v.pre, w.pre)
      PROVE  Precedes(w, v)
  <2>1. PICK k \in 1..n :
          /\ \A l \in 1..(k - 1) : l <= m /\ Digest(v.pre[l]) = Digest(w.pre[l])
          /\ k = m + 1 \/ (k <= m /\ Before(Digest(w.pre[k]), Digest(v.pre[k])))
    BY <1>8 DEF After, n, m
  <2>2. k + 3 \in 1..(m + 4) /\ k + 3 <= n + 4
    BY <1>1, <2>1
  <2>3. ASSUME NEW l \in 1..(k + 3 - 1) PROVE s[l] = t[l]
    <3>1. CASE l \in 1..3
      BY <1>2, <1>8, <3>1
    <3>2. CASE ~(l \in 1..3)
      <4>1. PICK j \in 1..(k - 1) : l = j + 3
        <5>1. l - 3 \in 1..(k - 1) /\ l = (l - 3) + 3
          BY <1>1, <3>2
        <5> QED
          BY <5>1
      <4>2. j \in 1..m /\ j \in 1..n
        BY <1>1, <2>1
      <4> QED
        BY <1>2, <2>1, <4>1, <4>2
    <3> QED
      BY <3>1, <3>2
  <2>4. Before(s[k + 3], t[k + 3])
    <3>1. t[k + 3] = Digest(v.pre[k])
      BY <1>2
    <3>2. CASE k = m + 1
      <4>1. k + 3 = m + 4
        BY <1>1, <3>2
      <4>2. s[k + 3] = <<0, 0>>
        BY <1>1, <1>2, <1>8, <4>1 DEF Finish
      <4> QED
        BY <1>4, <3>1, <4>2
    <3>3. CASE k <= m /\ Before(Digest(w.pre[k]), Digest(v.pre[k]))
      <4>1. k \in 1..m
        BY <1>1, <3>3
      <4> QED
        BY <1>2, <3>1, <3>3, <4>1
    <3> QED
      BY <2>1, <3>2, <3>3
  <2> QED
    BY <1>5, <2>2, <2>3, <2>4
<1>9. ASSUME Precedes(w, v)
      PROVE  IsNewer(v, w)
  <2>1. PICK k \in 1..(m + 4) : /\ k <= n + 4 /\ Before(s[k], t[k])
                                /\ \A l \in 1..(k - 1) : s[l] = t[l]
    BY <1>5, <1>9
  <2>2. CASE k \in 1..3
    <3>1. Core(v)[k] > Core(w)[k]
      <4>1. s[k] = <<1, Core(w)[k]>> /\ t[k] = <<1, Core(v)[k]>>
        BY <1>2, <2>2
      <4> QED
        BY <1>1, <2>1, <2>2, <4>1 DEF Before
    <3>2. ASSUME NEW l \in 1..(k - 1) PROVE Core(v)[l] = Core(w)[l]
      <4>1. l \in 1..3 /\ s[l] = t[l]
        BY <2>1, <2>2
      <4>2. <<1, Core(w)[l]>> = <<1, Core(v)[l]>>
        BY <1>2, <4>1
      <4> QED
        BY <4>2
    <3> QED
      BY <2>2, <3>1, <3>2, NewerCases
  <2>3. CASE ~(k \in 1..3)
    <3>1. PICK j \in 1..(m + 1) : k = j + 3 /\ j <= n + 1
      <4>0. k \in Nat /\ k > 3 /\ k <= m + 4 /\ k <= n + 4
        <5>1. k \in Nat /\ k >= 1 /\ k <= m + 4 /\ k <= n + 4
          BY <1>1, <2>1
        <5> QED
          BY <2>3, <5>1
      <4>1. k - 3 \in 1..(m + 1) /\ k = (k - 3) + 3 /\ k - 3 <= n + 1
        BY <1>1, <4>0
      <4> QED
        BY <4>1
    <3>2. Core(v) = Core(w)
      <4>1. ASSUME NEW l \in 1..3 PROVE Core(v)[l] = Core(w)[l]
        <5>1. l \in 1..(k - 1)
          BY <3>1, <1>1
        <5>2. <<1, Core(w)[l]>> = <<1, Core(v)[l]>>
          BY <1>2, <2>1, <5>1
        <5> QED
          BY <5>2
      <4> QED
        BY <1>1, <4>1
    <3>3. \A l \in 1..(j - 1) : l \in 1..m /\ l \in 1..n /\ Digest(v.pre[l]) = Digest(w.pre[l])
      <4>1. ASSUME NEW l \in 1..(j - 1)
            PROVE  l \in 1..m /\ l \in 1..n /\ l + 3 \in 1..(k - 1)
        BY <1>1, <3>1
      <4>2. \A l \in 1..(j - 1) : s[l + 3] = t[l + 3]
        BY <2>1, <4>1
      <4> QED
        BY <1>2, <4>1, <4>2
    <3>4. m # 0
      <4>1. SUFFICES ASSUME m = 0 PROVE FALSE
        OBVIOUS
      <4>2. j = 1 /\ k = 4 /\ k = m + 4
        BY <1>1, <3>1, <4>1
      <4>3. s[k] = <<3, 0>>
        BY <1>1, <1>2, <4>1, <4>2 DEF Finish
      <4>4. CASE n = 0
        <5>1. t[k] = <<3, 0>>
          BY <1>1, <1>2, <4>2, <4>4 DEF Finish
        <5> QED
          BY <2>1, <4>3, <5>1 DEF Before
      <4>5. CASE n # 0
        <5>1. 1 \in 1..n /\ 1 + 3 = k
          BY <1>1, <4>2, <4>5
        <5>2. t[k] = Digest(v.pre[1])
          BY <1>2, <5>1
        <5> QED
          BY <1>4, <2>1, <4>3, <5>1, <5>2
      <4> QED
        BY <4>4, <4>5
    <3>5. CASE n = 0
      BY <1>1, <3>2, <3>4, <3>5, NewerCases
    <3>6. CASE n # 0
      <4>1. j # n + 1
        <5>1. SUFFICES ASSUME j = n + 1 PROVE FALSE
          OBVIOUS
        <5>2. t[k] = <<0, 0>>
          <6>1. k = n + 4
            BY <1>1, <3>1, <5>1
          <6> QED
            BY <1>1, <1>2, <3>6, <6>1 DEF Finish
        <5>3. CASE j <= m
          <6>1. j \in 1..m /\ s[k] = Digest(w.pre[j])
            BY <1>1, <1>2, <3>1, <5>3
          <6> QED
            BY <1>4, <2>1, <5>2, <6>1
        <5>4. CASE j = m + 1
          <6>1. k = m + 4
            BY <1>1, <3>1, <5>4
          <6>2. s[k] = <<0, 0>>
            BY <1>1, <1>2, <3>4, <6>1 DEF Finish
          <6> QED
            BY <2>1, <5>2, <6>2 DEF Before
        <5> QED
          BY <1>1, <5>3, <5>4
      <4>2. j \in 1..n /\ t[k] = Digest(v.pre[j])
        <5>1. j \in 1..n
          BY <1>1, <3>1, <4>1
        <5> QED
          BY <1>2, <3>1, <5>1
      <4>3. \/ j = m + 1
            \/ j <= m /\ Before(Digest(w.pre[j]), Digest(v.pre[j]))
        <5>1. CASE j <= m
          <6>1. j \in 1..m /\ s[k] = Digest(w.pre[j])
            BY <1>1, <1>2, <3>1, <5>1
          <6> QED
            BY <2>1, <4>2, <5>1, <6>1
        <5> QED
          BY <1>1, <5>1
      <4>4. \A l \in 1..(j - 1) : l <= m /\ Digest(v.pre[l]) = Digest(w.pre[l])
        BY <1>1, <3>3
      <4>5. After(v.pre, w.pre)
        BY <4>2, <4>3, <4>4 DEF After, n, m
      <4> QED
        BY <1>1, <3>2, <3>4, <3>6, <4>5, NewerCases
    <3> QED
      BY <3>5, <3>6
  <2> QED
    BY <2>2, <2>3
<1> QED
  BY <1>1, <1>6, <1>7, <1>8, <1>9, NewerCases

\* Precedence is an order: what precedes is transitive and never circular.
LEMMA PrecedesOrder ==
  ASSUME VersioningAssumption,
         NEW u \in Strings, NEW v \in Strings, NEW w \in Strings
  PROVE  /\ ~Precedes(u, u)
         /\ Precedes(u, v) /\ Precedes(v, w) => Precedes(u, w)
<1> DEFINE a == Tokens(u)
           b == Tokens(v)
           c == Tokens(w)
           p == Len(u.pre) + 4
           q == Len(v.pre) + 4
           r == Len(w.pre) + 4
<1>1. ASSUME NEW x \in Strings
      PROVE  /\ DOMAIN Tokens(x) = 1..(Len(x.pre) + 4) /\ Len(x.pre) \in Nat
             /\ \A k \in DOMAIN Tokens(x) : Tokens(x)[k] \in TokenSet
  <2>1. /\ DOMAIN Tokens(x) = 1..(Len(x.pre) + 4)
        /\ \A k \in 1..3 : Tokens(x)[k] = <<1, Core(x)[k]>>
        /\ \A k \in 1..Len(x.pre) : Tokens(x)[k + 3] = Digest(x.pre[k])
        /\ Tokens(x)[Len(x.pre) + 4] = Finish(x)
    BY TokensAre
  <2>2. Len(x.pre) \in Nat /\ x.pre \in Seq(Identifiers) /\ Core(x) \in [1..3 -> Nat]
    BY StringParts
  <2>3. ASSUME NEW k \in 1..3 PROVE Tokens(x)[k] \in TokenSet
    <3>1. Core(x)[k] \in Nat
      BY <2>2
    <3>2. <<1, Core(x)[k]>> \in TokenSet
      BY <3>1 DEF TokenSet
    <3> QED
      BY <2>1, <3>2
  <2>4. ASSUME NEW k \in 1..Len(x.pre) PROVE Tokens(x)[k + 3] \in TokenSet
    <3>1. x.pre[k] \in Identifiers
      BY <2>2, ElementOfSeq
    <3> QED
      BY <2>1, <3>1, DigestToken
  <2>5. Tokens(x)[Len(x.pre) + 4] \in TokenSet
    BY <2>1 DEF Finish, TokenSet
  <2>6. ASSUME NEW k \in 1..(Len(x.pre) + 4) PROVE Tokens(x)[k] \in TokenSet
    <3>1. CASE k \in 1..3
      BY <2>3, <3>1
    <3>2. CASE k = Len(x.pre) + 4
      BY <2>5, <3>2
    <3>3. CASE ~(k \in 1..3) /\ k # Len(x.pre) + 4
      <4>1. k - 3 \in 1..Len(x.pre) /\ (k - 3) + 3 = k
        BY <2>2, <3>3
      <4> QED
        BY <2>4, <4>1
    <3> QED
      BY <3>1, <3>2, <3>3
  <2> QED
    BY <2>1, <2>2, <2>6
<1>2. /\ DOMAIN a = 1..p /\ DOMAIN b = 1..q /\ DOMAIN c = 1..r
      /\ p \in Nat /\ q \in Nat /\ r \in Nat
      /\ \A k \in 1..p : a[k] \in TokenSet
      /\ \A k \in 1..q : b[k] \in TokenSet
      /\ \A k \in 1..r : c[k] \in TokenSet
  BY <1>1
<1>3. ~Precedes(u, u)
  <2>1. \A k \in 1..p : ~Before(a[k], a[k])
    BY <1>2 DEF Before, TokenSet
  <2> QED
    BY <1>2, <2>1 DEF Precedes
<1>4. \A x, y, z \in TokenSet : Before(x, y) /\ Before(y, z) => Before(x, z)
  BY DEF Before, TokenSet
<1>5. ASSUME Precedes(u, v), Precedes(v, w) PROVE Precedes(u, w)
  <2>1. PICK k \in 1..p : k <= q /\ Before(a[k], b[k]) /\ \A l \in 1..(k - 1) : a[l] = b[l]
    BY <1>2, <1>5 DEF Precedes
  <2>2. PICK j \in 1..q : j <= r /\ Before(b[j], c[j]) /\ \A l \in 1..(j - 1) : b[l] = c[l]
    BY <1>2, <1>5 DEF Precedes
  <2> HIDE DEF a, b, c, p, q, r
  <2>3. ASSUME NEW i \in 1..p, i <= r, Before(a[i], c[i]), i <= k, i <= j
        PROVE  Precedes(u, w)
    <3>1. \A l \in 1..(i - 1) : l \in 1..(k - 1) /\ l \in 1..(j - 1)
      BY <1>2, <2>3
    <3>2. \A l \in 1..(i - 1) : a[l] = c[l]
      BY <2>1, <2>2, <3>1
    <3>3. i \in DOMAIN a \cap DOMAIN c
      BY <1>2, <2>3
    <3> QED
      BY <2>3, <3>2, <3>3 DEF Precedes, a, c
  <2>4. CASE k < j
    <3>1. k \in 1..(j - 1) /\ k <= r
      BY <1>2, <2>2, <2>4
    <3>2. Before(a[k], c[k])
      BY <2>1, <2>2, <3>1
    <3> QED
      BY <1>2, <2>3, <2>4, <3>1, <3>2
  <2>5. CASE k = j
    <3>1. a[k] \in TokenSet /\ b[k] \in TokenSet /\ c[k] \in TokenSet
      BY <1>2, <2>1, <2>2, <2>5
    <3>2. Before(a[k], c[k])
      BY <1>4, <2>1, <2>2, <2>5, <3>1
    <3> QED
      BY <1>2, <2>2, <2>3, <2>5, <3>2
  <2>6. CASE j < k
    <3>1. j \in 1..(k - 1) /\ j \in 1..p
      BY <1>2, <2>1, <2>6
    <3>2. Before(a[j], c[j])
      BY <2>1, <2>2, <3>1
    <3> QED
      BY <1>2, <2>2, <2>3, <2>6, <3>1, <3>2
  <2> QED
    BY <1>2, <2>4, <2>5, <2>6
<1> QED
  BY <1>3, <1>5

-----------------------------------------------------------------------------
(* What is offered decides what is installed *)

\* is_newer_version is a strict order on all versions, malformed ones too: it
\* never puts a version above itself, and three versions never go round in a
\* circle, whatever prereleases and missing numbers they have.
THEOREM NewerIsStrictOrder ==
  ASSUME VersioningAssumption,
         NEW u \in Strings, NEW v \in Strings, NEW w \in Strings
  PROVE  /\ ~IsNewer(u, u)
         /\ IsNewer(u, v) /\ IsNewer(v, w) => IsNewer(u, w)
<1>1. /\ IsNewer(u, u) <=> Precedes(u, u)
      /\ IsNewer(u, v) <=> Precedes(v, u)
      /\ IsNewer(v, w) <=> Precedes(w, v)
      /\ IsNewer(u, w) <=> Precedes(w, u)
  BY NewerPrecedes
<1> QED
  BY <1>1, PrecedesOrder

\* The inductive invariant: whatever makes an update available, the flag or
\* the manifest, came from a version that succeeds the current one.
Grounded ==
  /\ current \in Strings
  /\ offered \in Releases \cup {NoRelease}
  /\ mandatory \in BOOLEAN /\ outdated \in BOOLEAN
  /\ mandatory => outdated
  /\ offered # NoRelease /\ Precedes(current, offered) => outdated

LEMMA GroundedAlways == UpgradeSpec => []Grounded
<1>1. Installed => Grounded
  BY DEF Installed, Grounded
<1>2. Grounded /\ [Upgrades]_versionVars => Grounded'
  <2> SUFFICES ASSUME Grounded, [Upgrades]_versionVars PROVE Grounded'
    OBVIOUS
  <2>1. CASE UNCHANGED versionVars
    BY <2>1 DEF Grounded, versionVars
  <2>2. ASSUME NEW v \in Releases, Announce(v) PROVE Grounded'
    <3>1. IsNewer(v, current) <=> Precedes(current, v)
      BY NewerPrecedes, VersioningAssumption, ReleasesAssumption DEF Grounded
    <3>2. IsNewer(v, current) \in BOOLEAN
      BY DEF IsNewer
    <3> QED
      BY <2>2, <3>1, <3>2 DEF Grounded, Announce, Heard
  <2>3. ASSUME NEW v \in Releases, ReadManifest(v) PROVE Grounded'
    <3>1. IsNewer(v, current) <=> Precedes(current, v)
      BY NewerPrecedes, VersioningAssumption, ReleasesAssumption DEF Grounded
    <3> QED
      BY <2>3, <3>1 DEF Grounded, ReadManifest, Heard
  <2>4. CASE ChangeChannel
    BY <2>4 DEF Grounded, ChangeChannel
  <2>5. CASE Install
    BY <2>5, ReleasesAssumption DEF Grounded, Install
  <2> QED
    BY <2>1, <2>2, <2>3, <2>4, <2>5 DEF Upgrades
<1> QED
  BY <1>1, <1>2, PTL DEF UpgradeSpec

\* Nothing is installed over a version that no announcement and no manifest
\* has succeeded, whatever numbers and prereleases are published.
THEOREM UpToDateStaysAlways == UpgradeSpec => UpToDateStays
<1>1. Grounded /\ Install => outdated
  <2> SUFFICES ASSUME Grounded, Install PROVE outdated
    OBVIOUS
  <2>1. offered # NoRelease /\ (mandatory \/ IsNewer(offered, current))
    BY DEF Install, UpdateAvailable
  <2>2. IsNewer(offered, current) <=> Precedes(current, offered)
    BY <2>1, NewerPrecedes, VersioningAssumption, ReleasesAssumption DEF Grounded
  <2> QED
    BY <2>1, <2>2 DEF Grounded
<1>2. Grounded /\ [Upgrades]_versionVars => [Install => outdated]_versionVars
  BY <1>1
<1> QED
  BY <1>2, GroundedAlways, PTL DEF UpgradeSpec, UpToDateStays

\* compare_versions orders any two versions, with any numbers and any number
\* of identifiers, by the rule they are published under.
THEOREM MatchesPrecedenceAlways == UpgradeSpec => []MatchesPrecedence
<1>1. Grounded => MatchesPrecedence
  BY NewerPrecedes, VersioningAssumption DEF Grounded, MatchesPrecedence
<1> QED
  BY <1>1, GroundedAlways, PTL
=============================================================================
