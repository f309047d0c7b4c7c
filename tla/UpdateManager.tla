--------------------------- MODULE UpdateManager ---------------------------
(***************************************************************************)
(* How the Gateway finds, downloads and stages an update of itself         *)
(* (update_manager.py).  One worker thread runs the update sequence; the   *)
(* web threads, the remote console and the main loop call check() at any   *)
(* time; the channel may be switched and the backend's hello_ack may       *)
(* announce a version meanwhile.  Only single assignments are locked, and  *)
(* "phase" is both what the threads display and how the worker learns      *)
(* whether its own last step failed.                                       *)
(*                                                                         *)
(* A behaviour is one main.run(): it ends when the main loop leaves.       *)
(* Versions are numbers in their order; 0 is "no version".                 *)
(***************************************************************************)
EXTENDS Naturals

CONSTANTS
  Versions,        \* of all releases
  Current,         \* __version__
  Channels,
  Checkers,        \* threads other than the worker that call check()
  MaxStarts,       \* bound of the model: update sequences started, 0 for none
  MaxSwitches,     \* bound of the model: channel switches
  MaxRestarts      \* bound of the model: remote restart commands

ASSUME UpdateAssumption ==
  /\ Versions \subseteq Nat \ {0} /\ Current \in Versions
  /\ "worker" \notin Checkers
  /\ {MaxStarts, MaxSwitches, MaxRestarts} \subseteq Nat

VARIABLES
  published,     \* external: channel -> version in its manifest
  allowed,       \* external: channel -> version the backend announces
  acks,          \* hello_acks under way, by the channel their hello named
  channel, manifest, server_latest, required, phase, busy,
  checks,        \* thread -> where it is in check(), and the channel it asked
  worker,        \* where the worker is; again marks apply's own download
  fetching,      \* the version being downloaded
  zip,           \* version in the downloaded zip
  slot,          \* what the inactive slot holds: a version, 0 nothing usable
  pending,       \* target version of the staged switch
  restart,       \* restart_event and soft_restart_requested
  ended,         \* how run() returned
  raced,         \* history: see Raced
  starts, switches, restarts

vars == <<published, allowed, acks, channel, manifest, server_latest,
          required, phase, busy, checks, worker, fetching, zip, slot, pending,
          restart, ended, raced, starts, switches, restarts>>

external == <<published, allowed, acks>>
known == <<manifest, server_latest, required>>
files == <<zip, slot, pending>>
bounds == <<starts, switches, restarts>>

Threads == Checkers \cup {"worker"}
NotChecking == [at |-> "idle", channel |-> "none"]
Phases == {"idle", "checking", "checked", "downloading", "downloaded",
           "staging", "staged", "switch_pending", "restarting", "error"}

Newer(v) == v > Current
Running == ended = "no"

\* update_available of state()
Available == required \/ Newer(manifest)

\* Another thread writes the phase, the manifest or the channel under a
\* running worker.
Raced(other) == raced \/ (other /\ busy)

\* The test at the top of check().
Refused == busy /\ phase \in {"downloading", "staging", "switch_pending"}

-----------------------------------------------------------------------------
(* check(), as run by thread k; then is where the worker goes on *)

Begun(k) == checks' = [checks EXCEPT ![k] = [at |-> "fetch", channel |-> channel]]

CheckBegin(k) ==
  /\ Running /\ k \in Checkers /\ checks[k].at = "idle"
  /\ ~Refused
  /\ Begun(k)
  /\ UNCHANGED <<external, channel, known, phase, busy, worker, fetching,
                 files, restart, ended, raced, bounds>>

\* The manifest arrives; what is not newer leaves an older verdict alone.
ManifestArrives(k) ==
  LET v == published[checks[k].channel] IN
  /\ Running /\ checks[k].at = "fetch"
  /\ manifest' = v
  /\ server_latest' = IF Newer(v) THEN v ELSE server_latest
  /\ required' = (required \/ Newer(v))
  /\ checks' = [checks EXCEPT ![k].at = "notes"]
  /\ raced' = Raced(k # "worker")
  /\ UNCHANGED <<external, channel, phase, busy, worker, fetching, files,
                 restart, ended, bounds>>

Resumed == [worker EXCEPT !.at = IF @ = "checking" THEN "decide" ELSE "read"]

\* It ends with the release notes (fetched or not), or in an error at once.
CheckEnds(k) ==
  /\ Running
  /\ \/ checks[k].at = "notes" /\ phase' = "checked"
     \/ checks[k].at = "fetch" /\ phase' = "error"
  /\ checks' = [checks EXCEPT ![k] = NotChecking]
  /\ worker' = IF k = "worker" THEN Resumed ELSE worker
  /\ raced' = Raced(k # "worker")
  /\ UNCHANGED <<external, channel, known, busy, fetching, files, restart,
                 ended, bounds>>

-----------------------------------------------------------------------------
(* The worker: start_update, _run_update_sequence *)

At(place) == Running /\ worker.at = place
Goto(place) == worker' = [worker EXCEPT !.at = place]

StartUpdate ==
  /\ At("off")
  /\ MaxStarts = 0 \/ starts < MaxStarts
  /\ starts' = IF MaxStarts = 0 THEN 0 ELSE starts + 1
  /\ busy' = TRUE
  /\ phase' = "checking"
  /\ worker' = [at |-> "check", again |-> FALSE]
  /\ raced' = FALSE
  /\ UNCHANGED <<external, channel, known, checks, fetching, files, restart,
                 ended, switches, restarts>>

\* A check of the worker's own: first of all, or when download() finds no
\* manifest.
WorkerChecks ==
  /\ \/ At("check")
     \/ (At("download") /\ manifest = 0)
  /\ IF Refused THEN Goto(IF At("check") THEN "decide" ELSE "read") /\ UNCHANGED checks
     ELSE Goto(IF At("check") THEN "checking" ELSE "rechecking") /\ Begun("worker")
  /\ UNCHANGED <<external, channel, known, phase, busy, fetching, files,
                 restart, ended, raced, bounds>>

EndSequenceBusy ==                         \* fault: busy not reset
  UNCHANGED busy /\ worker' = [at |-> "off", again |-> FALSE]
EndSequence == busy' = FALSE /\ worker' = [at |-> "off", again |-> FALSE]

Decide ==
  /\ At("decide")
  /\ IF Available THEN Goto("download") /\ UNCHANGED <<phase, busy>>
     ELSE phase' = "checked" /\ EndSequence
  /\ UNCHANGED <<external, channel, known, checks, fetching, files, restart,
                 ended, raced, bounds>>

AfterDownload(gotZip) ==
  Goto(IF ~worker.again THEN "downloaded" ELSE IF gotZip THEN "apply" ELSE "applied")

Download ==
  /\ At("read") \/ (At("download") /\ manifest # 0)
  /\ IF manifest = 0
     THEN phase' = "error" /\ AfterDownload(zip # 0) /\ UNCHANGED fetching
     ELSE phase' = "downloading" /\ fetching' = manifest /\ Goto("downloading")
  /\ UNCHANGED <<external, channel, known, busy, checks, files, restart,
                 ended, raced, bounds>>

\* A failed download, its hash included, leaves the zip that was there.
DownloadEnds ==
  /\ At("downloading")
  /\ \/ zip' = fetching /\ phase' = "downloaded" /\ AfterDownload(TRUE)
     \/ UNCHANGED zip /\ phase' = "error" /\ AfterDownload(zip # 0)
  /\ UNCHANGED <<external, channel, known, busy, checks, fetching, slot,
                 pending, restart, ended, raced, bounds>>

\* The worker's only way to learn that its last step failed.
FailedNever == FALSE                                \* fault: phase not tested
Failed == phase = "error"

TestPhase ==
  /\ At("downloaded") \/ At("applied")
  /\ IF Failed THEN EndSequence
     ELSE /\ Goto(IF At("downloaded") THEN "apply" ELSE "stage")
          /\ UNCHANGED busy
  /\ UNCHANGED <<external, channel, known, phase, checks, fetching, files,
                 restart, ended, raced, bounds>>

Apply ==
  /\ At("apply")
  /\ IF zip = 0
     THEN worker' = [at |-> "download", again |-> TRUE] /\ UNCHANGED phase
     ELSE Goto("copying") /\ phase' = "staging"
  /\ UNCHANGED <<external, channel, known, busy, checks, fetching, files,
                 restart, ended, raced, bounds>>

\* A failure may leave the slot as it was, or erased and half copied.
CopyEnds ==
  /\ At("copying")
  /\ Goto("applied")
  /\ \/ slot' = zip /\ phase' = "staged"
     \/ slot' \in {slot, 0} /\ phase' = "error"
  /\ UNCHANGED <<external, channel, known, busy, checks, fetching, zip,
                 pending, restart, ended, raced, bounds>>

\* _stage_switch; its callback ends the main loop.
StageSwitch ==
  /\ At("stage")
  /\ pending' = IF manifest # 0 THEN manifest ELSE server_latest
  /\ phase' = "switch_pending"
  /\ restart' = [restart EXCEPT !.asked = TRUE]
  /\ EndSequence
  /\ UNCHANGED <<external, channel, known, checks, fetching, zip, slot,
                 ended, raced, bounds>>

-----------------------------------------------------------------------------
(* The other callers *)

\* set_channel (and the hello that announces it, lost if not connected).
SetChannel(ch) ==
  /\ Running /\ switches < MaxSwitches /\ ch # channel
  /\ switches' = switches + 1
  /\ channel' = ch
  /\ IF busy THEN UNCHANGED known
     ELSE manifest' = 0 /\ server_latest' = 0 /\ required' = FALSE
  /\ acks' \in {acks, acks \cup {ch}}
  /\ raced' = Raced(TRUE)
  /\ UNCHANGED <<published, allowed, phase, busy, checks, worker, fetching,
                 files, restart, ended, starts, restarts>>

Connect ==
  /\ Running
  /\ acks' = acks \cup {channel}
  /\ UNCHANGED <<published, allowed, channel, known, phase, busy, checks,
                 worker, fetching, files, restart, ended, raced, bounds>>

\* set_server_latest_version
HelloAck(ch) ==
  /\ Running /\ ch \in acks
  /\ acks' = acks \ {ch}
  /\ server_latest' = allowed[ch]
  /\ required' = Newer(allowed[ch])
  /\ UNCHANGED <<published, allowed, channel, manifest, phase, busy, checks,
                 worker, fetching, files, restart, ended, raced, bounds>>

\* restart(), one second after the reply to the remote command.
Restart ==
  /\ Running /\ restarts < MaxRestarts
  /\ restarts' = restarts + 1
  /\ restart' = [asked |-> TRUE, soft |-> pending = 0]
  /\ phase' = IF pending # 0 THEN "switch_pending" ELSE "restarting"
  /\ raced' = Raced(TRUE)
  /\ UNCHANGED <<external, channel, known, busy, checks, worker, fetching,
                 files, ended, starts, switches>>

\* The main loop notices restart_event, and run() returns.
RunEnds ==
  /\ Running /\ restart.asked
  /\ ended' = IF restart.soft THEN "rerun" ELSE "exit"
  /\ UNCHANGED <<external, channel, known, phase, busy, checks, worker,
                 fetching, files, restart, raced, bounds>>

\* External: a release reaches the manifest after the backend announced it.
Publish(ch) ==
  /\ Running /\ published[ch] < allowed[ch]
  /\ published' = [published EXCEPT ![ch] = allowed[ch]]
  /\ UNCHANGED <<allowed, acks, channel, known, phase, busy, checks, worker,
                 fetching, files, restart, ended, raced, bounds>>

-----------------------------------------------------------------------------
Init ==
  /\ published \in [Channels -> Versions]
  /\ allowed \in [Channels -> Versions]
  /\ acks = {}
  /\ channel \in Channels
  /\ manifest = 0 /\ server_latest = 0 /\ required = FALSE
  /\ phase = "idle" /\ busy = FALSE
  /\ checks = [k \in Threads |-> NotChecking]
  /\ worker = [at |-> "off", again |-> FALSE]
  /\ fetching = 0
  /\ zip = 0 /\ slot = 0 /\ pending = 0
  /\ restart = [asked |-> FALSE, soft |-> FALSE]
  /\ ended = "no"
  /\ raced = FALSE
  /\ starts = 0 /\ switches = 0 /\ restarts = 0

Worker ==
  \/ WorkerChecks \/ Decide \/ Download \/ DownloadEnds \/ TestPhase
  \/ Apply \/ CopyEnds \/ StageSwitch
  \/ ManifestArrives("worker") \/ CheckEnds("worker")

Next ==
  \/ StartUpdate
  \/ Worker
  \/ \E k \in Checkers : CheckBegin(k) \/ ManifestArrives(k) \/ CheckEnds(k)
  \/ \E ch \in Channels : SetChannel(ch) \/ HelloAck(ch) \/ Publish(ch)
  \/ Connect
  \/ Restart
  \/ RunEnds

Spec == Init /\ [][Next]_vars

\* Every transfer has a timeout, so the worker goes on; so does the main loop.
FairSpec == Spec /\ WF_vars(Worker) /\ WF_vars(RunEnds)

-----------------------------------------------------------------------------
(* Properties *)

TypeOK ==
  /\ published \in [Channels -> Versions] /\ allowed \in [Channels -> Versions]
  /\ acks \subseteq Channels /\ channel \in Channels
  /\ {manifest, server_latest, fetching, zip, slot, pending}
       \subseteq Versions \cup {0}
  /\ required \in BOOLEAN /\ phase \in Phases
  /\ checks \in [Threads -> [at : {"idle", "fetch", "notes"},
                             channel : Channels \cup {"none"}]]
  /\ worker \in [at : {"off", "check", "checking", "decide", "download",
                       "rechecking", "read", "downloading", "downloaded",
                       "apply", "copying", "applied", "stage"},
                 again : BOOLEAN]
  /\ busy = (worker.at # "off")
  /\ restart \in [asked : BOOLEAN, soft : BOOLEAN]
  /\ ended \in {"no", "exit", "rerun"} /\ raced \in BOOLEAN
  /\ starts \in 0..MaxStarts /\ switches \in 0..MaxSwitches
  /\ restarts \in 0..MaxRestarts

\* What is staged is what was just downloaded, verified and copied in whole,
\* and the target version the new slot must report is that of its content,
\* unless another thread's check, restart or channel switch came in between.
StagedWhole ==
  [][pending' # pending /\ ~raced => slot # 0 /\ slot = fetching /\ pending' = slot]_vars

\* An update sequence ends, whichever of its steps fails or whatever the
\* other threads do to the phase; until then no other could be started.
SequenceEnds == busy ~> ~busy \/ ~Running

-----------------------------------------------------------------------------
(* Statements of the documents that the code does not keep; README.md,     *)
(* section 5, says how each fails.                                         *)

\* update_manager.py: "a beta "required update" must not survive a switch
\* back to stable": what is required is newer on the channel in use.
RequiredByChannel ==
  required => Newer(published[channel]) \/ Newer(allowed[channel])

\* update_manager.py: "Leaving beta never downgrades -- an older stable is
\* just not newer": on a channel that offers only older versions, none of
\* them is staged, not even by a sequence nobody interferes with.
NeverDowngrades ==
  [][pending' # pending /\ ~raced /\ published[channel] < Current
       /\ allowed[channel] < Current => slot \notin 1..(Current - 1)]_vars

\* README.md on an attempt with the manifest "not newer yet": it "leaves the
\* Gateway running", so nothing that is not newer is ever staged.
NotNewerLeavesRunning == [][pending' # pending => slot # Current]_vars

\* README.md: "downloads the source zip, verifies SHA-256, and stages the
\* new version into the inactive A/B slot".
StagesVerifiedVersion ==
  [][pending' # pending => slot # 0 /\ slot = fetching]_vars

\* start_runtime.py: "A staged switch returns None and exits, so the
\* bootloader can launch the other slot."
StagedSwitchExits == pending # 0 => ended # "rerun"
=============================================================================
