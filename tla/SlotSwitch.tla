----------------------------- MODULE SlotSwitch -----------------------------
(***************************************************************************)
(* The A/B update of the Gateway: the bootloader process (bootloader.py),  *)
(* the runtime it launches (the last steps of update_manager.apply and     *)
(* _stage_switch, main.run), and the files they share, boot_state.json and *)
(* health.json (boot_state.py).  Power may fail at any time; a file being  *)
(* written then is left torn, and a torn boot state reads as the default.  *)
(*                                                                         *)
(* A slot holds a version, nothing, or part of one (half copied or half    *)
(* removed, with its start script in place).                               *)
(***************************************************************************)
EXTENDS Naturals

CONSTANTS
  Versions,
  Base,            \* the version installed by hand in the application root
  Healthy,         \* versions whose runtime comes up: it serves its web page,
                   \* where updates are started, and reports health
  NoVersion, Partial, NoProc, Torn,
  MaxUpdates,      \* bound of the model: updates staged
  MaxCrashes       \* bound of the model: power failures

Slots == {"slot_a", "slot_b"}
None == "none"                      \* the empty slot name of the boot state

\* The boot states that can be read from a file that is not torn.
BootStates ==
  [active : Slots, pending : Slots \cup {None}, previous : Slots \cup {None},
   target : Versions \cup {NoVersion},
   phase : {"idle", "pending_switch", "rolled_back"}]

ASSUME SlotAssumption ==
  /\ Base \in Healthy /\ Healthy \subseteq Versions
  /\ NoVersion \notin Versions /\ Partial \notin Versions
  /\ Torn \notin BootStates
  /\ MaxUpdates \in Nat /\ MaxCrashes \in Nat

VARIABLES
  boot,       \* boot_state.json, or Torn
  health,     \* health.json
  content,    \* slot -> version in it
  prepared,   \* slots whose venv and packages are installed
  loader,     \* where the bootloader is
  awaited,    \* what await_pending_health waits for: read once, at its start
  proc,       \* the runtime process, or NoProc
  overtaken,  \* history: a process was committed that had begun an update
              \* while the bootloader was still waiting for its health
  updates, crashes

vars == <<boot, health, content, prepared, loader, awaited, proc, overtaken,
          updates, crashes>>

Other(s) == IF s = "slot_a" THEN "slot_b" ELSE "slot_a"

-----------------------------------------------------------------------------
(* boot_state.py *)

DefaultBoot == [active |-> "slot_a", pending |-> None, previous |-> None,
                target |-> NoVersion, phase |-> "idle"]

Load == IF boot = Torn THEN DefaultBoot ELSE boot

NoHealth == [slot |-> None, version |-> NoVersion, ready |-> FALSE]

\* health_payload_ready
HealthStarted(slot, version) ==                 \* fault: ready not tested
  health.slot = slot /\ health.version = version
HealthReady(slot, version) ==
  health.ready /\ health.slot = slot /\ health.version = version

InactiveSlotFixed(b) == "slot_b"                \* fault: always the same slot
InactiveSlot(b) == Other(b.active)

\* mark_pending_switch, commit_pending, rollback_pending
MarkedPending(b, v) ==
  [active |-> b.active, pending |-> InactiveSlot(b), previous |-> b.active,
   target |-> v, phase |-> "pending_switch"]

Committed(b) ==
  [b EXCEPT !.active = IF b.pending # None THEN b.pending ELSE @,
            !.pending = None, !.previous = None, !.phase = "idle"]

RolledBackToPending(b) ==                       \* fault: previous slot ignored
  [b EXCEPT !.active = IF b.pending # None THEN b.pending ELSE @,
            !.pending = None, !.previous = None, !.phase = "rolled_back"]
RolledBack(b) ==
  [b EXCEPT !.active = IF b.previous # None THEN b.previous ELSE @,
            !.pending = None, !.previous = None, !.phase = "rolled_back"]

NoWait == [slot |-> None, target |-> NoVersion]

PowerFails ==
  /\ crashes < MaxCrashes
  /\ crashes' = crashes + 1
  /\ loader' = "down"
  /\ awaited' = NoWait
  /\ proc' = NoProc

\* write_text truncates the file before it writes.
TornSave ==
  /\ PowerFails
  /\ boot' = Torn
  /\ UNCHANGED health

-----------------------------------------------------------------------------
(* bootloader.py *)

\* scripts/start.py and bootstrap_slot: slot A is filled from the
\* application root when its start script is missing.
Start ==
  /\ loader = "down" /\ proc = NoProc
  /\ \/ /\ content["slot_a"] # NoVersion
        /\ loader' = "active"
        /\ UNCHANGED <<content, prepared, crashes, proc, awaited>>
     \/ /\ content["slot_a"] = NoVersion
        /\ prepared' = prepared \ {"slot_a"}
        /\ \/ /\ content' = [content EXCEPT !["slot_a"] = Base]
              /\ loader' = "active"
              /\ UNCHANGED <<crashes, proc, awaited>>
           \/ /\ content' = [content EXCEPT !["slot_a"] = Partial]
              /\ PowerFails
  /\ UNCHANGED <<boot, health, updates, overtaken>>

Complete(slot) == content[slot] \notin {NoVersion, Partial}

\* The version a launched process is told to report: the target version of
\* the boot state, also long after that switch, else the slot's own.
ExpectedTarget(slot) == Load.target             \* fault: no fallback
Expected(slot) ==
  IF Load.target # NoVersion THEN Load.target ELSE content[slot]

\* launch_slot: a slot that is not prepared needs a venv and packages, which
\* may fail; the exception ends the bootloader.  A runtime launched from a
\* part of a version ends at once.
Launch(slot, next) ==
  /\ health' = NoHealth
  /\ \/ /\ Complete(slot)
        /\ proc' = [slot |-> slot, version |-> content[slot],
                    expected |-> Expected(slot), ready |-> FALSE,
                    job |-> "none", target |-> None, staged |-> NoVersion,
                    early |-> FALSE]
        /\ prepared' = prepared \cup {slot}
        /\ loader' = next
     \/ /\ content[slot] = Partial
        /\ prepared' = prepared \cup {slot}
        /\ loader' = next
        /\ UNCHANGED proc
     \/ /\ slot \notin prepared \/ ~Complete(slot)
        /\ loader' = "down"
        /\ UNCHANGED <<prepared, proc>>
  /\ UNCHANGED <<boot, content, overtaken, updates, crashes>>

LaunchActive ==
  /\ loader = "active"
  /\ Launch(Load.active, "run_active")
  /\ UNCHANGED awaited

SwitchStaged(b) == b.phase = "pending_switch" /\ b.pending # None

ActiveExited ==
  /\ loader = "run_active" /\ proc = NoProc
  /\ loader' = IF SwitchStaged(Load) THEN "pending" ELSE "down"
  /\ UNCHANGED <<boot, health, content, prepared, awaited, proc, overtaken,
                 updates, crashes>>

LaunchPending ==
  /\ loader = "pending"
  /\ Launch(Load.pending, "await")
  /\ awaited' = IF loader' = "await"
                THEN [slot |-> Load.pending, target |-> Load.target] ELSE NoWait

\* await_pending_health: health.json names the slot and the version that are
\* waited for, and the web port answers.
CommitPending ==
  /\ loader = "await" /\ proc # NoProc
  /\ HealthReady(awaited.slot, awaited.target)
  /\ overtaken' = (overtaken \/ proc.early)
  /\ \/ /\ boot' = Committed(Load)
        /\ loader' = "run_committed"
        /\ awaited' = NoWait
        /\ UNCHANGED <<proc, crashes, health>>
     \/ TornSave
  /\ UNCHANGED <<content, prepared, updates>>

\* The pending process exited, or the time is up and it is terminated.
RollbackPending ==
  /\ loader = "await"
  /\ \/ /\ boot' = RolledBack(Load)
        /\ loader' = "active"
        /\ awaited' = NoWait
        /\ proc' = NoProc
        /\ UNCHANGED <<crashes, health>>
     \/ TornSave
  /\ UNCHANGED <<content, prepared, overtaken, updates>>

\* After a committed switch the loop starts over if another one is staged.
CommittedExited ==
  /\ loader = "run_committed" /\ proc = NoProc
  /\ loader' = IF Load.phase = "pending_switch" THEN "active" ELSE "down"
  /\ UNCHANGED <<boot, health, content, prepared, awaited, proc, overtaken,
                 updates, crashes>>

-----------------------------------------------------------------------------
(* The runtime process *)

\* main.run writes health.json when it starts, with ready unset, and again
\* once its servers are up; the version it reports is the one it was told.
ReportsStarting ==
  /\ proc # NoProc /\ ~proc.ready
  /\ health' = [slot |-> proc.slot, version |-> proc.expected, ready |-> FALSE]
  /\ UNCHANGED <<boot, content, prepared, loader, awaited, proc, overtaken,
                 updates, crashes>>

BecomesReady ==
  /\ proc # NoProc /\ ~proc.ready /\ proc.version \in Healthy
  /\ proc' = [proc EXCEPT !.ready = TRUE]
  /\ health' = [slot |-> proc.slot, version |-> proc.expected, ready |-> TRUE]
  /\ UNCHANGED <<boot, content, prepared, loader, awaited, overtaken, updates,
                 crashes>>

\* An orderly end writes health.json once more; a killed process does not.
Exit ==
  /\ proc # NoProc
  /\ proc' = NoProc
  /\ \/ health' = [slot |-> proc.slot, version |-> proc.expected, ready |-> FALSE]
     \/ UNCHANGED health
  /\ UNCHANGED <<boot, content, prepared, loader, awaited, overtaken, updates,
                 crashes>>

Working(job) == proc # NoProc /\ proc.job = job

\* apply() reads the boot state and settles which slot it will write: the
\* one that is not active.  Its web page is up before health.json says ready
\* and while the bootloader may still wait up to 30 s (the port it probes
\* does not answer on 127.0.0.1): the slot that is not active is then the
\* one this process runs from.
ChooseSlot ==
  /\ Working("none") /\ proc.version \in Healthy
  /\ updates < MaxUpdates
  /\ updates' = updates + 1
  /\ proc' = [proc EXCEPT !.job = "chosen", !.target = InactiveSlot(Load),
                          !.early = @ \/ loader = "await"]
  /\ UNCHANGED <<boot, health, content, prepared, loader, awaited, overtaken,
                 crashes>>

\* It removes that slot, venv included, and copies the new version into it;
\* either may be cut off half way.
EraseInactive ==
  /\ Working("chosen")
  /\ \E rest \in {NoVersion, Partial} :
        content' = [content EXCEPT ![proc.target] = rest]
  /\ prepared' = prepared \ {proc.target}
  /\ proc' = [proc EXCEPT !.job = "erased"]
  /\ UNCHANGED <<boot, health, loader, awaited, overtaken, updates, crashes>>

CopyNew(v) ==
  /\ Working("erased")
  /\ content' = [content EXCEPT ![proc.target] = v]
  /\ proc' = [proc EXCEPT !.job = "copied", !.staged = v]
  /\ UNCHANGED <<boot, health, prepared, loader, awaited, overtaken, updates,
                 crashes>>

ApplyFails ==
  /\ Working("chosen") \/ Working("erased")
  /\ proc' = [proc EXCEPT !.job = "none"]
  /\ UNCHANGED <<boot, health, content, prepared, loader, awaited, overtaken,
                 updates, crashes>>

\* _stage_switch; the restart it asks for ends the process (Exit).
StageSwitch ==
  /\ Working("copied")
  /\ \/ /\ boot' = MarkedPending(Load, proc.staged)
        /\ health' = NoHealth
        /\ proc' = [proc EXCEPT !.job = "staged"]
        /\ UNCHANGED <<loader, awaited, crashes>>
     \/ TornSave
  /\ UNCHANGED <<content, prepared, overtaken, updates>>

PowerLoss ==
  /\ loader # "down"
  /\ PowerFails
  /\ UNCHANGED <<boot, health, content, prepared, overtaken, updates>>

-----------------------------------------------------------------------------
Init ==
  /\ boot = DefaultBoot
  /\ health = NoHealth
  /\ content = [s \in Slots |-> NoVersion]
  /\ prepared = {}
  /\ loader = "down"
  /\ awaited = NoWait
  /\ proc = NoProc
  /\ overtaken = FALSE
  /\ updates = 0
  /\ crashes = 0

Loader == LaunchActive \/ ActiveExited \/ LaunchPending \/ CommitPending
            \/ RollbackPending \/ CommittedExited

Runtime == ReportsStarting \/ BecomesReady \/ Exit \/ ChooseSlot \/ EraseInactive
             \/ (\E v \in Versions : CopyNew(v)) \/ ApplyFails \/ StageSwitch

Next == Start \/ Loader \/ Runtime \/ PowerLoss

Spec == Init /\ [][Next]_vars

\* The bootloader's loop runs on, a runtime that was asked to restart exits.
FairSpec ==
  Spec /\ WF_vars(Loader) /\ WF_vars(Working("staged") /\ Exit)

-----------------------------------------------------------------------------
(* Properties *)

Processes ==
  [slot : Slots, version : Versions, expected : Versions, ready : BOOLEAN,
   job : {"none", "chosen", "erased", "copied", "staged"},
   target : Slots \cup {None}, staged : Versions \cup {NoVersion},
   early : BOOLEAN]

TypeOK ==
  /\ boot \in BootStates \cup {Torn}
  /\ content \in [Slots -> Versions \cup {NoVersion, Partial}]
  /\ prepared \subseteq Slots
  /\ health \in [slot : Slots \cup {None}, version : Versions \cup {NoVersion},
                 ready : BOOLEAN]
  /\ loader \in {"down", "active", "run_active", "pending", "await",
                 "run_committed"}
  /\ awaited \in [slot : Slots \cup {None}, target : Versions \cup {NoVersion}]
  /\ overtaken \in BOOLEAN
  /\ proc \in Processes \cup {NoProc}

\* An update never touches the slot that is running: what a process was
\* launched from stays in its slot until it has gone, unless it was itself
\* still on trial when it began to update.
RunningSlotIntact ==
  proc # NoProc /\ ~proc.early => content[proc.slot] = proc.version

\* An installed Gateway can be started again: whatever step of an update the
\* power fails in, the slot the boot state names as active never stops
\* holding a complete version.  The exceptions the code leaves: a rollback
\* whose save is torn falls back to slot A, complete or not, and a switch
\* committed to a process that had begun to update its own slot.
ActiveStaysComplete ==
  [][Complete(Load.active) /\ ~(RollbackPending /\ boot' = Torn) /\ ~overtaken'
       => Complete(Load.active)']_vars

\* While no file is torn, a version is active only if it has been seen
\* healthy (or was installed by hand): a bad release never outlives its
\* trial.  No update began in a process on trial that was then committed.
ActiveSlotHealthy ==
  boot # Torn /\ Complete(Load.active) /\ ~overtaken
    => content[Load.active] \in Healthy

\* A failed switch ends with a version that was running before back in
\* service, while the power holds.
RollbackRestoresService ==
  loader = "active" /\ Load.phase = "rolled_back" /\ ~overtaken
    ~> \/ proc # NoProc /\ proc.slot = Load.active /\ proc.version \in Healthy
       \/ loader = "down" /\ crashes > 0

-----------------------------------------------------------------------------
(* Statements of the documents that the code does not keep; README.md,     *)
(* section 5, says how each fails.                                         *)

\* README.md on an update: it "stages the new version into the inactive A/B
\* slot": never into the slot a runtime is running from.
UpdatesInactiveSlot == proc # NoProc => content[proc.slot] = proc.version

\* README.md on an update: "The bootloader switches from the active slot to
\* the staged slot": whichever runtime ends with a switch staged, what the
\* bootloader turns to is the staged slot.
ExitSwitchesSlot ==
  [][ActiveExited \/ CommittedExited =>
        (SwitchStaged(Load) => loader' = "pending")]_vars

\* README.md: "The new slot must report local health [...] or the bootloader
\* rolls back automatically": a switch the bootloader begins is decided.
SwitchIsDecided ==
  loader = "pending" ~> Load.phase \in {"idle", "rolled_back"}
=============================================================================
