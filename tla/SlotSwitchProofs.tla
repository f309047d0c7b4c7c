--------------------------- MODULE SlotSwitchProofs ---------------------------
(***************************************************************************)
(* Theorems about the A/B bootloader, for any versions, any number of      *)
(* updates and a power failure between any two steps.                      *)
(***************************************************************************)
EXTENDS SlotSwitch, TLAPS

-----------------------------------------------------------------------------
(* The inductive invariant *)

\* No process runs while the bootloader is about to launch one.
NoneBeforeLaunch == loader \in {"down", "active", "pending"} => proc = NoProc

\* A process the bootloader runs came from the active slot, and one it waits
\* for from the pending slot.
ProcInItsSlot ==
  proc # NoProc =>
    /\ loader \in {"run_active", "run_committed"} => proc.slot = Load.active
    /\ loader = "await" => proc.slot = Load.pending

\* Only a process on trial begins early, any that updates there does, and one
\* that did is not waited for any more when it has been committed.
EarlyOnTrial ==
  proc # NoProc =>
    /\ loader = "await" /\ ~proc.early => proc.job = "none"
    /\ loader # "await" /\ proc.early => overtaken

\* The slot a worker settled on is still the one that is not active, unless
\* the worker's process was on trial then and has been committed since.
AtWork == {"chosen", "erased", "copied"}
TargetIsInactive ==
  proc # NoProc /\ proc.job \in AtWork /\ ~(proc.early /\ overtaken) =>
    proc.target = Other(Load.active)

\* Between the end of the old process and the verdict on the new one the boot
\* state names a switch.
SwitchUnderWay == loader \in {"pending", "await"} => SwitchStaged(Load)

\* A staged switch leads to the slot that is not active; the previous slot is
\* the active one.
SwitchNamesOtherSlot ==
  /\ Load.pending # None => Load.pending = Other(Load.active)
  /\ Load.previous # None => Load.previous = Load.active

\* Only a version that comes up gets ready, or to work on an update; and the
\* health a process under trial has reported is its own.
ReadyIsHealthy ==
  proc # NoProc =>
    /\ proc.ready => proc.version \in Healthy
    /\ proc.job # "none" => proc.version \in Healthy
    /\ loader = "await" /\ health.ready => proc.version \in Healthy

\* What is about to be staged is in the slot it was copied to, in whole.
CopiedIsComplete ==
  proc # NoProc /\ proc.job = "copied" => content[proc.target] \in Versions

\* A worker has settled on a slot.
TargetIsSlot ==
  proc # NoProc /\ proc.job \in AtWork => proc.target \in Slots

Loaders ==
  /\ NoneBeforeLaunch
  /\ ProcInItsSlot
  /\ EarlyOnTrial
  /\ TargetIsSlot
  /\ TargetIsInactive
  /\ SwitchUnderWay
  /\ SwitchNamesOtherSlot

IInv ==
  /\ TypeOK
  /\ Loaders
  /\ RunningSlotIntact
  /\ ReadyIsHealthy
  /\ CopiedIsComplete
  /\ ActiveSlotHealthy

-----------------------------------------------------------------------------
(* Facts about the boot state *)

\* Whatever is in the file, what is read from it is a boot state.
LEMMA LoadType ==
  ASSUME TypeOK
  PROVE  Load \in BootStates
BY DEF TypeOK, Load, DefaultBoot, BootStates, Slots, None

\* The other slot is a slot, and another one.
LEMMA OtherSlot ==
  ASSUME NEW s \in Slots
  PROVE  Other(s) \in Slots /\ Other(s) # s /\ Other(Other(s)) = s
BY DEF Slots, Other

\* What is written is never taken for a torn file.
LEMMA WrittenBoot ==
  ASSUME NEW b \in BootStates, NEW v \in Versions \cup {NoVersion}
  PROVE  /\ MarkedPending(b, v) \in BootStates
         /\ Committed(b) \in BootStates
         /\ RolledBack(b) \in BootStates
<1>1. Other(b.active) \in Slots
  BY OtherSlot DEF BootStates
<1>2. QED
  BY <1>1 DEF BootStates, MarkedPending, InactiveSlot, Committed, RolledBack

\* A boot state that was written is what is read from then on.
LEMMA WrittenIsRead ==
  ASSUME NEW b \in BootStates, boot' = b
  PROVE  Load' = b
BY SlotAssumption DEF Load, SlotAssumption

LEMMA TornIsDefault ==
  ASSUME boot' = Torn
  PROVE  Load' = DefaultBoot
BY DEF Load

LEMMA UnchangedLoad ==
  ASSUME boot' = boot
  PROVE  Load' = Load
BY DEF Load

-----------------------------------------------------------------------------
(* Type correctness *)

LEMMA TypeStep ==
  ASSUME TypeOK, Loaders, [Next]_vars
  PROVE  TypeOK'
<1> USE DEF TypeOK
<1>1. Load \in BootStates
  BY LoadType
<1>2. Base \in Versions
  BY SlotAssumption DEF SlotAssumption
<1>3. NoHealth \in [slot : Slots \cup {None}, version : Versions \cup {NoVersion},
                    ready : BOOLEAN]
  BY DEF NoHealth
<1>4. ASSUME NEW slot \in Slots, NEW next \in {"run_active", "await"}, Launch(slot, next),
             awaited' \in [slot : Slots \cup {None}, target : Versions \cup {NoVersion}]
      PROVE  TypeOK'
  <2>1. Complete(slot) => content[slot] \in Versions /\ Expected(slot) \in Versions
    BY <1>1 DEF Complete, Expected, BootStates
  <2>2. CASE Complete(slot) /\ proc' = [slot |-> slot, version |-> content[slot],
                 expected |-> Expected(slot), ready |-> FALSE,
                 job |-> "none", target |-> None, staged |-> NoVersion,
                 early |-> FALSE]
    <3>1. proc' \in Processes
      BY <1>4, <2>1, <2>2 DEF Processes
    <3>2. health' = NoHealth /\ prepared' \subseteq Slots /\ loader' \in {next, "down"}
            /\ UNCHANGED <<boot, content, overtaken>>
      BY <1>4 DEF Launch
    <3>3. QED
      BY <1>3, <1>4, <3>1, <3>2
  <2>3. CASE proc' = proc
    BY <1>3, <1>4, <2>3 DEF Launch
  <2>4. QED
    BY <1>4, <2>2, <2>3 DEF Launch
<1>5. CASE Start
  <2>1. awaited' \in {awaited, NoWait} /\ proc' \in {proc, NoProc}
          /\ loader' \in {"active", "down"} /\ prepared' \subseteq prepared
          /\ UNCHANGED <<boot, health, overtaken>>
    BY <1>5 DEF Start, PowerFails
  <2>2. content' \in [Slots -> Versions \cup {NoVersion, Partial}]
    BY <1>2, <1>5 DEF Start
  <2>3. NoWait \in [slot : Slots \cup {None}, target : Versions \cup {NoVersion}]
    BY DEF NoWait
  <2>4. QED
    BY <2>1, <2>2, <2>3
<1>6. CASE LaunchActive
  BY <1>1, <1>4, <1>6 DEF LaunchActive, BootStates
<1>7. CASE LaunchPending
  <2>1. Load.pending \in Slots
    BY <1>1, <1>7 DEF LaunchPending, BootStates, Loaders, SwitchUnderWay, SwitchStaged
  <2>2. awaited' \in [slot : Slots \cup {None}, target : Versions \cup {NoVersion}]
    BY <1>1, <1>7 DEF LaunchPending, NoWait, BootStates
  <2>3. QED
    BY <1>4, <1>7, <2>1, <2>2 DEF LaunchPending
<1>8. CASE CommitPending \/ RollbackPending
  <2>1. overtaken' \in BOOLEAN
    BY <1>8 DEF CommitPending, RollbackPending, Processes
  <2>2. QED
    BY <1>1, <1>8, <2>1, WrittenBoot DEF CommitPending, RollbackPending, TornSave,
                                         PowerFails, NoWait
<1>9. CASE ActiveExited \/ CommittedExited
  BY <1>9 DEF ActiveExited, CommittedExited
<1>10. CASE ReportsStarting \/ BecomesReady \/ Exit
  <2>1. proc \in Processes
    BY <1>10 DEF ReportsStarting, BecomesReady, Exit
  <2>2. proc' \in Processes \cup {NoProc}
    <3>1. [proc EXCEPT !.ready = TRUE] \in Processes
      BY <2>1 DEF Processes
    <3>2. QED
      BY <1>10, <3>1 DEF ReportsStarting, BecomesReady, Exit
  <2>3. \A b \in BOOLEAN : [slot |-> proc.slot, version |-> proc.expected, ready |-> b]
          \in [slot : Slots \cup {None}, version : Versions \cup {NoVersion}, ready : BOOLEAN]
    BY <2>1 DEF Processes
  <2>4. QED
    BY <1>10, <2>2, <2>3 DEF ReportsStarting, BecomesReady, Exit
<1>11. CASE ChooseSlot \/ EraseInactive \/ ApplyFails \/ \E v \in Versions : CopyNew(v)
  <2>1. proc \in Processes
    BY <1>11 DEF ChooseSlot, EraseInactive, ApplyFails, CopyNew, Working
  <2>2. proc' \in Processes
    <3>1. CASE ChooseSlot
      <4>1. InactiveSlot(Load) \in Slots
        BY <1>1, OtherSlot DEF InactiveSlot, BootStates
      <4>2. (proc.early \/ loader = "await") \in BOOLEAN
        BY <2>1 DEF Processes
      <4>3. QED
        BY <2>1, <3>1, <4>1, <4>2 DEF ChooseSlot, Processes
    <3>2. CASE EraseInactive \/ ApplyFails
      <4>1. \A j \in {"none", "erased"} : [proc EXCEPT !.job = j] \in Processes
        BY <2>1 DEF Processes
      <4>2. proc' = [proc EXCEPT !.job = "erased"] \/ proc' = [proc EXCEPT !.job = "none"]
        BY <3>2 DEF EraseInactive, ApplyFails
      <4>3. QED
        BY <4>1, <4>2
    <3>3. ASSUME NEW v \in Versions, CopyNew(v)
          PROVE  proc' \in Processes
      <4>1. proc' = [proc EXCEPT !.job = "copied", !.staged = v]
        BY <3>3 DEF CopyNew
      <4>2. QED
        BY <2>1, <4>1 DEF Processes
    <3>4. QED
      BY <1>11, <3>1, <3>2, <3>3
  <2>3. /\ content' \in [Slots -> Versions \cup {NoVersion, Partial}]
        /\ prepared' \subseteq Slots
        /\ UNCHANGED <<boot, health, loader, awaited, overtaken>>
    <3>1. CASE ChooseSlot \/ ApplyFails
      BY <3>1 DEF ChooseSlot, ApplyFails
    <3>2. CASE EraseInactive
      <4>1. content' \in [Slots -> Versions \cup {NoVersion, Partial}]
        BY <3>2 DEF EraseInactive
      <4>2. QED
        BY <3>2, <4>1 DEF EraseInactive
    <3>3. CASE \E v \in Versions : CopyNew(v)
      <4>1. content' \in [Slots -> Versions \cup {NoVersion, Partial}]
        BY <3>3 DEF CopyNew
      <4>2. QED
        BY <3>3, <4>1 DEF CopyNew
    <3>4. QED
      BY <1>11, <3>1, <3>2, <3>3
  <2>4. QED
    BY <2>2, <2>3
<1>12. CASE StageSwitch
  <2>1. proc.staged \in Versions \cup {NoVersion}
    BY <1>12 DEF StageSwitch, Working, Processes
  <2>2. QED
    BY <1>1, <1>3, <1>12, <2>1, WrittenBoot 
       DEF StageSwitch, TornSave, PowerFails, NoWait, Working, Processes
<1>13. CASE PowerLoss
  BY <1>13 DEF PowerLoss, PowerFails, NoWait
<1>14. CASE UNCHANGED vars
  BY <1>14 DEF vars
<1>15. QED
  BY <1>5, <1>6, <1>7, <1>8, <1>9, <1>10, <1>11, <1>12, <1>13, <1>14
  DEF Next, Loader, Runtime

-----------------------------------------------------------------------------
(* The steps, by what they do to the boot state and the running process *)

\* What a committed or rolled back switch and a staged one look like.
LEMMA DecidedSwitch ==
  ASSUME NEW b \in BootStates
  PROVE  /\ Committed(b).pending = None /\ Committed(b).previous = None
         /\ Committed(b).active = IF b.pending # None THEN b.pending ELSE b.active
         /\ RolledBack(b).pending = None /\ RolledBack(b).previous = None
         /\ RolledBack(b).active = IF b.previous # None THEN b.previous ELSE b.active
BY DEF Committed, RolledBack, BootStates

LEMMA StagedSwitch ==
  ASSUME NEW b \in BootStates, NEW v
  PROVE  /\ MarkedPending(b, v).active = b.active
         /\ MarkedPending(b, v).pending = Other(b.active)
         /\ MarkedPending(b, v).previous = b.active
         /\ MarkedPending(b, v).phase = "pending_switch"
BY DEF MarkedPending, InactiveSlot

\* The loader, the process and the boot state keep step.
LEMMA LoadersStep ==
  ASSUME TypeOK, Loaders, [Next]_vars
  PROVE  Loaders'
<1> USE DEF Loaders, NoneBeforeLaunch, ProcInItsSlot, EarlyOnTrial, TargetIsSlot,
            TargetIsInactive, AtWork, SwitchUnderWay, SwitchNamesOtherSlot
<1>1. Load \in BootStates
  BY LoadType
<1>2. ASSUME boot' = boot
      PROVE  Load' = Load
  BY <1>2, UnchangedLoad
<1>3. ASSUME PowerFails, boot' \in {boot, Torn}
      PROVE  Loaders'
  <2>1. Load' = Load \/ Load' = DefaultBoot
    BY <1>3, UnchangedLoad, TornIsDefault
  <2>2. loader' = "down" /\ proc' = NoProc
    BY <1>3 DEF PowerFails
  <2>3. QED
    BY <2>1, <2>2 DEF DefaultBoot
<1>4. CASE Start
  BY <1>2, <1>3, <1>4 DEF Start
<1>5. CASE LaunchActive
  BY <1>2, <1>5 DEF LaunchActive, Launch
<1>6. CASE LaunchPending
  BY <1>2, <1>6 DEF LaunchPending, Launch
<1>7. CASE ActiveExited
  BY <1>2, <1>7 DEF ActiveExited
<1>8. CASE CommittedExited
  BY <1>2, <1>8 DEF CommittedExited
<1>9. CASE CommitPending
  <2>1. CASE boot' = Committed(Load) /\ loader' = "run_committed" /\ proc' = proc
    <3>1. Load' = Committed(Load)
      BY <1>1, <2>1, WrittenBoot, WrittenIsRead
    <3>2. QED
      BY <1>1, <1>9, <2>1, <3>1, DecidedSwitch DEF CommitPending, SwitchStaged
  <2>2. QED
    BY <1>3, <1>9, <2>1 DEF CommitPending, TornSave
<1>10. CASE RollbackPending
  <2>1. CASE boot' = RolledBack(Load) /\ loader' = "active" /\ proc' = NoProc
    <3>1. Load' = RolledBack(Load)
      BY <1>1, <2>1, WrittenBoot, WrittenIsRead
    <3>2. QED
      BY <1>1, <2>1, <3>1, DecidedSwitch
  <2>2. QED
    BY <1>3, <1>10, <2>1 DEF RollbackPending, TornSave
<1>11. CASE ReportsStarting \/ Exit
  BY <1>2, <1>11 DEF ReportsStarting, Exit
<1>12. CASE BecomesReady
  <2>1. proc \in Processes
    BY <1>12 DEF TypeOK, BecomesReady
  <2>2. /\ proc'.slot = proc.slot /\ proc'.job = proc.job
        /\ proc'.target = proc.target /\ proc'.early = proc.early
    BY <1>12, <2>1 DEF BecomesReady, Processes
  <2>3. QED
    BY <1>2, <1>12, <2>2 DEF BecomesReady
<1>13. CASE ChooseSlot \/ EraseInactive \/ ApplyFails \/ \E v \in Versions : CopyNew(v)
  <2>1. proc \in Processes /\ proc # NoProc
    BY <1>13 DEF TypeOK, ChooseSlot, EraseInactive, ApplyFails, CopyNew, Working
  <2>2. proc'.slot = proc.slot
    BY <1>13, <2>1 DEF ChooseSlot, EraseInactive, ApplyFails, CopyNew, Processes
  <2>3. loader' = loader /\ boot' = boot /\ overtaken' = overtaken
    BY <1>13 DEF ChooseSlot, EraseInactive, ApplyFails, CopyNew
  <2>4. CASE ChooseSlot
    <3>1. /\ proc'.target = Other(Load.active) /\ proc'.job = "chosen"
          /\ proc'.early = (proc.early \/ loader = "await")
      BY <2>1, <2>4 DEF ChooseSlot, InactiveSlot, Processes
    <3>2. Other(Load.active) \in Slots
      BY <1>1, OtherSlot DEF BootStates
    <3>3. QED
      BY <1>2, <2>1, <2>2, <2>3, <3>1, <3>2
  <2>5. CASE EraseInactive \/ ApplyFails \/ \E v \in Versions : CopyNew(v)
    <3>1. /\ proc.job \in {"chosen", "erased"}
          /\ proc'.target = proc.target /\ proc'.early = proc.early
      BY <2>1, <2>5 DEF EraseInactive, ApplyFails, CopyNew, Working, Processes
    <3>2. QED
      BY <1>2, <2>1, <2>2, <2>3, <3>1
  <2>6. QED
    BY <1>13, <2>4, <2>5
<1>14. CASE StageSwitch
  <2>1. proc \in Processes /\ proc # NoProc /\ proc.job = "copied"
    BY <1>14 DEF TypeOK, StageSwitch, Working
  <2>2. CASE boot' = MarkedPending(Load, proc.staged) /\ loader' = loader
             /\ proc' = [proc EXCEPT !.job = "staged"]
    <3>1. Load' = MarkedPending(Load, proc.staged)
      BY <1>1, <2>1, <2>2, WrittenBoot, WrittenIsRead DEF Processes
    <3>2. /\ proc'.slot = proc.slot /\ proc'.early = proc.early /\ proc'.job = "staged"
          /\ proc' # NoProc => proc # NoProc
      BY <2>1, <2>2 DEF Processes
    <3>3. overtaken' = overtaken
      BY <1>14 DEF StageSwitch
    <3>4. Other(Load.active) \in Slots /\ Other(Load.active) # None
      BY <1>1, OtherSlot DEF BootStates, Slots, None
    <3>5. NoneBeforeLaunch'
      BY <2>1, <2>2
    <3>6. ProcInItsSlot'
      BY <2>1, <2>2, <3>1, <3>2, StagedSwitch, <1>1 DEF SwitchStaged
    <3>7. EarlyOnTrial' /\ TargetIsSlot' /\ TargetIsInactive'
      BY <2>1, <2>2, <3>2, <3>3
    <3>8. SwitchUnderWay' /\ SwitchNamesOtherSlot'
      BY <1>1, <3>1, <3>4, StagedSwitch DEF SwitchStaged
    <3>9. QED
      BY <3>5, <3>6, <3>7, <3>8
  <2>3. QED
    BY <1>3, <1>14, <2>2 DEF StageSwitch, TornSave
<1>15. CASE PowerLoss
  BY <1>3, <1>15 DEF PowerLoss
<1>16. CASE UNCHANGED vars
  BY <1>2, <1>16 DEF vars
<1>17. QED
  BY <1>4, <1>5, <1>6, <1>7, <1>8, <1>9, <1>10, <1>11, <1>12, <1>13, <1>14,
     <1>15, <1>16
  DEF Next, Loader, Runtime

\* What a step does to the slots' contents: only a start without a process,
\* the erasing and the copying change it, and only in the slot they name.
LEMMA ContentStep ==
  ASSUME TypeOK, [Next]_vars
  PROVE  \/ content' = content
         \/ /\ Start /\ proc = NoProc /\ content["slot_a"] = NoVersion
            /\ \A s \in Slots : s # "slot_a" => content'[s] = content[s]
            /\ content'["slot_a"] \in {Base, Partial}
         \/ /\ EraseInactive \/ \E v \in Versions : CopyNew(v)
            /\ \A s \in Slots : s # proc.target => content'[s] = content[s]
<1> USE DEF TypeOK
<1>1. CASE Start
  BY <1>1 DEF Start, Slots
<1>2. CASE EraseInactive \/ \E v \in Versions : CopyNew(v)
  BY <1>2 DEF EraseInactive, CopyNew
<1>3. CASE Loader
  BY <1>3 DEF Loader, LaunchActive, LaunchPending, Launch, ActiveExited,
              CommitPending, RollbackPending, CommittedExited
<1>4. CASE ReportsStarting \/ BecomesReady \/ Exit \/ ChooseSlot \/ ApplyFails \/ StageSwitch
  BY <1>4 DEF ReportsStarting, BecomesReady, Exit, ChooseSlot, ApplyFails, StageSwitch
<1>5. CASE PowerLoss \/ UNCHANGED vars
  BY <1>5 DEF PowerLoss, vars
<1>6. QED
  BY <1>1, <1>2, <1>3, <1>4, <1>5 DEF Next, Runtime

\* Where a process comes from: it is the one that ran, or one launched from a
\* slot that is complete.
LEMMA ProcStep ==
  ASSUME TypeOK, [Next]_vars, proc' # NoProc
  PROVE  \/ /\ proc # NoProc
            /\ proc'.slot = proc.slot /\ proc'.version = proc.version
            /\ ~proc'.early => ~proc.early
         \/ /\ content' = content /\ proc'.version = content[proc'.slot]
            /\ Complete(proc'.slot)
<1>1. ASSUME NEW slot, NEW next, Launch(slot, next), proc' # proc
      PROVE  /\ content' = content /\ proc'.version = content[proc'.slot]
             /\ Complete(proc'.slot)
  BY <1>1 DEF Launch
<1>2. CASE proc # NoProc
  <2>1. proc \in Processes
    BY <1>2 DEF TypeOK
  <2>2. CASE LaunchActive \/ LaunchPending
    BY <1>1, <1>2, <2>2 DEF LaunchActive, LaunchPending
  <2>3. CASE Start \/ ActiveExited \/ CommitPending \/ RollbackPending \/ CommittedExited
    BY <1>2, <2>3 DEF Start, ActiveExited, CommitPending, RollbackPending,
                      CommittedExited, TornSave, PowerFails
  <2>4. CASE Runtime
    <3>1. CASE ReportsStarting \/ BecomesReady \/ Exit
      <4>1. /\ [proc EXCEPT !.ready = TRUE].slot = proc.slot
            /\ [proc EXCEPT !.ready = TRUE].version = proc.version
            /\ [proc EXCEPT !.ready = TRUE].early = proc.early
        BY <2>1 DEF Processes
      <4>2. QED
        BY <1>2, <3>1, <4>1 DEF ReportsStarting, BecomesReady, Exit
    <3>2. CASE ChooseSlot \/ EraseInactive \/ ApplyFails \/ \E v \in Versions : CopyNew(v)
      BY <2>1, <1>2, <3>2 DEF ChooseSlot, EraseInactive, ApplyFails, CopyNew, Processes
    <3>3. CASE StageSwitch
      BY <2>1, <1>2, <3>3 DEF StageSwitch, TornSave, PowerFails, Processes
    <3>4. QED
      BY <2>4, <3>1, <3>2, <3>3 DEF Runtime
  <2>5. CASE PowerLoss \/ UNCHANGED vars
    BY <1>2, <2>5 DEF PowerLoss, PowerFails, vars
  <2>6. QED
    BY <2>2, <2>3, <2>4, <2>5 DEF Next, Loader
<1>3. CASE proc = NoProc
  <2>1. CASE LaunchActive \/ LaunchPending
    BY <1>1, <1>3, <2>1 DEF LaunchActive, LaunchPending
  <2>2. CASE Start \/ ActiveExited \/ CommitPending \/ RollbackPending \/ CommittedExited
    BY <1>3, <2>2 DEF Start, ActiveExited, CommitPending, RollbackPending,
                      CommittedExited, TornSave, PowerFails
  <2>3. CASE Runtime
    BY <1>3, <2>3 DEF Runtime, ReportsStarting, BecomesReady, Exit, ChooseSlot,
                      EraseInactive, CopyNew, ApplyFails, StageSwitch, Working
  <2>4. CASE PowerLoss \/ UNCHANGED vars
    BY <1>3, <2>4 DEF PowerLoss, PowerFails, vars
  <2>5. QED
    BY <2>1, <2>2, <2>3, <2>4 DEF Next, Loader
<1>4. QED
  BY <1>2, <1>3

\* A process at work on an update, which it did not begin on trial, runs on
\* its own: nobody waits for it, and what it was launched from is active.
LEMMA WorkerIsActive ==
  ASSUME TypeOK, Loaders, proc # NoProc, proc.job # "none", ~proc.early
  PROVE  /\ loader \in {"run_active", "run_committed"}
         /\ proc.slot = Load.active
BY DEF TypeOK, Loaders, NoneBeforeLaunch, ProcInItsSlot, EarlyOnTrial

LEMMA RunningStep ==
  ASSUME IInv, TypeOK', [Next]_vars
  PROVE  RunningSlotIntact'
<1> USE DEF IInv
<1>1. SUFFICES ASSUME proc' # NoProc, ~proc'.early
               PROVE  content'[proc'.slot] = proc'.version
  BY DEF RunningSlotIntact
<1>2. CASE content' = content
  BY <1>1, <1>2, ProcStep DEF RunningSlotIntact
<1>3. CASE /\ EraseInactive \/ \E v \in Versions : CopyNew(v)
           /\ \A s \in Slots : s # proc.target => content'[s] = content[s]
  <2>1. /\ proc # NoProc /\ proc \in Processes /\ proc.slot \in Slots
        /\ proc.job \in {"chosen", "erased"}
    BY <1>3 DEF EraseInactive, CopyNew, Working, TypeOK, Processes
  <2>2. /\ proc'.slot = proc.slot /\ proc'.version = proc.version
        /\ proc'.early = proc.early
    BY <1>3, <2>1 DEF EraseInactive, CopyNew, Processes
  <2>3. proc.slot = Load.active /\ proc.target = Other(Load.active)
    BY <1>1, <2>1, <2>2, WorkerIsActive DEF Loaders, TargetIsInactive, AtWork
  <2>4. proc.slot # proc.target
    BY <2>1, <2>3, OtherSlot
  <2>5. QED
    BY <1>1, <1>3, <2>1, <2>2, <2>4 DEF RunningSlotIntact
<1>4. CASE Start /\ proc = NoProc
  BY <1>1, <1>4 DEF Start, PowerFails
<1>5. QED
  BY <1>2, <1>3, <1>4, ContentStep

-----------------------------------------------------------------------------
(* Health *)

\* Only a healthy version becomes ready or works on an update; and while a
\* process is on trial, a health file that says ready is its own.
LEMMA ReadyStep ==
  ASSUME IInv, [Next]_vars
  PROVE  ReadyIsHealthy'
<1> USE DEF IInv, TypeOK
<1>1. SUFFICES ASSUME proc' # NoProc
               PROVE  \/ proc'.version \in Healthy
                      \/ ~proc'.ready /\ proc'.job = "none"
                           /\ (loader' = "await" => ~health'.ready)
  BY DEF ReadyIsHealthy
<1>2. CASE /\ proc' = proc
           /\ loader' # "await" \/ (loader' = loader /\ health' = health)
  BY <1>1, <1>2 DEF ReadyIsHealthy, Processes
<1>3. CASE LaunchActive \/ LaunchPending
  <2>1. PICK slot, next : Launch(slot, next)
    BY <1>3 DEF LaunchActive, LaunchPending
  <2>2. proc = NoProc
    BY <1>3 DEF LaunchActive, LaunchPending, Loaders, NoneBeforeLaunch
  <2>3. QED
    BY <1>1, <2>1, <2>2 DEF Launch, NoHealth
<1>4. CASE Start \/ ActiveExited \/ RollbackPending \/ CommittedExited \/ Exit \/ PowerLoss
  BY <1>1, <1>4 DEF Start, ActiveExited, RollbackPending, CommittedExited, Exit,
                    PowerLoss, TornSave, PowerFails
<1>5. CASE CommitPending
  BY <1>1, <1>2, <1>5 DEF CommitPending, TornSave, PowerFails
<1>6. CASE ReportsStarting
  BY <1>1, <1>6 DEF ReportsStarting, ReadyIsHealthy, Processes
<1>7. CASE BecomesReady
  <2>1. proc \in Processes /\ proc.version \in Healthy
    BY <1>7 DEF BecomesReady
  <2>2. proc'.version = proc.version
    BY <1>7, <2>1 DEF BecomesReady, Processes
  <2>3. QED
    BY <2>1, <2>2
<1>8. CASE ChooseSlot \/ EraseInactive \/ ApplyFails \/ StageSwitch
             \/ \E v \in Versions : CopyNew(v)
  <2>1. /\ proc \in Processes /\ proc # NoProc
        /\ proc.version \in Healthy \/ proc.job # "none"
    BY <1>8 DEF ChooseSlot, EraseInactive, ApplyFails, CopyNew, StageSwitch, Working
  <2>2. proc.version \in Healthy
    BY <2>1 DEF ReadyIsHealthy
  <2>3. proc'.version = proc.version
    BY <1>1, <1>8, <2>1 DEF ChooseSlot, EraseInactive, ApplyFails, CopyNew, StageSwitch,
                            TornSave, PowerFails, Processes
  <2>4. QED
    BY <2>2, <2>3
<1>9. CASE UNCHANGED vars
  BY <1>2, <1>9 DEF vars
<1>10. QED
  BY <1>3, <1>4, <1>5, <1>6, <1>7, <1>8, <1>9 DEF Next, Loader, Runtime

\* What is about to be staged stays where it was copied to: nobody else
\* touches that slot while a worker has its copy there.
LEMMA CopiedStep ==
  ASSUME IInv, TypeOK', [Next]_vars
  PROVE  CopiedIsComplete'
<1> USE DEF IInv
<1>1. SUFFICES ASSUME proc' # NoProc, proc'.job = "copied"
               PROVE  content'[proc'.target] \in Versions
  BY DEF CopiedIsComplete
<1>2. CASE proc # NoProc /\ proc' = proc /\ content' = content
  BY <1>1, <1>2 DEF CopiedIsComplete
<1>3. CASE Start \/ ActiveExited \/ CommitPending \/ RollbackPending \/ CommittedExited
             \/ Exit \/ PowerLoss \/ ReportsStarting \/ UNCHANGED vars
  <2>1. proc' = proc /\ proc # NoProc
    BY <1>1, <1>3 DEF Start, ActiveExited, CommitPending, RollbackPending, CommittedExited,
                      Exit, PowerLoss, ReportsStarting, TornSave, PowerFails, vars
  <2>2. content' = content
    BY <1>3, <2>1 DEF Start, ActiveExited, CommitPending, RollbackPending, CommittedExited,
                      Exit, PowerLoss, ReportsStarting, vars
  <2>3. QED
    BY <1>2, <2>1, <2>2
<1>4. CASE LaunchActive \/ LaunchPending
  <2>1. PICK slot, next : Launch(slot, next)
    BY <1>4 DEF LaunchActive, LaunchPending
  <2>2. proc' = proc /\ content' = content
    BY <1>1, <2>1 DEF Launch
  <2>3. QED
    BY <1>1, <1>2, <2>2
<1>5. CASE ChooseSlot \/ EraseInactive \/ ApplyFails \/ StageSwitch
  <2>1. proc \in Processes
    BY <1>5 DEF TypeOK, ChooseSlot, EraseInactive, ApplyFails, StageSwitch, Working
  <2>2. QED
    BY <1>1, <1>5, <2>1 DEF ChooseSlot, EraseInactive, ApplyFails, StageSwitch, TornSave,
                            PowerFails, Processes
<1>6. CASE BecomesReady
  <2>1. proc \in Processes /\ proc # NoProc
    BY <1>6 DEF TypeOK, BecomesReady
  <2>2. proc'.job = proc.job /\ proc'.target = proc.target /\ content' = content
    BY <1>6, <2>1 DEF BecomesReady, Processes
  <2>3. QED
    BY <1>1, <2>1, <2>2 DEF CopiedIsComplete
<1>7. ASSUME NEW v \in Versions, CopyNew(v)
      PROVE  content'[proc'.target] \in Versions
  <2>1. proc \in Processes /\ proc # NoProc /\ proc.job = "erased"
    BY <1>7 DEF TypeOK, CopyNew, Working
  <2>2. proc.target \in Slots /\ proc'.target = proc.target
    BY <1>7, <2>1 DEF CopyNew, Loaders, TargetIsSlot, AtWork, Processes
  <2>3. QED
    BY <1>7, <2>2 DEF CopyNew, TypeOK
<1>8. QED
  BY <1>3, <1>4, <1>5, <1>6, <1>7 DEF Next, Loader, Runtime

-----------------------------------------------------------------------------
(* The active slot *)

\* What a step does to the boot state.
LEMMA BootStep ==
  ASSUME [Next]_vars, boot' # boot
  PROVE  /\ content' = content
         /\ \/ CommitPending /\ boot' \in {Committed(Load), Torn}
            \/ RollbackPending /\ boot' \in {RolledBack(Load), Torn}
            \/ StageSwitch /\ boot' \in {MarkedPending(Load, proc.staged), Torn}
<1>1. CASE CommitPending \/ RollbackPending \/ StageSwitch
  BY <1>1 DEF CommitPending, RollbackPending, StageSwitch, TornSave
<1>2. CASE Start \/ ActiveExited \/ CommittedExited \/ PowerLoss \/ UNCHANGED vars
  BY <1>2 DEF Start, ActiveExited, CommittedExited, PowerLoss, vars
<1>3. CASE LaunchActive \/ LaunchPending
  BY <1>3 DEF LaunchActive, LaunchPending, Launch
<1>4. CASE ReportsStarting \/ BecomesReady \/ Exit \/ ChooseSlot \/ EraseInactive
             \/ ApplyFails \/ \E v \in Versions : CopyNew(v)
  BY <1>4 DEF ReportsStarting, BecomesReady, Exit, ChooseSlot, EraseInactive, ApplyFails,
              CopyNew
<1>5. QED
  BY <1>1, <1>2, <1>3, <1>4 DEF Next, Loader, Runtime

\* Once committed too early, a process has been so ever since.
LEMMA OvertakenStays ==
  ASSUME [Next]_vars, ~overtaken'
  PROVE  ~overtaken
BY DEF Next, vars, Start, Loader, LaunchActive, LaunchPending, Launch, ActiveExited,
       CommitPending, RollbackPending, CommittedExited, Runtime, ReportsStarting,
       BecomesReady, Exit, ChooseSlot, EraseInactive, CopyNew, ApplyFails, StageSwitch,
       PowerLoss

\* The version a switch is committed to is the one that reported health.
LEMMA CommittedIsHealthy ==
  ASSUME IInv, CommitPending, ~overtaken'
  PROVE  /\ Load.pending # None /\ Load.pending = Other(Load.active)
         /\ content[Load.pending] \in Healthy
<1> USE DEF IInv
<1>1. loader = "await" /\ proc # NoProc /\ health.ready /\ ~proc.early
  BY DEF CommitPending, HealthReady
<1>2. proc.slot = Load.pending /\ proc.version \in Healthy
  BY <1>1 DEF Loaders, ProcInItsSlot, ReadyIsHealthy
<1>3. content[Load.pending] = proc.version
  BY <1>1, <1>2 DEF RunningSlotIntact
<1>4. Load.pending # None /\ Load.pending = Other(Load.active)
  BY <1>1 DEF Loaders, SwitchUnderWay, SwitchStaged, SwitchNamesOtherSlot
<1>5. QED
  BY <1>2, <1>3, <1>4

\* A rollback and a staged switch leave the active slot as it is.
LEMMA ActiveIsKept ==
  ASSUME TypeOK, Loaders,
         boot' = RolledBack(Load) \/ boot' = MarkedPending(Load, proc.staged),
         proc.staged \in Versions \cup {NoVersion} \/ boot' = RolledBack(Load)
  PROVE  Load'.active = Load.active
<1>1. Load \in BootStates
  BY LoadType
<1>2. CASE boot' = RolledBack(Load)
  <2>1. Load' = RolledBack(Load)
    BY <1>1, <1>2, WrittenBoot, WrittenIsRead
  <2>2. QED
    BY <1>1, <2>1, DecidedSwitch DEF Loaders, SwitchNamesOtherSlot
<1>3. CASE /\ boot' = MarkedPending(Load, proc.staged)
           /\ proc.staged \in Versions \cup {NoVersion}
  <2>1. Load' = MarkedPending(Load, proc.staged)
    BY <1>1, <1>3, WrittenBoot, WrittenIsRead
  <2>2. QED
    BY <1>1, <2>1, StagedSwitch
<1>4. QED
  BY <1>2, <1>3

\* The active slot is healthy when a switch is staged, also when the boot
\* state that is about to be replaced is torn; and the other one is whole.
LEMMA StagedByHealthy ==
  ASSUME IInv, StageSwitch, ~overtaken
  PROVE  /\ Complete(Load.active) => content[Load.active] \in Healthy
         /\ content[Other(Load.active)] \in Versions
         /\ proc.staged \in Versions \cup {NoVersion}
<1> USE DEF IInv
<1>1. proc # NoProc /\ proc.job = "copied" /\ proc \in Processes
  BY DEF StageSwitch, Working, TypeOK
<1>2. CASE proc.early
  <2>1. loader = "await"
    BY <1>1, <1>2 DEF Loaders, EarlyOnTrial
  <2>2. boot # Torn
    BY <2>1 DEF Loaders, SwitchUnderWay, SwitchStaged, Load, DefaultBoot
  <2>3. QED
    BY <1>1, <2>2 DEF ActiveSlotHealthy, CopiedIsComplete, Processes, Loaders,
                      TargetIsInactive, AtWork
<1>3. CASE ~proc.early
  <2>1. proc.slot = Load.active /\ proc.version \in Healthy
    BY <1>1, <1>3, WorkerIsActive DEF ReadyIsHealthy
  <2>2. QED
    BY <1>1, <1>3, <2>1 DEF RunningSlotIntact, CopiedIsComplete, Processes, Loaders,
                            TargetIsInactive, AtWork
<1>4. QED
  BY <1>2, <1>3

\* Filling the slot from the application root, erasing and copying leave an
\* active slot that is complete as it is, or fill it with the base version.
LEMMA ActiveContent ==
  ASSUME IInv, [Next]_vars, boot' = boot, ~overtaken
  PROVE  \/ content'[Load'.active] = content[Load.active]
         \/ ~Complete(Load.active) /\ content'[Load'.active] \in {Base, Partial}
<1> USE DEF IInv
<1>1. Load.active \in Slots /\ Load' = Load
  BY LoadType, UnchangedLoad DEF BootStates
<1>2. Load.active # Other(Load.active)
  BY <1>1, OtherSlot
<1>3. CASE EraseInactive \/ \E v \in Versions : CopyNew(v)
  <2>1. proc # NoProc /\ proc.job \in AtWork
    BY <1>3 DEF EraseInactive, CopyNew, Working, AtWork
  <2>2. proc.target = Other(Load.active)
    BY <2>1 DEF Loaders, TargetIsInactive
  <2>3. QED
    BY <1>1, <1>2, <2>2, ContentStep DEF Complete
<1>4. CASE ~(EraseInactive \/ \E v \in Versions : CopyNew(v))
  BY <1>1, <1>4, ContentStep DEF Complete
<1>5. QED
  BY <1>3, <1>4

LEMMA ActiveStep ==
  ASSUME IInv, [Next]_vars
  PROVE  ActiveSlotHealthy'
<1> USE DEF IInv
<1>1. SUFFICES ASSUME boot' # Torn, ~overtaken',
                      content'[Load'.active] \notin {NoVersion, Partial}
               PROVE  content'[Load'.active] \in Healthy
  BY DEF ActiveSlotHealthy, Complete
<1>0. ~overtaken
  BY <1>1, OvertakenStays
<1>2. Load \in BootStates
  BY LoadType
<1>3. CASE boot' = boot
  BY <1>0, <1>1, <1>3, ActiveContent, SlotAssumption
  DEF ActiveSlotHealthy, Complete, SlotAssumption
<1>4. CASE boot' # boot /\ CommitPending /\ boot' = Committed(Load)
  <2>1. Load' = Committed(Load)
    BY <1>2, <1>4, WrittenBoot, WrittenIsRead
  <2>2. Load'.active = Load.pending
    BY <1>1, <1>2, <1>4, <2>1, DecidedSwitch, CommittedIsHealthy
  <2>3. QED
    BY <1>1, <1>4, <2>2, BootStep, CommittedIsHealthy
<1>5. CASE boot' # boot /\ RollbackPending /\ boot' = RolledBack(Load)
  <2>1. boot # Torn
    BY <1>5 DEF RollbackPending, Loaders, SwitchUnderWay, SwitchStaged, Load, DefaultBoot
  <2>2. Load'.active = Load.active /\ content' = content
    BY <1>5, ActiveIsKept, BootStep
  <2>3. QED
    BY <1>0, <1>1, <2>1, <2>2 DEF ActiveSlotHealthy, Complete
<1>6. CASE boot' # boot /\ StageSwitch /\ boot' = MarkedPending(Load, proc.staged)
  BY <1>0, <1>1, <1>6, ActiveIsKept, BootStep, StagedByHealthy DEF Complete
<1>7. QED
  BY <1>1, <1>3, <1>4, <1>5, <1>6, BootStep

\* A slot that is active and complete stays so, or the one that becomes
\* active is complete: when the boot state is torn that is slot A, which is
\* the active one, or the one just committed to or staged.
LEMMA CompleteStep ==
  ASSUME IInv, [Next]_vars, Complete(Load.active), ~(RollbackPending /\ boot' = Torn),
         ~overtaken'
  PROVE  content'[Load'.active] \notin {NoVersion, Partial}
<1> USE DEF IInv
<1>0. ~overtaken
  BY OvertakenStays
<1>1. Load \in BootStates
  BY LoadType
<1>2. Base \notin {NoVersion, Partial} /\ \A v \in Versions : v \notin {NoVersion, Partial}
  BY SlotAssumption DEF SlotAssumption
<1>3. Healthy \subseteq Versions
  BY SlotAssumption DEF SlotAssumption
<1>4. CASE boot' = boot
  BY <1>0, <1>4, ActiveContent DEF Complete
<1>5. ASSUME boot' = Torn, Load.active \in Slots,
             content[Other(Load.active)] \in Versions, content' = content
      PROVE  content'[Load'.active] \notin {NoVersion, Partial}
  BY <1>2, <1>5, TornIsDefault DEF DefaultBoot, Slots, Other, Complete
<1>6. CASE boot' # boot /\ CommitPending /\ boot' = Committed(Load)
  <2>1. Load' = Committed(Load)
    BY <1>1, <1>6, WrittenBoot, WrittenIsRead
  <2>2. Load'.active = Load.pending
    BY <1>1, <1>6, <2>1, DecidedSwitch, CommittedIsHealthy
  <2>3. QED
    BY <1>2, <1>3, <1>6, <2>2, BootStep, CommittedIsHealthy
<1>7. CASE boot' # boot /\ CommitPending /\ boot' = Torn
  BY <1>1, <1>3, <1>5, <1>7, BootStep, CommittedIsHealthy DEF BootStates
<1>8. CASE boot' # boot /\ RollbackPending /\ boot' = RolledBack(Load)
  BY <1>8, ActiveIsKept, BootStep DEF Complete
<1>9. CASE boot' # boot /\ StageSwitch /\ boot' = MarkedPending(Load, proc.staged)
  BY <1>0, <1>9, ActiveIsKept, BootStep, StagedByHealthy DEF Complete
<1>10. CASE boot' # boot /\ StageSwitch /\ boot' = Torn
  BY <1>0, <1>1, <1>5, <1>10, BootStep, StagedByHealthy DEF BootStates
<1>11. QED
  BY <1>4, <1>6, <1>7, <1>8, <1>9, <1>10, BootStep

-----------------------------------------------------------------------------
(* The theorems *)

\* The invariant holds before the first start and is kept by every step.
LEMMA Inductive == Spec => []IInv
<1>1. Init => IInv
  <2> SUFFICES ASSUME Init
               PROVE  IInv
    OBVIOUS
  <2>1. Load = DefaultBoot
    BY DEF Init, Load
  <2>2. TypeOK
    BY DEF Init, TypeOK, BootStates, Slots, None, DefaultBoot, NoHealth, NoWait
  <2>3. Loaders
    BY <2>1 DEF Init, DefaultBoot, Loaders, NoneBeforeLaunch, ProcInItsSlot, EarlyOnTrial,
                TargetIsSlot, TargetIsInactive, SwitchUnderWay, SwitchNamesOtherSlot
  <2>4. ~Complete(Load.active)
    BY <2>1 DEF Init, DefaultBoot, Complete, Slots
  <2>5. QED
    BY <2>2, <2>3, <2>4 DEF Init, IInv, RunningSlotIntact, ReadyIsHealthy, CopiedIsComplete,
                            ActiveSlotHealthy
<1>2. IInv /\ [Next]_vars => IInv'
  <2> SUFFICES ASSUME IInv, [Next]_vars
               PROVE  IInv'
    OBVIOUS
  <2>1. TypeOK' /\ Loaders'
    BY TypeStep, LoadersStep DEF IInv
  <2>2. QED
    BY <2>1, RunningStep, ReadyStep, CopiedStep, ActiveStep DEF IInv
<1>3. QED
  BY <1>1, <1>2, PTL DEF Spec

\* Every variable keeps its type.
THEOREM TypeCorrect == Spec => []TypeOK
BY Inductive, PTL DEF IInv

\* Whenever the power fails and whoever stages an update, the slot a process
\* runs from keeps the version it was launched with, unless that process
\* began to update while it was itself on trial.
THEOREM RunningSlotIntactAlways == Spec => []RunningSlotIntact
BY Inductive, PTL DEF IInv

\* While no file is torn, a complete active slot holds a version that has
\* been seen healthy, unless a process was committed that had begun to
\* update on trial.
THEOREM ActiveSlotHealthyAlways == Spec => []ActiveSlotHealthy
BY Inductive, PTL DEF IInv

\* No step, a power failure in the middle of a save included, makes an
\* installed Gateway one that cannot be started; a torn rollback and the
\* commitment of a process that updated on trial are excepted.
THEOREM ActiveStaysCompleteAlways == Spec => ActiveStaysComplete
<1>1. IInv /\ [Next]_vars =>
        [Complete(Load.active) /\ ~(RollbackPending /\ boot' = Torn) /\ ~overtaken'
           => Complete(Load.active)']_vars
  BY CompleteStep DEF Complete
<1>2. QED
  BY Inductive, <1>1, PTL DEF Spec, ActiveStaysComplete
=============================================================================
