----------------------------- MODULE AutoApply -----------------------------
(***************************************************************************)
(* RequiredUpdateAutoApplier (auto_update.py): the main loop applies a     *)
(* required update by itself once the Gateway is idle.  Of the update      *)
(* manager's state it reads and writes required and busy only; SelfUpdate  *)
(* joins the steps of the two.                                             *)
(*                                                                         *)
(* One pass of the main loop is one tick of the clock.  Times are ages,    *)
(* which stop growing past the longest of the three delays.                *)
(***************************************************************************)
EXTENDS UpdateManager, Integers

CONSTANTS
  BootGrace, IdleTime, RetryTime,     \* BOOT_GRACE_SEC, IDLE_SEC, RETRY_SEC
  MaxManual                           \* bound of the model: updates by hand

ASSUME DelayAssumption ==
  /\ BootGrace \in Nat /\ IdleTime \in Nat \ {0} /\ RetryTime \in Nat \ {0}
  /\ MaxManual \in Nat

VARIABLES
  serving,      \* a device is being served (is_idle is its negation)
  uptime,       \* time since _started_at
  idle_for,     \* time since _idle_since, or Never
  blocked,      \* time left until _blocked_until
  attempted,    \* _attempted
  quiet,        \* history: passes in a row that found no device served
  attempt_age,  \* history: time since the last attempt, or Never
  manual

applier == <<serving, uptime, idle_for, blocked, attempted, quiet,
             attempt_age, manual>>
applierVars == <<applier, required, busy>>

Never == -1
Longest == CHOOSE t \in {BootGrace, IdleTime, RetryTime} :
             t >= BootGrace /\ t >= IdleTime /\ t >= RetryTime
Older(age) == IF age = Never \/ age > Longest THEN age ELSE age + 1

\* The values one pass works with: the clock has moved on by one.
Now == [uptime |-> Older(uptime), idle |-> Older(idle_for),
        left |-> IF blocked > 0 THEN blocked - 1 ELSE 0]

\* An attempt that is over and left the Gateway running blocks the next.
LeftBlockedNot == Now.left                        \* fault: no block is set
LeftBlocked == IF attempted THEN RetryTime ELSE Now.left

Waits(left) == left > 0 \/ Now.uptime < BootGrace

IdleKept == Now.idle                      \* fault: a served device ignored
IdleReset == Never

IdleNever == FALSE                                  \* fault: never started
IdleLongEnough == Now.idle # Never /\ Now.idle >= IdleTime

Start ==
  /\ busy' = TRUE
  /\ attempted' = TRUE
  /\ idle_for' = Never
  /\ attempt_age' = 0

Attempts == ~busy /\ required /\ ~Waits(LeftBlocked) /\ ~serving /\ IdleLongEnough

Service ==
  IF busy
  THEN /\ idle_for' = Now.idle /\ blocked' = Now.left
       /\ attempt_age' = Older(attempt_age)
       /\ UNCHANGED <<busy, attempted>>
  ELSE /\ blocked' = LeftBlocked
       /\ IF Attempts THEN Start
          ELSE /\ attempted' = FALSE
               /\ attempt_age' = Older(attempt_age)
               /\ UNCHANGED busy
               /\ idle_for' = IF ~required THEN Never
                              ELSE IF Waits(LeftBlocked) THEN Now.idle
                              ELSE IF serving THEN IdleReset
                              ELSE IF idle_for = Never THEN 0
                              ELSE Now.idle

\* A pass of the main loop.
Pass ==
  /\ Service
  /\ uptime' = Now.uptime
  /\ quiet' = IF serving THEN 0 ELSE Older(quiet)
  /\ UNCHANGED <<required, serving, manual>>

\* The operator's "update now" (web or remote).
ManualStart ==
  /\ ~busy /\ manual < MaxManual
  /\ manual' = manual + 1
  /\ busy' = TRUE
  /\ UNCHANGED <<required, serving, uptime, idle_for, blocked, attempted,
                 quiet, attempt_age>>

\* A device counts as served for some seconds after its last frame: at
\* least one pass of the loop sees it.
DeviceArrives ==
  /\ ~serving /\ serving' = TRUE
  /\ UNCHANGED <<required, busy, uptime, idle_for, blocked, attempted, quiet,
                 attempt_age, manual>>

DeviceLeaves ==
  /\ serving /\ quiet = 0 /\ serving' = FALSE
  /\ UNCHANGED <<required, busy, uptime, idle_for, blocked, attempted, quiet,
                 attempt_age, manual>>

-----------------------------------------------------------------------------
ApplierInit ==
  /\ required \in BOOLEAN /\ serving \in BOOLEAN
  /\ busy = FALSE
  /\ uptime = 0 /\ idle_for = Never /\ blocked = 0 /\ attempted = FALSE
  /\ quiet = 0 /\ attempt_age = Never
  /\ manual = 0

-----------------------------------------------------------------------------
(* Properties *)

OwnStart == ~busy /\ busy' /\ UNCHANGED manual

ApplierTypeOK ==
  /\ {required, busy, serving, attempted} \subseteq BOOLEAN
  /\ {uptime, quiet} \subseteq 0..(Longest + 1)
  /\ {idle_for, attempt_age} \subseteq Never..(Longest + 1)
  /\ blocked \in 0..RetryTime
  /\ manual \in 0..MaxManual

\* A release that cannot be applied does not make the Gateway try over and
\* over: after an attempt that left it running, the next one of its own
\* comes RETRY_SEC later at the earliest, whatever was started by hand
\* between them, and none comes while a device is served or before BootGrace.
AttemptsAreSpaced ==
  [][OwnStart =>
       /\ attempt_age = Never \/ attempt_age >= RetryTime
       /\ ~serving /\ uptime' >= BootGrace]_applierVars

\* Without updates by hand, an attempt follows IDLE_SEC of passes none of
\* which saw a device served.
AppliesOnlyWhenQuiet ==
  [][OwnStart => manual > 0 \/ quiet >= IdleTime]_applierVars

-----------------------------------------------------------------------------
(* Statements of the documents that the code does not keep; README.md,     *)
(* section 5, says how each fails.                                         *)

\* auto_update.py: "a required update is applied once no device has been
\* served for IDLE_SEC".
AppliesOnceIdle == [][OwnStart => quiet >= IdleTime]_applierVars
=============================================================================
