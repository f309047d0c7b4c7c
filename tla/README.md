# New Horizons Gateway: a TLA+ model, its checks and proofs

The Gateway is a Python process that stands between sensor devices on a LAN
and a backend ("Desktop" or cloud). Devices find it by UDP broadcast (FindMe),
send it stream packets, heartbeats and JSON control frames, and receive
commands; the Gateway forwards everything over one WebSocket (WSS), answers
remote commands, and updates itself through two installation slots and a
bootloader. This directory models the parts of it whose correctness depends
on several threads, processes or machines, checks them with TLC, and proves
their safety for every size with TLAPS.

Paths below are relative to `src/newhorizons_gateway/` unless they begin with
`src/`.

## 1. Inventory

### Threads and processes

| actor | runs | touches |
|---|---|---|
| main loop (`main.run`) | every 0.5 s: status push, update check, auto-applier, `udp_commands.service()`, `result_chunks.purge()` | everything |
| UDP thread (`local_device.py`, the UDP ingest server) | `on_udp_packet`, `handle_udp_control` | presence table, dispatcher, chunk buffers, upstream queues |
| discovery thread | FindMe requests and offers | presence table, claims |
| WSS loop and send threads | connection, `on_upstream_message`, `on_command` | queues, claims, dispatcher, update manager |
| one thread per remote command | `remote_commands.py`, then `operations.py` | configuration, running parts, claims, update manager |
| web threads | `operations.py` | configuration, running parts, claims, update manager |
| update worker | check, download, apply, stage | update manager, slots, boot state |
| bootloader process | launches slots, commits or rolls back | `boot_state.json`, `health.json`, slots |

### Components

| component | state | operations | interacts with | hard part | correct when |
|---|---|---|---|---|---|
| UDP command dispatcher (`udp_control.py`) | sessions, pending entries, sequence number | set_session, send_command(_to), handle_ack, handle_result, service, snapshot | main loop, UDP thread, WSS thread; callback to claims and backend | callbacks outside the lock, lost and late answers, wrapping numbers, stale sessions | every command has one fate and is decided; an acknowledged one is never reported failed |
| FindMe claims (`state.py`, `operations.serve`, `discovery.py`) | claims table | create, update, deliver-failed, attach, scan | dispatcher's timeout, backend's claim updates, heartbeats, offers | `serve` is many steps; claims change under it | a completed claim stays so, heartbeats complete the oldest open one, offers name the right device, expired claims of listed devices settle |
| presence table (`state.py`, `main.py`) | connected, last seen, last FindMe per device | frame handlers, stale marking, deny/allow | auto-applier (serving count), backend display, other Gateways on the LAN | replies routed through a Gateway the device has left | one home per device, nothing connected for ever, quiet devices dropped |
| A/B boot (`bootloader.py`, `boot_state.py`, `src/scripts/`) | boot state, health, slots | launch, await, commit, roll back | update manager, power | crash between any two writes | the active slot is startable and was seen healthy; a staged switch happens and is decided |
| update manager (`update_manager.py`) | channel, manifest, required flag, phase, busy | check, download, apply, start_update, restart, set_channel, hello_ack | everyone calls check() | `phase` is display and error channel at once | what is staged is whole, verified, newer |
| auto-applier (`auto_update.py`) | idle and retry windows | service | presence, update manager | windows measured over passes that return early | attempts spaced, only when idle, and again and again |
| upstream client (`upstream_wss.py`) | socket, flags, control and data queue | start, stop, update_server, send_*, loops | all producers, backend | threads outlive stop(); shared socket | nothing vanishes; online and queues emptied when started, offline when stopped |
| result chunks (`result_chunks.py`) | buffers per request | add, purge | UDP thread, main loop | no lock | whole results only, nothing piles up |
| version order (`versioning.py`) | none | compare, is_newer | update manager | prereleases, missing numbers | a strict order; a Gateway that is up to date is left alone |
| data queue (`queueing.py`) | a bounded queue of packets | put, get | UDP thread, send threads | put is two steps when the queue is full | the oldest packet goes, control messages never |
| management (`config_store.py`, `operations.py`, `remote_commands.py`, `main.apply_runtime_config`) | configuration in memory and file, the parts that run, calls | settings, channel, factory reset, deny, allow, start of the process | web, backend, upstream, UDP server, discovery, update manager | read, change, write and apply without a lock; answers and deferred effects; writes and binds that fail | an enabled Gateway has an id; memory, file and parts agree; every call is answered |
| wire formats, time service, web pages, consoles, scripts | little | - | - | - | *not modelled*, see section 7 |

The hazards - each at its line, with the properties that would catch it - are
listed in `PROJECT.json`.

## 2. Modules

One module per component. Its variables, `Init`, one action per handler or
per step between two releases of a lock, `Next`, `Spec`, `FairSpec` (where
liveness is checked) and its properties are in the module itself. Definitions
keep the names of the Python functions where they can. Definitions marked
`fault` are deliberately broken forms of the one that follows them; no
specification uses them, they show that the properties can fail.
`MC*.tla` only adds constants for TLC.

| module | models | notes on the correspondence |
|---|---|---|
| `CommandContract` | the promise about one command | abstract specification, state = status per command |
| `CommandDispatch` | `udp_control.py`, `main.on_command`, `main.on_udp_delivery_timeout` | refines `CommandContract` (property `Contract`). A frame is two steps, `Receive*` (the session is recorded) and `HandleAck`/`HandleResult`, as in `handle_udp_control`. `Service` is the locked part; the callbacks are steps of their own |
| `Claims` | `state.py` claims, `operations.serve`, offers | `serve` is five steps, one for each call it makes on shared state; a call is named by the claim it creates, so any number of calls may overlap. What may be offered is an operator of the state (`Offers`), not a variable. The devices a snapshot lists are those with a record or a queued FindMe request (`Listed`), and both are forgotten |
| `Presence` | `state.py` device records, frame handlers | several Gateways and devices; the device's real home is an external variable |
| `SlotSwitch` | `bootloader.py`, `boot_state.py`, end of `update_manager`, `start_runtime.py` | two processes and two files; every save may be torn by a power failure. `apply` settles its slot (`ChooseSlot`), erases it and copies, in whichever process: the active one, a committed one or one still awaited |
| `UpdateManager` | `update_manager.py` | the worker and each checker thread are programs with a place; `check()` is begin / manifest arrives / end |
| `AutoApply` | `auto_update.py` | extends `UpdateManager`, of which it uses `required` and `busy` only; one action is one pass of the main loop; no specification of its own |
| `SelfUpdate` | `main.run`'s loop | composes `AutoApply` and `UpdateManager`: `required` and `busy` are variables of both, a pass that attempts is `StartUpdate` |
| `Management` | `config_store.py`, `operations.py`, `remote_commands.py`, `main.apply_runtime_config`, the requests of `web.py` | a call is a program with a place, from its gate to its answer; `save` is Merge, Assign, Dump, Replace, and `apply_runtime_config` one step and then one per part |
| `Upstream` | `upstream_wss.py`, `queueing.py` | a socket is named by the loop that opened it; several loops and send threads may exist |
| `ResultChunks` | `result_chunks.py` | add and purge cut at the points where the other thread can come in |
| `Versioning` | `versioning.py` | strings as what the regular expression finds in them; announcement, manifest, change of channel and installation as whole steps (their interleavings are in `UpdateManager`, whose versions are numbers) |
| `ClaimsProofs`, `CommandDispatchProofs`, `ManagementProofs`, `PresenceProofs`, `ResultChunksProofs`, `SelfUpdateProofs`, `SlotSwitchProofs`, `UpstreamProofs` | - | theorems, section 6. `SelfUpdateProofs` holds those of the whole update path: `UpdateManager`, `AutoApply`, `SelfUpdate` and `Versioning` (whose specification has names of its own, `UpgradeSpec`, so that one module can extend both) |

### Abstractions

* Clock readings are kept as ages (or time left) that stop counting once no
  guard can tell larger values apart. A tick is one unit of the constants.
* Names, payloads and addresses are model values. Counters for display,
  wording and formatting are left out.
* The network: a packet ever sent may be acknowledged or answered at any
  later time, any number of times, or never. A frame of a denied device is a
  lost frame for the dispatcher.
* `CommandDispatch`: a frame matches several entries only after sequence
  numbers have wrapped; the code takes the first in dict order, the model any.
  The entries `service()` gave up are reported in any order.
* `SlotSwitch`: the version a process reports is the one the bootloader told
  it (`main.py:48`), so the version half of the health test cannot fail. Where
  a version is removed or copied, "part of it" is one value. A release is
  healthy if it serves its web page and reports health; one that serves the
  page, and so can update, but never reports is not represented. `early` and
  `overtaken` are history variables: they record a process that began an
  update while the bootloader still waited for it, and that such a process
  was committed.
* `Claims`: a device with no record and no queued request is forgotten; which
  devices may be (and may be denied) is the constant `Visitors`. A record may
  be pruned at any time, a request pushed out at any time: the ages and the
  120 places that decide when are left out (the ages are in `Presence`). The
  states a backend writes are a constant and may be any.
* `Presence`: the FindMe block of a reply may say that the device is attached
  to its home, or name any Gateway in another state; what an answer to
  `findme_switch_gateway` says is not read.
* `Versioning`: an installation is one step of the process that was told of
  the versions; that it forgets them is the restart. It is made of what the
  manifest names, as `_stage_switch` does. `outdated` is a history variable.
* `UpdateManager`: a behaviour is one run of `main.run`. `restart()` is one
  step at the time its callback runs; that it read the boot state earlier is
  what its `soft` value stands for when the worker stages afterwards.
* `SelfUpdate`: one pass of the main loop is one tick, as in `AutoApply`; the
  other steps take no time. The update manager is the module unchanged.
* `Management`: of a configuration the settings that calls change; a server
  is the pair of `target_mode` and `manual_url`, and an id that does not match
  the pattern is cleared like an empty one. A refusal (a required update, a
  value that does not exist) may come at any call that can have one. What
  `apply_runtime_config` assigns before it starts or stops parts is one step.
  `Restart` ends the process between any two steps and starts it with the
  file. `mixed` records what overlapping calls and failed writes or binds may
  have left unequal; a call that runs alone from its first read takes that back.
* `Upstream`: `settled` joins the messages that are sent, pushed out of a
  full queue, replaced by a later status or, packets only, lost in a send.
  The pause between two attempts changes nothing and is left out.
* `ResultChunks`: a list comprehension over the dict either completes or, if
  the dict changed its size meanwhile, raises. Text is left out: a slice is
  its index and the reply it comes from; a mixture of replies may or may not
  parse.

## 3. What the runs check

One passing run per component or composition: safety, action and liveness
properties of the same instance, under the fairness of section 4 where there
is any.

| run (`.cfg`) | what it shows | bounds |
|---|---|---|
| `dispatch` | one fate per command; an acknowledged one is never reported failed; none is silently lost; an acknowledgement marks only a command it names; the retry budget holds; a late send failure leaves the new session of a moved device alone; every step is a step of `CommandContract`; every command is decided | 1 device, 2 addresses, 2 commands that may share the request id, lifetimes over / one tick / none, `SeqMax` 2 and a counter that starts at 0 or about to wrap |
| `claims` | a completed claim is only reopened by the backend; a heartbeat completes the oldest open one; every possible offer names a claim of the device; expired claims of listed devices settle | 2 devices, one of which may be forgotten and denied, 2 claims, whose two calls of `serve` may overlap, a backend that writes a state of its own or "attached" |
| `presence` | no device is claimed on the strength of a relayed reply; connected records are dated; Gateways do not keep flipping over a device; denied devices go offline; dated quiet ones are dropped | 2 Gateways, a device that moves once, a late reply, one Gateway whose operator may deny |
| `slots` | running slot untouched; active slot startable and seen healthy, with torn writes; a rollback restores service - all of them also beside updates that a process on trial begins, whose own consequences are excepted | 3 updates, 1 release that never gets healthy, 2 power failures |
| `update` | what an undisturbed sequence stages is whole, just downloaded, and what the bootloader will expect; every sequence ends | 2 versions, 2 channels and a switch between them, another checking thread, a remote restart |
| `self_update` | the main loop's own attempts are spaced and, without updates by hand, come only when quiet; an update that stays required at a Gateway that serves no device is in the end staged and restarted into | windows of 1, 2 and 3 passes, 1 update by hand, any number of update sequences, 2 versions on 1 channel, no checks but the worker's |
| `management` | an enabled Gateway has an id, in memory and in the file; memory, file and running parts agree when no call is at work; a call alone changes only what it is about; every call is answered, and what was promised comes after the answer | 2 calls, each of every kind, one failure (write, bind or end of the process), a Gateway that is set up and one that never was |
| `upstream` | nothing vanishes between the threads; online and queues emptied when started, offline when stopped | 2 loops, 2 senders, queues of 1, 2 messages or packets |
| `chunks` | whole results only; unfinished buffers go away | 2 replies of 2 or 3 slices to one request |
| `versions` | nothing is installed unless a newer version was heard of; the order is the published rule | 183 version strings that may run, 9 of them released |

Two more runs are refuted; section 5 describes them. Every property has a
mutant in `PROJECT.json`, a plausible bug of the code that violates it.
`TypeOK` of `CommandDispatch` is among them; that of the other modules
documents their variables and is proved (section 6).

**Why the bounds are enough.** Every guard of the code compares a time with
one threshold or two of them with each other; the constants are the smallest
that keep these orders apart (an age just under, at and over each window).
Two claims, Gateways, loops, calls and addresses are what every interaction in
the code is between (in `management` a third thread, the main one, is at work
at the start); two commands (updates, replies) give an old and a new one,
and `SeqMax = 2` brings the wrap that needs 65535 commands within reach. The
`dispatch` run has one device: sessions and entries of different devices meet
only in the shared sequence number. For the safety properties the bounds do
not matter in the end: the theorems of section 6 hold for any values of the
constants. The liveness properties rest on the instances.

`CHECK_DEADLOCK FALSE` stands only where the system really stops: a run of
`UpdateManager` ends when `main.run` returns, a stopped `Upstream` client
whose bound of loops is used up stays stopped, and `Management` stops when its
calls are used up.

Larger instances, too slow to be kept as runs, gave no other answer: three
calls in `Management` with fewer kinds of requests, and `SelfUpdate` with the
main loop's own checks (`Checkers = {main}`, windows of 0, 1 and 2 passes, no
update by hand), where attempts were shown to be spaced and made again and
again. There `RequiredIsInstalled` is not claimed: a check that fails whenever
a download has just ended hides its success from the worker, time and again.

## 4. Fairness

* `CommandDispatch`: weak fairness of `Service`, of the callbacks it owes, of
  the frame the UDP thread has begun, and of time. The main loop calls
  `service()` every 0.5 s; nothing else it calls blocks for ever. No fairness
  is assumed of the network or the device.
* `Claims`, `Presence`: time passes and the status push, every 5 s, scans the
  tables (`Snapshot` for the devices it lists, `MarkStale`). Nothing is assumed
  of devices.
* `SlotSwitch`: the bootloader goes on, and a process that was asked to
  restart exits. Rollback after the time limit is part of the loader's steps.
* `UpdateManager`: the worker goes on, since every transfer has a timeout;
  the main loop notices its restart event.
* `SelfUpdate`: the main loop goes round (strong fairness, as a pass waits for
  the check its own thread makes), worker and restart go on, and a manifest, a
  download and a copy succeed now and then - a release that can never be
  fetched is never installed.
* `Upstream`: loops and send threads go on; strong fairness of a successful
  connection, of its hello, of taking a message while connected and of sending
  it stands for a backend that is reachable now and then, for long enough to
  send something. Without it `ComesOnline` and `QueuesDrain` could not be
  expected of any client.
* `Management`: none; its properties are safety properties.
* `ResultChunks`: both threads go on, time passes; none of chunks.

## 5. Disagreements between the code and what it says

Two are runs that TLC refutes with a trace; the statements are quoted in
`PROJECT.json`.

| run | what happens |
|---|---|
| `update_not_newer` | with the manifest not newer yet, the running version is staged again and the Gateway restarts (`update_manager.py:381`); `src/README.md:123-124` says such an attempt leaves it running |
| `slot_undecided` | a pending slot that cannot be prepared ends the bootloader with the switch undecided (`bootloader.py:177`); `src/README.md:117-118` says it rolls back |

The others are stated in the modules, under a heading of their own, and have
no run; with the property named here in a `.cfg` of these constants TLC finds
a trace.

| property | what happens | instance |
|---|---|---|
| `Claims!OfferMatchesDeviceClaim` | a device switching under its newer claim is offered an older open one, although the comment says its own is mirrored so that its check passes (`discovery.py:139-143`) | `Claims.cfg` with one device |
| `Presence!QuietDevicesDropped` | a record created by a dropped packet or an unnamed reply has no timestamp and is never pruned (`state.py:418`); `state.py:25-26` says every quiet device is | `Presence.cfg`, `Deniers = {}` |
| `SlotSwitch!UpdatesInactiveSlot` | a process the bootloader still waits for (up to 30 s, for instance because its web page does not listen on 127.0.0.1 and the probe of `bootloader.py:152` fails) is not active yet: an update started on its page takes its own slot for the inactive one, and erases it (`update_manager.py:302`); `src/README.md:114-115` | `Slots.cfg` |
| `SlotSwitch!ExitSwitchesSlot` | an update staged by a just committed slot relaunches the active slot instead of switching (`bootloader.py:186`); `src/README.md:116` | `Slots.cfg` |
| `UpdateManager!RequiredByChannel` | a required update survives a channel switch made during a sequence or a check (`update_manager.py:93`), which the docstring at 86-87 excludes | `Update.cfg` |
| `UpdateManager!NeverDowngrades` | a left-over required flag makes the worker stage an older version (`update_manager.py:219`); line 88 says leaving beta never does | `Update.cfg`, `Versions = {1, 2, 3}` |
| `UpdateManager!StagesVerifiedVersion` | another thread's `check()` overwrites the error phase, and a slot that failed to copy is staged (`update_manager.py:389`); `src/README.md:114-115` | `Update.cfg` |
| `UpdateManager!StagedSwitchExits` | a restart command just before staging makes the run end softly, and the staged switch waits (`update_manager.py:356`); `src/scripts/start_runtime.py:108-109` | `Update.cfg` |
| `AutoApply!AppliesOnceIdle` | the idle window is not reset while an update by hand is busy (`auto_update.py:54`), against lines 3-4 | `SelfUpdate.cfg` |
| `Upstream!SettingsTakeEffect` | a server change during a connection attempt leaves the client on the old server (`upstream_wss.py:184`); `remote_commands.py:130-131` | `Upstream.cfg` with two `Urls` |
| `ResultChunks!AllSlicesGiveResult` | the main loop's purge removes a buffer the UDP thread has just started, and a reply all of whose slices came is lost (`result_chunks.py:31`), against lines 16-17 | `Chunks.cfg` |
| `Management!RepliesBeforeCutting` | `set_update_channel` configures the running parts, which closes the connection, and answers afterwards (`remote_commands.py:170`); lines 9-11 say what cuts the connection replies first, though they do not name this command | `Management.cfg` |
| `Management!OffIsOff` | a UDP or FindMe port that is taken leaves the upstream client running with `runtime_started` false, and switching the Gateway off then stops nothing (`main.py:290`); so may overlapping calls and a failed write; `src/README.md:40` | `Management.cfg` |
| `Management!OnlyTheWebPageReopens` | a factory reset from the Desktop that was let in before the operator closed remote management, or an unlocked save that merged before it, opens it again (`operations.py:140`, `config_store.py:146`); `src/README.md:38` | `Management.cfg` |

Also seen, and contradicted by no statement of the repository: `serve` writes
"requested" over a claim that a heartbeat has completed meanwhile
(`operations.py:197`, the exception in `AttachedStays`); an expired claim
that the backend updates after the Gateway has forgotten its device
(`state.py:421` and `42`) keeps that state until the device is heard of again
(`ExpiredClaimsSettle` is about listed devices); a process that updated its
own slot while on trial and is then committed leaves an active slot that is
incomplete or was never seen healthy (the exceptions of `ActiveStaysComplete`,
`ActiveSlotHealthy` and `RollbackRestoresService`, each of which TLC needs);
a torn write of the
boot state during a rollback falls back to slot A, complete or not (the
exception in `ActiveStaysComplete`); an acknowledged command without an
expiry stays in the table until its result comes; a size change of the chunk
buffers during `purge` raises in a thread that does not catch it; a write of
the configuration that fails leaves the new settings in memory only, and the
parts on the old ones (`config_store.py:153`); the web server takes calls
before the main thread has applied the settings it started with, which may
then be older than theirs (`main.py:343`); of overlapping commits, the last to
be applied need not be the last to be saved; a packet that finds the data
queue full, and empty a moment later, is given up (`queueing.py:24`).

## 6. What is proved

Every invariant and every action property of the runs is proved, for any
values of the constants that satisfy the assumptions the modules state, and so
is the refinement of `CommandContract`. Sets of devices, Gateways, threads,
versions may be of any size; the bounds of the model (`MaxClaims`,
`MaxMessages` and the like) may be any numbers.

| module | theorem | statement |
|---|---|---|
| `CommandDispatchProofs` | `TypeCorrect`, `OneOutcomeAlways`, `AckedNeverFailedAlways`, `NoSilentLossAlways`, `BoundedAttemptsAlways` | `Spec => []` of `TypeOK`, `OneOutcome`, `AckedNeverFailed`, `NoSilentLoss`, `BoundedAttempts` |
| | `MovedDeviceKeepsSessionAlways` | `Spec => MovedDeviceKeepsSession` |
| | `ContractHolds` | `Spec => Contract`, the specification of `CommandContract` under the refinement mapping `StatusOf` |
| | `AckReachesItsCommandAlways` | `MaxCommands <= SeqMax => (Spec => AckReachesItsCommand)` |
| `ClaimsProofs` | `TypeCorrect`, `OfferedClaimIsDevicesAlways` | `Spec => []` of `TypeOK`, `OfferedClaimIsDevices` |
| | `AttachedStaysAlways`, `OldestClaimAttachesAlways` | `Spec =>` the action property |
| `PresenceProofs` | `TypeCorrect`, `ConnectedIsTimedAlways` | `Spec => []` of `TypeOK`, `ConnectedIsTimed` |
| | `ConnectsOnlyWhenChosenAlways` | `Spec => ConnectsOnlyWhenChosen` |
| `SlotSwitchProofs` | `TypeCorrect`, `RunningSlotIntactAlways`, `ActiveSlotHealthyAlways` | `Spec => []` of `TypeOK`, `RunningSlotIntact`, `ActiveSlotHealthy` |
| | `ActiveStaysCompleteAlways` | `Spec => ActiveStaysComplete` |
| `SelfUpdateProofs` | `ManagerTypeCorrect`, `StagedWholeAlways` | of `UpdateManager`: `Spec => []TypeOK`, `Spec => StagedWhole` |
| | `ComposedRefinesManager`, `ComposedStagedWhole` | `ComposedSpec => Spec`, and therefore `ComposedSpec => StagedWhole` |
| | `TypeCorrect` | `ComposedSpec => []ApplierTypeOK` |
| | `AttemptsAreSpacedAlways`, `AppliesOnlyWhenQuietAlways` | `ComposedSpec =>` the action property |
| | `UpToDateStaysAlways` | `UpgradeSpec => UpToDateStays` |
| | `MatchesPrecedenceAlways` | `UpgradeSpec => []MatchesPrecedence` |
| | `NewerIsStrictOrder` | `IsNewer` is irreflexive and transitive on `Strings` |
| `ManagementProofs` | `TypeCorrect`, `EnabledNamesGatewayAlways`, `NoCallForgottenAlways`, `AgreeAtRestAlways` | `Spec => []` of `TypeOK`, `EnabledNamesGateway`, `NoCallForgotten`, `AgreeAtRest` |
| | `DeferredAfterReplyAlways`, `KeepsOtherSettingsAlways` | `Spec =>` the action property |
| `UpstreamProofs` | `TypeCorrect`, `NothingVanishesAlways` | `Spec => []` of `TypeOK`, `NothingVanishes` |
| `ResultChunksProofs` | `TypeCorrect`, `WholeResultsAlways` | `Spec => []` of `TypeOK`, `WholeResults` |

**From which assumptions.** Those named in the modules, which say what the code
takes for granted: windows and sizes are natural numbers, the ones that must
be are positive, the values that stand for "none" are not among the others.
`SlotAssumption` says that a torn file is no boot state and that a version is
not what stands for a partial copy. The one hypothesis beyond them is that of
`AckReachesItsCommandAlways`: the numbers of packets do not wrap. It cannot be
left out - after 65536 commands an acknowledgement that is late enough may name
another command - and states satisfy it, as every run of fewer commands does.

**Along which arguments.** Few of the properties are inductive. Each proof
module states its inductive invariant at its top or before the steps, in named
parts; TLC found no violation of any of them on an instance of the module
before it was proved.

* `CommandDispatch`: `OneOutcome` says nothing of commands yet to be issued, so
  a new command could collide with an old fate; `AckedNeverFailed` says nothing
  of the flag `service()` decides by. `Fates` adds to them that a command has
  one entry (`OneEntry`) and no final fate yet while it has it (`Undecided`),
  that final fates exclude one another (`OneFinal`), that only issued commands
  appear (`OnlyIssued`), that the flag and the log agree (`AckKnown`,
  `AckSettles`) and that every issued command is somewhere (`Recorded`). Each
  change the code makes to the tables is one lemma; `FatesStep` cites one for
  each action.
* The contract: `StatusTable` says which status of the contract each place in
  the tables means. Every action is then a change of status that the contract
  allows; `KeyedOnce` (no two entries with one key, as they share a dict) shows
  that a new command supersedes one entry at most.
* Acknowledgements: `Numbered` (no number above the last one given is in use),
  `OneSeq` and `Addressed` (a packet carries the names of the entry that has its
  number).
* `Claims`: `OfferedClaimIsDevices`, of all offers that could be made in a
  state, needs that devices switch under claims made for them
  (`DeviceClaims`). `OldestClaimAttaches` rests on a lemma about the operator
  that chooses a claim: of a nonempty set of numbers it returns the least; the
  states a backend writes are not restricted, its own "attached" is told apart
  by the step that writes it (`BackendAttaches`).
* `Presence`: an invariant of one record (`Sound`: connected only with a
  timestamp, empty until known) that every function on records preserves, so
  that each frame handler needs one line.
* `SlotSwitch`: `RunningSlotIntact` holds because no process runs when one is
  launched, each runs in the slot its phase allows (`Loaders`), and one that
  was not on trial when it chose the slot to write has chosen another than its
  own (`TargetIsInactive`; `EarlyOnTrial` says where the others can be).
  `ActiveSlotHealthy` holds because only a version that comes up reports ready
  or works on an update (`ReadyIsHealthy`) and because a staged switch names
  the other slot, with a complete copy in it (`SwitchNamesOtherSlot`,
  `CopiedIsComplete`), all of it as long as no process was `overtaken`.
* `UpdateManager`: `Straight` follows an undisturbed sequence from place to
  place - either the phase is "error" or what it has left behind so far is
  whole. Steps of other threads either leave what it is about alone or count as
  a disturbance. `ComposedRefinesManager` shows that joining the applier adds no
  behaviour, so that what is proved of the manager alone holds of both.
* `AutoApply`: `Spaced` - the age of the last attempt and the time the block
  still lasts make up `RETRY_SEC`, although an update by hand may come between;
  `Undisturbed` - the idle time never exceeds the passes that saw no device.
* `Versioning`: the comparison step by step and the rule in one piece are the
  same relation (`NewerPrecedes`); the rule is lexicographic, hence transitive
  and never circular (`PrecedesOrder`). `Grounded` - the required flag, or a
  newer manifest, is only there when a newer version was heard of - then gives
  `UpToDateStays`. The
  loop of the code stops at the first difference; that a nonempty set of places
  has a first one (`FirstOf`) is all the proof needs of it, no induction.
* `Management`: `EnabledNamesGateway` needs the same of every configuration
  that is on its way between `Merge` and `Replace` (`Shape`). `AgreeAtRest` and
  `KeepsOtherSettings` share `Agreement`: calls at work that overlap have
  everything on record as unequal (`Overlap`), and one that is alone has
  reached, place by place, an agreement of memory, file and parts (`Tidy`).
  `NoCallForgotten` and `DeferredAfterReply` share `Numbered`.
* `Upstream`: only a thread that is sending holds a message (`Hands`); then no
  step loses the last reference to one. The proofs need `Retained`, a definition
  of what `SelectSeq` computes, as the provers know no `SelectSeq`; TLC compared
  the two on all queues of up to four messages.
* `ResultChunks`: the buffer that `add()` holds fits its chunk (`UdpOK`) even
  when the main loop has taken it out of the dict meanwhile; the lemma
  `FitsStored` is the step that stores a slice.

**Only model-checked:** liveness and all else that needs fairness
(`EveryCommandDecided`, `ExpiredClaimsSettle`, `OneHomeEventually`,
`DeniedGoesOffline`, `QuietTimedDevicesDropped`, `RollbackRestoresService`,
`SequenceEnds`, `RequiredIsInstalled`, `ComesOnline`, `GoesOffline`,
`QueuesDrain`, `UnfinishedAreForgotten`): the provers reason neither about
fairness nor about `ENABLED`. The statements of section 5 are refuted by TLC.

## 7. Not modelled, and why

Wire formats (`wire.py`, `arduino_protocol.py`) and the time service are
stateless. The web pages, the terminal consoles and `stop.py` hold no state of
the protocols. The regular expression of `versioning.py`, the file formats of
the stores, the environment variables and the rate counters of
`upstream_wss.py` are left out. So is a second `main.run` in the process of
the first (a soft restart) with threads of the first still at work - a command
between its answer and its effect, the update worker, a late WSS loop: it would
double the state of every module it touches.

## 8. Plan

Done, with proofs: `CommandContract`, `CommandDispatch`, `Claims`,
`Presence`, `SlotSwitch`, `UpdateManager`, `AutoApply`, `SelfUpdate`,
`Upstream` with the data queue, `Management`, `ResultChunks`, `Versioning`, in
the order of how much of the product depends on them. Next:

1. Proofs: what the liveness properties rest on and is safety - measures that
   only decrease (retries left, claims open, steps to the end of a sequence) -
   and the composition of item 2.
2. Compositions: `CommandDispatch` with `Claims` (the delivery timeout of the
   switch command), `UpdateManager` with `SlotSwitch` (from announcement to
   commit), `Presence` with `SelfUpdate` (the serving count).
3. An abstract specification of the update path ("the Gateway always runs a
   version seen healthy").
4. The soft restart with threads that outlive it.
