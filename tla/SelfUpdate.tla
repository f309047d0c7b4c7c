----------------------------- MODULE SelfUpdate -----------------------------
(***************************************************************************)
(* The auto-applier and the update manager together, as main.run joins     *)
(* them: one pass of the main loop checks for updates when it is time, and *)
(* then lets the applier decide; what it starts is the manager's own       *)
(* update sequence, in another thread.  required_update and busy are       *)
(* variables of both.  The operator starts updates by hand, and devices    *)
(* come and go.                                                            *)
(***************************************************************************)
EXTENDS AutoApply

manager == <<published, allowed, acks, channel, manifest, server_latest,
             phase, checks, worker, fetching, zip, slot, pending, restart,
             ended, raced, starts, switches, restarts>>
allVars == <<manager, applier, required, busy>>

\* A pass calls service() once its own check, if any, has returned.
MainPass ==
  /\ Running
  /\ \A k \in Checkers : checks[k].at = "idle"
  /\ Pass
  /\ IF Attempts THEN StartUpdate ELSE UNCHANGED manager

ByHand == ManualStart /\ StartUpdate

\* The manager, and the callers it has besides these two.
ManagerStep ==
  /\ \/ Worker \/ Connect \/ Restart \/ RunEnds
     \/ \E ch \in Channels :
          SetChannel(ch) \/ HelloAck(ch) \/ Publish(ch)
     \/ \E k \in Checkers : \/ CheckBegin(k)
                            \/ ManifestArrives(k)
                            \/ CheckEnds(k)
  /\ UNCHANGED applier

DeviceStep ==
  /\ Running
  /\ DeviceArrives \/ DeviceLeaves
  /\ UNCHANGED manager

ComposedInit == ApplierInit /\ Init

ComposedNext == MainPass \/ ByHand \/ ManagerStep \/ DeviceStep

ComposedSpec == ComposedInit /\ [][ComposedNext]_allVars

\* For fairness: steps of one thread, and transfers that succeed.
WorkerStep == Worker /\ UNCHANGED applier
CheckStep ==
  /\ \E k \in Checkers : ManifestArrives(k) \/ CheckEnds(k)
  /\ UNCHANGED applier
MainLeaves == RunEnds /\ UNCHANGED applier
Fetched == ManifestArrives("worker") /\ UNCHANGED applier
Downloaded == DownloadEnds /\ phase' # "error" /\ UNCHANGED applier
Copied == CopyEnds /\ phase' # "error" /\ UNCHANGED applier

\* The threads go on; a pass waits for the check of its own thread, so it is
\* enabled time and again rather than for good.  What goes over the network or
\* to the disk succeeds now and then.
FairComposedSpec ==
  /\ ComposedSpec
  /\ SF_allVars(MainPass) /\ WF_allVars(CheckStep)
  /\ WF_allVars(WorkerStep) /\ WF_allVars(MainLeaves)
  /\ SF_allVars(Fetched) /\ SF_allVars(Downloaded) /\ SF_allVars(Copied)

-----------------------------------------------------------------------------
(* Properties *)

\* The whole way: at a Gateway that serves no device any more, an update that
\* stays required is in the end staged and restarted into, by itself, however
\* many checks, downloads and copies fail before.
RequiredIsInstalled ==
  <>[](required /\ ~serving) => <>(ended = "exit" /\ pending # 0)
=============================================================================
