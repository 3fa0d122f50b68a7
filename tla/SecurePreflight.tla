---------------------------- MODULE SecurePreflight ----------------------------
(***************************************************************************)
(* The direct secure preflight: before any smoke the controller has the    *)
(* Bridgefu host call itself. A probe program, run on the host through     *)
(* Systems Manager, keeps a copy of bridgefu.yaml, replaces the file by a  *)
(* patched one, restarts the service, makes the call, and puts everything  *)
(* back, in its exit trap if it got no further. Whatever became of it, the *)
(* controller then runs a second program that puts everything back, and    *)
(* reads from it five facts about the host.                                *)
(*                                                                         *)
(* The probe program, the cleanup program, Systems Manager and the         *)
(* controller take turns. A command may be lost, answered or not, end      *)
(* late, be cancelled or killed anywhere, a copy of a file in the middle.  *)
(***************************************************************************)
EXTENDS Naturals, FiniteSets

CONSTANT MaxFaults   \* bound: how often something does not go as it should

ASSUME PreflightAssumption == MaxFaults \in Nat

VARIABLES
  host,     \* the files, the service and the calling process on the instance
  probe,    \* the probe program
  clean,    \* the cleanup program
  cmd,      \* the two commands, as Systems Manager has them
  ctl,      \* the controller
  faults    \* what went wrong so far

vars == <<host, probe, clean, cmd, ctl, faults>>

Programs == {"probe", "cleanup"}
Terminal == {"Success", "Cancelled", "Failed", "TimedOut"}
Active == {"Pending", "InProgress", "Cancelling"}
CLEANUP_FIELDS == {"probe_process_absent", "configuration_restored",
                   "private_dns_verified", "run_artifacts_absent", "bridgefu_active"}

\* A file cut off in a copy is "torn"; a whole copy of a torn backup is "short".
Configs == {"original", "patched", "torn", "short"}
Host == [config : Configs, backup : {"none", "whole", "torn"}, run : BOOLEAN,
         temp : BOOLEAN, alive : BOOLEAN, service : {"original", "patched", "down"}]

Restoring == {"stop", "look", "back", "reload", "up"}
Phases == {"preflight", "download", "backup", "copying", "write", "replace", "restart",
           "ready", "reserve", "call", "calling", "emit"}
Probe == [pc : Restoring \cup Phases \cup {"none", "ended"}, trapped : BOOLEAN,
          restored : BOOLEAN, code : {0, 1}]
Cleaning == {"stop", "look", "back", "compare", "restart", "up", "dns", "remove"}
Clean == [pc : Cleaning \cup {"none", "ended"}, had : BOOLEAN,
          facts : SUBSET CLEANUP_FIELDS, code : {0, 1}]
Command == [status : Active \cup Terminal \cup {"none"}, known : BOOLEAN]
Controller == [at : {"target", "agent", "agent_ready", "upload", "send", "wait", "read",
                     "cancel", "receipt", "purge", "verdict", "observer", "evidence",
                     "smokes", "failed", "retained", "destroyed"},
               on : Programs, retain : BOOLEAN, required : BOOLEAN, observer : BOOLEAN,
               object : BOOLEAN, tried : BOOLEAN, accepted : BOOLEAN, terminal : [Programs -> BOOLEAN],
               remote : SUBSET CLEANUP_FIELDS, error : BOOLEAN, failures : BOOLEAN,
               restored : BOOLEAN, passed : BOOLEAN]

Init ==
  /\ host = [config |-> "original", backup |-> "none", run |-> FALSE, temp |-> FALSE,
             alive |-> FALSE, service |-> "original"]
  /\ probe = [pc |-> "none", trapped |-> FALSE, restored |-> FALSE, code |-> 0]
  /\ clean = [pc |-> "none", had |-> FALSE, facts |-> {}, code |-> 0]
  /\ cmd = [p \in Programs |-> [status |-> "none", known |-> FALSE]]
  /\ ctl \in {[at |-> "target", on |-> "probe", retain |-> r, required |-> FALSE,
               observer |-> FALSE, object |-> FALSE, tried |-> FALSE, accepted |-> TRUE,
               terminal |-> [p \in Programs |-> FALSE], remote |-> {}, error |-> FALSE,
               failures |-> FALSE, restored |-> FALSE, passed |-> FALSE] : r \in BOOLEAN}
  /\ faults = 0

Fault == faults < MaxFaults /\ faults' = faults + 1
Fine == UNCHANGED faults

-----------------------------------------------------------------------------
(* What both programs do to the host *)

\* Bridgefu comes up on a file that is whole, and on no other.
Loaded(config) == IF config \in {"original", "patched"} THEN config ELSE "down"
\* Mutant: the file is taken to be what the copy is called.
CopyRaw(backup) == backup

CopyOf(backup) == IF backup = "whole" THEN "original" ELSE "short"
Begun == [host EXCEPT !.config = "torn"]
Copied == [host EXCEPT !.config = CopyOf(host.backup)]
SameBytes == <<host.backup, host.config>> \in {<<"whole", "original">>, <<"torn", "short">>}
Reloaded == [host EXCEPT !.service = Loaded(host.config)]
NoProbe == [host EXCEPT !.alive = FALSE]

-----------------------------------------------------------------------------
(* The probe program *)

\* A command that fails, or a TERM, ends the program: through its trap the first time,
\* and then at once.
Exited(p) ==
  [p EXCEPT !.pc = IF p.trapped \/ p.restored THEN "ended" ELSE "stop",
            !.trapped = TRUE, !.code = 1]

ProbeAt(pc) == probe.pc = pc /\ Fine /\ UNCHANGED <<clean, cmd, ctl>>
Goto(pc) == probe' = [probe EXCEPT !.pc = pc]
\* The step that leads on where "ok", and out of the program elsewhere.
Leads(ok, next, after) ==
  IF ok THEN Goto(next) /\ host' = after
        ELSE probe' = Exited(probe) /\ UNCHANGED host

CheckHost ==
  ProbeAt("preflight") /\ Leads(~host.run, "download", [host EXCEPT !.run = TRUE])
DownloadProbe == ProbeAt("download") /\ Leads(host.run, "backup", host)
BeginBackup ==
  ProbeAt("backup") /\ Leads(host.run, "copying", [host EXCEPT !.backup = "torn"])
EndBackup ==
  /\ ProbeAt("copying")
  /\ Leads(host.run, "write",
           [host EXCEPT !.backup = IF host.config = "original" THEN "whole" ELSE "torn"])
WritePatched ==
  /\ ProbeAt("write")
  /\ Leads(host.config = "original" /\ ~host.temp, "replace", [host EXCEPT !.temp = TRUE])
ReplaceConfig ==
  /\ ProbeAt("replace")
  /\ Leads(host.temp, "restart", [host EXCEPT !.config = "patched", !.temp = FALSE])
RestartPatched == ProbeAt("restart") /\ Leads(TRUE, "ready", Reloaded)
AwaitPatched == ProbeAt("ready") /\ Leads(host.service # "down", "reserve", host)
ReserveRoute == ProbeAt("reserve") /\ Leads(host.run /\ host.service # "down", "call", host)
StartCall == ProbeAt("call") /\ Leads(host.run, "calling", [host EXCEPT !.alive = TRUE])
EndCall == ProbeAt("calling") /\ Leads(host.alive, "stop", NoProbe)

StopOwned == ProbeAt("stop") /\ Leads(TRUE, "look", NoProbe)
\* Mutant: a marked file is refused before its backup is looked for.
BeginRestoreUnmarked ==
  /\ ProbeAt("look")
  /\ IF host.config # "patched" /\ host.backup # "none"
       THEN Leads(TRUE, "back", Begun)
       ELSE Leads(host.config # "patched", "up", host)

BeginRestore ==
  /\ ProbeAt("look")
  /\ IF host.backup # "none" THEN Leads(TRUE, "back", Begun)
                             ELSE Leads(host.config # "patched", "up", host)
EndRestore ==
  /\ ProbeAt("back")
  /\ \/ host.backup # "none" /\ Leads(TRUE, "reload", Copied)
     \/ /\ host.backup = "none"     \* taken away since: cp may have had it open
        /\ probe' = Exited(probe)
        /\ \E config \in {"torn", "original"} : host' = [host EXCEPT !.config = config]
RestartRestored == ProbeAt("reload") /\ Leads(TRUE, "up", Reloaded)
AwaitRestored ==
  /\ ProbeAt("up") /\ UNCHANGED host
  /\ probe' = IF host.service = "down" THEN Exited(probe)
              ELSE [probe EXCEPT !.restored = TRUE,
                                 !.pc = IF probe.trapped THEN "ended" ELSE "emit"]
EmitResult == ProbeAt("emit") /\ Leads(host.run, "ended", host)

\* A command of the program fails, or the program gets a TERM. A restart that fails has
\* stopped the service; the caller may outlive the command that started it.
CommandFails ==
  /\ probe.pc \in Phases \cup Restoring /\ Fault
  /\ probe' = Exited(probe)
  /\ \/ UNCHANGED host
     \/ probe.pc \in {"restart", "reload"} /\ host' = [host EXCEPT !.service = "down"]
     \/ probe.pc = "calling" /\ host' = NoProbe
  /\ UNCHANGED <<clean, cmd, ctl>>

ProbeStep ==
  \/ CheckHost \/ DownloadProbe \/ BeginBackup \/ EndBackup \/ WritePatched \/ ReplaceConfig
  \/ RestartPatched \/ AwaitPatched \/ ReserveRoute \/ StartCall \/ EndCall \/ StopOwned
  \/ BeginRestore \/ EndRestore \/ RestartRestored \/ AwaitRestored \/ EmitResult

-----------------------------------------------------------------------------
(* The cleanup program: it stops at nothing, and reports what it found *)

CleanAt(pc) == clean.pc = pc /\ UNCHANGED <<probe, cmd, ctl>>
Proceeds(pc) == clean' = [clean EXCEPT !.pc = pc]
Finds(facts, pc) == clean' = [clean EXCEPT !.pc = pc, !.facts = @ \cup facts]

CleanStop ==
  /\ CleanAt("stop")
  /\ \/ Finds({"probe_process_absent"}, "look") /\ host' = NoProbe /\ Fine
     \/ Proceeds("look") /\ UNCHANGED host /\ Fault
CleanLook ==
  /\ CleanAt("look") /\ Fine
  /\ LET had == host.backup # "none"
     IN  /\ clean' = [clean EXCEPT !.had = had, !.pc = IF had THEN "back" ELSE "compare"]
         /\ host' = IF had THEN Begun ELSE host
\* The copy, whose failure nothing but the comparison notices.
CleanCopy ==
  /\ CleanAt("back") /\ Proceeds("compare")
  /\ \/ host.backup # "none" /\ host' = Copied /\ Fine
     \/ UNCHANGED host /\ Fault
CleanCompare ==
  /\ CleanAt("compare") /\ Fine /\ UNCHANGED host
  /\ Finds(IF IF clean.had THEN SameBytes ELSE host.config # "patched"
           THEN {"configuration_restored"} ELSE {},
           IF clean.had THEN "restart" ELSE "up")
\* Nobody looks whether the restart succeeds: one that fails has stopped the service.
CleanRestart ==
  /\ CleanAt("restart") /\ Proceeds("up")
  /\ \/ host' = Reloaded /\ Fine
     \/ host' = [host EXCEPT !.service = "down"] /\ Fault
CleanAwait ==
  /\ CleanAt("up") /\ Fine /\ UNCHANGED host
  /\ Finds(IF host.service = "down" THEN {} ELSE {"bridgefu_active"}, "dns")
CleanDns ==
  /\ CleanAt("dns") /\ UNCHANGED host
  /\ \/ Finds({"private_dns_verified"}, "remove") /\ Fine
     \/ Proceeds("remove") /\ Fault
\* Mutant: the run directory goes whatever was found.
CleanRemoveAll ==
  /\ CleanAt("remove") /\ Fine
  /\ host' = [host EXCEPT !.backup = "none", !.run = FALSE, !.temp = FALSE]
  /\ Finds({"run_artifacts_absent"}, "ended")

CleanRemove ==
  /\ CleanAt("remove") /\ Fine
  /\ host' = IF {"probe_process_absent", "configuration_restored", "bridgefu_active"}
                  \subseteq clean.facts
             THEN [host EXCEPT !.backup = "none", !.run = FALSE, !.temp = FALSE]
             ELSE host
  /\ Finds(IF host'.run \/ host'.temp THEN {} ELSE {"run_artifacts_absent"}, "ended")

CleanStep ==
  \/ CleanStop \/ CleanLook \/ CleanCopy \/ CleanCompare \/ CleanRestart \/ CleanAwait
  \/ CleanDns \/ CleanRemove

-----------------------------------------------------------------------------
(* Systems Manager *)

Running(p) == IF p = "probe" THEN probe.pc \notin {"none", "ended"}
                             ELSE clean.pc \notin {"none", "ended"}
Become(p, status) == cmd' = [cmd EXCEPT ![p].status = status]

\* The command reaches the instance, or is given up before it does.
Deliver(p) ==
  /\ cmd[p].status = "Pending" /\ Become(p, "InProgress") /\ Fine
  /\ IF p = "probe" THEN Goto("preflight") /\ UNCHANGED clean
                    ELSE Proceeds("stop") /\ UNCHANGED probe
  /\ UNCHANGED <<host, ctl>>
GiveUp(p) ==
  /\ cmd[p].status = "Pending" /\ Become(p, "TimedOut") /\ Fault
  /\ UNCHANGED <<host, probe, clean, ctl>>

Report(p) ==
  /\ cmd[p].status \in {"InProgress", "Cancelling"}
  /\ IF p = "probe" THEN probe.pc = "ended" ELSE clean.pc = "ended"
  /\ \/ Become(p, IF (IF p = "probe" THEN probe.code ELSE clean.code) = 0
                  THEN "Success" ELSE "Failed")
     \/ cmd[p].status = "Cancelling" /\ Become(p, "Cancelled")
  /\ Fine /\ UNCHANGED <<host, probe, clean, ctl>>

\* A command that is being cancelled has its program told to end, or killed.
KillProgram(p) ==
  IF p = "probe" THEN probe' = [probe EXCEPT !.pc = "ended", !.code = 1] /\ UNCHANGED clean
                 ELSE clean' = [clean EXCEPT !.pc = "ended", !.code = 1] /\ UNCHANGED probe
Cancels(p) ==
  /\ cmd[p].status = "Cancelling" /\ Running(p) /\ Fine
  /\ \/ KillProgram(p)
     \/ p = "probe" /\ probe' = Exited(probe) /\ UNCHANGED clean
  /\ UNCHANGED <<host, cmd, ctl>>
Killed(p) == Running(p) /\ KillProgram(p) /\ Fault /\ UNCHANGED <<host, cmd, ctl>>

CommandStep(p) == Deliver(p) \/ GiveUp(p) \/ Report(p) \/ Cancels(p) \/ Killed(p)

-----------------------------------------------------------------------------
(* The controller *)

CtlAt(at) == ctl.at = at /\ UNCHANGED <<host, probe, clean>>
Others == UNCHANGED cmd

\* Nothing of the preflight has begun, and a failure leaves nothing to put back.
CheckTarget ==
  /\ CtlAt("target") /\ Others
  /\ \/ ctl' = [ctl EXCEPT !.at = "agent", !.required = TRUE] /\ Fine
     \/ ctl' = [ctl EXCEPT !.at = "failed", !.error = TRUE] /\ Fault
StartAgent ==
  /\ CtlAt("agent") /\ Others
  /\ \/ ctl' = [ctl EXCEPT !.at = "agent_ready", !.observer = TRUE] /\ Fine
     \/ ctl' = [ctl EXCEPT !.at = "failed", !.error = TRUE] /\ Fault
\* An observer that exits or is too slow is ended; one that is ready with something else
\* is left to the end of the run.
AwaitAgent ==
  /\ CtlAt("agent_ready") /\ Others
  /\ \/ ctl' = [ctl EXCEPT !.at = "upload"] /\ Fine
     \/ \E alive \in BOOLEAN :
          ctl' = [ctl EXCEPT !.at = "failed", !.error = TRUE, !.observer = alive] /\ Fault
\* The commands are taken to be ended where none was sent.
Upload ==
  /\ CtlAt("upload") /\ Others
  /\ \/ ctl' = [ctl EXCEPT !.at = "send", !.object = TRUE] /\ Fine
     \/ /\ Fault
        /\ \E stored \in BOOLEAN :
             ctl' = [ctl EXCEPT !.at = "send", !.on = "cleanup", !.object = stored,
                                !.error = TRUE, !.terminal["probe"] = TRUE]

\* What a failure is remembered as: the probe's is the error, the cleanup's one among others.
Broken(c) == IF c.on = "probe" THEN [c EXCEPT !.error = TRUE] ELSE [c EXCEPT !.failures = TRUE]
\* On to the cleanup program, or with what it said.
Onward(c) == [c EXCEPT !.at = IF c.on = "probe" THEN "send" ELSE "receipt", !.on = "cleanup",
                       !.tried = FALSE, !.accepted = TRUE]
Settled(c, ended) == Onward([c EXCEPT !.terminal[c.on] = ended])

SendShell ==
  /\ CtlAt("send")
  /\ \/ /\ cmd' = [cmd EXCEPT ![ctl.on] = [status |-> "Pending", known |-> TRUE]]
        /\ ctl' = [ctl EXCEPT !.at = "wait"] /\ Fine
     \/ /\ (Become(ctl.on, "Pending") \/ UNCHANGED cmd)     \* no answer, or no command
        /\ ctl' = Settled(Broken(ctl), FALSE) /\ Fault
WaitShell ==
  /\ CtlAt("wait") /\ Others
  /\ \/ cmd[ctl.on].status = "Success" /\ ctl' = [ctl EXCEPT !.at = "read"] /\ Fine
     \/ /\ cmd[ctl.on].status \in {"Cancelled", "Cancelling", "Failed", "TimedOut"} /\ Fine
        /\ ctl' = [Broken(ctl) EXCEPT !.at = "cancel"]
     \/ ctl' = [Broken(ctl) EXCEPT !.at = "cancel"] /\ Fault     \* no answer, or too late
\* What the cleanup program printed: five booleans, of which these are true.
CleanupReceipt == clean.facts

ReadOutput ==
  /\ CtlAt("read") /\ Others
  /\ \/ /\ ctl.on = "probe" /\ ctl' = [ctl EXCEPT !.at = "cancel"] /\ Fine
     \/ /\ ctl.on = "cleanup" /\ Fine
        /\ ctl' = Settled([ctl EXCEPT !.remote = CleanupReceipt], TRUE)
     \/ ctl' = [Broken(ctl) EXCEPT !.at = "cancel"] /\ Fault
CancelShell ==
  /\ CtlAt("cancel")
  /\ LET status == cmd[ctl.on].status
         asked == Become(ctl.on, IF status = "Pending" THEN "Cancelled" ELSE "Cancelling")
         tries == status \in Active \ {"Cancelling"} /\ ~ctl.tried
     IN \/ status \in Terminal /\ Others /\ ctl' = Settled(ctl, ctl.accepted) /\ Fine
        \/ tries /\ asked /\ ctl' = [ctl EXCEPT !.tried = TRUE] /\ Fine
        \/ /\ tries /\ (asked \/ Others)
           /\ ctl' = [ctl EXCEPT !.tried = TRUE, !.accepted = FALSE] /\ Fault
        \/ Others /\ ctl' = Settled(ctl, FALSE) /\ Fault     \* no answer, or too late

\* Mutant: the five facts are enough, whatever became of the probe's command.
PassedByFacts == ctl.remote = CLEANUP_FIELDS

Passed == ctl.remote = CLEANUP_FIELDS /\ \A p \in Programs : ctl.terminal[p]

Receipt ==
  /\ CtlAt("receipt") /\ Others /\ Fine
  /\ ctl' = [ctl EXCEPT !.at = "purge", !.restored = Passed, !.failures = @ \/ ~Passed]
PurgeObject ==
  /\ CtlAt("purge") /\ Others
  /\ \/ ctl' = [ctl EXCEPT !.at = "verdict", !.object = FALSE, !.passed = ctl.restored] /\ Fine
     \/ ctl' = [ctl EXCEPT !.at = "verdict", !.failures = TRUE] /\ Fault
\* Any error ends the observer; without one it is waited for, and then the probe's, its
\* and the cleanup's word make the evidence.
Verdict ==
  /\ CtlAt("verdict") /\ Others /\ Fine
  /\ ctl' = IF ctl.error \/ ctl.failures
            THEN [ctl EXCEPT !.at = "failed", !.observer = FALSE]
            ELSE [ctl EXCEPT !.at = "observer"]
AwaitObserver ==
  /\ CtlAt("observer") /\ Others
  /\ \/ ctl' = [ctl EXCEPT !.at = "evidence", !.observer = FALSE] /\ Fine
     \/ ctl' = [ctl EXCEPT !.at = "failed", !.observer = FALSE, !.error = TRUE] /\ Fault
JudgeEvidence ==
  /\ CtlAt("evidence") /\ Others
  /\ \/ ctl' = [ctl EXCEPT !.at = "smokes"] /\ Fine
     \/ ctl' = [ctl EXCEPT !.at = "failed", !.error = TRUE] /\ Fault
LaterFailure ==
  /\ CtlAt("smokes") /\ Others /\ Fault
  /\ ctl' = [ctl EXCEPT !.at = "failed", !.error = TRUE]
\* Mutant: whoever asked for the environment gets it.
MayRetainAsked == ctl.retain

MayRetain == ctl.retain /\ (~ctl.required \/ ctl.passed)
\* Either way the observer is ended first.
StopActiveWork == [ctl EXCEPT !.observer = FALSE]
EndRun ==
  /\ CtlAt("failed") /\ Others /\ Fine
  /\ ctl' = [StopActiveWork EXCEPT !.at = IF MayRetain THEN "retained" ELSE "destroyed"]

ControllerStep ==
  \/ CheckTarget \/ StartAgent \/ AwaitAgent \/ Upload \/ SendShell \/ WaitShell
  \/ ReadOutput \/ CancelShell \/ Receipt \/ PurgeObject \/ Verdict \/ AwaitObserver
  \/ JudgeEvidence \/ LaterFailure \/ EndRun

Next ==
  \/ ProbeStep \/ CommandFails \/ CleanStep \/ ControllerStep
  \/ \E p \in Programs : CommandStep(p)

Spec == Init /\ [][Next]_vars

\* The programs run on once started, commands are delivered and reported, and the
\* controller, which is one thread, never stands still.
FairSpec ==
  /\ Spec
  /\ WF_vars(ProbeStep) /\ WF_vars(CleanStep) /\ WF_vars(ControllerStep)
  /\ \A p \in Programs : WF_vars(Deliver(p)) /\ WF_vars(Report(p))

-----------------------------------------------------------------------------
(* Properties *)

TypeOK ==
  /\ host \in Host /\ probe \in Probe /\ clean \in Clean
  /\ cmd \in [Programs -> Command] /\ ctl \in Controller /\ faults \in 0..MaxFaults

\* A restoration the controller has taken for proven (controller.py:5163) is one: the host
\* is as it was found, though a copy may have been cut, a command may have come late, and
\* the facts are from different moments. And it stays so.
PassedIsRestored ==
  ctl.restored =>
    /\ host.config = "original" /\ host.backup = "none" /\ host.service # "down"
    /\ ~host.run /\ ~host.temp /\ ~host.alive

\* What goes on to the smokes, or is left standing for somebody to look at
\* (controller.py:8579), is a host that no program of the preflight will touch again.
KeptIsQuiet ==
  ctl.at \in {"smokes", "retained"} /\ ctl.required =>
    /\ ~ctl.object /\ ~ctl.observer
    /\ \A p \in Programs : cmd[p].status \notin Active /\ ~Running(p)

\* Cut off anywhere, and however often, one program at a time leaves a file that is not
\* the original only beside its backup. A patched file can be put back: its backup is
\* whole. The original is lost only by a backup that was itself cut off while it was
\* copied, before anything was patched, and then taken for whole (RestoredIsOriginal).
BackupIsKept ==
  ctl.on = "probe" \/ ctl.terminal["probe"] =>
    \/ host.config = "original"
    \/ host.config \in {"patched", "torn"} /\ host.backup = "whole"
    \/ host.config \in {"short", "torn"} /\ host.backup = "torn"

\* Once the probe's command has ended, what the receipt calls a restored configuration is
\* the one the preflight found (qualification/README.md:42: "Both the command trap and a
\* separate controller-owned cleanup restore byte-exact runtime configuration").
RestoredIsOriginal ==
  ctl.terminal["probe"] /\ "configuration_restored" \in ctl.remote
    => host.config = "original"

\* Where nothing goes wrong the preflight passes.
FaultFreePasses == <>(ctl.at = "smokes" \/ faults > 0)
=============================================================================
