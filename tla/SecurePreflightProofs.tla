------------------------- MODULE SecurePreflightProofs -------------------------
(***************************************************************************)
(* A preflight that is taken for passed has put the host back, and nothing *)
(* of it touches the host again: for any number of faults. The two facts   *)
(* rest on one program at a time: either the probe's command may still be  *)
(* on its way and nothing was asked of the cleanup program, or the probe's *)
(* is known to have ended.                                                 *)
(***************************************************************************)
EXTENDS SecurePreflight, TLAPS

-----------------------------------------------------------------------------
(* The invariant *)

Asking == {"send", "wait", "read", "cancel"}
Judging == {"verdict", "observer", "evidence", "smokes"}

\* A program runs only while its command is under way.
CommandInv ==
  \A p \in Programs :
    /\ Running(p) => cmd[p].status \in {"InProgress", "Cancelling"}
    /\ cmd[p].status \in {"none", "Pending"} =>
         IF p = "probe" THEN probe.pc = "none" ELSE clean.pc = "none"
    /\ cmd[p].status = "Success" => IF p = "probe" THEN probe.pc = "ended" ELSE clean.pc = "ended"

\* The controller asks for one program after the other, and knows what it has concluded.
ControllerInv ==
  /\ ctl.on = "probe" => cmd["cleanup"].status = "none"
  /\ ctl.at \in {"target", "agent", "agent_ready", "upload"} =>
       ctl.on = "probe" /\ cmd["probe"].status = "none"
  /\ ctl.at = "send" => cmd[ctl.on].status = "none"
  /\ ctl.at = "read" => cmd[ctl.on].status = "Success"
  /\ ctl.on = "probe" => ~ctl.terminal["probe"]
  /\ ctl.on = "probe" \/ ctl.at \in Asking => ~ctl.terminal["cleanup"]
  /\ ctl.at \in {"receipt", "purge"} \cup Judging => ctl.on = "cleanup"
  /\ \A p \in Programs : ctl.terminal[p] => cmd[p].status \notin Active
  /\ ctl.remote # {} => ctl.remote = clean.facts /\ clean.pc = "ended"
  /\ ctl.restored => Passed /\ ctl.at \notin Asking \cup {"receipt"}
  /\ ctl.passed => ctl.restored /\ ~ctl.object
  /\ ctl.at = "purge" /\ ~ctl.failures => ctl.restored
  /\ ctl.at \in Judging /\ (ctl.at = "verdict" => ~ctl.failures) => ctl.passed
  /\ ctl.at \in {"evidence", "smokes", "retained"} => ~ctl.observer
  /\ ctl.at = "retained" /\ ctl.required => ctl.passed

\* No second program is about.
Alone == ctl.on = "probe" \/ ctl.terminal["probe"]

\* The probe's way to a patched file leads over a whole copy of the original.
ProbeInv ==
  /\ host.backup # "none" => host.run
  /\ Alone =>
       /\ BackupIsKept
       /\ probe.pc \in {"none", "preflight", "download", "backup", "copying", "write", "replace"} =>
            clean.pc # "none" \/ host.config = "original"
       /\ probe.pc \in {"write", "replace", "restart", "ready", "reserve", "call", "calling"} =>
            host.backup = "whole"
       /\ probe.pc = "back" => host.backup # "none"

\* What the cleanup program has found stays so.
CleanInv ==
  /\ clean.pc \in {"none", "stop"} => clean.facts = {}
  /\ clean.pc \in {"none", "stop", "look", "back", "compare"} => "configuration_restored" \notin clean.facts
  /\ clean.pc \notin {"dns", "remove", "ended"} => "bridgefu_active" \notin clean.facts
  /\ clean.pc # "ended" => "run_artifacts_absent" \notin clean.facts
  /\ ctl.terminal["probe"] =>
       /\ "probe_process_absent" \in clean.facts => ~host.alive
       /\ "bridgefu_active" \in clean.facts => host.service # "down"
       /\ "run_artifacts_absent" \in clean.facts => ~host.run /\ ~host.temp
       /\ clean.pc = "back" => host.backup # "none"
       /\ clean.pc \in {"back", "restart"} => clean.had
       /\ clean.pc \in {"compare", "up"} /\ ~clean.had => host.config = "original"
       /\ "configuration_restored" \in clean.facts =>
            \/ host.config = "original"
            \/ /\ host.config = "short" /\ "bridgefu_active" \notin clean.facts
               /\ clean.pc \in {"restart", "ended"} \/ host.service = "down"

IInv == TypeOK /\ CommandInv /\ ControllerInv /\ ProbeInv /\ CleanInv

-----------------------------------------------------------------------------
(* Types *)

\* A program that fails goes to its trap, or ends.
LEMMA ExitedTyped ==
  ASSUME NEW p \in Probe
  PROVE  Exited(p) \in Probe /\ Exited(p).pc \in {"stop", "ended"}
  BY DEF Exited, Probe, Restoring

\* What the programs make of the host is a host.
LEMMA HostTyped ==
  ASSUME host \in Host
  PROVE  /\ [host EXCEPT !.run = TRUE] \in Host /\ [host EXCEPT !.backup = "torn"] \in Host
         /\ [host EXCEPT !.backup = IF host.config = "original" THEN "whole" ELSE "torn"] \in Host
         /\ [host EXCEPT !.temp = TRUE] \in Host
         /\ [host EXCEPT !.config = "patched", !.temp = FALSE] \in Host
         /\ Reloaded \in Host /\ [host EXCEPT !.alive = TRUE] \in Host /\ NoProbe \in Host
         /\ Begun \in Host /\ Copied \in Host /\ [host EXCEPT !.service = "down"] \in Host
         /\ \A config \in {"torn", "original"} : [host EXCEPT !.config = config] \in Host
         /\ [host EXCEPT !.backup = "none", !.run = FALSE, !.temp = FALSE] \in Host
  BY DEF Host, Reloaded, Loaded, NoProbe, Begun, Copied, CopyOf, Configs

\* What every step of the probe program has in common.
LEMMA ProbeFrame ==
  ProbeStep \/ CommandFails =>
    /\ Running("probe") /\ UNCHANGED <<clean, cmd, ctl>>
    /\ faults \in 0..MaxFaults => faults' \in 0..MaxFaults
<1>1. ASSUME NEW pc \in Restoring \cup Phases, ProbeAt(pc)
      PROVE  Running("probe") /\ UNCHANGED <<clean, cmd, ctl, faults>>
  BY <1>1 DEF ProbeAt, Running, Fine, Restoring, Phases
<1>2. CASE CheckHost \/ DownloadProbe \/ BeginBackup \/ EndBackup \/ WritePatched \/ ReplaceConfig
  BY <1>1, <1>2
     DEF CheckHost, DownloadProbe, BeginBackup, EndBackup, WritePatched, ReplaceConfig, Phases
<1>3. CASE RestartPatched \/ AwaitPatched \/ ReserveRoute \/ StartCall \/ EndCall \/ StopOwned
  BY <1>1, <1>3
     DEF RestartPatched, AwaitPatched, ReserveRoute, StartCall, EndCall, StopOwned, Restoring, Phases
<1>4. CASE BeginRestore \/ EndRestore \/ RestartRestored \/ AwaitRestored \/ EmitResult
  BY <1>1, <1>4 DEF BeginRestore, EndRestore, RestartRestored, AwaitRestored, EmitResult, Restoring, Phases
<1>5. CASE CommandFails
  BY <1>5, PreflightAssumption DEF CommandFails, Fault, Running, Restoring, Phases
<1> QED BY <1>2, <1>3, <1>4, <1>5 DEF ProbeStep

LEMMA ProbeWorks ==
  TypeOK /\ (ProbeStep \/ CommandFails) => probe' \in Probe /\ probe'.pc # "none" /\ host' \in Host
<1> SUFFICES ASSUME TypeOK, ProbeStep \/ CommandFails
             PROVE  probe' \in Probe /\ probe'.pc # "none" /\ host' \in Host
  OBVIOUS
<1>1. host \in Host /\ probe \in Probe
  BY DEF TypeOK
<1>2. Exited(probe) \in Probe /\ Exited(probe).pc # "none"
  BY <1>1, ExitedTyped
<1>3. ASSUME NEW pc \in Restoring \cup Phases \cup {"ended"}, Goto(pc)
      PROVE  probe' \in Probe /\ probe'.pc # "none"
  BY <1>1, <1>3 DEF Goto, Probe, Restoring, Phases
<1>4. ASSUME NEW ok, NEW pc \in Restoring \cup Phases \cup {"ended"}, NEW after \in Host, Leads(ok, pc, after)
      PROVE  probe' \in Probe /\ probe'.pc # "none" /\ host' \in Host
  BY <1>1, <1>2, <1>3, <1>4 DEF Leads
<1>5. \A pc \in {"stop", "look", "back", "reload", "up", "preflight", "download", "backup", "copying", "write",
                  "replace", "restart", "ready", "reserve", "call", "calling", "emit", "ended"} :
        pc \in Restoring \cup Phases \cup {"ended"}
  BY DEF Restoring, Phases
<1>6. CASE CheckHost \/ DownloadProbe \/ BeginBackup \/ EndBackup \/ WritePatched \/ ReplaceConfig
  BY <1>1, <1>4, <1>5, <1>6, HostTyped
     DEF CheckHost, DownloadProbe, BeginBackup, EndBackup, WritePatched, ReplaceConfig
<1>7. CASE RestartPatched \/ AwaitPatched \/ ReserveRoute \/ StartCall \/ EndCall \/ StopOwned
  BY <1>1, <1>4, <1>5, <1>7, HostTyped
     DEF RestartPatched, AwaitPatched, ReserveRoute, StartCall, EndCall, StopOwned
<1>8. CASE BeginRestore \/ EndRestore \/ RestartRestored \/ EmitResult
  BY <1>1, <1>2, <1>4, <1>5, <1>8, HostTyped DEF BeginRestore, EndRestore, RestartRestored, EmitResult
<1>9. CASE AwaitRestored
  BY <1>1, <1>2, <1>9 DEF AwaitRestored, Probe, Restoring, Phases
<1>10. CASE CommandFails
  BY <1>1, <1>2, <1>10, HostTyped DEF CommandFails
<1> QED BY <1>6, <1>7, <1>8, <1>9, <1>10 DEF ProbeStep

LEMMA ProbeTyped == TypeOK /\ (ProbeStep \/ CommandFails) => TypeOK' /\ probe'.pc # "none"
  BY ProbeWorks, ProbeFrame DEF TypeOK

LEMMA CleanFrame ==
  CleanStep =>
    /\ clean.pc \in Cleaning /\ UNCHANGED <<probe, cmd, ctl>>
    /\ faults \in 0..MaxFaults => faults' \in 0..MaxFaults
  BY PreflightAssumption
     DEF CleanStep, CleanStop, CleanLook, CleanCopy, CleanCompare, CleanRestart, CleanAwait, CleanDns,
         CleanRemove, CleanAt, Fault, Fine, Cleaning

LEMMA CleanWorks ==
  TypeOK /\ CleanStep => clean' \in Clean /\ clean'.pc # "none" /\ host' \in Host
<1> SUFFICES ASSUME TypeOK, CleanStep
             PROVE  clean' \in Clean /\ clean'.pc # "none" /\ host' \in Host
  OBVIOUS
<1>1. host \in Host /\ clean \in Clean
  BY DEF TypeOK
<1>2. ASSUME NEW pc \in Cleaning \cup {"ended"}, Proceeds(pc)
      PROVE  clean' \in Clean /\ clean'.pc # "none"
  BY <1>1, <1>2 DEF Proceeds, Clean, Cleaning
<1>3. ASSUME NEW pc \in Cleaning \cup {"ended"}, NEW facts \in SUBSET CLEANUP_FIELDS, Finds(facts, pc)
      PROVE  clean' \in Clean /\ clean'.pc # "none"
  BY <1>1, <1>3 DEF Finds, Clean, Cleaning
<1>4. /\ {"stop", "look", "back", "compare", "restart", "up", "dns", "remove"} \subseteq Cleaning
      /\ {"probe_process_absent"} \in SUBSET CLEANUP_FIELDS /\ {"configuration_restored"} \in SUBSET CLEANUP_FIELDS
      /\ {"private_dns_verified"} \in SUBSET CLEANUP_FIELDS /\ {"run_artifacts_absent"} \in SUBSET CLEANUP_FIELDS
      /\ {"bridgefu_active"} \in SUBSET CLEANUP_FIELDS /\ {} \in SUBSET CLEANUP_FIELDS
  BY DEF Cleaning, CLEANUP_FIELDS
<1>5. CASE CleanStop \/ CleanDns
  BY <1>1, <1>2, <1>3, <1>4, <1>5, HostTyped DEF CleanStop, CleanDns
<1>6. CASE CleanCopy \/ CleanRestart
  BY <1>1, <1>2, <1>4, <1>6, HostTyped DEF CleanCopy, CleanRestart
<1>7. CASE CleanLook
  BY <1>1, <1>7, HostTyped DEF CleanLook, Clean, Cleaning
<1>8. CASE CleanCompare
  BY <1>1, <1>3, <1>4, <1>8 DEF CleanCompare
<1>9. CASE CleanAwait
  BY <1>1, <1>3, <1>4, <1>9 DEF CleanAwait
<1>10. CASE CleanRemove
  BY <1>1, <1>3, <1>4, <1>10, HostTyped DEF CleanRemove
<1> QED BY <1>5, <1>6, <1>7, <1>8, <1>9, <1>10 DEF CleanStep

LEMMA CleanTyped == TypeOK /\ CleanStep => TypeOK' /\ clean'.pc # "none"
  BY CleanWorks, CleanFrame DEF TypeOK

LEMMA CommandTyped ==
  ASSUME TypeOK, NEW p \in Programs, CommandStep(p)
  PROVE  TypeOK'
<1>1. /\ probe \in Probe /\ clean \in Clean /\ cmd \in [Programs -> Command]
      /\ UNCHANGED <<host, ctl>> /\ faults' \in 0..MaxFaults
  BY PreflightAssumption
     DEF TypeOK, CommandStep, Deliver, GiveUp, Report, Cancels, Killed, Fault, Fine
<1>2. ASSUME NEW status \in Active \cup Terminal, Become(p, status)
      PROVE  cmd' \in [Programs -> Command]
  BY <1>1, <1>2 DEF Become, Command, Active, Terminal
<1>3. ASSUME KillProgram(p) PROVE probe' \in Probe /\ clean' \in Clean
  BY <1>1, <1>3, ZenonT(60) DEF KillProgram, Probe, Clean
<1>4. Exited(probe) \in Probe
  BY <1>1, ExitedTyped
<1>5. probe' \in Probe /\ clean' \in Clean /\ cmd' \in [Programs -> Command]
  <2>1. CASE Deliver(p)
    BY <1>1, <1>2, <2>1 DEF Deliver, Goto, Proceeds, Probe, Phases, Clean, Cleaning, Active
  <2>2. CASE GiveUp(p)
    BY <1>1, <1>2, <2>2 DEF GiveUp, Terminal
  <2>3. CASE Report(p)
    BY <1>1, <1>2, <2>3 DEF Report, Terminal
  <2>4. CASE Cancels(p)
    BY <1>1, <1>3, <1>4, <2>4 DEF Cancels
  <2>5. CASE Killed(p)
    BY <1>1, <1>3, <2>5 DEF Killed
  <2> QED BY <2>1, <2>2, <2>3, <2>4, <2>5 DEF CommandStep
<1> QED BY <1>1, <1>5 DEF TypeOK

\* A failure is remembered, and nothing else is forgotten.
LEMMA BrokenIs ==
  ASSUME NEW c \in Controller
  PROVE  /\ Broken(c) \in Controller
         /\ \E e, f \in BOOLEAN : Broken(c) = [c EXCEPT !.error = e, !.failures = f]
         /\ c.failures => Broken(c).failures
<1>1. [c EXCEPT !.error = TRUE] \in Controller /\ [c EXCEPT !.failures = TRUE] \in Controller
  BY DEF Controller
<1>2. /\ [c EXCEPT !.error = TRUE] = [c EXCEPT !.error = TRUE, !.failures = c.failures]
      /\ [c EXCEPT !.failures = TRUE] = [c EXCEPT !.error = c.error, !.failures = TRUE]
      /\ c.error \in BOOLEAN /\ c.failures \in BOOLEAN
      /\ [c EXCEPT !.error = TRUE].failures = c.failures /\ [c EXCEPT !.failures = TRUE].failures
  BY DEF Controller
<1>3. Broken(c) = [c EXCEPT !.error = TRUE] \/ Broken(c) = [c EXCEPT !.failures = TRUE]
  BY DEF Broken
<1> QED BY <1>1, <1>2, <1>3

\* After one program comes the cleanup program, or the verdict on it.
LEMMA SettledIs ==
  ASSUME NEW c \in Controller, NEW ended \in BOOLEAN
  PROVE  /\ Settled(c, ended) \in Controller
         /\ Settled(c, ended).on = "cleanup"
         /\ Settled(c, ended).at = IF c.on = "probe" THEN "send" ELSE "receipt"
         /\ Settled(c, ended).terminal = [c.terminal EXCEPT ![c.on] = ended]
         /\ Settled(c, ended).remote = c.remote /\ Settled(c, ended).object = c.object
         /\ Settled(c, ended).observer = c.observer /\ Settled(c, ended).restored = c.restored
         /\ Settled(c, ended).passed = c.passed /\ Settled(c, ended).required = c.required
         /\ Settled(c, ended).failures = c.failures
<1> DEFINE d == [c EXCEPT !.terminal[c.on] = ended]
<1>1. /\ d \in Controller /\ d.terminal = [c.terminal EXCEPT ![c.on] = ended]
      /\ d.on = c.on /\ d.remote = c.remote /\ d.object = c.object /\ d.observer = c.observer
      /\ d.restored = c.restored /\ d.passed = c.passed /\ d.required = c.required
      /\ d.failures = c.failures
  BY DEF Controller, Programs
<1> HIDE DEF d
<1>2. Onward(d) \in Controller
  BY <1>1, ZenonT(60) DEF Onward, Controller, Programs
<1>3. /\ Onward(d).on = "cleanup"
      /\ Onward(d).at = (IF d.on = "probe" THEN "send" ELSE "receipt")
      /\ Onward(d).terminal = d.terminal /\ Onward(d).remote = d.remote /\ Onward(d).object = d.object
      /\ Onward(d).observer = d.observer /\ Onward(d).restored = d.restored
      /\ Onward(d).passed = d.passed /\ Onward(d).required = d.required
      /\ Onward(d).failures = d.failures
  BY <1>1 DEF Onward, Controller, Programs
<1>4. Settled(c, ended) = Onward(d)
  BY DEF Settled, d
<1> QED BY <1>1, <1>2, <1>3, <1>4

LEMMA ControllerFrame ==
  ControllerStep =>
    /\ UNCHANGED <<host, probe, clean>>
    /\ faults \in 0..MaxFaults => faults' \in 0..MaxFaults
<1>1. ASSUME NEW at, CtlAt(at) PROVE UNCHANGED <<host, probe, clean>>
  BY <1>1 DEF CtlAt
<1>2. ASSUME Fine \/ Fault PROVE faults \in 0..MaxFaults => faults' \in 0..MaxFaults
  BY <1>2, PreflightAssumption DEF Fine, Fault
<1>3. CASE CheckTarget \/ StartAgent \/ AwaitAgent \/ Upload \/ SendShell
  BY <1>1, <1>2, <1>3 DEF CheckTarget, StartAgent, AwaitAgent, Upload, SendShell
<1>4. CASE WaitShell \/ ReadOutput \/ CancelShell \/ Receipt \/ PurgeObject
  BY <1>1, <1>2, <1>4 DEF WaitShell, ReadOutput, CancelShell, Receipt, PurgeObject
<1>5. CASE Verdict \/ AwaitObserver \/ JudgeEvidence \/ LaterFailure \/ EndRun
  BY <1>1, <1>2, <1>5 DEF Verdict, AwaitObserver, JudgeEvidence, LaterFailure, EndRun
<1> QED BY <1>3, <1>4, <1>5 DEF ControllerStep

LEMMA ControllerWorks ==
  TypeOK /\ ControllerStep => ctl' \in Controller /\ cmd' \in [Programs -> Command]
<1> SUFFICES ASSUME TypeOK, ControllerStep
             PROVE  ctl' \in Controller /\ cmd' \in [Programs -> Command]
  OBVIOUS
<1>1. ctl \in Controller /\ cmd \in [Programs -> Command] /\ clean \in Clean
  BY DEF TypeOK
<1>2. ctl.on \in Programs /\ ctl.accepted \in BOOLEAN
  BY <1>1 DEF Controller
<1>3. Broken(ctl) \in Controller
  BY <1>1, BrokenIs
<1>4. CASE CheckTarget \/ StartAgent \/ AwaitAgent
  <2>1. CASE CheckTarget
    BY <1>1, <2>1 DEF CheckTarget, Others, Controller
  <2>2. CASE StartAgent
    BY <1>1, <2>2 DEF StartAgent, Others, Controller
  <2>3. CASE AwaitAgent
    BY <1>1, <2>3 DEF AwaitAgent, Others, Controller
  <2> QED BY <1>4, <2>1, <2>2, <2>3
<1>5. CASE Upload
  <2>1. [ctl EXCEPT !.at = "send", !.object = TRUE] \in Controller
    BY <1>1 DEF Controller
  <2>2. [ctl.terminal EXCEPT !["probe"] = TRUE] \in [Programs -> BOOLEAN]
    BY <1>1 DEF Controller, Programs
  <2>3. \A stored \in BOOLEAN :
          [ctl EXCEPT !.at = "send", !.on = "cleanup", !.object = stored, !.error = TRUE,
                      !.terminal["probe"] = TRUE] \in Controller
    BY <1>1, <2>2 DEF Controller, Programs
  <2> QED BY <1>1, <1>5, <2>1, <2>3 DEF Upload, Others
<1>6. CASE SendShell
  <2>1. [ctl EXCEPT !.at = "wait"] \in Controller /\ Settled(Broken(ctl), FALSE) \in Controller
    BY <1>1, <1>3, SettledIs, ZenonT(60) DEF Controller
  <2>2. /\ [cmd EXCEPT ![ctl.on] = [status |-> "Pending", known |-> TRUE]] \in [Programs -> Command]
        /\ [cmd EXCEPT ![ctl.on].status = "Pending"] \in [Programs -> Command]
    BY <1>1, <1>2 DEF Command, Active
  <2> QED BY <1>1, <1>6, <2>1, <2>2 DEF SendShell, Become
<1>7. CASE WaitShell
  <2>1. [ctl EXCEPT !.at = "read"] \in Controller /\ [Broken(ctl) EXCEPT !.at = "cancel"] \in Controller
    BY <1>1, <1>3 DEF Controller
  <2> QED BY <1>1, <1>7, <2>1 DEF WaitShell, Others
<1>8. CASE ReadOutput
  <2>1. /\ [ctl EXCEPT !.at = "cancel"] \in Controller /\ [Broken(ctl) EXCEPT !.at = "cancel"] \in Controller
        /\ [ctl EXCEPT !.remote = CleanupReceipt] \in Controller
    BY <1>1, <1>3 DEF Controller, CleanupReceipt, Clean
  <2>2. Settled([ctl EXCEPT !.remote = CleanupReceipt], TRUE) \in Controller
    BY <2>1, SettledIs
  <2> QED BY <1>1, <1>8, <2>1, <2>2 DEF ReadOutput, Others
<1>9. CASE CancelShell
  <2>1. /\ [ctl EXCEPT !.tried = TRUE] \in Controller /\ [ctl EXCEPT !.tried = TRUE, !.accepted = FALSE] \in Controller
        /\ Settled(ctl, ctl.accepted) \in Controller /\ Settled(ctl, FALSE) \in Controller
    <3>1. [ctl EXCEPT !.tried = TRUE] \in Controller
      BY <1>1 DEF Controller
    <3>2. [ctl EXCEPT !.tried = TRUE, !.accepted = FALSE] \in Controller
      BY <1>1 DEF Controller
    <3> QED BY <1>1, <1>2, <3>1, <3>2, SettledIs
  <2>2. \A status \in {"Cancelled", "Cancelling"} : [cmd EXCEPT ![ctl.on].status = status] \in [Programs -> Command]
    BY <1>1, <1>2 DEF Command, Active, Terminal
  <2> QED BY <1>1, <1>9, <2>1, <2>2 DEF CancelShell, Become, Others
<1>10. CASE Receipt
  <2>1. Passed \in BOOLEAN
    BY DEF Passed
  <2>2. ASSUME NEW b \in BOOLEAN, NEW f \in BOOLEAN
        PROVE  [ctl EXCEPT !.at = "purge", !.restored = b, !.failures = f] \in Controller
    BY <1>1 DEF Controller
  <2>3. (ctl.failures \/ ~Passed) \in BOOLEAN
    OBVIOUS
  <2>4. ctl' \in Controller
    BY <1>10, <2>1, <2>2, <2>3 DEF Receipt
  <2> QED BY <1>1, <1>10, <2>4 DEF Receipt, Others
<1>11. CASE PurgeObject \/ Verdict \/ AwaitObserver \/ JudgeEvidence \/ LaterFailure
  <2>1. CASE PurgeObject
    BY <1>1, <2>1 DEF PurgeObject, Others, Controller
  <2>2. CASE Verdict
    BY <1>1, <2>2 DEF Verdict, Others, Controller
  <2>3. CASE AwaitObserver
    BY <1>1, <2>3 DEF AwaitObserver, Others, Controller
  <2>4. CASE JudgeEvidence
    BY <1>1, <2>4 DEF JudgeEvidence, Others, Controller
  <2>5. CASE LaterFailure
    BY <1>1, <2>5 DEF LaterFailure, Others, Controller
  <2> QED BY <1>11, <2>1, <2>2, <2>3, <2>4, <2>5
<1>12. CASE EndRun
  BY <1>1, <1>12 DEF EndRun, StopActiveWork, Others, Controller
<1> QED BY <1>4, <1>5, <1>6, <1>7, <1>8, <1>9, <1>10, <1>11, <1>12 DEF ControllerStep

LEMMA InitTyped == Init => TypeOK
<1> SUFFICES ASSUME Init PROVE TypeOK
  OBVIOUS
<1>1. host \in Host /\ probe \in Probe /\ clean \in Clean
  BY DEF Init, Host, Configs, Probe, Clean
<1>2. cmd \in [Programs -> Command]
  BY DEF Init, Command
<1>3. ctl \in Controller
  <2> DEFINE never == [p \in Programs |-> FALSE]
             none == {}
  <2>1. never \in [Programs -> BOOLEAN] /\ none \in SUBSET CLEANUP_FIELDS /\ "probe" \in Programs
    BY DEF Programs
  <2>2. PICK r \in BOOLEAN :
          ctl = [at |-> "target", on |-> "probe", retain |-> r, required |-> FALSE,
                 observer |-> FALSE, object |-> FALSE, tried |-> FALSE, accepted |-> TRUE,
                 terminal |-> never, remote |-> none, error |-> FALSE,
                 failures |-> FALSE, restored |-> FALSE, passed |-> FALSE]
    BY DEF Init
  <2> HIDE DEF never, none
  <2> QED BY <2>1, <2>2 DEF Controller
<1>4. faults \in 0..MaxFaults
  BY PreflightAssumption DEF Init
<1> QED BY <1>1, <1>2, <1>3, <1>4 DEF TypeOK

LEMMA NextTyped == TypeOK /\ [Next]_vars => TypeOK'
<1> SUFFICES ASSUME TypeOK, [Next]_vars PROVE TypeOK'
  OBVIOUS
<1>1. CASE ControllerStep
  BY <1>1, ControllerWorks, ControllerFrame DEF TypeOK
<1>2. CASE UNCHANGED vars
  BY <1>2 DEF vars, TypeOK
<1> QED BY <1>1, <1>2, ProbeTyped, CleanTyped, CommandTyped DEF Next

-----------------------------------------------------------------------------
(* The probe program *)

LEMMA LeadsTo ==
  ASSUME probe \in Probe, NEW pc, NEW after, NEW ok \in BOOLEAN, Leads(ok, pc, after)
  PROVE  \/ ok /\ probe'.pc = pc /\ host' = after
         \/ probe'.pc \in {"stop", "ended"} /\ UNCHANGED host
<1>1. Exited(probe).pc \in {"stop", "ended"}
  BY ExitedTyped
<1>2. [probe EXCEPT !.pc = pc].pc = pc
  BY DEF Probe
<1> QED BY <1>1, <1>2 DEF Leads, Goto

\* Before the cleanup program the probe is alone on the host.
LEMMA ProbeIsAlone ==
  ASSUME IInv, Running("probe")
  PROVE  ~ctl.terminal["probe"] /\ cmd["probe"].status \in {"InProgress", "Cancelling"}
         /\ (Alone => clean.pc = "none")
  BY DEF IInv, CommandInv, ControllerInv, Programs, Active, Alone

LEMMA ProbeOnHost == IInv /\ (ProbeStep \/ CommandFails) => ProbeInv'
<1> SUFFICES ASSUME IInv, ProbeStep \/ CommandFails PROVE ProbeInv'
  OBVIOUS
<1>1. /\ Running("probe") /\ UNCHANGED <<clean, cmd, ctl>> /\ host \in Host /\ probe \in Probe /\ ProbeInv
  BY ProbeFrame DEF IInv, TypeOK
<1>2. ~ctl.terminal["probe"] /\ (Alone => clean.pc = "none" /\ ctl.on = "probe")
  BY <1>1, ProbeIsAlone DEF Alone
<1> DEFINE Kept(h, pc) ==
      /\ h.backup # "none" => h.run
      /\ Alone =>
           /\ \/ h.config = "original"
              \/ h.config \in {"patched", "torn"} /\ h.backup = "whole"
              \/ h.config \in {"short", "torn"} /\ h.backup = "torn"
           /\ pc \in {"none", "preflight", "download", "backup", "copying", "write", "replace"} =>
                h.config = "original"
           /\ pc \in {"write", "replace", "restart", "ready", "reserve", "call", "calling"} => h.backup = "whole"
           /\ pc = "back" => h.backup # "none"
<1>3. Kept(host, probe.pc)
  BY <1>1, <1>2 DEF ProbeInv, BackupIsKept, Alone
<1>4. Kept(host', probe'.pc) => ProbeInv'
  BY <1>1, <1>2 DEF ProbeInv, BackupIsKept, Alone
<1>5. ASSUME UNCHANGED host, probe'.pc \in {"stop", "ended"} PROVE Kept(host', probe'.pc)
  BY <1>3, <1>5
<1>6. ASSUME NEW ok \in BOOLEAN, NEW pc, NEW after, Leads(ok, pc, after),
             ok => Kept(after, pc)
      PROVE  Kept(host', probe'.pc)
  BY <1>1, <1>5, <1>6, LeadsTo
<1> HIDE DEF Kept
<1>7. CASE CheckHost
  <2>1. probe.pc = "preflight" /\ Leads(~host.run, "download", [host EXCEPT !.run = TRUE])
    BY <1>7 DEF CheckHost, ProbeAt
  <2>2. Kept([host EXCEPT !.run = TRUE], "download") /\ host.run \in BOOLEAN
    BY <1>1, <1>3, <2>1 DEF Kept, Host
  <2> QED BY <1>4, <1>6, <2>1, <2>2
<1>8. CASE DownloadProbe
  <2>1. probe.pc = "download" /\ Leads(host.run, "backup", host)
    BY <1>8 DEF DownloadProbe, ProbeAt
  <2>2. Kept(host, "backup") /\ host.run \in BOOLEAN
    BY <1>1, <1>3, <2>1 DEF Kept, Host
  <2> QED BY <1>4, <1>6, <2>1, <2>2
<1>9. CASE BeginBackup
  <2>1. probe.pc = "backup" /\ Leads(host.run, "copying", [host EXCEPT !.backup = "torn"])
    BY <1>9 DEF BeginBackup, ProbeAt
  <2>2. (host.run => Kept([host EXCEPT !.backup = "torn"], "copying")) /\ host.run \in BOOLEAN
    BY <1>1, <1>3, <2>1 DEF Kept, Host
  <2> QED BY <1>4, <1>6, <2>1, <2>2
<1>10. CASE EndBackup
  <2> DEFINE after == [host EXCEPT !.backup = IF host.config = "original" THEN "whole" ELSE "torn"]
  <2>1. probe.pc = "copying" /\ Leads(host.run, "write", after)
    BY <1>10 DEF EndBackup, ProbeAt
  <2>2. (host.run => Kept(after, "write")) /\ host.run \in BOOLEAN
    BY <1>1, <1>3, <2>1 DEF Kept, Host
  <2> QED BY <1>4, <1>6, <2>1, <2>2
<1>11. CASE WritePatched
  <2>1. /\ probe.pc = "write"
        /\ Leads(host.config = "original" /\ ~host.temp, "replace", [host EXCEPT !.temp = TRUE])
    BY <1>11 DEF WritePatched, ProbeAt
  <2>2. Kept([host EXCEPT !.temp = TRUE], "replace") /\ (host.config = "original" /\ ~host.temp) \in BOOLEAN
    BY <1>1, <1>3, <2>1 DEF Kept, Host
  <2> QED BY <1>4, <1>6, <2>1, <2>2
<1>12. CASE ReplaceConfig
  <2>1. probe.pc = "replace" /\ Leads(host.temp, "restart", [host EXCEPT !.config = "patched", !.temp = FALSE])
    BY <1>12 DEF ReplaceConfig, ProbeAt
  <2>2. Kept([host EXCEPT !.config = "patched", !.temp = FALSE], "restart") /\ host.temp \in BOOLEAN
    BY <1>1, <1>3, <2>1 DEF Kept, Host
  <2> QED BY <1>4, <1>6, <2>1, <2>2
<1>13. CASE RestartPatched
  <2>1. probe.pc = "restart" /\ Leads(TRUE, "ready", Reloaded)
    BY <1>13 DEF RestartPatched, ProbeAt
  <2>2. Kept(Reloaded, "ready")
    BY <1>1, <1>3, <2>1 DEF Kept, Host, Reloaded
  <2> QED BY <1>4, <1>6, <2>1, <2>2
<1>14. CASE AwaitPatched
  <2>1. probe.pc = "ready" /\ Leads(host.service # "down", "reserve", host)
    BY <1>14 DEF AwaitPatched, ProbeAt
  <2>2. Kept(host, "reserve") /\ (host.service # "down") \in BOOLEAN
    BY <1>1, <1>3, <2>1 DEF Kept
  <2> QED BY <1>4, <1>6, <2>1, <2>2
<1>15. CASE ReserveRoute
  <2>1. probe.pc = "reserve" /\ Leads(host.run /\ host.service # "down", "call", host)
    BY <1>15 DEF ReserveRoute, ProbeAt
  <2>2. Kept(host, "call") /\ (host.run /\ host.service # "down") \in BOOLEAN
    BY <1>1, <1>3, <2>1 DEF Kept
  <2> QED BY <1>4, <1>6, <2>1, <2>2
<1>16. CASE StartCall
  <2>1. probe.pc = "call" /\ Leads(host.run, "calling", [host EXCEPT !.alive = TRUE])
    BY <1>16 DEF StartCall, ProbeAt
  <2>2. Kept([host EXCEPT !.alive = TRUE], "calling") /\ host.run \in BOOLEAN
    BY <1>1, <1>3, <2>1 DEF Kept, Host
  <2> QED BY <1>4, <1>6, <2>1, <2>2
<1>17. CASE EndCall
  <2>1. probe.pc = "calling" /\ Leads(host.alive, "stop", NoProbe)
    BY <1>17 DEF EndCall, ProbeAt
  <2>2. Kept(NoProbe, "stop") /\ host.alive \in BOOLEAN
    BY <1>1, <1>3, <2>1 DEF Kept, Host, NoProbe
  <2> QED BY <1>4, <1>6, <2>1, <2>2
<1>18. CASE StopOwned
  <2>1. probe.pc = "stop" /\ Leads(TRUE, "look", NoProbe)
    BY <1>18 DEF StopOwned, ProbeAt
  <2>2. Kept(NoProbe, "look")
    BY <1>1, <1>3, <2>1 DEF Kept, Host, NoProbe
  <2> QED BY <1>4, <1>6, <2>1, <2>2
<1>19. CASE BeginRestore
  <2>1. \/ host.backup # "none" /\ Leads(TRUE, "back", Begun)
        \/ Leads(host.config # "patched", "up", host)
    BY <1>19 DEF BeginRestore, ProbeAt
  <2>2. (host.backup # "none" => Kept(Begun, "back")) /\ Kept(host, "up") /\ (host.config # "patched") \in BOOLEAN
    BY <1>1, <1>3 DEF Kept, Host, Begun
  <2> QED BY <1>4, <1>6, <2>1, <2>2
<1>20. CASE EndRestore
  <2>1. probe.pc = "back"
    BY <1>20 DEF EndRestore, ProbeAt
  <2>2. CASE host.backup # "none" /\ Leads(TRUE, "reload", Copied)
    <3>1. Kept(Copied, "reload")
      BY <1>1, <1>3, <2>2 DEF Kept, Host, Copied, CopyOf
    <3> QED BY <1>4, <1>6, <2>2, <3>1
  <2>3. CASE /\ host.backup = "none" /\ probe' = Exited(probe)
             /\ \E config \in {"torn", "original"} : host' = [host EXCEPT !.config = config]
    <3>1. ~Alone /\ host'.backup = "none"
      BY <1>1, <1>3, <2>1, <2>3 DEF Kept, Host
    <3> QED BY <1>4, <3>1 DEF Kept
  <2> QED BY <1>20, <2>2, <2>3 DEF EndRestore
<1>21. CASE RestartRestored
  <2>1. probe.pc = "reload" /\ Leads(TRUE, "up", Reloaded)
    BY <1>21 DEF RestartRestored, ProbeAt
  <2>2. Kept(Reloaded, "up")
    BY <1>1, <1>3, <2>1 DEF Kept, Host, Reloaded
  <2> QED BY <1>4, <1>6, <2>1, <2>2
<1>22. CASE AwaitRestored
  <2>1. /\ UNCHANGED host
        /\ probe' \in {Exited(probe), [probe EXCEPT !.restored = TRUE, !.pc = "ended"],
                       [probe EXCEPT !.restored = TRUE, !.pc = "emit"]}
    BY <1>22 DEF AwaitRestored, ProbeAt
  <2>2. probe'.pc \in {"stop", "ended", "emit"}
    BY <1>1, <2>1, ExitedTyped DEF Probe
  <2> QED BY <1>3, <1>4, <2>1, <2>2 DEF Kept
<1>23. CASE EmitResult
  <2>1. probe.pc = "emit" /\ Leads(host.run, "ended", host)
    BY <1>23 DEF EmitResult, ProbeAt
  <2>2. Kept(host, "ended") /\ host.run \in BOOLEAN
    BY <1>1, <1>3, <2>1 DEF Kept, Host
  <2> QED BY <1>4, <1>6, <2>1, <2>2
<1>24. CASE CommandFails
  <2>1. probe'.pc \in {"stop", "ended"}
    BY <1>1, <1>24, ExitedTyped DEF CommandFails
  <2>2. /\ host'.backup = host.backup /\ host'.config = host.config /\ host'.run = host.run
    BY <1>1, <1>24 DEF CommandFails, Host, NoProbe
  <2> QED BY <1>3, <1>4, <2>1, <2>2 DEF Kept
<1> QED BY <1>7, <1>8, <1>9, <1>10, <1>11, <1>12, <1>13, <1>14, <1>15, <1>16, <1>17, <1>18, <1>19, <1>20,
           <1>21, <1>22, <1>23, <1>24 DEF ProbeStep

LEMMA ProbeKeeps == IInv /\ (ProbeStep \/ CommandFails) => IInv'
<1> SUFFICES ASSUME IInv, ProbeStep \/ CommandFails PROVE IInv'
  OBVIOUS
<1>1. /\ Running("probe") /\ UNCHANGED <<clean, cmd, ctl>> /\ TypeOK' /\ probe'.pc # "none" /\ ProbeInv'
  BY ProbeFrame, ProbeTyped, ProbeOnHost DEF IInv
<1>2. ~ctl.terminal["probe"] /\ cmd["probe"].status \in {"InProgress", "Cancelling"}
  BY <1>1, ProbeIsAlone
<1>3. CommandInv'
  BY <1>1, <1>2 DEF IInv, CommandInv, Programs, Running
<1>4. ControllerInv' /\ CleanInv'
  BY <1>1, <1>2 DEF IInv, ControllerInv, CleanInv, Passed
<1> QED BY <1>1, <1>3, <1>4 DEF IInv

-----------------------------------------------------------------------------
(* The cleanup program *)

\* While it runs, its command is under way, and the probe's has been asked for before.
LEMMA CleanIsSecond ==
  ASSUME IInv, Running("cleanup")
  PROVE  /\ cmd["cleanup"].status \in {"InProgress", "Cancelling"} /\ ctl.on = "cleanup"
         /\ ~ctl.terminal["cleanup"] /\ ctl.remote = {} /\ ~ctl.restored
         /\ Alone => ctl.terminal["probe"] /\ probe.pc \in {"none", "ended"}
<1>1. cmd["cleanup"].status \in {"InProgress", "Cancelling"} /\ clean.pc \notin {"none", "ended"}
  BY DEF IInv, CommandInv, Programs, Running
<1>2. ctl.on = "cleanup" /\ ~ctl.terminal["cleanup"] /\ ctl.remote = {}
  BY <1>1 DEF IInv, TypeOK, ControllerInv, Controller, Programs, Active
<1>3. ~ctl.restored
  BY <1>2 DEF IInv, ControllerInv, Passed, Programs
<1>4. ctl.terminal["probe"] => ~Running("probe")
  BY DEF IInv, CommandInv, ControllerInv, Programs, Active
<1> QED BY <1>1, <1>2, <1>3, <1>4 DEF Alone, Running

LEMMA CleanOnHost == IInv /\ CleanStep => ProbeInv' /\ CleanInv'
<1> SUFFICES ASSUME IInv, CleanStep PROVE ProbeInv' /\ CleanInv'
  OBVIOUS
<1>1. /\ Running("cleanup") /\ UNCHANGED <<probe, cmd, ctl>> /\ host \in Host /\ clean \in Clean
      /\ ProbeInv /\ CleanInv /\ clean'.pc # "none"
  BY CleanFrame, CleanTyped DEF IInv, TypeOK, Running, Cleaning
<1>2. Alone => ctl.terminal["probe"] /\ probe.pc \in {"none", "ended"}
  BY <1>1, CleanIsSecond
<1> DEFINE Found(h, c) ==
      /\ h.backup # "none" => h.run
      /\ c.pc \in {"none", "stop"} => c.facts = {}
      /\ c.pc \in {"none", "stop", "look", "back", "compare"} => "configuration_restored" \notin c.facts
      /\ c.pc \notin {"dns", "remove", "ended"} => "bridgefu_active" \notin c.facts
      /\ c.pc # "ended" => "run_artifacts_absent" \notin c.facts
      /\ ctl.terminal["probe"] =>
           /\ \/ h.config = "original"
              \/ h.config \in {"patched", "torn"} /\ h.backup = "whole"
              \/ h.config \in {"short", "torn"} /\ h.backup = "torn"
           /\ "probe_process_absent" \in c.facts => ~h.alive
           /\ "bridgefu_active" \in c.facts => h.service # "down"
           /\ "run_artifacts_absent" \in c.facts => ~h.run /\ ~h.temp
           /\ c.pc = "back" => h.backup # "none"
           /\ c.pc \in {"back", "restart"} => c.had
           /\ c.pc \in {"compare", "up"} /\ ~c.had => h.config = "original"
           /\ "configuration_restored" \in c.facts =>
                \/ h.config = "original"
                \/ /\ h.config = "short" /\ "bridgefu_active" \notin c.facts
                   /\ c.pc \in {"restart", "ended"} \/ h.service = "down"
<1>3. Found(host, clean)
  BY <1>1 DEF ProbeInv, CleanInv, BackupIsKept, Alone
<1>4. Found(host', clean') => ProbeInv' /\ CleanInv'
  BY <1>1, <1>2 DEF ProbeInv, CleanInv, BackupIsKept, Alone
<1>5. ASSUME NEW pc, NEW facts, Finds(facts, pc)
      PROVE  clean'.pc = pc /\ clean'.facts = clean.facts \cup facts /\ clean'.had = clean.had
  BY <1>1, <1>5 DEF Finds, Clean
<1>6. ASSUME NEW pc, Proceeds(pc)
      PROVE  clean'.pc = pc /\ clean'.facts = clean.facts /\ clean'.had = clean.had
  BY <1>1, <1>6 DEF Proceeds, Clean
<1>7. Found(host', clean')
  <2>1. CASE CleanStop
    <3>1. clean.pc = "stop" /\ clean'.pc = "look" /\ clean'.facts \subseteq {"probe_process_absent"}
      BY <1>3, <1>5, <1>6, <2>1 DEF CleanStop, CleanAt
    <3>2. /\ host'.config = host.config /\ host'.backup = host.backup /\ host'.run = host.run
          /\ "probe_process_absent" \in clean'.facts => ~host'.alive
      BY <1>1, <1>3, <1>5, <1>6, <2>1 DEF CleanStop, CleanAt, NoProbe, Host
    <3> QED BY <1>3, <3>1, <3>2
  <2>2. CASE CleanLook
    <3>1. /\ clean.pc = "look" /\ clean'.facts = clean.facts
          /\ \/ /\ clean'.pc = "back" /\ clean'.had /\ host.backup # "none" /\ host'.config = "torn"
             \/ clean'.pc = "compare" /\ ~clean'.had /\ host.backup = "none" /\ host'.config = host.config
          /\ host'.backup = host.backup /\ host'.run = host.run /\ host'.alive = host.alive
      BY <1>1, <2>2 DEF CleanLook, CleanAt, Begun, Host, Clean
    <3>2. host.backup \in {"none", "whole", "torn"}
      BY <1>1 DEF Host
    <3> QED BY <1>3, <3>1, <3>2
  <2>3. CASE CleanCopy
    <3>1. /\ clean.pc = "back" /\ clean'.pc = "compare" /\ clean'.facts = clean.facts /\ clean'.had = clean.had
      BY <1>6, <2>3 DEF CleanCopy, CleanAt
    <3>2. /\ host'.config \in {host.config, CopyOf(host.backup)} /\ host'.backup = host.backup
          /\ host'.run = host.run /\ host'.alive = host.alive
      BY <1>1, <2>3 DEF CleanCopy, Copied, Host
    <3>3. host.backup \in {"none", "whole", "torn"}
      BY <1>1 DEF Host
    <3> QED BY <1>3, <3>1, <3>2, <3>3 DEF CopyOf
  <2>4. CASE CleanCompare
    <3>1. /\ clean.pc = "compare" /\ UNCHANGED host /\ clean'.had = clean.had
          /\ clean'.pc = IF clean.had THEN "restart" ELSE "up"
          /\ \/ clean'.facts = clean.facts
             \/ /\ clean'.facts = clean.facts \cup {"configuration_restored"}
                /\ clean.had => SameBytes
      BY <1>5, <2>4 DEF CleanCompare, CleanAt
    <3>2. SameBytes => host.config \in {"original", "short"}
      BY DEF SameBytes
    <3>3. clean.had \in BOOLEAN
      BY <1>1 DEF Clean
    <3>4. CASE clean.had
      BY <1>3, <3>1, <3>2, <3>4
    <3>5. CASE ~clean.had
      BY <1>3, <3>1, <3>5
    <3> QED BY <3>3, <3>4, <3>5
  <2>5. CASE CleanRestart
    <3>1. clean.pc = "restart" /\ clean'.pc = "up" /\ clean'.facts = clean.facts /\ clean'.had = clean.had
      BY <1>6, <2>5 DEF CleanRestart, CleanAt
    <3>2. /\ host'.service \in {"down", Loaded(host.config)} /\ host'.config = host.config
          /\ host'.backup = host.backup /\ host'.run = host.run /\ host'.alive = host.alive
      BY <1>1, <2>5 DEF CleanRestart, Reloaded, Host
    <3> QED BY <1>3, <3>1, <3>2 DEF Loaded
  <2>6. CASE CleanAwait
    <3>1. /\ clean.pc = "up" /\ UNCHANGED host /\ clean'.had = clean.had /\ clean'.pc = "dns"
          /\ clean'.facts = clean.facts \cup (IF host.service = "down" THEN {} ELSE {"bridgefu_active"})
      BY <1>5, <2>6 DEF CleanAwait, CleanAt
    <3> QED BY <1>3, <3>1
  <2>7. CASE CleanDns
    <3>1. /\ clean.pc = "dns" /\ UNCHANGED host /\ clean'.had = clean.had /\ clean'.pc = "remove"
          /\ clean'.facts \in {clean.facts, clean.facts \cup {"private_dns_verified"}}
      BY <1>5, <1>6, <2>7 DEF CleanDns, CleanAt
    <3> QED BY <1>3, <3>1
  <2>8. CASE CleanRemove
    <3>1. /\ clean.pc = "remove" /\ clean'.had = clean.had /\ clean'.pc = "ended"
          /\ clean'.facts = clean.facts \cup
               (IF host'.run \/ host'.temp THEN {} ELSE {"run_artifacts_absent"})
      BY <1>5, <2>8 DEF CleanRemove, CleanAt
    <3>2. /\ \/ UNCHANGED host
             \/ /\ {"configuration_restored", "bridgefu_active"} \subseteq clean.facts
                /\ host'.backup = "none" /\ ~host'.run
          /\ host'.config = host.config /\ host'.service = host.service /\ host'.alive = host.alive
      BY <1>1, <2>8 DEF CleanRemove, Host
    <3> QED BY <1>3, <3>1, <3>2
  <2> QED BY <2>1, <2>2, <2>3, <2>4, <2>5, <2>6, <2>7, <2>8 DEF CleanStep
<1> QED BY <1>4, <1>7

LEMMA CleanKeeps == IInv /\ CleanStep => IInv'
<1> SUFFICES ASSUME IInv, CleanStep PROVE IInv'
  OBVIOUS
<1>1. /\ Running("cleanup") /\ UNCHANGED <<probe, cmd, ctl>> /\ TypeOK' /\ clean'.pc # "none"
      /\ ProbeInv' /\ CleanInv'
  BY CleanFrame, CleanTyped, CleanOnHost DEF IInv, Running, Cleaning
<1>2. /\ cmd["cleanup"].status \in {"InProgress", "Cancelling"} /\ ctl.remote = {} /\ ~ctl.restored
  BY <1>1, CleanIsSecond
<1>3. CommandInv'
  BY <1>1, <1>2 DEF IInv, CommandInv, Programs, Running
<1>4. ControllerInv'
  BY <1>1, <1>2 DEF IInv, ControllerInv
<1> QED BY <1>1, <1>3, <1>4 DEF IInv

-----------------------------------------------------------------------------
(* Systems Manager *)

LEMMA CommandKeeps ==
  ASSUME IInv, NEW p \in Programs, CommandStep(p)
  PROVE  IInv'
<1>1. /\ TypeOK' /\ UNCHANGED <<host, ctl>> /\ TypeOK
      /\ probe \in Probe /\ clean \in Clean /\ cmd \in [Programs -> Command]
  BY CommandTyped DEF IInv, TypeOK, CommandStep, Deliver, GiveUp, Report, Cancels, Killed
<1>2. p \in {"probe", "cleanup"}
  BY DEF Programs
<1>3. ASSUME NEW status, Become(p, status)
      PROVE  cmd'[p].status = status /\ \A q \in Programs \ {p} : cmd'[q] = cmd[q]
  BY <1>1, <1>3 DEF Become, Command
<1>4. ASSUME KillProgram(p)
      PROVE  IF p = "probe" THEN probe'.pc = "ended" /\ UNCHANGED clean
             ELSE clean'.pc = "ended" /\ clean'.facts = clean.facts /\ clean'.had = clean.had /\ UNCHANGED probe
  BY <1>1, <1>4 DEF KillProgram, Probe, Clean
<1>5. Exited(probe).pc \in {"stop", "ended"}
  BY <1>1, ExitedTyped
<1>6. CASE Deliver(p)
  <2>1. /\ cmd[p].status = "Pending" /\ cmd'[p].status = "InProgress"
        /\ \A q \in Programs \ {p} : cmd'[q] = cmd[q]
        /\ IF p = "probe" THEN probe.pc = "none" /\ probe'.pc = "preflight" /\ UNCHANGED clean
           ELSE clean.pc = "none" /\ clean'.pc = "stop" /\ clean'.facts = clean.facts /\ UNCHANGED probe
    BY <1>1, <1>3, <1>6 DEF Deliver, IInv, CommandInv, Goto, Proceeds, Probe, Clean
  <2>2. CommandInv'
    BY <2>1, <1>2 DEF IInv, CommandInv, Programs, Running
  <2>3. ControllerInv'
    BY <1>1, <1>2, <2>1 DEF IInv, ControllerInv, Programs, Active, Passed, Controller, TypeOK
  <2>4. ProbeInv'
    BY <1>1, <1>2, <2>1 DEF IInv, ProbeInv, BackupIsKept, Alone
  <2>5. CleanInv'
    BY <1>1, <1>2, <2>1 DEF IInv, CleanInv
  <2> QED BY <1>1, <2>2, <2>3, <2>4, <2>5 DEF IInv
<1>7. CASE GiveUp(p) \/ Report(p)
  <2>1. /\ cmd[p].status \in Active /\ cmd'[p].status \in Terminal
        /\ \A q \in Programs \ {p} : cmd'[q] = cmd[q]
        /\ UNCHANGED <<probe, clean>>
        /\ ~Running(p)
        /\ cmd'[p].status = "Success" => IF p = "probe" THEN probe.pc = "ended" ELSE clean.pc = "ended"
    BY <1>1, <1>2, <1>3, <1>7 DEF GiveUp, Report, IInv, CommandInv, Active, Terminal, Running
  <2>2. CommandInv'
    BY <2>1, <1>2 DEF IInv, CommandInv, Programs, Running, Terminal
  <2>3. ControllerInv'
    BY <1>1, <1>2, <2>1 DEF IInv, ControllerInv, Programs, Active, Terminal, Passed, Controller, TypeOK
  <2>4. ProbeInv' /\ CleanInv'
    BY <1>1, <2>1 DEF IInv, ProbeInv, BackupIsKept, Alone, CleanInv
  <2> QED BY <1>1, <2>2, <2>3, <2>4 DEF IInv
<1>8. CASE Cancels(p) \/ Killed(p)
  <2>1. /\ Running(p) /\ UNCHANGED cmd
        /\ IF p = "probe" THEN probe'.pc \in {"stop", "ended"} /\ UNCHANGED clean
           ELSE clean'.pc = "ended" /\ clean'.facts = clean.facts /\ clean'.had = clean.had /\ UNCHANGED probe
    BY <1>2, <1>4, <1>5, <1>8 DEF Cancels, Killed
  <2>2. CommandInv'
    BY <1>2, <2>1 DEF IInv, CommandInv, Programs, Running
  <2>3. ControllerInv'
    BY <1>1, <1>2, <2>1, CleanIsSecond DEF IInv, ControllerInv, Passed
  <2>4. ProbeInv'
    BY <1>1, <1>2, <2>1 DEF IInv, ProbeInv, BackupIsKept, Alone, Running
  <2>5. CleanInv'
    BY <1>1, <1>2, <2>1 DEF IInv, CleanInv, Running
  <2> QED BY <1>1, <2>2, <2>3, <2>4, <2>5 DEF IInv
<1> QED BY <1>6, <1>7, <1>8 DEF CommandStep

-----------------------------------------------------------------------------
(* The controller *)

\* The probe's command is known to have ended before anything is asked of the cleanup program.
LEMMA ControllerOnHost ==
  ASSUME IInv, UNCHANGED <<host, probe, clean>>,
         ctl'.on = "probe" => ctl.on = "probe",
         ctl'.terminal["probe"] => ctl.terminal["probe"] \/ ctl.on = "probe"
  PROVE  ProbeInv' /\ CleanInv'
<1>1. ctl.on = "probe" => clean.pc = "none" /\ clean.facts = {}
  BY DEF IInv, CommandInv, ControllerInv, CleanInv, Programs
<1>2. Alone' => Alone
  BY DEF Alone
<1>3. ProbeInv'
  BY <1>2 DEF IInv, ProbeInv, BackupIsKept, Alone
<1>4. CleanInv'
  BY <1>1 DEF IInv, CleanInv
<1> QED BY <1>3, <1>4

\* The next program, or the verdict, begins as the invariant says.
LEMMA OnwardKeeps ==
  ASSUME IInv, ctl.at \in Asking, NEW c \in Controller, NEW ended \in BOOLEAN,
         ctl' = Settled(c, ended), UNCHANGED <<host, probe, clean>>,
         \A q \in Programs \ {ctl.on} : cmd'[q] = cmd[q],
         ended => cmd'[ctl.on].status \notin Active,
         c.on = ctl.on, c.terminal = ctl.terminal, c.object = ctl.object, c.observer = ctl.observer,
         c.restored = ctl.restored, c.passed = ctl.passed,
         c.remote = ctl.remote \/ (c.remote = clean.facts /\ clean.pc = "ended")
  PROVE  ControllerInv' /\ ProbeInv' /\ CleanInv'
<1>1. /\ ctl \in Controller /\ ctl.on \in Programs /\ ctl.terminal \in [Programs -> BOOLEAN]
  BY DEF IInv, TypeOK, Controller
<1>2. /\ ctl'.on = "cleanup" /\ ctl'.at = (IF ctl.on = "probe" THEN "send" ELSE "receipt")
      /\ ctl'.terminal = [ctl.terminal EXCEPT ![ctl.on] = ended]
      /\ ctl'.remote = c.remote /\ ctl'.object = ctl.object /\ ctl'.observer = ctl.observer
      /\ ctl'.restored = ctl.restored /\ ctl'.passed = ctl.passed
  BY SettledIs
<1>3. ~ctl.restored /\ ~ctl.passed /\ ~ctl.terminal["cleanup"] /\ ~ctl.terminal[ctl.on]
  BY <1>1 DEF IInv, ControllerInv, Programs
<1>4. /\ ctl.on = "probe" => ctl'.terminal["probe"] = ended /\ ~ctl'.terminal["cleanup"]
      /\ ctl.on = "cleanup" => ctl'.terminal["probe"] = ctl.terminal["probe"] /\ ctl'.terminal["cleanup"] = ended
  BY <1>1, <1>2, <1>3 DEF Programs
<1>5. ProbeInv' /\ CleanInv'
  BY <1>1, <1>2, <1>4, ControllerOnHost DEF Programs
<1>6. ControllerInv'
  <2>1. \A p \in Programs : ctl'.terminal[p] => cmd'[p].status \notin Active
    BY <1>1, <1>4 DEF IInv, ControllerInv, Programs
  <2>2. ctl'.at = "send" => cmd'[ctl'.on].status = "none"
    BY <1>1, <1>2 DEF IInv, ControllerInv, Programs
  <2> QED BY <1>1, <1>2, <1>3, <1>4, <2>1, <2>2 DEF IInv, ControllerInv, Judging, Asking, Programs
<1> QED BY <1>5, <1>6

\* Steps between the questions: no command is given, and none concluded from.
LEMMA WaitKeeps ==
  ASSUME IInv, ctl' \in Controller, UNCHANGED <<host, probe, clean, cmd>>,
         ctl'.on = ctl.on, ctl'.terminal = ctl.terminal, ctl'.remote = ctl.remote
  PROVE  CommandInv' /\ ProbeInv' /\ CleanInv'
<1>1. ProbeInv' /\ CleanInv'
  BY ControllerOnHost
<1>2. CommandInv'
  BY DEF IInv, CommandInv, Running
<1> QED BY <1>1, <1>2

LEMMA ControllerKeeps == IInv /\ ControllerStep => IInv'
<1> SUFFICES ASSUME IInv, ControllerStep PROVE CommandInv' /\ ControllerInv' /\ ProbeInv' /\ CleanInv'
  BY NextTyped DEF IInv, Next
<1>1. /\ ctl \in Controller /\ ctl' \in Controller /\ cmd \in [Programs -> Command] /\ clean \in Clean
      /\ UNCHANGED <<host, probe, clean>>
  BY ControllerWorks, ControllerFrame DEF IInv, TypeOK
<1>2. /\ ctl.on \in Programs /\ ctl.terminal \in [Programs -> BOOLEAN] /\ ctl.accepted \in BOOLEAN
      /\ Programs = {"probe", "cleanup"}
  BY <1>1 DEF Controller, Programs
<1> DEFINE Becomes(status) ==
      cmd'[ctl.on].status = status /\ \A q \in Programs \ {ctl.on} : cmd'[q] = cmd[q]
<1>0. ASSUME NEW status, Become(ctl.on, status) PROVE Becomes(status)
  <2>1. cmd[ctl.on] \in Command
    BY <1>1, <1>2
  <2>2. cmd'[ctl.on] = [cmd[ctl.on] EXCEPT !.status = status]
    BY <1>0, <1>1, <1>2 DEF Become
  <2> QED BY <1>0, <1>1, <1>2, <2>1, <2>2 DEF Become, Command
<1>3. CASE CheckTarget \/ StartAgent \/ AwaitAgent
  <2> DEFINE Begins ==
        /\ ctl.at \in {"target", "agent", "agent_ready"} /\ UNCHANGED cmd
        /\ ctl'.on = ctl.on /\ ctl'.terminal = ctl.terminal /\ ctl'.remote = ctl.remote
        /\ ctl'.restored = ctl.restored /\ ctl'.passed = ctl.passed /\ ctl'.object = ctl.object
        /\ ctl'.at \in {"agent", "agent_ready", "upload", "failed"}
  <2>1. Begins
    <3>1. CASE CheckTarget
      BY <1>1, <3>1 DEF CheckTarget, CtlAt, Others, Controller
    <3>2. CASE StartAgent
      BY <1>1, <3>2 DEF StartAgent, CtlAt, Others, Controller
    <3>3. CASE AwaitAgent
      BY <1>1, <3>3 DEF AwaitAgent, CtlAt, Others, Controller
    <3> QED BY <1>3, <3>1, <3>2, <3>3
  <2>2. ControllerInv'
    BY <1>1, <1>2, <2>1 DEF IInv, ControllerInv, Passed, Asking, Judging
  <2> QED BY <1>1, <2>1, <2>2, WaitKeeps
<1>4. CASE Upload
  <2>1. /\ ctl.at = "upload" /\ ctl.on = "probe" /\ UNCHANGED cmd
        /\ cmd["probe"].status = "none" /\ cmd["cleanup"].status = "none"
        /\ ctl.remote = {} /\ ~ctl.passed /\ ~ctl.restored /\ ~ctl.terminal["cleanup"] /\ ~ctl.terminal["probe"]
    BY <1>1, <1>2, <1>4 DEF Upload, CtlAt, Others, IInv, CommandInv, ControllerInv, Passed
  <2>2. /\ ctl'.at = "send" /\ ctl'.remote = ctl.remote /\ ctl'.passed = ctl.passed /\ ctl'.restored = ctl.restored
        /\ \/ ctl'.on = ctl.on /\ ctl'.terminal = ctl.terminal
           \/ ctl'.on = "cleanup" /\ ctl'.terminal = [ctl.terminal EXCEPT !["probe"] = TRUE]
    <3>1. CASE ctl' = [ctl EXCEPT !.at = "send", !.object = TRUE]
      BY <1>1, <3>1 DEF Controller
    <3>2. ASSUME NEW stored \in BOOLEAN,
                 ctl' = [ctl EXCEPT !.at = "send", !.on = "cleanup", !.object = stored,
                                    !.error = TRUE, !.terminal["probe"] = TRUE]
          PROVE  /\ ctl'.at = "send" /\ ctl'.remote = ctl.remote /\ ctl'.passed = ctl.passed
                 /\ ctl'.restored = ctl.restored /\ ctl'.on = "cleanup"
                 /\ ctl'.terminal = [ctl.terminal EXCEPT !["probe"] = TRUE]
      BY <1>1, <3>2 DEF Controller
    <3> QED BY <1>4, <3>1, <3>2 DEF Upload
  <2>3. ProbeInv' /\ CleanInv'
    BY <1>1, <1>2, <2>1, <2>2, ControllerOnHost
  <2>4. CommandInv'
    BY <1>1, <2>1 DEF IInv, CommandInv, Running
  <2>5. ControllerInv'
    BY <1>1, <1>2, <2>1, <2>2 DEF IInv, ControllerInv, Passed, Asking, Judging, Active
  <2> QED BY <2>3, <2>4, <2>5
<1>5. CASE SendShell
  <2>1. /\ ctl.at = "send" /\ cmd[ctl.on].status = "none" /\ ctl.at \in Asking
        /\ \A q \in Programs \ {ctl.on} : cmd'[q] = cmd[q]
        /\ cmd'[ctl.on].status \in {"none", "Pending"}
    <3>1. ctl.at = "send" /\ cmd[ctl.on].status = "none"
      BY <1>5 DEF SendShell, CtlAt, IInv, ControllerInv
    <3>2. CASE cmd' = [cmd EXCEPT ![ctl.on] = [status |-> "Pending", known |-> TRUE]]
      BY <1>1, <1>2, <3>1, <3>2 DEF Asking
    <3>3. CASE Become(ctl.on, "Pending") \/ UNCHANGED cmd
      BY <1>0, <3>1, <3>3 DEF Asking
    <3> QED BY <1>5, <3>2, <3>3 DEF SendShell
  <2>2. CommandInv'
    BY <1>1, <1>2, <2>1 DEF IInv, CommandInv, Running
  <2>3. CASE ctl' = [ctl EXCEPT !.at = "wait"]
    <3>1. /\ ctl'.at = "wait" /\ ctl'.on = ctl.on /\ ctl'.terminal = ctl.terminal /\ ctl'.remote = ctl.remote
          /\ ctl'.restored = ctl.restored /\ ctl'.passed = ctl.passed /\ ctl'.object = ctl.object
      BY <1>1, <2>3 DEF Controller
    <3>2. ControllerInv'
      BY <1>1, <1>2, <2>1, <3>1 DEF IInv, ControllerInv, Passed, Asking, Judging
    <3> QED BY <1>1, <2>2, <3>1, <3>2, ControllerOnHost
  <2>4. CASE ctl' = Settled(Broken(ctl), FALSE)
    <3>1. /\ Broken(ctl) \in Controller /\ Broken(ctl).on = ctl.on /\ Broken(ctl).terminal = ctl.terminal
          /\ Broken(ctl).object = ctl.object /\ Broken(ctl).observer = ctl.observer
          /\ Broken(ctl).restored = ctl.restored /\ Broken(ctl).passed = ctl.passed
          /\ Broken(ctl).remote = ctl.remote
      BY <1>1 DEF Broken, Controller
    <3> HIDE DEF Broken
    <3> QED BY <1>1, <2>1, <2>2, <2>4, <3>1, OnwardKeeps
  <2> QED BY <1>5, <2>3, <2>4 DEF SendShell
<1>6. CASE WaitShell
  <2>1. /\ ctl.at = "wait" /\ UNCHANGED cmd
        /\ ctl'.on = ctl.on /\ ctl'.terminal = ctl.terminal /\ ctl'.remote = ctl.remote
        /\ ctl'.restored = ctl.restored /\ ctl'.passed = ctl.passed /\ ctl'.object = ctl.object
        /\ \/ ctl'.at = "read" /\ cmd[ctl.on].status = "Success"
           \/ ctl'.at = "cancel"
    BY <1>1, <1>6 DEF WaitShell, CtlAt, Others, Broken, Controller
  <2>2. ControllerInv'
    BY <1>1, <1>2, <2>1 DEF IInv, ControllerInv, Passed, Asking, Judging
  <2> QED BY <1>1, <2>1, <2>2, WaitKeeps
<1>7. CASE ReadOutput
  <2>1. ctl.at = "read" /\ UNCHANGED cmd /\ cmd[ctl.on].status = "Success" /\ ctl.at \in Asking
    BY <1>7 DEF ReadOutput, CtlAt, Others, IInv, ControllerInv, Asking
  <2>2. CommandInv'
    BY <1>1, <2>1 DEF IInv, CommandInv, Running
  <2>3. CASE ctl' = [ctl EXCEPT !.at = "cancel"] \/ ctl' = [Broken(ctl) EXCEPT !.at = "cancel"]
    <3>1. /\ ctl'.at = "cancel" /\ ctl'.on = ctl.on /\ ctl'.terminal = ctl.terminal /\ ctl'.remote = ctl.remote
          /\ ctl'.restored = ctl.restored /\ ctl'.passed = ctl.passed /\ ctl'.object = ctl.object
      BY <1>1, <2>3 DEF Broken, Controller
    <3>2. ControllerInv'
      BY <1>1, <1>2, <2>1, <3>1 DEF IInv, ControllerInv, Passed, Asking, Judging
    <3> QED BY <1>1, <2>1, <2>2, <3>1, <3>2, WaitKeeps
  <2>4. CASE ctl.on = "cleanup" /\ ctl' = Settled([ctl EXCEPT !.remote = CleanupReceipt], TRUE)
    <3> DEFINE c == [ctl EXCEPT !.remote = CleanupReceipt]
    <3>1. /\ c \in Controller /\ c.on = ctl.on /\ c.terminal = ctl.terminal /\ c.object = ctl.object
          /\ c.observer = ctl.observer /\ c.restored = ctl.restored /\ c.passed = ctl.passed
          /\ c.remote = clean.facts
      BY <1>1 DEF Controller, CleanupReceipt, Clean
    <3>2. clean.pc = "ended"
      BY <1>2, <2>1, <2>4 DEF IInv, CommandInv
    <3>3. cmd'[ctl.on].status \notin Active
      BY <2>1 DEF Active
    <3>4. ctl' = Settled(c, TRUE)
      BY <2>4
    <3> HIDE DEF c
    <3> QED BY <1>1, <2>1, <2>2, <3>1, <3>2, <3>3, <3>4, OnwardKeeps
  <2> QED BY <1>7, <2>3, <2>4 DEF ReadOutput
<1>8. CASE CancelShell
  <2>1. /\ ctl.at = "cancel" /\ ctl.at \in Asking
        /\ \A q \in Programs \ {ctl.on} : cmd'[q] = cmd[q]
        /\ \/ UNCHANGED cmd
           \/ /\ cmd[ctl.on].status \in Active \ {"Cancelling"}
              /\ cmd'[ctl.on].status = IF cmd[ctl.on].status = "Pending" THEN "Cancelled" ELSE "Cancelling"
    <3>1. ctl.at = "cancel"
      BY <1>8 DEF CancelShell, CtlAt
    <3>2. CASE UNCHANGED cmd
      BY <3>1, <3>2 DEF Asking
    <3>3. CASE /\ cmd[ctl.on].status \in Active \ {"Cancelling"}
               /\ Become(ctl.on, IF cmd[ctl.on].status = "Pending" THEN "Cancelled" ELSE "Cancelling")
      BY <1>0, <3>1, <3>3 DEF Asking
    <3> QED BY <1>8, <3>2, <3>3 DEF CancelShell, Others
  <2>2. CommandInv'
    BY <1>1, <1>2, <2>1 DEF IInv, CommandInv, Running, Active
  <2>3. CASE ctl' \in {[ctl EXCEPT !.tried = TRUE], [ctl EXCEPT !.tried = TRUE, !.accepted = FALSE]}
    <3>1. /\ ctl'.at = "cancel" /\ ctl'.on = ctl.on /\ ctl'.terminal = ctl.terminal /\ ctl'.remote = ctl.remote
          /\ ctl'.restored = ctl.restored /\ ctl'.passed = ctl.passed /\ ctl'.object = ctl.object
      BY <1>1, <2>1, <2>3 DEF Controller
    <3>2. ~ctl.terminal[ctl.on]
      BY <1>2, <2>1 DEF IInv, ControllerInv
    <3>3. \A p \in Programs : ctl'.terminal[p] => cmd'[p].status \notin Active
      BY <1>2, <2>1, <3>1, <3>2 DEF IInv, ControllerInv
    <3>4. ctl'.on = "probe" => cmd'["cleanup"].status = "none"
      BY <1>2, <2>1, <3>1 DEF IInv, ControllerInv
    <3>5. ControllerInv'
      BY <1>1, <1>2, <2>1, <3>1, <3>3, <3>4 DEF IInv, ControllerInv, Passed, Asking, Judging
    <3> QED BY <1>1, <2>2, <3>1, <3>5, ControllerOnHost
  <2>4. CASE cmd[ctl.on].status \in Terminal /\ UNCHANGED cmd /\ ctl' = Settled(ctl, ctl.accepted)
    <3>1. cmd'[ctl.on].status \notin Active
      BY <2>4 DEF Terminal, Active
    <3> QED BY <1>1, <1>2, <2>1, <2>2, <2>4, <3>1, OnwardKeeps
  <2>5. CASE ctl' = Settled(ctl, FALSE)
    BY <1>1, <2>1, <2>2, <2>5, OnwardKeeps
  <2> QED BY <1>8, <2>3, <2>4, <2>5 DEF CancelShell, Others
<1>9. CASE Receipt
  <2>1. /\ ctl.at = "receipt" /\ UNCHANGED cmd /\ ctl'.at = "purge" /\ ctl'.on = ctl.on
        /\ ctl'.terminal = ctl.terminal /\ ctl'.remote = ctl.remote /\ ctl'.restored = Passed
        /\ ctl'.passed = ctl.passed /\ ctl'.object = ctl.object
    BY <1>1, <1>9 DEF Receipt, CtlAt, Others, Controller
  <2>2. Passed' = Passed /\ (~ctl'.failures => Passed)
    BY <1>1, <1>9, <2>1 DEF Passed, Receipt, Controller
  <2>3. ControllerInv'
    BY <1>1, <1>2, <2>1, <2>2 DEF IInv, ControllerInv, Asking, Judging
  <2> QED BY <1>1, <2>1, <2>3, WaitKeeps
<1>10. CASE PurgeObject
  <2>1. /\ ctl.at = "purge" /\ UNCHANGED cmd /\ ctl'.at = "verdict" /\ ctl'.on = ctl.on
        /\ ctl'.terminal = ctl.terminal /\ ctl'.remote = ctl.remote /\ ctl'.restored = ctl.restored
        /\ \/ ~ctl'.object /\ ctl'.passed = ctl.restored /\ ctl'.failures = ctl.failures
           \/ ctl'.object = ctl.object /\ ctl'.passed = ctl.passed /\ ctl'.failures
    BY <1>1, <1>10 DEF PurgeObject, CtlAt, Others, Controller
  <2>2. ControllerInv'
    BY <1>1, <1>2, <2>1 DEF IInv, ControllerInv, Passed, Asking, Judging
  <2> QED BY <1>1, <2>1, <2>2, WaitKeeps
<1>11. CASE Verdict \/ AwaitObserver \/ JudgeEvidence \/ LaterFailure
  <2> DEFINE Judges ==
        /\ ctl.at \in Judging /\ UNCHANGED cmd /\ ctl'.on = ctl.on
        /\ ctl'.terminal = ctl.terminal /\ ctl'.remote = ctl.remote /\ ctl'.restored = ctl.restored
        /\ ctl'.passed = ctl.passed /\ ctl'.object = ctl.object
        /\ ctl'.at \in {"observer", "evidence", "smokes", "failed"}
        /\ ctl'.at = "observer" => ctl.at = "verdict" /\ ~ctl.failures
        /\ ctl'.at = "evidence" => ctl.at = "observer" /\ ~ctl'.observer
        /\ ctl'.at = "smokes" => ctl.at = "evidence" /\ ctl'.observer = ctl.observer
  <2>1. Judges
    <3>1. CASE Verdict
      <4>1. /\ ctl.at = "verdict" /\ UNCHANGED cmd
            /\ \/ ctl' = [ctl EXCEPT !.at = "failed", !.observer = FALSE]
               \/ ~ctl.failures /\ ctl' = [ctl EXCEPT !.at = "observer"]
        BY <3>1 DEF Verdict, CtlAt, Others
      <4> QED BY <1>1, <4>1 DEF Controller, Judging
    <3>2. CASE AwaitObserver
      <4>1. /\ ctl.at = "observer" /\ UNCHANGED cmd
            /\ \/ ctl' = [ctl EXCEPT !.at = "evidence", !.observer = FALSE]
               \/ ctl' = [ctl EXCEPT !.at = "failed", !.observer = FALSE, !.error = TRUE]
        BY <3>2 DEF AwaitObserver, CtlAt, Others
      <4> QED BY <1>1, <4>1, ZenonT(60) DEF Controller, Judging
    <3>3. CASE JudgeEvidence
      <4>1. /\ ctl.at = "evidence" /\ UNCHANGED cmd
            /\ \/ ctl' = [ctl EXCEPT !.at = "smokes"]
               \/ ctl' = [ctl EXCEPT !.at = "failed", !.error = TRUE]
        BY <3>3 DEF JudgeEvidence, CtlAt, Others
      <4> QED BY <1>1, <4>1, ZenonT(60) DEF Controller, Judging
    <3>4. CASE LaterFailure
      <4>1. ctl.at = "smokes" /\ UNCHANGED cmd /\ ctl' = [ctl EXCEPT !.at = "failed", !.error = TRUE]
        BY <3>4 DEF LaterFailure, CtlAt, Others
      <4> QED BY <1>1, <4>1 DEF Controller, Judging
    <3> QED BY <1>11, <3>1, <3>2, <3>3, <3>4
  <2>2. ControllerInv'
    BY <1>1, <1>2, <2>1 DEF IInv, ControllerInv, Passed, Asking, Judging
  <2> QED BY <1>1, <2>1, <2>2, WaitKeeps
<1>12. CASE EndRun
  <2>1. /\ ctl.at = "failed" /\ UNCHANGED cmd /\ ctl'.on = ctl.on
        /\ ctl'.terminal = ctl.terminal /\ ctl'.remote = ctl.remote /\ ctl'.restored = ctl.restored
        /\ ctl'.passed = ctl.passed /\ ctl'.object = ctl.object /\ ctl'.required = ctl.required
        /\ ~ctl'.observer /\ ctl'.at = IF MayRetain THEN "retained" ELSE "destroyed"
    BY <1>1, <1>12 DEF EndRun, StopActiveWork, CtlAt, Others, Controller
  <2>2. ControllerInv'
    BY <1>1, <1>2, <2>1 DEF IInv, ControllerInv, Passed, Asking, Judging, MayRetain
  <2> QED BY <1>1, <2>1, <2>2, WaitKeeps
<1> QED BY <1>3, <1>4, <1>5, <1>6, <1>7, <1>8, <1>9, <1>10, <1>11, <1>12 DEF ControllerStep

-----------------------------------------------------------------------------
(* The theorems *)

\* What the controller may conclude about the commands, the programs and the host is so.
THEOREM Invariance == Spec => []IInv
<1>1. Init => IInv
  <2> SUFFICES ASSUME Init PROVE CommandInv /\ ControllerInv /\ ProbeInv /\ CleanInv
    BY InitTyped DEF IInv
  <2>1. CommandInv
    BY DEF Init, CommandInv, Running, Programs
  <2>2. ControllerInv
    BY DEF Init, ControllerInv, Programs, Asking, Judging, Active
  <2>3. ProbeInv /\ CleanInv
    BY DEF Init, ProbeInv, CleanInv, BackupIsKept, Alone, Programs
  <2> QED BY <2>1, <2>2, <2>3
<1>2. IInv /\ UNCHANGED vars => IInv'
  BY NextTyped DEF IInv, vars, CommandInv, Running, ControllerInv, Passed, ProbeInv, CleanInv, BackupIsKept, Alone
<1>3. IInv /\ [Next]_vars => IInv'
  BY <1>2, ProbeKeeps, CleanKeeps, CommandKeeps, ControllerKeeps DEF Next
<1> QED BY <1>1, <1>3, PTL DEF Spec

\* The host, both programs, their commands and the controller keep their types.
THEOREM TypeCorrect == Spec => []TypeOK
  BY InitTyped, NextTyped, PTL DEF Spec

\* A restoration the controller has taken for proven (controller.py:5163) is one.
THEOREM PassedRestored == Spec => []PassedIsRestored
<1>1. IInv => PassedIsRestored
  <2> SUFFICES ASSUME IInv, ctl.restored
               PROVE  /\ host.config = "original" /\ host.backup = "none" /\ host.service # "down"
                      /\ ~host.run /\ ~host.temp /\ ~host.alive
    BY DEF PassedIsRestored
  <2>1. ctl.remote = CLEANUP_FIELDS /\ ctl.terminal["probe"]
    BY DEF IInv, ControllerInv, Passed, Programs
  <2>2. clean.facts = CLEANUP_FIELDS
    BY <2>1 DEF IInv, ControllerInv, CLEANUP_FIELDS
  <2>3. host.backup \in {"none", "whole", "torn"}
    BY DEF IInv, TypeOK, Host
  <2> QED BY <2>1, <2>2, <2>3 DEF IInv, ProbeInv, CleanInv, CLEANUP_FIELDS
<1> QED BY Invariance, <1>1, PTL

\* No program of the preflight touches a host that is kept or goes on to the smokes
\* (controller.py:8579).
THEOREM KeptQuiet == Spec => []KeptIsQuiet
<1>1. IInv => KeptIsQuiet
  <2> SUFFICES ASSUME IInv, ctl.at \in {"smokes", "retained"}, ctl.required
               PROVE  /\ ~ctl.object /\ ~ctl.observer
                      /\ \A p \in Programs : cmd[p].status \notin Active /\ ~Running(p)
    BY DEF KeptIsQuiet
  <2>1. ctl.passed
    BY DEF IInv, ControllerInv, Judging
  <2>2. \A p \in Programs : ctl.terminal[p]
    BY <2>1 DEF IInv, ControllerInv, Passed
  <2> QED BY <2>1, <2>2 DEF IInv, ControllerInv, CommandInv, Active
<1> QED BY Invariance, <1>1, PTL

\* As long as one program at a time is about, and wherever it is cut off: a patched file
\* has the whole original beside it, and the original is nowhere left only where the copy
\* of it that was to be the backup had been cut off itself.
THEOREM BackupKept == Spec => []BackupIsKept
<1>1. IInv => BackupIsKept
  BY DEF IInv, ProbeInv, BackupIsKept, Alone
<1> QED BY Invariance, <1>1, PTL
=============================================================================
