--------------------------- MODULE DeploymentProofs ---------------------------
(***************************************************************************)
(* The validation records of a deployment are never forgotten, what the    *)
(* reaper calls recovered is, and what the controller calls clean is too:  *)
(* for every set of resources and names, any number of observations and of *)
(* reruns. All hold where an execution of the change set that was answered *)
(* with an error does not take effect later; the run late_execution shows  *)
(* what happens otherwise. The last holds where nothing comes to light     *)
(* after the two pauses of the proof.                                      *)
(***************************************************************************)
EXTENDS Deployment, TLAPS

-----------------------------------------------------------------------------
(* The invariant *)

Early == {"create", "recreate", "await_review", "review", "execute"}
Removing == {"check_review", "drop_changeset", "drop_shell", "delete", "await_delete"}
Disposing == Removing \cup {"resolve", "absent", "drop_records", "purge"}

\* The certificate may go: its records are journaled, or there are none and will be none.
Safe == "journal" \in objects \/ (records = {} /\ stack # "creating")

WorldInv ==
  /\ \/ Safe
     \/ stack \notin {"deleting", "delete_failed", "deleted"} /\ (records # {} => "cert" \in listed)
  /\ stack \in Gone \cup {"review"} => listed = {}
  /\ unsettled = 0 => flying = {}

\* While it runs, the controller knows of an execution, of records and of their journal;
\* where it takes the records for sealed they are, and it gets to a deletion by no other way.
ControllerInv ==
  ctl.pc \notin Over =>
    /\ ctl.pc # "create" => mem.created
    /\ ctl.pc \in Early => ~mem.attempted /\ ~mem.sealed
    /\ ~mem.attempted => records = {} /\ stack \in {"none", "review"}
    /\ "journal" \in objects \/ ctl.pc = "put" => mem.acm
    /\ mem.version /\ ctl.pc \notin {"rest"} \cup Observing => "journal" \in objects
    /\ mem.sealed /\ ~mem.acm => records = {} /\ stack # "creating"
    /\ ctl.pc = "discover" /\ ctl.seen # "creating" => stack # "creating"
    /\ ctl.pc \in Disposing /\ ~ctl.blocked => mem.sealed /\ (mem.acm => mem.version)
    /\ ctl.pc \in Removing => ~ctl.blocked
    /\ ctl.pc = "drop_records" => stack # "creating"
    /\ ctl.pc = "purge" /\ ~ctl.blocked => records = {} /\ stack # "creating"

\* The reaper is alone, and knows of a journal if there is one.
ReaperInv ==
  /\ reaper.pc # "off" => ctl.pc \in {"uncleaned", "dead"} /\ flying = {}
  /\ reaper.pc \notin {"off", "refused", "recovered"} => (reaper.journal <=> "journal" \in objects)
  /\ reaper.pc = "drop_review" => ~reaper.journal /\ stack = "review"
  /\ reaper.pc \in {"delete", "await", "records", "purge"} => Safe
  /\ reaper.pc \in {"records", "purge", "recovered"} => stack \in Gone
  /\ reaper.pc \in {"purge", "recovered"} => records = {}
  /\ reaper.pc = "recovered" => objects = {}

IInv == TypeOK /\ WorldInv /\ ControllerInv /\ ReaperInv

\* No execution takes effect after it was given up.
Prompt == "execute" \notin Late

-----------------------------------------------------------------------------
(* Types *)

LEMMA InitTyped == Init => TypeOK
<1> SUFFICES ASSUME Init PROVE TypeOK
  OBVIOUS
<1>1. mem \in Memory /\ ctl \in Control
  BY DeploymentAssumption DEF Init, Memory, Blank, Control, PC, StackStatus
<1> QED BY <1>1, DeploymentAssumption DEF Init, TypeOK, StackStatus, Presence, ReaperPC

\* Where the controller may go from where it is.
LEMMA Gotos ==
  ASSUME TypeOK
  PROVE  /\ \A pc \in PC : Goto(pc) \in Control /\ Stumble(pc) \in Control
         /\ Broken \in Control /\ Failing \in Control
         /\ \A raised \in BOOLEAN : AfterSealing(raised) \in Control
<1>1. ctl \in Control /\ {"uncleaned", "evidence", "use", "retained", "own"} \subseteq PC
  BY DEF TypeOK, PC, Over
<1>2. \A pc \in PC : Goto(pc) \in Control /\ Stumble(pc) \in Control
  BY <1>1 DEF Control, Goto, Stumble
<1>3. Broken \in Control /\ Failing \in Control
  BY <1>1 DEF Control, Broken, Failing
<1>4. ASSUME NEW raised \in BOOLEAN PROVE AfterSealing(raised) \in Control
  <2>1. [Goto("own") EXCEPT !.errors = @ \/ raised] \in Control
    BY <1>1, <1>2 DEF Control
  <2>2. ctl.phase \in {"deploy", "cleanup", "retain"}
    BY <1>1 DEF Control
  <2> QED BY <1>1, <1>2, <1>3, <2>1, <2>2 DEF AfterSealing
<1> QED BY <1>2, <1>3, <1>4

\* The controller's own steps change what it knows and where it is, and little besides.
LEMMA Remembers ==
  ASSUME TypeOK, ctl' \in Control, mem' \in Memory, UNCHANGED <<cloud, objects, reaper, reruns>>
  PROVE  TypeOK'
  BY DEF TypeOK, cloud

LEMMA DeployTyped == TypeOK /\ Deploy => TypeOK'
<1> SUFFICES ASSUME TypeOK, Deploy PROVE TypeOK'
  OBVIOUS
<1>1. /\ mem \in Memory /\ ctl \in Control
      /\ {"await_review", "recreate", "review", "execute", "await_stack", "validate", "inventory",
          "seal_id", "use", "decide"} \subseteq PC
  BY DEF TypeOK, PC, Sealing
<1>2. CASE CreateChangeSet
  <2>1. ctl' \in Control /\ mem' \in Memory
    BY <1>1, <1>2, Gotos DEF CreateChangeSet, Memory
  <2>2. /\ stack' \in StackStatus /\ changeset' \in {"none", "pending", "available", "failed", "executed"}
        /\ flying' \subseteq Late /\ unsettled' \in 0..SettleTicks
    BY <1>2, DeploymentAssumption DEF CreateChangeSet, Doubt, Hatch, TypeOK, StackStatus
  <2> QED BY <1>2, <2>1, <2>2 DEF CreateChangeSet, TypeOK
<1>3. CASE FindChangeSet
  <2>1. ctl' \in Control /\ mem' \in Memory
    BY <1>1, <1>3, Gotos DEF FindChangeSet, Memory
  <2> QED BY <1>3, <2>1, Remembers DEF FindChangeSet
<1>4. CASE AwaitReview
  BY <1>1, <1>4, Gotos, Remembers DEF AwaitReview
<1>5. CASE Review
  BY <1>1, <1>5, Gotos, Remembers DEF Review
<1>6. CASE ExecuteChangeSet
  <2>1. ctl' \in Control /\ mem' \in Memory
    BY <1>1, <1>6, Gotos DEF ExecuteChangeSet, Memory
  <2>2. /\ stack' \in StackStatus /\ changeset' \in {"none", "pending", "available", "failed", "executed"}
        /\ flying' \subseteq Late /\ unsettled' \in 0..SettleTicks
    BY <1>6, DeploymentAssumption DEF ExecuteChangeSet, Doubt, Start, TypeOK, StackStatus
  <2> QED BY <1>6, <2>1, <2>2 DEF ExecuteChangeSet, TypeOK
<1>7. CASE AwaitStack
  <2>1. ctl' \in Control /\ mem' \in Memory
    BY <1>1, <1>7, Gotos DEF AwaitStack, Memory
  <2> QED BY <1>7, <2>1, Remembers DEF AwaitStack
<1>8. CASE ValidateRuntime
  BY <1>1, <1>8, Gotos, Remembers DEF ValidateRuntime
<1>9. CASE TakeInventory
  <2>1. Inventory \subseteq Resources
    BY DeploymentAssumption DEF TypeOK, Inventory
  <2>2. ctl' \in Control /\ mem' \in Memory
    BY <1>1, <1>9, <2>1, Gotos DEF TakeInventory, Memory
  <2> QED BY <1>9, <2>2, Remembers DEF TakeInventory
<1>10. CASE Use
  <2>1. ctl' \in Control
    BY <1>1, <1>10, Gotos DEF Use
  <2> QED BY <1>10, <2>1 DEF Use, TypeOK, cloud
<1>11. CASE RecordEvidence
  <2>1. ctl' \in Control
    BY <1>1, <1>11, Gotos DEF RecordEvidence
  <2>2. mem' \in Memory
    BY <1>1, <1>11 DEF RecordEvidence, Memory
  <2> QED BY <1>11, <2>1, <2>2, Remembers DEF RecordEvidence
<1>12. CASE Retain
  <2>1. ctl' \in Control
    BY <1>1, <1>12 DEF Retain, Goto, Control
  <2> QED BY <1>1, <1>12, <2>1, Remembers DEF Retain
<1>13. CASE BeginCleanup
  <2>1. ctl' \in Control
    BY <1>1, <1>13 DEF BeginCleanup, Goto, Control
  <2> QED BY <1>1, <1>13, <2>1, Remembers DEF BeginCleanup
<1> QED BY <1>2, <1>3, <1>4, <1>5, <1>6, <1>7, <1>8, <1>9, <1>10, <1>11, <1>12, <1>13 DEF Deploy

LEMMA SealTyped == TypeOK /\ SealRecords => TypeOK'
<1> SUFFICES ASSUME TypeOK, SealRecords PROVE TypeOK'
  OBVIOUS
<1>1. /\ mem \in Memory /\ ctl \in Control /\ stack \in StackStatus
      /\ {"seal_status", "discover", "bucket", "put"} \subseteq PC
  BY DEF TypeOK, PC, Sealing
<1>2. CASE SealId
  <2>1. ctl' \in Control /\ mem' \in Memory
    BY <1>1, <1>2, Gotos DEF SealId, Memory
  <2> QED BY <1>2, <2>1, Remembers DEF SealId
<1>3. CASE SealStatus
  <2>1. [Goto("discover") EXCEPT !.seen = stack] \in Control
    BY <1>1 DEF Goto, Control
  <2> QED BY <1>1, <1>3, <2>1, Gotos, Remembers DEF SealStatus
<1>4. CASE Discover
  <2>1. ctl' \in Control /\ mem' \in Memory
    BY <1>1, <1>4, Gotos DEF Discover, Memory
  <2> QED BY <1>4, <2>1, Remembers DEF Discover
<1>5. CASE FindBucket
  <2>1. ctl' \in Control /\ mem' \in Memory
    BY <1>1, <1>5, Gotos DEF FindBucket, Memory
  <2> QED BY <1>5, <2>1, Remembers DEF FindBucket
<1>6. CASE PutJournal
  <2>1. PICK ok \in BOOLEAN :
          /\ objects' \subseteq objects \cup {"journal"}
          /\ mem' = [mem EXCEPT !.version = @ \/ ok, !.sealed = @ \/ ok]
          /\ ctl' = AfterSealing(~ok)
    BY <1>6 DEF PutJournal
  <2>2. ctl' \in Control /\ mem' \in Memory
    BY <1>1, <2>1, Gotos DEF Memory
  <2> QED BY <1>6, <2>1, <2>2 DEF PutJournal, TypeOK, cloud
<1> QED BY <1>2, <1>3, <1>4, <1>5, <1>6 DEF SealRecords

LEMMA CleanupTyped == TypeOK /\ Cleanup => TypeOK'
<1> SUFFICES ASSUME TypeOK, Cleanup PROVE TypeOK'
  OBVIOUS
<1>1. /\ mem \in Memory /\ ctl \in Control /\ stack \in StackStatus
      /\ {"resolve", "check_review", "drop_changeset", "drop_shell", "delete", "await_delete", "absent",
          "drop_records", "purge", "rest", "see_stacks"} \subseteq PC
  BY DEF TypeOK, PC, Observing
<1>2. CASE OwnResources
  <2>1. Inventory \subseteq Resources /\ (mem.created /\ ~mem.sealed) \in BOOLEAN
        /\ Unsealed \in BOOLEAN
    BY <1>1, DeploymentAssumption DEF TypeOK, Inventory, Memory, Unsealed
  <2>2. ctl' \in Control
    <3> DEFINE blocked == ctl.blocked \/ Unsealed
    <3>1. blocked \in BOOLEAN
      OBVIOUS
    <3>2. \/ ctl' = [Goto("resolve") EXCEPT !.blocked = blocked, !.errors = @ \/ blocked]
          \/ ctl' = Goto("resolve")
          \/ ctl' = [Stumble("resolve") EXCEPT !.blocked = TRUE]
      BY <1>2 DEF OwnResources
    <3>3. Goto("resolve") \in Control /\ Stumble("resolve") \in Control
      BY <1>1, Gotos
    <3> HIDE DEF blocked
    <3> QED BY <3>1, <3>2, <3>3, ZenonT(60) DEF Control
  <2>3. mem' \in Memory
    BY <1>1, <1>2, <2>1 DEF OwnResources, Memory
  <2> QED BY <1>2, <2>2, <2>3, Remembers DEF OwnResources
<1>3. CASE Resolve
  <2>1. [Stumble("absent") EXCEPT !.blocked = TRUE] \in Control
    BY <1>1, Gotos, ZenonT(60) DEF Control
  <2>2. ctl' \in Control
    BY <1>1, <1>3, <2>1, Gotos DEF Resolve
  <2>3. mem' \in Memory
    BY <1>1, <1>3 DEF Resolve, Memory
  <2> QED BY <1>3, <2>2, <2>3, Remembers DEF Resolve
<1>4. CASE CheckReview
  BY <1>1, <1>4, Gotos, Remembers DEF CheckReview
<1>5. CASE DropChangeSet
  <2>1. ctl' \in Control
    BY <1>1, <1>5, Gotos DEF DropChangeSet
  <2> QED BY <1>5, <2>1 DEF DropChangeSet, TypeOK
<1>6. CASE DropShell
  <2>1. ctl' \in Control
    BY <1>1, <1>6, Gotos DEF DropShell
  <2> QED BY <1>6, <2>1 DEF DropShell, TypeOK, StackStatus
<1>7. CASE DeleteStack
  <2>1. ctl' \in Control
    BY <1>1, <1>7, Gotos DEF DeleteStack
  <2> QED BY <1>7, <2>1 DEF DeleteStack, DeletedStack, TypeOK, StackStatus
<1>8. CASE AwaitDelete
  BY <1>1, <1>8, Gotos, Remembers DEF AwaitDelete
<1>9. CASE SeeAbsence
  <2>1. \A pc \in PC : \A a \in BOOLEAN :
          [Goto(pc) EXCEPT !.absent = a] \in Control /\ [Stumble(pc) EXCEPT !.absent = a] \in Control
    BY Gotos DEF Control
  <2>2. ctl' \in Control
    <3> DEFINE gone == IF ctl.blocked /\ mem.id THEN stack = "none" ELSE stack \in Gone
    <3>1. gone \in BOOLEAN
      <4>1. CASE ctl.blocked /\ mem.id
        BY <4>1
      <4>2. CASE ~(ctl.blocked /\ mem.id)
        <5>1. gone = (stack \in Gone)
          BY <4>2
        <5>2. (stack \in Gone) \in BOOLEAN
          OBVIOUS
        <5> HIDE DEF gone
        <5> QED BY <5>1, <5>2
      <4> QED BY <4>1, <4>2
    <3>2. \/ ctl' = [Goto("drop_records") EXCEPT !.absent = gone]
          \/ ctl' = [Stumble("rest") EXCEPT !.absent = gone]
          \/ ctl' = [Goto("purge") EXCEPT !.absent = gone]
          \/ ctl' = Broken
      BY <1>9 DEF SeeAbsence
    <3> HIDE DEF gone
    <3> QED BY <1>1, <2>1, <3>1, <3>2, Gotos
  <2> QED BY <1>1, <1>9, <2>2, Remembers DEF SeeAbsence
<1>10. CASE DropRecords
  <2>1. ctl' \in Control
    BY <1>1, <1>10, Gotos DEF DropRecords
  <2> QED BY <1>10, <2>1 DEF DropRecords, RecordsLeft, TypeOK
<1>11. CASE PurgeObjects
  <2>1. ctl' \in Control
    BY <1>1, <1>11, Gotos DEF PurgeObjects
  <2>2. mem' \in Memory
    BY <1>1, <1>11 DEF PurgeObjects, Memory
  <2>3. objects' \subseteq objects
    BY <1>11 DEF PurgeObjects, ObjectsLeft
  <2> QED BY <1>11, <2>1, <2>2, <2>3 DEF PurgeObjects, TypeOK, cloud
<1>12. CASE BeginProof
  BY <1>1, <1>12, Gotos, Remembers DEF BeginProof
<1> QED BY <1>2, <1>3, <1>4, <1>5, <1>6, <1>7, <1>8, <1>9, <1>10, <1>11, <1>12 DEF Cleanup

\* Time that passes settles what was in doubt.
LEMMA ElapseTyped ==
  ASSUME TypeOK, Elapse
  PROVE  /\ unsettled' \in 0..SettleTicks /\ flying' \subseteq flying
         /\ live' \in [Resources -> Presence]
         /\ unsettled' = 0 => flying' = {}
<1>1. unsettled' \in 0..SettleTicks
  BY DeploymentAssumption DEF TypeOK, Elapse, Tick
<1>2. \/ flying' = {} /\ live' = [r \in Resources |-> IF live[r] = "hidden" THEN "none" ELSE live[r]]
      \/ unsettled' # 0 /\ UNCHANGED <<flying, live>>
  BY DEF Elapse, Settled
<1>3. live' \in [Resources -> Presence]
  BY <1>2 DEF TypeOK, Presence
<1> QED BY <1>1, <1>2, <1>3

LEMMA ProveTyped == TypeOK /\ Prove => TypeOK'
<1> SUFFICES ASSUME TypeOK, Prove PROVE TypeOK'
  OBVIOUS
<1>1. mem \in Memory /\ ctl \in Control /\ Observing \subseteq PC /\ "clean" \in PC
  BY DEF TypeOK, PC, Over
<1>2. ASSUME NEW pc, NEW next \in Observing, NEW something \in BOOLEAN, See(pc, next, something)
      PROVE  TypeOK'
  <2>1. [Goto(next) EXCEPT !.found = @ \/ something] \in Control
    BY <1>1, Gotos DEF Control
  <2> QED BY <1>1, <1>2, <2>1, Gotos, Remembers DEF See
<1>3. CASE SeeTagged
  <2>1. PICK stale \in BOOLEAN : LET empty == ~ctl.found /\ ~TaggedSeen(stale) IN
     \/ /\ Proven(empty)
        /\ ctl' = IF ctl.errors THEN Broken ELSE Goto("clean")
        /\ UNCHANGED <<live, flying, unsettled>>
     \/ /\ ~Proven(empty) /\ ctl.rounds < MaxRounds
        /\ ctl' = Counted(ctl, empty)
        /\ IF empty THEN Elapse ELSE UNCHANGED <<live, flying, unsettled>>
     \/ /\ ctl' = Broken
        /\ UNCHANGED <<live, flying, unsettled>>
    BY <1>3 DEF SeeTagged
  <2> DEFINE empty == ~ctl.found /\ ~TaggedSeen(stale)
  <2>2. ASSUME ~Proven(empty), ctl.rounds < MaxRounds
        PROVE  Counted(ctl, empty) \in Control
    <3>1. /\ ctl.rounds + 1 \in 0..MaxRounds
          /\ (IF empty THEN ctl.empties + 1 ELSE 0) \in 0..2
          /\ "see_stacks" \in PC
      BY <1>1, <2>2, DeploymentAssumption DEF Control, Proven, Observing
    <3> HIDE DEF empty
    <3> QED BY <1>1, <3>1 DEF Control, Counted
  <2>3. ctl' \in Control
    BY <1>1, <2>1, <2>2, Gotos
  <2>4. /\ unsettled' \in 0..SettleTicks /\ flying' \subseteq Late
        /\ live' \in [Resources -> Presence]
    BY <2>1, ElapseTyped DEF TypeOK
  <2> QED BY <1>3, <2>3, <2>4 DEF SeeTagged, TypeOK
<1>4. \A pc \in {"see_stacks", "see_hosts", "see_services", "see_names", "see_objects", "see_vapi", "see_tagged"} :
        pc \in Observing
  BY DEF Observing
<1>5. CASE SeeStacks \/ SeeHosts \/ SeeServices
  BY <1>2, <1>4, <1>5 DEF SeeStacks, SeeHosts, SeeServices, SeenOf
<1>6. CASE SeeNames
  BY <1>2, <1>4, <1>6 DEF SeeNames
<1>7. CASE SeeObjects \/ SeeVapi
  BY <1>2, <1>4, <1>7 DEF SeeObjects, SeeVapi, ObjectsSeen, Related
<1> QED BY <1>3, <1>5, <1>6, <1>7 DEF Prove

LEMMA ReapTyped == TypeOK /\ (Reap \/ Interrupt) => TypeOK'
<1> SUFFICES ASSUME TypeOK, Reap \/ Interrupt PROVE TypeOK'
  OBVIOUS
<1>1. reaper \in [pc : ReaperPC, journal : BOOLEAN]
  BY DEF TypeOK
<1>2. \A pc \in ReaperPC : [reaper EXCEPT !.pc = pc] \in [pc : ReaperPC, journal : BOOLEAN]
  BY <1>1
<1>3. CASE ReapLoad
  BY <1>1, <1>3 DEF ReapLoad, TypeOK, ReaperPC, cloud
<1>4. CASE ReapLook
  BY <1>2, <1>4 DEF ReapLook, ReapTo, TypeOK, ReaperPC, cloud
<1>5. CASE ReapReview
  BY <1>2, <1>5 DEF ReapReview, ReapTo, TypeOK, ReaperPC
<1>6. CASE ReapDiscover
  <2>1. objects' \subseteq {"journal", "other"}
    BY <1>6 DEF ReapDiscover, TypeOK
  <2>2. reaper' \in [pc : ReaperPC, journal : BOOLEAN]
    <3>1. \/ reaper' = [pc |-> "delete", journal |-> TRUE]
          \/ \E pc \in {"discover", "refused"} : reaper' = [reaper EXCEPT !.pc = pc]
      BY <1>6 DEF ReapDiscover, ReapTo
    <3>2. [pc |-> "delete", journal |-> TRUE] \in [pc : ReaperPC, journal : BOOLEAN]
      BY DEF ReaperPC
    <3>3. {"discover", "refused"} \subseteq ReaperPC
      BY DEF ReaperPC
    <3> QED BY <1>2, <3>1, <3>2, <3>3
  <2> QED BY <1>6, <2>1, <2>2 DEF ReapDiscover, TypeOK, cloud
<1>7. CASE ReapDelete
  BY <1>2, <1>7 DEF ReapDelete, ReapTo, TypeOK, ReaperPC, DeletedStack, StackStatus
<1>8. CASE ReapAwait
  BY <1>2, <1>8 DEF ReapAwait, ReapTo, TypeOK, ReaperPC, cloud
<1>9. CASE ReapRecords
  BY <1>2, <1>9 DEF ReapRecords, ReapTo, TypeOK, ReaperPC
<1>10. CASE ReapPurge
  BY <1>2, <1>10 DEF ReapPurge, ReapTo, TypeOK, ReaperPC, cloud
<1>11. CASE Interrupt
  BY <1>11, DeploymentAssumption DEF Interrupt, TypeOK, ReaperPC, cloud
<1> QED BY <1>3, <1>4, <1>5, <1>6, <1>7, <1>8, <1>9, <1>10, <1>11 DEF Reap

LEMMA CloudFormationTyped == TypeOK /\ CloudFormation => TypeOK'
<1> SUFFICES ASSUME TypeOK, CloudFormation PROVE TypeOK'
  OBVIOUS
<1>1. CASE SettleChangeSet
  BY <1>1 DEF SettleChangeSet, TypeOK
<1>2. CASE MakeResource
  <2>1. live' \in [Resources -> Presence] /\ listed' \subseteq Resources \ Attached
    BY <1>2 DEF MakeResource, TypeOK, Presence
  <2> QED BY <1>2, <2>1 DEF MakeResource, TypeOK
<1>3. CASE WriteRecords
  BY <1>3 DEF WriteRecords, TypeOK
<1>4. CASE StackMade
  BY <1>4 DEF StackMade, TypeOK, StackStatus
<1>5. CASE DropResource
  <2>1. live' \in [Resources -> Presence] /\ listed' \subseteq Resources \ Attached
        /\ unsettled' \in 0..SettleTicks
    BY <1>5, DeploymentAssumption DEF DropResource, TypeOK, Presence
  <2> QED BY <1>5, <2>1 DEF DropResource, TypeOK
<1>6. CASE StackDropped
  BY <1>6 DEF StackDropped, TypeOK, StackStatus
<1> QED BY <1>1, <1>2, <1>3, <1>4, <1>5, <1>6 DEF CloudFormation

LEMMA AftermathTyped == TypeOK /\ Aftermath => TypeOK'
<1> SUFFICES ASSUME TypeOK, Aftermath PROVE TypeOK'
  OBVIOUS
<1>1. CASE Land
  BY <1>1 DEF Land, Hatch, Start, TypeOK, StackStatus
<1>2. CASE Surface
  BY <1>2 DEF Surface, TypeOK, Presence
<1>3. CASE Vanish
  BY <1>3 DEF Vanish, TypeOK, Presence
<1>4. CASE Pass
  BY <1>4, ElapseTyped DEF Pass, TypeOK
<1> QED BY <1>1, <1>2, <1>3, <1>4 DEF Aftermath

LEMMA NextTyped == TypeOK /\ [Next]_vars => TypeOK'
<1> SUFFICES ASSUME TypeOK, [Next]_vars PROVE TypeOK'
  OBVIOUS
<1>1. CASE Crash
  <2>1. mem' \in Memory /\ ctl' \in Control
    BY <1>1, Gotos DEF Crash, Blank, Memory, PC, Over
  <2> QED BY <1>1, <2>1, Remembers DEF Crash
<1>2. CASE UNCHANGED vars
  BY <1>2 DEF vars, TypeOK
<1> QED BY <1>1, <1>2, DeployTyped, SealTyped, CleanupTyped, ProveTyped, ReapTyped, CloudFormationTyped,
           AftermathTyped DEF Next

-----------------------------------------------------------------------------
(* The records *)

LEMMA InitSealed == Init => WorldInv /\ ControllerInv /\ ReaperInv
  BY DEF Init, Blank, WorldInv, ControllerInv, ReaperInv, Safe, Gone, Early, Over, Disposing, Removing, Observing

\* As long as the controller runs there is no reaper.
LEMMA Alone ==
  ASSUME IInv, ctl.pc \notin Over, UNCHANGED reaper
  PROVE  ReaperInv'
  BY DEF IInv, ReaperInv, Over

\* Where sealing ends.
LEMMA AfterSealingIs ==
  ASSUME TypeOK, NEW raised \in BOOLEAN
  PROVE  /\ AfterSealing(raised).pc \in {"evidence", "use", "retained", "own"}
         /\ AfterSealing(raised).seen = ctl.seen
<1>1. ctl \in Control /\ ctl.phase \in {"deploy", "cleanup", "retain"}
  BY DEF TypeOK, Control
<1> QED BY <1>1 DEF AfterSealing, Control, Goto, Failing

\* A step of the controller that changes nothing in the cloud or in S3, nor what it
\* knows of its stack and of the records, and does not lead where more is known.
LEMMA Strolls ==
  ASSUME IInv, ctl.pc \notin Over \cup {"create"}, UNCHANGED <<cloud, objects, reaper>>,
         mem'.created = mem.created, mem'.attempted = mem.attempted, mem'.sealed = mem.sealed,
         mem'.acm = mem.acm, mem'.version = mem.version,
         ctl'.pc \notin Disposing \cup {"put", "discover"},
         ctl'.pc \in Early => ctl.pc \in Early,
         ctl.pc \in {"rest"} \cup Observing => ctl'.pc \in {"rest"} \cup Observing \cup Over
  PROVE  WorldInv' /\ ControllerInv' /\ ReaperInv'
<1>1. WorldInv'
  BY DEF IInv, WorldInv, Safe, cloud
<1>2. ControllerInv'
  BY DEF IInv, ControllerInv, cloud, Disposing
<1> QED BY <1>1, <1>2, Alone

LEMMA DeployKeeps == IInv /\ Deploy => WorldInv' /\ ControllerInv' /\ ReaperInv'
<1> SUFFICES ASSUME IInv, Deploy PROVE WorldInv' /\ ControllerInv' /\ ReaperInv'
  OBVIOUS
<1>1. /\ TypeOK /\ WorldInv /\ ControllerInv /\ mem \in Memory /\ ctl \in Control
      /\ ctl.pc \notin Over /\ UNCHANGED reaper
  BY DEF IInv, TypeOK, Deploy, CreateChangeSet, FindChangeSet, AwaitReview, Review, ExecuteChangeSet,
         AwaitStack, ValidateRuntime, TakeInventory, Use, RecordEvidence, Retain, BeginCleanup, At, Over
<1> USE DEF Memory, Control, At, Goto, Failing, Over, Early, Observing, Disposing, Removing
<1>2. CASE CreateChangeSet
  <2>1. /\ ctl'.pc \in {"await_review", "recreate"} /\ mem'.created /\ ~mem'.attempted
        /\ mem'.acm = mem.acm /\ mem'.version = mem.version /\ mem'.sealed = mem.sealed
        /\ stack' \in {"none", "review"} /\ UNCHANGED <<listed, records, objects>>
        /\ (unsettled' = 0 => flying' = {})
    BY <1>1, <1>2, DeploymentAssumption, ZenonT(60) DEF CreateChangeSet, ControllerInv, WorldInv, Doubt, Hatch
  <2>2. stack \in {"none", "review"} /\ records = {}
    BY <1>1, <1>2 DEF CreateChangeSet, ControllerInv
  <2>3. WorldInv'
    BY <1>1, <2>1, <2>2 DEF WorldInv, Safe, Gone
  <2>4. ControllerInv'
    BY <1>1, <1>2, <2>1, <2>2 DEF ControllerInv, CreateChangeSet
  <2> QED BY <1>1, <2>3, <2>4, Alone
<1>3. CASE FindChangeSet \/ AwaitReview \/ Review \/ AwaitStack \/ ValidateRuntime \/ TakeInventory
  <2>1. /\ UNCHANGED <<cloud, objects>>
        /\ mem'.created = mem.created /\ mem'.attempted = mem.attempted /\ mem'.sealed = mem.sealed
        /\ mem'.acm = mem.acm /\ mem'.version = mem.version
        /\ ctl.pc \in {"recreate", "await_review", "review", "await_stack", "validate", "inventory"}
        /\ ctl'.pc \in {"await_review", "review", "execute", "validate", "inventory", "seal_id", "evidence"}
        /\ (ctl'.pc \in Early => ctl.pc \in Early)
    BY <1>1, <1>3, ZenonT(60) DEF FindChangeSet, AwaitReview, Review, AwaitStack, ValidateRuntime, TakeInventory
  <2> QED BY <1>1, <2>1, Strolls
<1>4. CASE ExecuteChangeSet
  <2>1. /\ ctl'.pc \in {"await_stack", "evidence"} /\ mem'.created /\ mem'.attempted
        /\ mem'.acm = mem.acm /\ mem'.version = mem.version /\ mem'.sealed = mem.sealed
        /\ stack' \in {stack, "creating"} /\ UNCHANGED <<listed, records, objects>>
        /\ (unsettled' = 0 => flying' = {})
    BY <1>1, <1>4, DeploymentAssumption DEF ExecuteChangeSet, ControllerInv, WorldInv, Doubt, Start
  <2>2. stack \in {"none", "review"} /\ records = {} /\ listed = {}
    BY <1>1, <1>4 DEF ExecuteChangeSet, ControllerInv, WorldInv, Gone
  <2>3. WorldInv'
    BY <1>1, <2>1, <2>2 DEF WorldInv, Safe, Gone
  <2>4. ControllerInv'
    BY <1>1, <1>4, <2>1, <2>2 DEF ControllerInv, ExecuteChangeSet
  <2> QED BY <1>1, <2>3, <2>4, Alone
<1>5. CASE Use
  <2>1. /\ UNCHANGED <<stack, changeset, listed, live, records, flying, unsettled, mem>>
        /\ objects' = objects \cup {"other"}
        /\ ctl.pc = "use" /\ ctl'.pc \in {"decide", "evidence"}
    BY <1>1, <1>5 DEF Use, cloud
  <2>2. WorldInv'
    BY <1>1, <2>1 DEF WorldInv, Safe
  <2>3. ControllerInv'
    BY <1>1, <2>1 DEF ControllerInv
  <2> QED BY <1>1, <2>2, <2>3, Alone
<1>6. CASE RecordEvidence \/ Retain \/ BeginCleanup
  <2>1. /\ UNCHANGED <<cloud, objects>>
        /\ mem'.created = mem.created /\ mem'.attempted = mem.attempted /\ mem'.sealed = mem.sealed
        /\ mem'.acm = mem.acm /\ mem'.version = mem.version
        /\ ctl.pc \in {"evidence", "decide"} /\ ctl'.pc \in {"decide", "seal_id"}
    BY <1>1, <1>6 DEF RecordEvidence, Retain, BeginCleanup
  <2> QED BY <1>1, <2>1, Strolls
<1> QED BY <1>2, <1>3, <1>4, <1>5, <1>6 DEF Deploy

LEMMA SealKeeps == IInv /\ SealRecords => WorldInv' /\ ControllerInv' /\ ReaperInv'
<1> SUFFICES ASSUME IInv, SealRecords PROVE WorldInv' /\ ControllerInv' /\ ReaperInv'
  OBVIOUS
<1>1. /\ TypeOK /\ WorldInv /\ ControllerInv /\ mem \in Memory /\ ctl \in Control
      /\ ctl.pc \notin Over /\ UNCHANGED reaper /\ UNCHANGED cloud
  BY DEF IInv, TypeOK, SealRecords, SealId, SealStatus, Discover, FindBucket, PutJournal, At, Over, cloud
<1>2. WorldInv' \/ PutJournal
  BY <1>1 DEF SealRecords, SealId, SealStatus, Discover, FindBucket, WorldInv, Safe, cloud
<1> USE DEF Memory, Control, At, Goto, Over, Early, Observing, Disposing, Removing
<1>3. CASE SealId
  <2>1. /\ mem'.created = mem.created /\ mem'.attempted = mem.attempted
        /\ mem'.acm = mem.acm /\ mem'.version = mem.version
        /\ ctl'.pc \in {"seal_status", "evidence", "use", "retained", "own"}
        /\ ctl.pc = "seal_id" /\ UNCHANGED objects
        /\ mem'.sealed => mem.sealed \/ ~mem.created \/ ~mem.attempted
    BY <1>1, <1>3, AfterSealingIs, ZenonT(60) DEF SealId
  <2>2. ControllerInv'
    BY <1>1, <2>1 DEF ControllerInv, cloud
  <2> QED BY <1>1, <1>2, <1>3, <2>2, Alone DEF SealId, PutJournal
<1>4. CASE SealStatus
  <2>1. /\ UNCHANGED <<mem, objects>> /\ ctl.pc = "seal_status"
        /\ \/ ctl'.pc = "discover" /\ ctl'.seen = stack
           \/ ctl'.pc \in {"evidence", "use", "retained", "own"}
    BY <1>1, <1>4, AfterSealingIs DEF SealStatus
  <2>2. ControllerInv'
    BY <1>1, <2>1 DEF ControllerInv, cloud
  <2> QED BY <1>1, <1>2, <1>4, <2>2, Alone DEF SealStatus, PutJournal
<1>5. CASE Discover
  <2>1. /\ mem'.created = mem.created /\ mem'.attempted = mem.attempted
        /\ mem'.acm = mem.acm /\ mem'.version = mem.version
        /\ ctl'.pc \in {"bucket", "evidence", "use", "retained", "own"}
        /\ ctl.pc = "discover" /\ UNCHANGED objects
        /\ mem'.sealed => mem.sealed \/ ("cert" \notin listed /\ ctl.seen # "creating")
    BY <1>1, <1>5, AfterSealingIs, ZenonT(60) DEF Discover, InProgress
  <2>2. ASSUME "cert" \notin listed, ctl.seen # "creating", ~mem.acm
        PROVE  records = {} /\ stack # "creating"
    BY <1>1, <2>1, <2>2 DEF ControllerInv, WorldInv, Safe
  <2>3. ControllerInv'
    BY <1>1, <2>1, <2>2 DEF ControllerInv, cloud
  <2> QED BY <1>1, <1>2, <1>5, <2>3, Alone DEF Discover, PutJournal
<1>6. CASE FindBucket
  <2>1. /\ mem'.created = mem.created /\ mem'.attempted = mem.attempted
        /\ mem'.sealed = mem.sealed /\ mem'.version = mem.version
        /\ \/ mem'.acm /\ ctl'.pc = "put"
           \/ mem'.acm = mem.acm /\ ctl'.pc \in {"evidence", "use", "retained", "own"}
        /\ ctl.pc = "bucket" /\ UNCHANGED objects
    BY <1>1, <1>6, AfterSealingIs DEF FindBucket
  <2>2. ControllerInv'
    BY <1>1, <2>1 DEF ControllerInv, cloud
  <2> QED BY <1>1, <1>2, <1>6, <2>2, Alone DEF FindBucket, PutJournal
<1>7. CASE PutJournal
  <2>1. PICK ok \in BOOLEAN :
          /\ objects' \in IF ok THEN {objects \cup {"journal"}} ELSE {objects, objects \cup {"journal"}}
          /\ mem' = [mem EXCEPT !.version = @ \/ ok, !.sealed = @ \/ ok]
          /\ ctl' = AfterSealing(~ok) /\ ctl.pc = "put"
    BY <1>7 DEF PutJournal
  <2>2. /\ mem'.created = mem.created /\ mem'.attempted = mem.attempted /\ mem'.acm = mem.acm /\ mem.acm
        /\ objects \subseteq objects'
        /\ mem'.version => mem.version \/ "journal" \in objects'
        /\ ctl'.pc \in {"evidence", "use", "retained", "own"}
    BY <1>1, <2>1, AfterSealingIs, ZenonT(60) DEF ControllerInv
  <2>3. WorldInv'
    BY <1>1, <2>2 DEF WorldInv, Safe, cloud
  <2>4. ControllerInv'
    BY <1>1, <2>1, <2>2 DEF ControllerInv, cloud
  <2> QED BY <1>1, <2>3, <2>4, Alone
<1> QED BY <1>3, <1>4, <1>5, <1>6, <1>7 DEF SealRecords

LEMMA CleanupKeeps == IInv /\ Cleanup => WorldInv' /\ ControllerInv' /\ ReaperInv'
<1> SUFFICES ASSUME IInv, Cleanup PROVE WorldInv' /\ ControllerInv' /\ ReaperInv'
  OBVIOUS
<1>1. /\ TypeOK /\ WorldInv /\ ControllerInv /\ mem \in Memory /\ ctl \in Control
      /\ ctl.pc \notin Over /\ UNCHANGED reaper
  BY DEF IInv, TypeOK, Cleanup, OwnResources, Resolve, CheckReview, DropChangeSet, DropShell, DeleteStack,
         AwaitDelete, SeeAbsence, DropRecords, PurgeObjects, BeginProof, At, Over
<1> USE DEF Memory, Control, At, Goto, Stumble, Broken, Over, Early, Observing, Disposing, Removing
<1>2. ASSUME UNCHANGED <<cloud, objects>> PROVE WorldInv'
  BY <1>1, <1>2 DEF WorldInv, Safe, cloud
<1>3. CASE OwnResources
  <2>1. /\ mem'.created = mem.created /\ mem'.attempted = mem.attempted /\ mem'.sealed = mem.sealed
        /\ mem'.acm = mem.acm /\ mem'.version = mem.version
        /\ ctl'.pc = "resolve" /\ ctl.pc = "own" /\ (~ctl'.blocked => ~Unsealed)
        /\ UNCHANGED <<cloud, objects>>
    BY <1>1, <1>3, ZenonT(60) DEF OwnResources
  <2>2. ControllerInv'
    BY <1>1, <2>1 DEF ControllerInv, cloud, Unsealed
  <2> QED BY <1>1, <1>2, <2>1, <2>2, Alone
<1>4. CASE Resolve
  <2>1. /\ mem'.created = mem.created /\ mem'.attempted = mem.attempted /\ mem'.sealed = mem.sealed
        /\ mem'.acm = mem.acm /\ mem'.version = mem.version
        /\ ctl'.pc \in {"check_review", "absent", "uncleaned"} /\ ctl.pc = "resolve"
        /\ (ctl'.pc = "check_review" => ~ctl'.blocked) /\ (ctl.blocked => ctl'.blocked)
        /\ UNCHANGED <<cloud, objects>>
    BY <1>1, <1>4, ZenonT(60) DEF Resolve
  <2>2. ControllerInv'
    BY <1>1, <2>1 DEF ControllerInv, cloud
  <2> QED BY <1>1, <1>2, <2>1, <2>2, Alone
<1>5. CASE CheckReview \/ AwaitDelete
  <2>1. /\ UNCHANGED mem /\ ctl.pc \in Removing /\ ctl'.pc \in {"drop_changeset", "delete", "absent"}
        /\ ctl'.blocked = ctl.blocked /\ UNCHANGED <<cloud, objects>>
    BY <1>1, <1>5 DEF CheckReview, AwaitDelete
  <2>2. ControllerInv'
    BY <1>1, <2>1 DEF ControllerInv, cloud
  <2> QED BY <1>1, <1>2, <2>1, <2>2, Alone
<1>6. ASSUME ctl.pc \in Removing, ~ctl.blocked
      PROVE  Safe
  BY <1>1, <1>6 DEF ControllerInv, Safe
<1>7. CASE DropChangeSet \/ DropShell \/ DeleteStack
  <2>1. /\ UNCHANGED <<listed, live, records, flying, unsettled, objects, mem>>
        /\ ctl.pc \in Removing /\ ctl'.pc \in {"drop_shell", "await_delete", "absent"}
        /\ ctl'.blocked = ctl.blocked
        /\ stack' \in {stack, "none", "deleting"} /\ (stack' = "none" => listed = {})
        /\ (stack' = "deleting" => stack \notin {"none", "review"})
    BY <1>1, <1>7, ZenonT(60) DEF DropChangeSet, DropShell, DeleteStack, DeletedStack, Deletable, WorldInv, Gone
  <2>2. Safe /\ ~ctl.blocked
    BY <1>1, <1>6, <2>1 DEF ControllerInv
  <2>3. WorldInv'
    BY <1>1, <2>1, <2>2 DEF WorldInv, Safe, Gone
  <2>4. ControllerInv'
    BY <1>1, <2>1, <2>2 DEF ControllerInv
  <2> QED BY <1>1, <2>3, <2>4, Alone
<1>8. CASE SeeAbsence
  <2>1. /\ UNCHANGED <<mem, cloud, objects>> /\ ctl.pc = "absent" /\ ctl'.blocked = ctl.blocked
        /\ \/ ctl'.pc = "drop_records" /\ stack \in Gone
           \/ ctl'.pc \in {"rest", "uncleaned"}
           \/ ctl'.pc = "purge" /\ ~mem.acm
    BY <1>1, <1>8 DEF SeeAbsence, Gone
  <2>2. ControllerInv'
    BY <1>1, <2>1 DEF ControllerInv, cloud, Gone
  <2> QED BY <1>1, <1>2, <2>1, <2>2, Alone
<1>9. CASE DropRecords
  <2>1. /\ UNCHANGED <<stack, listed, live, flying, unsettled, objects, mem>>
        /\ ctl.pc = "drop_records" /\ ctl'.blocked = ctl.blocked /\ records' \subseteq records
        /\ ctl'.pc \in {"purge", "rest"} /\ (ctl'.pc = "purge" => records' = {})
    BY <1>1, <1>9 DEF DropRecords, RecordsLeft
  <2>2. WorldInv'
    BY <1>1, <2>1 DEF WorldInv, Safe
  <2>3. ControllerInv'
    BY <1>1, <2>1 DEF ControllerInv
  <2> QED BY <1>1, <2>2, <2>3, Alone
<1>10. CASE PurgeObjects
  <2>1. /\ UNCHANGED <<stack, listed, live, records, flying, unsettled>>
        /\ mem'.created = mem.created /\ mem'.attempted = mem.attempted
        /\ mem'.sealed = mem.sealed /\ mem'.acm = mem.acm
        /\ ctl.pc = "purge" /\ ctl'.pc = "rest"
        /\ objects' \subseteq objects /\ (ctl.blocked => objects' = objects)
    BY <1>1, <1>10 DEF PurgeObjects, ObjectsLeft, cloud
  <2>2. WorldInv'
    BY <1>1, <2>1 DEF WorldInv, ControllerInv, Safe
  <2>3. ControllerInv'
    BY <1>1, <2>1 DEF ControllerInv
  <2> QED BY <1>1, <2>2, <2>3, Alone
<1>11. CASE BeginProof
  <2>1. /\ UNCHANGED <<mem, cloud, objects>> /\ ctl.pc = "rest" /\ ctl'.pc \in {"see_stacks", "uncleaned"}
    BY <1>1, <1>11 DEF BeginProof
  <2> QED BY <1>1, <2>1, Strolls
<1> QED BY <1>3, <1>4, <1>5, <1>7, <1>8, <1>9, <1>10, <1>11 DEF Cleanup

LEMMA ProveKeeps == IInv /\ Prove => WorldInv' /\ ControllerInv' /\ ReaperInv'
<1> SUFFICES ASSUME IInv, Prove PROVE WorldInv' /\ ControllerInv' /\ ReaperInv'
  OBVIOUS
<1>1. /\ TypeOK /\ WorldInv /\ ControllerInv /\ ctl \in Control
      /\ ctl.pc \in Observing /\ ctl.pc \notin Over
      /\ UNCHANGED <<stack, listed, records, objects, mem, reaper>>
      /\ ctl'.pc \in Observing \cup {"clean", "uncleaned"}
  <2>1. /\ ctl.pc \in Observing /\ UNCHANGED <<stack, listed, records, objects, mem, reaper>>
        /\ TypeOK /\ ctl \in Control
    BY DEF IInv, TypeOK, Prove, SeeStacks, SeeHosts, SeeServices, SeeNames, SeeObjects, SeeVapi, SeeTagged, See,
           At, cloud, Observing
  <2>2. \/ ctl' = Broken \/ ctl' = Goto("clean")
        \/ \E empty \in BOOLEAN : ctl' = Counted(ctl, empty)
        \/ \E next \in Observing, f \in BOOLEAN : ctl' = [Goto(next) EXCEPT !.found = f]
    <3>1. ASSUME NEW pc, NEW next \in Observing, NEW something \in BOOLEAN, See(pc, next, something)
          PROVE  ctl' = Broken \/ \E f \in BOOLEAN : ctl' = [Goto(next) EXCEPT !.found = f]
      <4>1. Goto(next).found \in BOOLEAN
        BY <2>1 DEF Control, Goto
      <4>2. (Goto(next).found \/ something) \in BOOLEAN
        BY <4>1
      <4> QED BY <3>1, <4>2 DEF See
    <3>2. CASE SeeTagged
      BY <3>2 DEF SeeTagged
    <3>3. {"see_hosts", "see_services", "see_names", "see_objects", "see_vapi", "see_tagged"} \subseteq Observing
      BY DEF Observing
    <3>4. CASE SeeStacks \/ SeeHosts \/ SeeServices
      BY <3>1, <3>3, <3>4 DEF SeeStacks, SeeHosts, SeeServices, SeenOf
    <3>5. CASE SeeNames
      BY <3>1, <3>3, <3>5 DEF SeeNames
    <3>6. CASE SeeObjects \/ SeeVapi
      BY <3>1, <3>3, <3>6 DEF SeeObjects, SeeVapi, ObjectsSeen, Related
    <3> QED BY <3>2, <3>4, <3>5, <3>6 DEF Prove
  <2>3. ctl'.pc \in Observing \cup {"clean", "uncleaned"}
    BY <2>1, <2>2 DEF Control, Broken, Goto, Counted, Observing
  <2> QED BY <2>1, <2>3 DEF IInv, Observing, Over
<1>2. \/ UNCHANGED <<flying, unsettled>>
      \/ unsettled' = 0 => flying' = {}
  BY <1>1, ElapseTyped DEF Prove, SeeStacks, SeeHosts, SeeServices, SeeNames, SeeObjects, SeeVapi, SeeTagged,
     See, cloud
<1>3. WorldInv'
  BY <1>1, <1>2 DEF WorldInv, Safe
<1>4. ControllerInv'
  BY <1>1 DEF ControllerInv, Over, Early, Observing, Disposing, Removing
<1> QED BY <1>1, <1>3, <1>4, Alone

LEMMA CrashKeeps == IInv /\ Crash => WorldInv' /\ ControllerInv' /\ ReaperInv'
<1> SUFFICES ASSUME IInv, Crash PROVE WorldInv' /\ ControllerInv' /\ ReaperInv'
  OBVIOUS
<1>1. /\ ctl.pc \notin Over /\ ctl'.pc = "dead" /\ UNCHANGED <<cloud, objects, reaper>>
  BY DEF Crash, IInv, TypeOK, Control, Goto
<1>2. WorldInv'
  BY <1>1 DEF IInv, WorldInv, Safe, cloud
<1>3. ControllerInv'
  BY <1>1 DEF ControllerInv, Over
<1> QED BY <1>1, <1>2, <1>3, Alone

LEMMA ReapKeeps == IInv /\ (Reap \/ Interrupt) => WorldInv' /\ ControllerInv' /\ ReaperInv'
<1> SUFFICES ASSUME IInv, Reap \/ Interrupt PROVE WorldInv' /\ ControllerInv' /\ ReaperInv'
  OBVIOUS
<1>1. /\ WorldInv /\ ReaperInv /\ reaper \in [pc : ReaperPC, journal : BOOLEAN] /\ stack \in StackStatus
      /\ UNCHANGED <<flying, unsettled, listed>>
      /\ UNCHANGED ctl /\ ctl.pc \in {"uncleaned", "dead"}
  BY DEF IInv, TypeOK, ReaperInv, Reap, Interrupt, ReapLoad, ReapLook, ReapReview, ReapDiscover, ReapDelete,
         ReapAwait, ReapRecords, ReapPurge, Reaping, cloud
<1>2. ControllerInv'
  BY <1>1 DEF ControllerInv, Over
<1> USE DEF Reaping, ReapTo, Safe, Gone, cloud
<1>3. CASE ReapLoad
  <2>1. flying = {}
    BY <1>1, <1>3 DEF ReapLoad, WorldInv
  <2> QED BY <1>1, <1>2, <1>3, <2>1 DEF ReapLoad, WorldInv, ReaperInv
<1>4. CASE ReapLook
  <2>1. stack \in Gone /\ ~reaper.journal => records = {}
    BY <1>1, <1>4 DEF ReapLook, WorldInv, ReaperInv
  <2>2. WorldInv'
    BY <1>1, <1>4 DEF ReapLook, WorldInv
  <2>3. ReaperInv'
    BY <1>1, <1>4, <2>1 DEF ReapLook, ReaperInv
  <2> QED BY <1>2, <2>2, <2>3
<1>5. CASE ReapReview
  <2>1. listed = {} => records = {}
    BY <1>1, <1>5 DEF ReapReview, WorldInv, ReaperInv
  <2>2. WorldInv'
    BY <1>1, <1>5 DEF ReapReview, WorldInv
  <2>3. ReaperInv'
    BY <1>1, <1>5, <2>1 DEF ReapReview, ReaperInv
  <2> QED BY <1>2, <2>2, <2>3
<1>6. CASE ReapDiscover
  <2>1. WorldInv'
    BY <1>1, <1>6 DEF ReapDiscover, WorldInv
  <2>2. ReaperInv'
    BY <1>1, <1>6 DEF ReapDiscover, ReaperInv
  <2> QED BY <1>2, <2>1, <2>2
<1>7. CASE ReapDelete
  <2>1. WorldInv'
    BY <1>1, <1>7 DEF ReapDelete, WorldInv, ReaperInv, DeletedStack, Deletable, StackStatus
  <2>2. ReaperInv'
    BY <1>1, <1>7 DEF ReapDelete, ReaperInv, DeletedStack, Deletable
  <2> QED BY <1>2, <2>1, <2>2
<1>8. CASE ReapAwait
  <2>1. WorldInv'
    BY <1>1, <1>8 DEF ReapAwait, WorldInv
  <2>2. ReaperInv'
    BY <1>1, <1>8 DEF ReapAwait, ReaperInv
  <2> QED BY <1>2, <2>1, <2>2
<1>9. CASE ReapRecords
  <2>1. WorldInv'
    BY <1>1, <1>9 DEF ReapRecords, WorldInv
  <2>2. ReaperInv'
    BY <1>1, <1>9 DEF ReapRecords, ReaperInv
  <2> QED BY <1>2, <2>1, <2>2
<1>10. CASE ReapPurge
  <2>1. WorldInv'
    BY <1>1, <1>10 DEF ReapPurge, WorldInv, ReaperInv
  <2>2. ReaperInv'
    BY <1>1, <1>10 DEF ReapPurge, ReaperInv
  <2> QED BY <1>2, <2>1, <2>2
<1>11. CASE Interrupt
  BY <1>1, <1>2, <1>11 DEF Interrupt, WorldInv, ReaperInv
<1> QED BY <1>3, <1>4, <1>5, <1>6, <1>7, <1>8, <1>9, <1>10, <1>11 DEF Reap

\* What CloudFormation and time do by themselves.
LEMMA WorldKeeps ==
  IInv /\ Prompt /\ (CloudFormation \/ Aftermath) => WorldInv' /\ ControllerInv' /\ ReaperInv'
<1> SUFFICES ASSUME IInv, Prompt, CloudFormation \/ Aftermath PROVE WorldInv' /\ ControllerInv' /\ ReaperInv'
  OBVIOUS
<1>1. /\ TypeOK /\ WorldInv /\ ControllerInv /\ ReaperInv /\ UNCHANGED <<objects, mem, ctl, reaper>>
  BY DEF IInv, CloudFormation, Aftermath, SettleChangeSet, MakeResource, WriteRecords, StackMade, DropResource,
         StackDropped, Land, Surface, Vanish, Pass
<1> USE DEF Safe, Gone
<1>2. CASE SettleChangeSet \/ Surface \/ Vanish \/ Pass
  <2>1. /\ UNCHANGED <<stack, listed, records>> /\ flying' \subseteq flying
        /\ (unsettled' = 0 => flying' = {})
    BY <1>1, <1>2, ElapseTyped DEF SettleChangeSet, Surface, Vanish, Pass, WorldInv
  <2> QED BY <1>1, <2>1 DEF WorldInv, ControllerInv, ReaperInv
<1>3. CASE MakeResource
  <2>1. /\ stack = "creating" /\ listed \subseteq listed' /\ UNCHANGED <<stack, records, flying, unsettled>>
    BY <1>3 DEF MakeResource
  <2> QED BY <1>1, <2>1 DEF WorldInv, ControllerInv, ReaperInv
<1>4. CASE WriteRecords
  <2>1. /\ stack = "creating" /\ "cert" \in listed /\ UNCHANGED <<stack, listed, flying, unsettled>>
    BY <1>4 DEF WriteRecords
  <2> QED BY <1>1, <2>1 DEF WorldInv, ControllerInv, ReaperInv
<1>5. CASE StackMade
  <2>1. /\ stack = "creating" /\ stack' \in {"created", "failed"}
        /\ UNCHANGED <<listed, records, flying, unsettled>>
    BY <1>5 DEF StackMade
  <2> QED BY <1>1, <2>1 DEF WorldInv, ControllerInv, ReaperInv
<1>6. CASE DropResource
  <2>1. /\ stack = "deleting" /\ listed' \subseteq listed /\ UNCHANGED <<stack, records, flying>>
        /\ (unsettled' = 0 => flying' = {})
    BY <1>1, <1>6, DeploymentAssumption DEF DropResource, WorldInv
  <2> QED BY <1>1, <2>1 DEF WorldInv, ControllerInv, ReaperInv
<1>7. CASE StackDropped
  <2>1. /\ stack = "deleting" /\ ((stack' = "deleted" /\ listed = {}) \/ stack' = "delete_failed")
        /\ UNCHANGED <<listed, records, flying, unsettled>>
    BY <1>7 DEF StackDropped
  <2> QED BY <1>1, <2>1 DEF WorldInv, ControllerInv, ReaperInv
<1>8. CASE Land
  <2>1. /\ stack = "none" /\ stack' = "review" /\ UNCHANGED <<listed, records, unsettled>>
        /\ flying' \subseteq flying /\ flying # {}
    BY <1>1, <1>8 DEF Land, Hatch, TypeOK, Prompt
  <2> QED BY <1>1, <2>1 DEF WorldInv, ControllerInv, ReaperInv
<1> QED BY <1>2, <1>3, <1>4, <1>5, <1>6, <1>7, <1>8 DEF CloudFormation, Aftermath

-----------------------------------------------------------------------------
(* The proof of zero resources *)

\* Nothing stays out of sight for longer than the two pauses of the proof.
Brief == SettleTicks <= 2

Ending == {"drop_records", "purge", "rest"} \cup Observing

InSight == unsettled = 0 => \A r \in Resources : live[r] # "hidden"

\* While it runs, the controller can find the objects it left; a stack it saw absent has
\* at most become a review again.
EndInv ==
  ctl.pc \notin Over =>
    /\ objects # {} \/ ctl.pc \in {"validate", "inventory", "use", "put"} => mem.outputs
    /\ ctl.pc \in Sealing /\ ctl.phase = "deploy" => mem.outputs
    /\ ctl.pc \notin Observing => ctl.empties = 0
    /\ ctl.absent => ctl.pc \in Ending
    /\ ctl.absent /\ ~ctl.blocked => stack \in Gone \cup {"review"}
    /\ ctl.pc = "drop_records" => mem.acm
    /\ ctl.pc = "rest" /\ ctl.absent /\ ~ctl.blocked /\ ~mem.acm => records = {}

\* What this observation has passed is not there.
NotSeen ==
  /\ ctl.pc \notin {"see_stacks", "see_hosts"} => ~SeenOf(Hosts)
  /\ ctl.pc \in {"see_names", "see_objects", "see_vapi", "see_tagged"} =>
       ~SeenOf(Resources \ (Hosts \cup Vapi \cup Named))
  /\ ctl.pc \in {"see_objects", "see_vapi", "see_tagged"} => \A r \in Named : ~Visible(r)
  /\ ctl.pc = "see_tagged" => ~(Verifier /\ Related)

\* With every empty observation the time runs out in which anything may come to light;
\* in the third one nothing can any more, and what it has passed stays away.
ProvingInv ==
  ctl.pc \in Observing =>
    /\ stack \in Gone \cup {"review"} /\ records = {} /\ objects = {}
    /\ unsettled + ctl.empties <= 2
    /\ ctl.empties = 2 /\ ~ctl.found => NotSeen

CInv == InSight /\ EndInv /\ ProvingInv /\ (ctl.pc = "clean" => unsettled = 0 /\ CleanIsClean)

\* Time that passes brings what is hidden out or away.
LEMMA ElapseInSight ==
  ASSUME TypeOK, Elapse
  PROVE  /\ InSight'
         /\ \A r \in Resources : live'[r] \in {live[r], "none"}
<1>1. \/ live' = [r \in Resources |-> IF live[r] = "hidden" THEN "none" ELSE live[r]]
      \/ unsettled' # 0 /\ UNCHANGED live
  BY DEF Elapse, Settled
<1> QED BY <1>1 DEF InSight, TypeOK

LEMMA InSightKeeps == IInv /\ InSight /\ Next => InSight'
<1> SUFFICES ASSUME IInv, InSight, Next PROVE InSight'
  OBVIOUS
<1>1. TypeOK /\ SettleTicks # 0
  BY DeploymentAssumption DEF IInv
<1>2. CASE Deploy
  <2>1. UNCHANGED live /\ (UNCHANGED unsettled \/ unsettled' = SettleTicks)
    BY <1>2 DEF Deploy, CreateChangeSet, FindChangeSet, AwaitReview, Review, ExecuteChangeSet, AwaitStack,
       ValidateRuntime, TakeInventory, Use, RecordEvidence, Retain, BeginCleanup, Doubt, cloud
  <2> QED BY <1>1, <2>1 DEF InSight
<1>3. CASE SealRecords \/ Cleanup \/ Crash \/ Reap \/ Interrupt
  <2>1. UNCHANGED <<live, unsettled>>
    BY <1>3 DEF SealRecords, SealId, SealStatus, Discover, FindBucket, PutJournal, Cleanup, OwnResources,
       Resolve, CheckReview, DropChangeSet, DropShell, DeleteStack, AwaitDelete, SeeAbsence, DropRecords,
       PurgeObjects, BeginProof, Crash, Reap, Interrupt, ReapLoad, ReapLook, ReapReview, ReapDiscover,
       ReapDelete, ReapAwait, ReapRecords, ReapPurge, cloud
  <2> QED BY <2>1 DEF InSight
<1>4. CASE Prove
  <2>1. UNCHANGED <<live, unsettled>> \/ Elapse
    BY <1>4 DEF Prove, SeeStacks, SeeHosts, SeeServices, SeeNames, SeeObjects, SeeVapi, SeeTagged, See, cloud
  <2> QED BY <1>1, <2>1, ElapseInSight DEF InSight
<1>5. CASE SettleChangeSet \/ WriteRecords \/ StackMade \/ StackDropped \/ Land
  <2>1. UNCHANGED <<live, unsettled>>
    BY <1>5 DEF SettleChangeSet, WriteRecords, StackMade, StackDropped, Land
  <2> QED BY <2>1 DEF InSight
<1>6. CASE MakeResource
  <2>1. UNCHANGED unsettled /\ \A q \in Resources : live'[q] \in {"live", live[q]}
    BY <1>6 DEF MakeResource
  <2> QED BY <2>1 DEF InSight
<1>7. CASE DropResource
  <2>1. \/ unsettled' = SettleTicks
        \/ UNCHANGED unsettled /\ \A q \in Resources : live'[q] \in {"ended", "none", live[q]}
    BY <1>7 DEF DropResource
  <2> QED BY <1>1, <2>1 DEF InSight
<1>8. CASE Surface \/ Vanish
  <2>1. UNCHANGED unsettled /\ \A q \in Resources : live'[q] \in {"live", "none", live[q]}
    BY <1>1, <1>8 DEF Surface, Vanish, TypeOK
  <2> QED BY <2>1 DEF InSight
<1>9. CASE Pass
  BY <1>1, <1>9, ElapseInSight DEF Pass
<1> QED BY <1>2, <1>3, <1>4, <1>5, <1>6, <1>7, <1>8, <1>9 DEF Next, CloudFormation, Aftermath

LEMMA DeployEnds == IInv /\ EndInv /\ Deploy => EndInv' /\ ctl'.pc \notin Observing \cup {"clean"}
<1> SUFFICES ASSUME IInv, EndInv, Deploy PROVE EndInv' /\ ctl'.pc \notin Observing \cup {"clean"}
  OBVIOUS
<1>1. mem \in Memory /\ ctl \in Control
  BY DEF IInv, TypeOK
<1> USE DEF Memory, Control, At, Goto, Failing, Ending, Observing, Sealing, Over
<1>2. /\ ctl.pc \in {"create", "recreate", "await_review", "review", "execute", "await_stack", "validate",
                     "inventory", "use", "evidence", "decide"}
      /\ ctl'.absent = ctl.absent /\ ctl'.empties = ctl.empties
      /\ ctl'.pc \notin Ending \cup {"clean"}
  <2>1. CASE CreateChangeSet \/ FindChangeSet \/ AwaitReview \/ Review
    BY <1>1, <2>1, ZenonT(60) DEF CreateChangeSet, FindChangeSet, AwaitReview, Review
  <2>2. CASE ExecuteChangeSet \/ AwaitStack \/ ValidateRuntime \/ TakeInventory
    BY <1>1, <2>2, ZenonT(60) DEF ExecuteChangeSet, AwaitStack, ValidateRuntime, TakeInventory
  <2>3. CASE Use \/ RecordEvidence \/ Retain \/ BeginCleanup
    BY <1>1, <2>3, ZenonT(60) DEF Use, RecordEvidence, Retain, BeginCleanup
  <2> QED BY <2>1, <2>2, <2>3 DEF Deploy
<1>3. CASE CreateChangeSet \/ FindChangeSet \/ AwaitReview \/ Review \/ ExecuteChangeSet
  <2>1. /\ mem'.outputs = mem.outputs /\ UNCHANGED objects
        /\ ctl'.pc \in {"await_review", "recreate", "review", "execute", "await_stack", "evidence"}
    BY <1>1, <1>3, ZenonT(60) DEF CreateChangeSet, FindChangeSet, AwaitReview, Review, ExecuteChangeSet
  <2> QED BY <1>2, <2>1 DEF EndInv
<1>4. CASE AwaitStack \/ ValidateRuntime \/ TakeInventory
  <2>1. /\ UNCHANGED objects /\ (mem.outputs => mem'.outputs)
        /\ \/ ctl'.pc = "evidence"
           \/ ctl'.pc \in {"validate", "inventory", "seal_id"} /\ mem'.outputs
    BY <1>1, <1>4, ZenonT(60) DEF AwaitStack, ValidateRuntime, TakeInventory, EndInv
  <2> QED BY <1>2, <2>1 DEF EndInv
<1>5. CASE Use
  <2>1. UNCHANGED mem /\ ctl.pc = "use" /\ ctl'.pc \in {"decide", "evidence"}
    BY <1>1, <1>5 DEF Use
  <2> QED BY <1>2, <2>1 DEF EndInv
<1>6. CASE RecordEvidence \/ Retain \/ BeginCleanup
  <2>1. /\ mem'.outputs = mem.outputs /\ UNCHANGED objects
        /\ \/ ctl'.pc = "decide"
           \/ ctl'.pc = "seal_id" /\ ctl'.phase # "deploy"
    BY <1>1, <1>6, ZenonT(60) DEF RecordEvidence, Retain, BeginCleanup
  <2> QED BY <1>2, <2>1 DEF EndInv
<1> QED BY <1>3, <1>4, <1>5, <1>6 DEF Deploy

LEMMA SealEnds == IInv /\ EndInv /\ SealRecords => EndInv' /\ ctl'.pc \notin Observing \cup {"clean"}
<1> SUFFICES ASSUME IInv, EndInv, SealRecords PROVE EndInv' /\ ctl'.pc \notin Observing \cup {"clean"}
  OBVIOUS
<1>1. mem \in Memory /\ ctl \in Control
  BY DEF IInv, TypeOK
<1> USE DEF Memory, Control, At, Goto, Ending, Observing, Sealing, Over
<1>2. ASSUME NEW raised \in BOOLEAN, ctl' = AfterSealing(raised)
      PROVE  /\ ctl'.absent = ctl.absent /\ ctl'.empties = ctl.empties
             /\ ctl'.pc \in {"evidence", "retained", "own"} \/ (ctl'.pc = "use" /\ ctl.phase = "deploy")
  BY <1>1, <1>2, ZenonT(60) DEF AfterSealing, Failing
<1>3. /\ ctl.pc \in Sealing /\ (objects' # {} => objects # {} \/ mem.outputs)
      /\ (mem.outputs => mem'.outputs)
      /\ \/ \E raised \in BOOLEAN : ctl' = AfterSealing(raised)
         \/ /\ ctl'.absent = ctl.absent /\ ctl'.empties = ctl.empties /\ ctl'.phase = ctl.phase
            /\ ctl'.pc \in {"seal_status", "discover", "bucket"} \/ (ctl'.pc = "put" /\ mem'.outputs)
  <2>1. CASE SealId \/ SealStatus \/ Discover
    BY <1>1, <2>1, ZenonT(60) DEF SealId, SealStatus, Discover
  <2>2. CASE FindBucket
    BY <1>1, <2>2, ZenonT(60) DEF FindBucket
  <2>3. CASE PutJournal
    BY <1>1, <2>3, ZenonT(60) DEF PutJournal, EndInv
  <2> QED BY <2>1, <2>2, <2>3 DEF SealRecords
<1> QED BY <1>2, <1>3 DEF EndInv

LEMMA CleanupEnds ==
  IInv /\ EndInv /\ Cleanup => EndInv' /\ (ctl'.pc \notin Observing \cup {"clean"} \/ BeginProof)
<1> SUFFICES ASSUME IInv, EndInv, Cleanup
             PROVE  EndInv' /\ (ctl'.pc \notin Observing \cup {"clean"} \/ BeginProof)
  OBVIOUS
<1>1. /\ mem \in Memory /\ ctl \in Control /\ ControllerInv
  BY DEF IInv, TypeOK
<1> USE DEF Memory, Control, At, Goto, Stumble, Broken, Ending, Observing, Sealing, Over
<1>2. CASE OwnResources \/ Resolve
  <2>1. /\ ctl.pc \in {"own", "resolve"} /\ UNCHANGED objects /\ mem'.outputs = mem.outputs
        /\ ctl'.absent = ctl.absent /\ ctl'.empties = ctl.empties
        /\ ctl'.pc \in {"resolve", "absent", "check_review", "uncleaned"}
    BY <1>1, <1>2, ZenonT(60) DEF OwnResources, Resolve
  <2> QED BY <2>1 DEF EndInv
<1>3. CASE CheckReview \/ DropChangeSet \/ DropShell \/ DeleteStack \/ AwaitDelete
  <2>1. /\ ctl.pc \in Removing /\ UNCHANGED <<mem, objects>>
        /\ ctl'.absent = ctl.absent /\ ctl'.empties = ctl.empties
        /\ ctl'.pc \in {"drop_changeset", "drop_shell", "delete", "await_delete", "absent"}
    BY <1>1, <1>3, ZenonT(60) DEF CheckReview, DropChangeSet, DropShell, DeleteStack, AwaitDelete, Removing
  <2> QED BY <2>1 DEF EndInv, Removing
<1>4. CASE SeeAbsence
  <2>1. /\ ctl.pc = "absent" /\ UNCHANGED <<mem, objects, stack>>
        /\ ctl'.empties = ctl.empties /\ ctl'.blocked = ctl.blocked
        /\ \/ ctl'.pc = "uncleaned"
           \/ /\ ctl'.pc = "purge" \/ (mem.acm /\ ctl'.pc \in {"drop_records", "rest"})
              /\ (ctl'.absent /\ ~ctl'.blocked => stack \in Gone)
    BY <1>1, <1>4, ZenonT(60) DEF SeeAbsence, cloud
  <2> QED BY <2>1 DEF EndInv
<1>5. CASE DropRecords
  <2>1. /\ ctl.pc = "drop_records" /\ UNCHANGED <<mem, objects, stack>> /\ mem.acm
        /\ ctl'.empties = ctl.empties /\ ctl'.absent = ctl.absent /\ ctl'.blocked = ctl.blocked
        /\ ctl'.pc \in {"purge", "rest"}
    BY <1>1, <1>5, ZenonT(60) DEF DropRecords, EndInv
  <2> QED BY <2>1 DEF EndInv
<1>6. CASE PurgeObjects
  <2>1. /\ ctl.pc = "purge" /\ UNCHANGED <<stack, records>> /\ mem'.outputs = mem.outputs
        /\ objects' \subseteq objects
        /\ ctl'.empties = ctl.empties /\ ctl'.absent = ctl.absent /\ ctl'.blocked = ctl.blocked
        /\ ctl'.pc = "rest"
    BY <1>1, <1>6, ZenonT(60) DEF PurgeObjects, ObjectsLeft, cloud
  <2> QED BY <1>1, <2>1 DEF EndInv, ControllerInv
<1>7. CASE BeginProof
  <2>1. /\ ctl.pc = "rest" /\ UNCHANGED <<mem, objects, stack>>
        /\ ctl'.absent = ctl.absent /\ ctl'.blocked = ctl.blocked
        /\ ctl'.pc \in {"see_stacks", "uncleaned"}
    BY <1>1, <1>7 DEF BeginProof, cloud
  <2> QED BY <1>7, <2>1 DEF EndInv
<1> QED BY <1>2, <1>3, <1>4, <1>5, <1>6, <1>7 DEF Cleanup

\* Where the proof may go from where it is, and what it leaves alone.
LEMMA ProveGoes ==
  ASSUME IInv, Prove
  PROVE  /\ ctl.pc \in Observing /\ UNCHANGED <<stack, listed, records, objects, mem>>
         /\ ctl'.absent = ctl.absent /\ ctl'.blocked = ctl.blocked
         /\ ctl'.pc \in Observing \cup {"clean", "uncleaned"}
<1>1. ctl \in Control
  BY DEF IInv, TypeOK
<1> USE DEF Control, At, Goto, Broken, Counted, Observing
<1>2. CASE SeeTagged
  BY <1>1, <1>2, ZenonT(60) DEF SeeTagged
<1>3. CASE SeeStacks \/ SeeHosts \/ SeeServices \/ SeeNames \/ SeeObjects \/ SeeVapi
  BY <1>1, <1>3, ZenonT(60) DEF SeeStacks, SeeHosts, SeeServices, SeeNames, SeeObjects, SeeVapi, See, cloud
<1> QED BY <1>2, <1>3 DEF Prove

LEMMA EndKeeps == IInv /\ Prompt /\ EndInv /\ Next => EndInv'
<1> SUFFICES ASSUME IInv, Prompt, EndInv, Next PROVE EndInv'
  OBVIOUS
<1>1. CASE Prove
  BY <1>1, ProveGoes DEF EndInv, Ending, Over, Observing, Sealing
<1>2. CASE Crash
  BY <1>2 DEF Crash, EndInv, Goto, Over, IInv, TypeOK, Control
<1>3. CASE Reap \/ Interrupt
  <2>1. UNCHANGED ctl /\ ctl.pc \in Over
    BY <1>3 DEF IInv, ReaperInv, Reap, Interrupt, ReapLoad, ReapLook, ReapReview, ReapDiscover, ReapDelete, ReapAwait,
       ReapRecords, ReapPurge, Reaping, Over
  <2> QED BY <2>1 DEF EndInv
<1>4. CASE CloudFormation \/ Aftermath
  <2>1. /\ UNCHANGED <<objects, mem, ctl>>
        /\ (stack \in Gone \cup {"review"} => stack' \in Gone \cup {"review"} /\ UNCHANGED records)
    BY <1>4 DEF CloudFormation, Aftermath, SettleChangeSet, MakeResource, WriteRecords, StackMade, DropResource,
       StackDropped, Land, Surface, Vanish, Pass, Hatch, Prompt, IInv, TypeOK, Gone
  <2> QED BY <2>1 DEF EndInv
<1> QED BY <1>1, <1>2, <1>3, <1>4, DeployEnds, SealEnds, CleanupEnds DEF Next

\* The proof begins where every absence has been seen, and nothing observed yet.
LEMMA ProofBegins == ASSUME IInv, Brief, EndInv, BeginProof PROVE ProvingInv' /\ ctl'.pc # "clean"
<1>1. ctl \in Control /\ unsettled \in 0..SettleTicks /\ SettleTicks \in Nat
  BY DeploymentAssumption DEF IInv, TypeOK
<1>2. CASE ctl' = Broken
  BY <1>1, <1>2 DEF Broken, Control, ProvingInv, Observing
<1>3. CASE ctl' # Broken
  <2>1. /\ ctl.pc = "rest" /\ ctl.absent /\ ~ctl.blocked /\ ~ObjectsSeen /\ (mem.acm => records = {})
        /\ ctl' = Goto("see_stacks") /\ UNCHANGED <<cloud, objects, mem>>
    BY <1>3 DEF BeginProof, At
  <2>2. ctl'.pc = "see_stacks" /\ ctl'.empties = ctl.empties
    BY <1>1, <2>1 DEF Goto, Control
  <2>3. ctl.empties = 0 /\ objects = {} /\ records = {} /\ stack \in Gone \cup {"review"}
    BY <2>1 DEF EndInv, ObjectsSeen, Over, Observing
  <2> QED BY <1>1, <2>1, <2>2, <2>3 DEF ProvingInv, Brief, cloud
<1> QED BY <1>2, <1>3

\* One look of an observation: what it saw is in found, and nothing else has changed.
LEMMA Looks ==
  ASSUME IInv, ProvingInv, NEW pc \in Observing, NEW next \in Observing \ {"see_stacks"}, NEW something,
         See(pc, next, something),
         ctl.empties = 2 /\ ~ctl.found /\ ~something /\ NotSeen /\ ctl'.pc = next => NotSeen'
  PROVE  ProvingInv' /\ ctl'.pc # "clean"
<1>1. ctl \in Control
  BY DEF IInv, TypeOK
<1>2. CASE ctl' = Broken
  BY <1>1, <1>2 DEF Broken, Control, ProvingInv, Observing
<1>3. CASE ctl' = [Goto(next) EXCEPT !.found = @ \/ something]
  <2>1. /\ ctl'.pc = next /\ ctl'.empties = ctl.empties /\ (~ctl'.found => ~ctl.found /\ ~something)
        /\ ctl.pc \in Observing
    BY <1>1, <1>3, ZenonT(60) DEF Goto, Control, See, At
  <2> QED BY <2>1 DEF ProvingInv, See, cloud, Observing
<1> QED BY <1>2, <1>3 DEF See

\* After an empty observation less may come to light; the third one is the proof.
LEMMA Tags ==
  ASSUME IInv, Brief, InSight, ProvingInv, SeeTagged
  PROVE  ProvingInv' /\ (ctl'.pc = "clean" => unsettled' = 0 /\ CleanIsClean')
<1>1. /\ ctl \in Control /\ ctl.empties \in 0..2 /\ ctl.pc = "see_tagged" /\ ctl.pc \in Observing
      /\ mem \in Memory /\ mem.inventory \subseteq Resources /\ live \in [Resources -> Presence]
      /\ unsettled \in 0..SettleTicks /\ SettleTicks \in Nat
      /\ UNCHANGED <<stack, records, objects, mem>>
  BY DeploymentAssumption DEF IInv, TypeOK, Control, Memory, SeeTagged, At, Observing
<1>2. PICK stale \in BOOLEAN : LET empty == ~ctl.found /\ ~TaggedSeen(stale) IN
     \/ /\ Proven(empty)
        /\ ctl' = IF ctl.errors THEN Broken ELSE Goto("clean")
        /\ UNCHANGED <<live, flying, unsettled>>
     \/ /\ ~Proven(empty) /\ ctl.rounds < MaxRounds
        /\ ctl' = Counted(ctl, empty)
        /\ IF empty THEN Elapse ELSE UNCHANGED <<live, flying, unsettled>>
     \/ /\ ctl' = Broken
        /\ UNCHANGED <<live, flying, unsettled>>
  BY DEF SeeTagged
<1> DEFINE empty == ~ctl.found /\ ~TaggedSeen(stale)
<1>3. CASE ctl' = Broken
  BY <1>1, <1>3 DEF Broken, Control, ProvingInv, Observing
<1>4. CASE Proven(empty) /\ ctl' = Goto("clean") /\ UNCHANGED <<live, flying, unsettled>>
  <2>1. ctl'.pc = "clean" /\ ctl'.pc \notin Observing
    BY <1>1, <1>4 DEF Goto, Control, Observing
  <2>2. /\ ctl.empties = 2 /\ ~ctl.found /\ stack \in Gone /\ \A r \in Tagged : ~Visible(r)
    BY <1>4 DEF Proven, TaggedSeen
  <2>3. /\ unsettled = 0 /\ records = {} /\ objects = {} /\ NotSeen
    BY <1>1, <2>2 DEF ProvingInv
  <2>4. \A r \in Named \cup mem.inventory : ~Visible(r)
    <3>1. /\ ~SeenOf(Hosts) /\ ~SeenOf(Resources \ (Hosts \cup Vapi \cup Named))
          /\ \A r \in Named : ~Visible(r)
          /\ ~(Verifier /\ Related)
      BY <1>1, <2>3 DEF NotSeen
    <3>2. ASSUME NEW r \in mem.inventory, r \in Vapi PROVE ~Visible(r)
      BY <3>1, <3>2 DEF Verifier, Related
    <3> QED BY <1>1, <3>1, <3>2 DEF SeenOf
  <2>5. \A r \in Tagged \cup Named \cup mem.inventory : live[r] \in {"none", "ended"}
    BY <1>1, <2>2, <2>3, <2>4, DeploymentAssumption DEF Visible, InSight, Presence
  <2> QED BY <1>1, <1>4, <2>1, <2>2, <2>3, <2>5 DEF CleanIsClean, ProvingInv
<1>5. CASE ~Proven(empty) /\ ctl' = Counted(ctl, empty) /\ (IF empty THEN Elapse ELSE UNCHANGED unsettled)
  <2>1. /\ ctl'.pc = "see_stacks" /\ ctl'.empties = IF empty THEN ctl.empties + 1 ELSE 0
    BY <1>1, <1>5 DEF Counted, Control
  <2>2. unsettled' + ctl'.empties <= 2
    <3>1. CASE empty
      <4>1. /\ ctl.empties \in 0..1 /\ unsettled' = Tick(unsettled) /\ ctl'.empties = ctl.empties + 1
        BY <1>1, <1>5, <2>1, <3>1 DEF Proven, Elapse
      <4> QED BY <1>1, <4>1 DEF Tick, ProvingInv
    <3>2. CASE ~empty
      BY <1>1, <1>5, <2>1, <3>2 DEF Brief
    <3> QED BY <3>1, <3>2
  <2>3. NotSeen'
    BY <2>1 DEF NotSeen
  <2> QED BY <1>1, <2>1, <2>2 DEF ProvingInv, NotSeen
<1> QED BY <1>2, <1>3, <1>4, <1>5

LEMMA ProveProves ==
  ASSUME IInv, Brief, InSight, ProvingInv, Prove
  PROVE  ProvingInv' /\ (ctl'.pc = "clean" => unsettled' = 0 /\ CleanIsClean')
<1>1. {"see_stacks", "see_hosts", "see_services", "see_names", "see_objects", "see_vapi", "see_tagged"} = Observing
  BY DEF Observing
<1>2. UNCHANGED <<mem, live>> \/ SeeTagged
  BY DEF Prove, SeeStacks, SeeHosts, SeeServices, SeeNames, SeeObjects, SeeVapi, See, cloud
<1> USE DEF NotSeen, SeenOf, Visible, Verifier, Related, At
<1>3. CASE SeeStacks
  BY <1>1, <1>2, <1>3, Looks DEF SeeStacks, See, SeeTagged
<1>4. CASE SeeHosts
  BY <1>1, <1>2, <1>4, Looks DEF SeeHosts, See, SeeTagged
<1>5. CASE SeeServices
  BY <1>1, <1>2, <1>5, Looks DEF SeeServices, See, SeeTagged
<1>6. CASE SeeNames
  BY <1>1, <1>2, <1>6, Looks DEF SeeNames, See, SeeTagged
<1>7. CASE SeeObjects
  BY <1>1, <1>2, <1>7, Looks DEF SeeObjects, See, SeeTagged
<1>8. CASE SeeVapi
  BY <1>1, <1>2, <1>8, Looks DEF SeeVapi, See, SeeTagged
<1>9. CASE SeeTagged
  BY <1>9, Tags
<1> QED BY <1>3, <1>4, <1>5, <1>6, <1>7, <1>8, <1>9 DEF Prove

\* What happens by itself leaves a stack that is gone, and takes nothing back.
LEMMA Stays ==
  ASSUME IInv, Prompt, CInv, CloudFormation \/ Aftermath
  PROVE  ProvingInv' /\ (ctl.pc = "clean" => unsettled' = 0 /\ CleanIsClean')
<1>1. /\ UNCHANGED <<objects, mem, ctl>> /\ TypeOK /\ unsettled \in 0..SettleTicks /\ SettleTicks \in Nat
      /\ live \in [Resources -> Presence] /\ mem.inventory \subseteq Resources
  BY DeploymentAssumption DEF CloudFormation, Aftermath, SettleChangeSet, MakeResource, WriteRecords, StackMade,
     DropResource, StackDropped, Land, Surface, Vanish, Pass, IInv, TypeOK, Memory
<1>2. ASSUME stack \in Gone \cup {"review"}
      PROVE  /\ stack' \in Gone \cup {"review"} /\ UNCHANGED records
             /\ unsettled' \in 0..unsettled
             /\ unsettled = 0 => /\ UNCHANGED stack
                                 /\ \A r \in Resources : live'[r] \in {live[r], "none"}
  <2>1. CASE SettleChangeSet \/ Land
    BY <1>1, <1>2, <2>1 DEF SettleChangeSet, Land, Hatch, Prompt, TypeOK, Gone
  <2>2. CASE Surface \/ Vanish
    BY <1>1, <1>2, <2>2 DEF Surface, Vanish, Gone, InSight, CInv
  <2>3. CASE Pass
    BY <1>1, <1>2, <2>3 DEF Pass, Elapse, Tick, Gone
  <2>4. CASE MakeResource \/ WriteRecords \/ StackMade \/ DropResource \/ StackDropped
    BY <1>2, <2>4 DEF MakeResource, WriteRecords, StackMade, DropResource, StackDropped, Gone
  <2> QED BY <2>1, <2>2, <2>3, <2>4 DEF CloudFormation, Aftermath
<1>3. ProvingInv'
  <2> SUFFICES ASSUME ctl.pc \in Observing
               PROVE  /\ stack' \in Gone \cup {"review"} /\ records' = {} /\ objects' = {}
                      /\ unsettled' + ctl.empties <= 2
                      /\ ctl.empties = 2 /\ ~ctl.found => NotSeen'
    BY <1>1 DEF ProvingInv
  <2>1. /\ stack \in Gone \cup {"review"} /\ records = {} /\ objects = {} /\ unsettled + ctl.empties <= 2
        /\ ctl.empties \in 0..2
        /\ ctl.empties = 2 /\ ~ctl.found => NotSeen
    BY <1>1 DEF CInv, ProvingInv, TypeOK, Control
  <2>2. ASSUME ctl.empties = 2, NotSeen PROVE NotSeen'
    <3>1. \A r \in Resources : live'[r] \in {live[r], "none"}
      BY <1>1, <1>2, <2>1, <2>2
    <3>2. \A r \in Resources : live'[r] = "live" => live[r] = "live"
      BY <3>1
    <3> QED BY <1>1, <2>2, <3>2, DeploymentAssumption DEF NotSeen, SeenOf, Visible, Verifier, Related, Hosts
  <2> QED BY <1>1, <1>2, <2>1, <2>2
<1>4. ASSUME ctl.pc = "clean" PROVE unsettled' = 0 /\ CleanIsClean'
  <2>1. /\ unsettled = 0 /\ stack \in Gone /\ records = {} /\ objects = {}
        /\ \A r \in Tagged \cup Named \cup mem.inventory : live[r] \in {"none", "ended"}
    BY <1>4 DEF CInv, CleanIsClean
  <2> QED BY <1>1, <1>2, <2>1, DeploymentAssumption DEF CleanIsClean
<1> QED BY <1>3, <1>4

LEMMA CleanKeeps == IInv /\ Prompt /\ Brief /\ CInv /\ [Next]_vars => CInv'
<1> SUFFICES ASSUME IInv, Prompt, Brief, CInv, [Next]_vars PROVE CInv'
  OBVIOUS
<1>1. CASE UNCHANGED vars
  BY <1>1 DEF vars, CInv, InSight, EndInv, ProvingInv, NotSeen, SeenOf, Visible, Verifier, Related, CleanIsClean
<1>2. ASSUME Next PROVE InSight' /\ EndInv'
  BY <1>2, InSightKeeps, EndKeeps DEF CInv
<1>3. CASE Deploy \/ SealRecords \/ Cleanup
  <2>1. ctl'.pc \notin Observing \cup {"clean"} \/ BeginProof
    BY <1>3, DeployEnds, SealEnds, CleanupEnds DEF CInv
  <2>2. ProvingInv' /\ ctl'.pc # "clean"
    BY <2>1, ProofBegins DEF CInv, ProvingInv
  <2> QED BY <1>2, <1>3, <2>2 DEF CInv, Next
<1>4. CASE Prove
  BY <1>2, <1>4, ProveProves DEF CInv, Next
<1>5. CASE Crash
  <2>1. ctl'.pc = "dead"
    BY <1>5 DEF Crash, Goto, IInv, TypeOK, Control
  <2> QED BY <1>2, <1>5, <2>1 DEF CInv, ProvingInv, Observing, Next
<1>6. CASE Reap \/ Interrupt
  <2>1. UNCHANGED ctl /\ ctl.pc \in {"uncleaned", "dead"}
    BY <1>6 DEF IInv, ReaperInv, Reap, Interrupt, ReapLoad, ReapLook, ReapReview, ReapDiscover, ReapDelete, ReapAwait,
       ReapRecords, ReapPurge, Reaping
  <2> QED BY <1>2, <1>6, <2>1 DEF CInv, ProvingInv, Observing, Next
<1>7. CASE CloudFormation \/ Aftermath
  <2>1. UNCHANGED ctl
    BY <1>7 DEF CloudFormation, Aftermath, SettleChangeSet, MakeResource, WriteRecords, StackMade,
       DropResource, StackDropped, Land, Surface, Vanish, Pass
  <2> QED BY <1>2, <1>7, <2>1, Stays DEF CInv, Next
<1> QED BY <1>1, <1>3, <1>4, <1>5, <1>6, <1>7 DEF Next

LEMMA InitClean == Init => CInv
  BY DEF Init, CInv, InSight, EndInv, ProvingInv, Over, Ending, Observing, Sealing

-----------------------------------------------------------------------------
(* The theorems *)

\* What the controller and the reaper know of a deployment is so, in every state.
THEOREM Invariance == ASSUME Prompt PROVE Spec => []IInv
<1>1. ASSUME IInv, UNCHANGED vars PROVE IInv'
  BY <1>1 DEF IInv, vars, TypeOK, WorldInv, ControllerInv, ReaperInv, Safe
<1>2. IInv /\ [Next]_vars => IInv'
  BY <1>1, NextTyped, DeployKeeps, SealKeeps, CleanupKeeps, ProveKeeps, CrashKeeps, ReapKeeps, WorldKeeps
     DEF Next, IInv
<1>3. Init => IInv
  BY InitTyped, InitSealed DEF IInv
<1> QED BY <1>2, <1>3, PTL DEF Spec

\* Every variable of a deployment keeps its type, whatever takes effect late.
THEOREM TypeCorrect == Spec => []TypeOK
  BY InitTyped, NextTyped, PTL DEF Spec

\* Through failing calls, crashes, retention and the reaper the validation records ACM
\* had written are journaled before the certificate that names them can go.
THEOREM SealedFirst == ASSUME Prompt PROVE Spec => []SealedBeforeDelete
<1>1. IInv => SealedBeforeDelete
  BY DEF IInv, WorldInv, Safe, SealedBeforeDelete
<1> QED BY Invariance, <1>1, PTL

\* When reap_qualification.sh has gone through, no stack, record or object is left.
THEOREM RecoveredClean == ASSUME Prompt PROVE Spec => []RecoveredIsClean
<1>1. IInv => RecoveredIsClean
  BY DEF IInv, ReaperInv, RecoveredIsClean
<1> QED BY Invariance, <1>1, PTL

\* A run that ends with stable_zero_resource_proof has left no stack, record or object and
\* nothing that it owned or tagged: with every observation the time runs out in which
\* anything may come to light, and what the third has passed cannot come back.
THEOREM CleanRuns == ASSUME Prompt, Brief PROVE Spec => []CleanIsClean
<1>1. CInv => CleanIsClean
  BY DEF CInv, CleanIsClean
<1>2. Init => CInv
  BY InitClean
<1>3. IInv /\ CInv /\ [Next]_vars => CInv'
  BY CleanKeeps
<1>4. Spec => []IInv
  BY Invariance
<1> QED BY <1>1, <1>2, <1>3, <1>4, PTL DEF Spec

=============================================================================
