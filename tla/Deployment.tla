------------------------------ MODULE Deployment ------------------------------
(***************************************************************************)
(* The stack a qualification run deploys, and its end: a change set is     *)
(* created, reviewed and executed; at the end an inventory of the stack is *)
(* taken, the ACM validation records are journaled, the stack is deleted,  *)
(* the records after it, the objects in S3 after them, and three           *)
(* observations over a minute prove that nothing is left. If the           *)
(* controller is killed, or gives up, a reaper works from S3 and           *)
(* CloudFormation alone.                                                   *)
(*                                                                         *)
(* The validation records are no resource of the stack: ACM's certificate  *)
(* has CloudFormation write them, and nothing but this code deletes them.  *)
(*                                                                         *)
(* One step is one call, with its polling; a walk over the nested stacks   *)
(* is one step too. Time is counted in ticks of 30 seconds.                *)
(***************************************************************************)
EXTENDS Naturals, FiniteSets

CONSTANTS
  Resources,     \* what a deployment makes: "cert", "host" and others
  Attached,      \* of these, what comes and goes with the host: volume, interface
  Vapi,          \* of these, what the custom resource makes at Vapi
  Named,         \* of these, the host names in the public zone
  Tagged,        \* of these, what the execution tag finds
  Lingering,     \* of these, what may be seen again after its deletion
  RecordNames,   \* the names ACM has to be shown
  Late,          \* calls that may take effect after they were given up
  SettleTicks,   \* bound: how many ticks after a call it may still do so
  MaxRounds,     \* bound: observations before the proof times out
  MaxReruns      \* bound: how often the reaper is run again

ASSUME DeploymentAssumption ==
  /\ {"cert", "host"} \subseteq Resources
  /\ Attached \cup Vapi \cup Named \cup Tagged \cup Lingering \subseteq Resources
  /\ {"cert", "host"} \cap (Attached \cup Vapi \cup Named) = {}
  /\ Attached \cap (Vapi \cup Named) = {}
  /\ Late \subseteq {"create", "execute"}
  /\ SettleTicks \in Nat \ {0} /\ {MaxRounds, MaxReruns} \subseteq Nat

VARIABLES
  stack,      \* the stack's status
  changeset,  \* the root change set's status
  listed,     \* the resources the stack has
  live,       \* what exists of each resource
  records,    \* the ACM validation records in Route 53
  objects,    \* the objects under qualification/<execution id>/ in S3
  flying,     \* calls in doubt that may still take effect
  unsettled,  \* for how many ticks anything may still come to light
  mem,        \* what the controller remembers
  ctl,        \* where it is
  reaper,     \* where the reaper is
  reruns

cloud == <<stack, changeset, listed, live, records, flying, unsettled>>
vars == <<stack, changeset, listed, live, records, objects, flying, unsettled,
          mem, ctl, reaper, reruns>>

-----------------------------------------------------------------------------
(* Types *)

\* "none": never created, or a review that was deleted. "deleted": DELETE_COMPLETE.
StackStatus == {"none", "review", "creating", "created", "failed", "deleting",
                "delete_failed", "deleted"}
InProgress == {"review", "creating", "deleting"}
Gone == {"none", "deleted"}

Memory == [created : BOOLEAN,     \* created_stack
           attempted : BOOLEAN,   \* change_set_execution_attempted
           id : BOOLEAN,          \* stack_id is known
           outputs : BOOLEAN,     \* the stack's outputs, its bucket among them
           sealed : BOOLEAN,      \* acm_validation_discovery_complete
           acm : BOOLEAN,         \* acm_validation_journal
           version : BOOLEAN,     \* acm_validation_journal_version_id
           inventoried : BOOLEAN,           \* owned_resource_inventory, and what
           inventory : SUBSET Resources]    \* it holds
Blank == [created |-> FALSE, attempted |-> FALSE, id |-> FALSE, outputs |-> FALSE,
          sealed |-> FALSE, acm |-> FALSE, version |-> FALSE, inventoried |-> FALSE, inventory |-> {}]

\* "hidden": deleted, and may be seen again. "ended": a terminated instance.
Presence == {"none", "live", "hidden", "ended"}

Over == {"clean", "uncleaned", "retained", "dead"}
Sealing == {"seal_id", "seal_status", "discover", "bucket", "put"}
Observing == {"see_stacks", "see_hosts", "see_services", "see_names", "see_objects",
              "see_vapi", "see_tagged"}
PC == {"create", "recreate", "await_review", "review", "execute", "await_stack",
       "validate", "inventory", "use", "evidence", "decide", "own", "resolve", "check_review",
       "drop_changeset", "drop_shell", "delete", "await_delete", "absent",
       "drop_records", "purge", "rest"} \cup Sealing \cup Observing \cup Over

\* phase: who has the records sealed; blocked: ownership_recovery_required; errors,
\* failed: of the cleanup and of the run; seen: a status read before; found: this
\* observation is not empty; empties: the empty
\* observations in a row.
Control == [pc : PC, phase : {"deploy", "cleanup", "retain"}, failed : BOOLEAN,
            blocked : BOOLEAN, errors : BOOLEAN, seen : StackStatus, absent : BOOLEAN,
            found : BOOLEAN, empties : 0..2, rounds : 0..MaxRounds]

ReaperPC == {"off", "load", "look", "drop_review", "discover", "delete", "await",
             "records", "purge", "refused", "recovered"}

TypeOK ==
  /\ stack \in StackStatus
  /\ changeset \in {"none", "pending", "available", "failed", "executed"}
  /\ listed \subseteq Resources \ Attached
  /\ live \in [Resources -> Presence]
  /\ records \subseteq RecordNames
  /\ objects \subseteq {"journal", "other"}
  /\ flying \subseteq Late
  /\ unsettled \in 0..SettleTicks
  /\ mem \in Memory
  /\ ctl \in Control
  /\ reaper \in [pc : ReaperPC, journal : BOOLEAN]
  /\ reruns \in 0..MaxReruns

Init ==
  /\ stack = "none" /\ changeset = "none" /\ listed = {}
  /\ live = [r \in Resources |-> "none"]
  /\ records = {} /\ objects = {}
  /\ flying = {} /\ unsettled = 0
  /\ mem = Blank
  /\ ctl = [pc |-> "create", phase |-> "deploy", failed |-> FALSE, blocked |-> FALSE,
            errors |-> FALSE, seen |-> "none", absent |-> FALSE, found |-> FALSE,
            empties |-> 0, rounds |-> 0]
  /\ reaper = [pc |-> "off", journal |-> FALSE]
  /\ reruns = 0

At(pc) == ctl.pc = pc
Goto(pc) == [ctl EXCEPT !.pc = pc]
Stumble(pc) == [ctl EXCEPT !.pc = pc, !.errors = TRUE]

\* The cleanup ends without the proof.
Broken == [ctl EXCEPT !.pc = "uncleaned", !.errors = TRUE, !.failed = TRUE]

-----------------------------------------------------------------------------
(* deploy *)

\* Any exception ends the run; the diagnostics come before the cleanup.
Failing == [ctl EXCEPT !.pc = "evidence", !.failed = TRUE]

Hatch == stack' = "review" /\ changeset' = "pending"
Start == stack' = "creating" /\ changeset' = "executed"

\* A call in doubt was made, was not, or may yet be.
Doubt(call, Effect) ==
  \/ Effect /\ UNCHANGED <<flying, unsettled>>
  \/ UNCHANGED <<stack, changeset, flying, unsettled>>
  \/ /\ call \in Late
     /\ flying' = flying \cup {call} /\ unsettled' = SettleTicks
     /\ UNCHANGED <<stack, changeset>>

CreateChangeSet ==
  /\ At("create")
  /\ \/ /\ Hatch /\ UNCHANGED <<flying, unsettled>>
        /\ mem' = [mem EXCEPT !.created = TRUE, !.id = TRUE]
        /\ ctl' = Goto("await_review")
     \/ /\ Doubt("create", Hatch)
        /\ mem' = [mem EXCEPT !.created = TRUE]
        /\ ctl' = Goto("recreate")
  /\ UNCHANGED <<listed, live, records, objects, reaper, reruns>>

\* An unanswered create is looked for once.
FindChangeSet ==
  /\ At("recreate")
  /\ \/ stack = "review" /\ mem' = [mem EXCEPT !.id = TRUE] /\ ctl' = Goto("await_review")
     \/ ctl' = Failing /\ UNCHANGED mem
  /\ UNCHANGED <<cloud, objects, reaper, reruns>>

AwaitReview ==
  /\ At("await_review")
  /\ \/ changeset = "available" /\ ctl' = Goto("review")
     \/ ctl' = Failing
  /\ UNCHANGED <<cloud, objects, mem, reaper, reruns>>

Review ==
  /\ At("review")
  /\ ctl' \in {Goto("execute"), Failing}
  /\ UNCHANGED <<cloud, objects, mem, reaper, reruns>>

\* Mutant: an execution counts only when it has been answered.
ExecuteUnmarked ==
  /\ At("execute")
  /\ \/ /\ Start /\ UNCHANGED <<flying, unsettled>>
        /\ mem' = [mem EXCEPT !.attempted = TRUE]
        /\ ctl' = Goto("await_stack")
     \/ Doubt("execute", Start) /\ ctl' = Failing /\ UNCHANGED mem
  /\ UNCHANGED <<listed, live, records, objects, reaper, reruns>>

ExecuteChangeSet ==
  /\ At("execute")
  /\ mem' = [mem EXCEPT !.attempted = TRUE]
  /\ \/ Start /\ UNCHANGED <<flying, unsettled>> /\ ctl' = Goto("await_stack")
     \/ Doubt("execute", Start) /\ ctl' = Failing
  /\ UNCHANGED <<listed, live, records, objects, reaper, reruns>>

\* The wait may end without an answer while the stack is still being created.
AwaitStack ==
  /\ At("await_stack")
  /\ \/ /\ stack = "created"
        /\ mem' = [mem EXCEPT !.outputs = TRUE]
        /\ ctl' = Goto("validate")
     \/ ctl' = Failing /\ UNCHANGED mem
  /\ UNCHANGED <<cloud, objects, reaper, reruns>>

\* The instance of the outputs is looked at: image, type, volumes, tags.
ValidateRuntime ==
  /\ At("validate")
  /\ \/ live["host"] = "live" /\ ctl' = Goto("inventory")
     \/ ctl' = Failing
  /\ UNCHANGED <<cloud, objects, mem, reaper, reruns>>

\* The stacks, what they list, and what their hosts have attached.
Inventory == listed \cup {r \in Attached : "host" \in listed}

TakeInventory ==
  /\ At("inventory")
  /\ \/ mem' = [mem EXCEPT !.inventoried = TRUE, !.inventory = Inventory] /\ ctl' = Goto("seal_id")
     \/ ctl' = Failing /\ UNCHANGED mem
  /\ UNCHANGED <<cloud, objects, reaper, reruns>>

\* Everything that follows in a run, which leaves objects in S3, and fails or not.
Use ==
  /\ At("use")
  /\ objects' = objects \cup {"other"}
  /\ \E ok \in BOOLEAN : ctl' = IF ok THEN Goto("decide") ELSE Failing
  /\ UNCHANGED <<cloud, mem, reaper, reruns>>

\* record_failure_evidence reads the stack, and with it its id.
RecordEvidence ==
  /\ At("evidence")
  /\ \E found \in {FALSE, mem.created /\ stack # "none"} :
       mem' = [mem EXCEPT !.id = @ \/ found]
  /\ ctl' = Goto("decide")
  /\ UNCHANGED <<cloud, objects, reaper, reruns>>

\* A failed run may be kept for debugging; its records are sealed too.
Retain ==
  /\ At("decide") /\ ctl.failed
  /\ ctl' = [Goto("seal_id") EXCEPT !.phase = "retain"]
  /\ UNCHANGED <<cloud, objects, mem, reaper, reruns>>

\* Phone, direct tool and assistant come first; they may block the rest.
BeginCleanup ==
  /\ At("decide")
  /\ \E b \in BOOLEAN :
       ctl' = [Goto("seal_id") EXCEPT !.phase = "cleanup", !.blocked = b, !.errors = b]
  /\ UNCHANGED <<cloud, objects, mem, reaper, reruns>>

-----------------------------------------------------------------------------
(* ensure_acm_validation_journal *)

\* acm_recovery_required: nothing was found out, or the journal is not in S3.
Unsealed == (mem.created /\ ~mem.sealed) \/ (mem.acm /\ ~mem.version)

\* Where sealing goes on when it is over, with or without an exception.
AfterSealing(raised) ==
  CASE ctl.phase = "deploy" -> IF raised THEN Failing ELSE Goto("use")
    [] ctl.phase = "retain" -> Goto("retained")
    [] ctl.phase = "cleanup" -> [Goto("own") EXCEPT !.errors = @ \/ raised]

\* Without an execution there is nothing to seal.
SealId ==
  /\ At("seal_id")
  /\ \/ /\ mem.sealed \/ ~mem.created \/ ~mem.attempted
        /\ mem' = [mem EXCEPT !.sealed = TRUE]
        /\ ctl' = AfterSealing(FALSE)
     \/ /\ ~mem.sealed /\ mem.created /\ mem.attempted
        /\ \/ /\ mem.id \/ stack # "none"
              /\ mem' = [mem EXCEPT !.id = TRUE]
              /\ ctl' = Goto("seal_status")
           \/ ctl' = AfterSealing(TRUE) /\ UNCHANGED mem
  /\ UNCHANGED <<cloud, objects, reaper, reruns>>

SealStatus ==
  /\ At("seal_status")
  /\ ctl' \in {[Goto("discover") EXCEPT !.seen = stack], AfterSealing(TRUE)}
  /\ UNCHANGED <<cloud, objects, mem, reaper, reruns>>

\* The one certificate must have its records in Route 53, every one. None at all is
\* believed of a stack that was not executed, or that has settled.
Discover ==
  /\ At("discover")
  /\ \/ /\ "cert" \notin listed
        /\ ctl.seen \notin InProgress \ {"review"}
        /\ mem' = [mem EXCEPT !.sealed = TRUE] /\ ctl' = AfterSealing(FALSE)
     \/ /\ "cert" \in listed /\ records = RecordNames
        /\ ctl' = Goto("bucket") /\ UNCHANGED mem
     \/ ctl' = AfterSealing(TRUE) /\ UNCHANGED mem
  /\ UNCHANGED <<cloud, objects, reaper, reruns>>

\* The bucket is an output, of some stack of the hierarchy at least. From here on the
\* controller knows the records.
FindBucket ==
  /\ At("bucket")
  /\ \/ mem' = [mem EXCEPT !.acm = TRUE, !.outputs = TRUE] /\ ctl' = Goto("put")
     \/ ~mem.outputs /\ ctl' = AfterSealing(TRUE) /\ UNCHANGED mem
  /\ UNCHANGED <<cloud, objects, reaper, reruns>>

\* A put that fails may have been made.
PutJournal ==
  /\ At("put")
  /\ \E ok \in BOOLEAN, kept \in {"journal"} :
       /\ objects' \in IF ok THEN {objects \cup {kept}} ELSE {objects, objects \cup {kept}}
       /\ mem' = [mem EXCEPT !.version = @ \/ ok, !.sealed = @ \/ ok]
       /\ ctl' = AfterSealing(~ok)
  /\ UNCHANGED <<cloud, reaper, reruns>>

-----------------------------------------------------------------------------
(* cleanup *)

\* The inventory is taken now unless deploy took it. An empty one is made of no stack.
OwnResources ==
  /\ At("own")
  /\ LET blocked == ctl.blocked \/ Unsealed IN
     \/ /\ blocked \/ mem.inventoried
        /\ ctl' = [Goto("resolve") EXCEPT !.blocked = blocked, !.errors = @ \/ blocked]
        /\ UNCHANGED mem
     \/ /\ ~blocked /\ ~mem.inventoried
        /\ \/ /\ mem' = [mem EXCEPT !.id = @ \/ stack # "none", !.inventoried = TRUE, !.inventory = Inventory]
              /\ ctl' = Goto("resolve")
           \/ /\ ctl' = [Stumble("resolve") EXCEPT !.blocked = TRUE]
              /\ UNCHANGED mem
  /\ UNCHANGED <<cloud, objects, reaper, reruns>>

\* Is there a stack to delete?
Resolve ==
  /\ At("resolve")
  /\ \/ ctl.blocked /\ ctl' = Goto("absent") /\ UNCHANGED mem
     \/ /\ ~ctl.blocked
        /\ mem' = [mem EXCEPT !.id = @ \/ (mem.created /\ stack # "none")]
        /\ ctl' = IF mem'.id /\ stack # "none" THEN Goto("check_review") ELSE Goto("absent")
     \/ /\ ~ctl.blocked /\ mem.created /\ ~mem.id
        /\ ctl' = [Stumble("absent") EXCEPT !.blocked = TRUE]
        /\ UNCHANGED mem
     \/ /\ ~ctl.blocked
        /\ ctl' = Broken /\ UNCHANGED mem
  /\ UNCHANGED <<cloud, objects, reaper, reruns>>

\* A stack that was never executed is taken apart as a review, any other deleted.
CheckReview ==
  /\ At("check_review")
  /\ \/ stack = "review" /\ ctl' = Goto("drop_changeset")
     \/ stack # "review" /\ ctl' = Goto("delete")
     \/ ctl' = Stumble("absent")
  /\ UNCHANGED <<cloud, objects, mem, reaper, reruns>>

DropChangeSet ==
  /\ At("drop_changeset")
  /\ \/ /\ changeset \in {"available", "failed"}
        /\ changeset' = "none"
        /\ ctl' = Goto("drop_shell")
     \/ /\ changeset' \in {changeset} \cup {cs \in {"none"} : changeset \in {"available", "failed"}}
        /\ ctl' = Stumble("absent")
  /\ UNCHANGED <<stack, listed, live, records, flying, unsettled, objects, mem, reaper, reruns>>

\* The empty shell is deleted on its own.
DropShell ==
  /\ At("drop_shell")
  /\ \/ /\ stack = "review" /\ listed = {}
        /\ stack' = "none"
        /\ ctl' \in {Goto("absent"), Stumble("absent")}
     \/ /\ ctl' = Stumble("absent")
        /\ UNCHANGED stack
  /\ UNCHANGED <<changeset, listed, live, records, flying, unsettled, objects, mem, reaper, reruns>>

Deletable == {"creating", "created", "failed", "deleting", "delete_failed"}
DeletedStack(s) == IF s \in Deletable THEN "deleting" ELSE IF s = "review" THEN "none" ELSE s

DeleteStack ==
  /\ At("delete")
  /\ \/ stack' = DeletedStack(stack) /\ ctl' \in {Goto("await_delete"), Stumble("absent")}
     \/ UNCHANGED stack /\ ctl' = Stumble("absent")
  /\ UNCHANGED <<changeset, listed, live, records, flying, unsettled, objects, mem, reaper, reruns>>

AwaitDelete ==
  /\ At("await_delete")
  /\ \/ stack \in Gone /\ ctl' = Goto("absent")
     \/ ctl' = Stumble("absent")
  /\ UNCHANGED <<cloud, objects, mem, reaper, reruns>>

\* A deleted stack is still there for who asks by its id, and that is how a blocked
\* cleanup asks. The records go only after the stack.
SeeAbsence ==
  /\ At("absent")
  /\ LET absent == IF ctl.blocked /\ mem.id THEN stack = "none" ELSE stack \in Gone
         next == IF mem.acm
                 THEN IF absent THEN Goto("drop_records") ELSE Stumble("rest")
                 ELSE Goto("purge")
     IN ctl' \in {[next EXCEPT !.absent = absent], Broken}
  /\ UNCHANGED <<cloud, objects, mem, reaper, reruns>>

\* One by one, each until Route 53 is in sync; then none may be left.
RecordsLeft(ok) == IF ok THEN {{}} ELSE SUBSET records

DropRecords ==
  /\ At("drop_records")
  /\ \E ok \in BOOLEAN :
       /\ records' \in RecordsLeft(ok)
       /\ ctl' = IF ok THEN Goto("purge") ELSE Stumble("rest")
  /\ UNCHANGED <<stack, changeset, listed, live, flying, unsettled, objects, mem, reaper, reruns>>

\* Every version under the prefix, in chunks, and none may be left: a failed purge has
\* removed some.
ObjectsLeft(ok) == IF ok THEN {{}} ELSE SUBSET objects

PurgeObjects ==
  /\ At("purge")
  /\ \/ /\ ctl.blocked \/ ~mem.outputs
        /\ ctl' = Goto("rest") /\ UNCHANGED <<objects, mem>>
     \/ /\ ~ctl.blocked /\ mem.outputs
        /\ \E ok \in BOOLEAN :
             /\ objects' \in ObjectsLeft(ok)
             /\ mem' = [mem EXCEPT !.version = @ /\ ~ok]
             /\ ctl' = IF ok THEN Goto("rest") ELSE Stumble("rest")
  /\ UNCHANGED <<cloud, reaper, reruns>>

\* Is anything under the prefix, by the listing of versions?
ObjectsSeen == mem.outputs /\ objects # {}

\* The proof begins only when every single absence has been seen.
BeginProof ==
  /\ At("rest")
  /\ ctl' = IF /\ ctl.absent /\ ~ctl.blocked /\ mem.inventoried
               /\ ~ObjectsSeen
               /\ mem.acm => records = {}
            THEN Goto("see_stacks") ELSE Broken
  /\ UNCHANGED <<cloud, objects, mem, reaper, reruns>>

-----------------------------------------------------------------------------
(* stable_zero_resource_proof *)

See(pc, next, something) ==
  /\ At(pc)
  /\ \/ ctl' = [Goto(next) EXCEPT !.found = @ \/ something]
     \/ ctl' = Broken
  /\ UNCHANGED <<cloud, objects, mem, reaper, reruns>>

\* A terminated instance is not there any more.
Visible(r) == live[r] = "live"
SeenOf(kinds) == \E r \in mem.inventory \cap kinds : Visible(r)
Hosts == {"host"} \cup Attached

SeeStacks == See("see_stacks", "see_hosts", mem.id /\ stack \notin Gone)
SeeHosts == See("see_hosts", "see_services", SeenOf(Hosts))
SeeServices == See("see_services", "see_names", SeenOf(Resources \ (Hosts \cup Vapi \cup Named)))

\* The host names are known from the execution id, whatever the inventory says.
SeeNames == See("see_names", "see_objects",
                (mem.acm /\ records # {}) \/ \E r \in Named : Visible(r))
SeeObjects == See("see_objects", "see_vapi", ObjectsSeen)

\* Vapi is asked only by who has an id, or a stack that made something there; and
\* then for what has the names of this run too.
Verifier == mem.outputs \/ mem.inventory \cap Vapi # {}
Related == \E r \in Vapi : Visible(r)
SeeVapi == See("see_vapi", "see_tagged", Verifier /\ Related)

\* The index of tags may still have what is gone, so each thing is asked for itself; a
\* deleted stack, by its id, is always found.
TaggedSeen(stale) ==
  \/ stack \notin Gone \/ (stack = "deleted" /\ stale)
  \/ \E r \in Tagged : Visible(r)

Tick(t) == IF t = 0 THEN 0 ELSE t - 1
Settled(t) == IF Tick(t) = 0
              THEN flying' = {} /\ live' = [r \in Resources |-> IF live[r] = "hidden" THEN "none" ELSE live[r]]
              ELSE UNCHANGED <<flying, live>>
Elapse == unsettled' = Tick(unsettled) /\ Settled(unsettled)

Counted(c, empty) ==
  [c EXCEPT !.pc = "see_stacks", !.found = FALSE, !.rounds = @ + 1,
            !.empties = IF empty THEN @ + 1 ELSE 0]

\* Mutant: two observations are enough.
ProvenByTwo(empty) == empty /\ ctl.empties = 1

\* Mutant: the empty observations of the past are counted without the present one.
ProvenByFour(empty) == empty /\ ctl.empties = 3

\* Three empty observations in a row, over two pauses of 30 seconds.
Proven(empty) == empty /\ ctl.empties = 2

\* After an empty observation 30 seconds are slept, after another five.
SeeTagged ==
  /\ At("see_tagged")
  /\ \E stale \in BOOLEAN : LET empty == ~ctl.found /\ ~TaggedSeen(stale) IN
     \/ /\ Proven(empty)
        /\ ctl' = IF ctl.errors THEN Broken ELSE Goto("clean")
        /\ UNCHANGED <<live, flying, unsettled>>
     \/ /\ ~Proven(empty) /\ ctl.rounds < MaxRounds
        /\ ctl' = Counted(ctl, empty)
        /\ IF empty THEN Elapse ELSE UNCHANGED <<live, flying, unsettled>>
     \/ /\ ctl' = Broken
        /\ UNCHANGED <<live, flying, unsettled>>
  /\ UNCHANGED <<stack, changeset, listed, records, objects, mem, reaper, reruns>>

Crash ==
  /\ ctl.pc \notin Over
  /\ mem' = Blank /\ ctl' = Goto("dead")
  /\ UNCHANGED <<cloud, objects, reaper, reruns>>

-----------------------------------------------------------------------------
(* reap_qualification.sh. It starts when the run is over, which takes longer than *)
(* anything takes to come to light.                                               *)

Reaping(pc) == reaper.pc = pc
ReapTo(pc) == reaper' = [reaper EXCEPT !.pc = pc]

ReapLoad ==
  /\ ctl.pc \in {"uncleaned", "dead"} /\ unsettled = 0
  /\ Reaping("off")
  /\ reaper' = [pc |-> "look", journal |-> "journal" \in objects]
  /\ UNCHANGED <<cloud, objects, mem, ctl, reruns>>

\* Mutant: a stack that is in the middle of something is left alone.
ReapLookSettled ==
  /\ Reaping("look")
  /\ ReapTo(IF stack \in Gone THEN "records"
            ELSE IF stack \in InProgress THEN "refused"
            ELSE IF reaper.journal THEN "delete" ELSE "discover")
  /\ UNCHANGED <<cloud, objects, mem, ctl, reruns>>

ReapLook ==
  /\ Reaping("look")
  /\ ReapTo(IF stack \in Gone THEN "records"
            ELSE IF stack = "review" THEN IF reaper.journal THEN "refused" ELSE "drop_review"
            ELSE IF reaper.journal THEN "delete" ELSE "discover")
  /\ UNCHANGED <<cloud, objects, mem, ctl, reruns>>

\* Mutant: the shell of a review is forgotten.
ReapChangeSet ==
  /\ Reaping("drop_review")
  /\ IF listed = {} /\ changeset \in {"none", "available", "failed"}
     THEN changeset' = "none" /\ ReapTo("records")
     ELSE UNCHANGED changeset /\ ReapTo("refused")
  /\ UNCHANGED <<stack, listed, live, records, flying, unsettled, objects, mem, ctl, reruns>>

ReapReview ==
  /\ Reaping("drop_review")
  /\ IF listed = {} /\ changeset \in {"none", "available", "failed"}
     THEN changeset' = "none" /\ ReapTo("delete")
     ELSE UNCHANGED changeset /\ ReapTo("refused")
  /\ UNCHANGED <<stack, listed, live, records, flying, unsettled, objects, mem, ctl, reruns>>

\* The records are named by the certificate, whether or not they are there yet.
\* Without a certificate only a stack in creation is waited for: a failed one would
\* be deleted if the status of the discovery were not overwritten before it is asked.
ReapDiscover ==
  /\ Reaping("discover")
  /\ IF "cert" \in listed
     THEN objects' = objects \cup {"journal"} /\ reaper' = [pc |-> "delete", journal |-> TRUE]
     ELSE ReapTo(IF stack = "creating" THEN "discover" ELSE "refused") /\ UNCHANGED objects
  /\ UNCHANGED <<cloud, mem, ctl, reruns>>

ReapDelete ==
  /\ Reaping("delete")
  /\ stack' = DeletedStack(stack)
  /\ ReapTo("await")
  /\ UNCHANGED <<changeset, listed, live, records, flying, unsettled, objects, mem, ctl, reruns>>

ReapAwait ==
  /\ Reaping("await")
  /\ \/ stack \in Gone /\ ReapTo("records")
     \/ stack = "delete_failed" /\ ReapTo("refused")
  /\ UNCHANGED <<cloud, objects, mem, ctl, reruns>>

ReapRecords ==
  /\ Reaping("records")
  /\ records' = IF reaper.journal THEN {} ELSE records
  /\ ReapTo("purge")
  /\ UNCHANGED <<stack, changeset, listed, live, flying, unsettled, objects, mem, ctl, reruns>>

ReapPurge ==
  /\ Reaping("purge")
  /\ objects' = {}
  /\ ReapTo("recovered")
  /\ UNCHANGED <<cloud, mem, ctl, reruns>>

\* A call fails, or the job is cancelled; someone may have it run again.
Interrupt ==
  /\ reruns < MaxReruns
  /\ reaper.pc \notin {"off", "recovered"}
  /\ reaper' = [pc |-> "off", journal |-> FALSE]
  /\ reruns' = reruns + 1
  /\ UNCHANGED <<cloud, objects, mem, ctl>>

-----------------------------------------------------------------------------
(* CloudFormation *)

SettleChangeSet ==
  /\ stack = "review" /\ changeset = "pending"
  /\ changeset' \in {"available", "failed"}
  /\ UNCHANGED <<stack, listed, live, records, flying, unsettled, objects, mem, ctl, reaper, reruns>>

MakeResource ==
  /\ stack = "creating"
  /\ \E r \in Resources \ (Attached \cup listed) :
       /\ listed' = listed \cup {r}
       /\ live' = [q \in Resources |-> IF q = r \/ (r = "host" /\ q \in Attached)
                                      THEN "live" ELSE live[q]]
  /\ UNCHANGED <<stack, changeset, records, flying, unsettled, objects, mem, ctl, reaper, reruns>>

WriteRecords ==
  /\ stack = "creating" /\ "cert" \in listed
  /\ \E n \in RecordNames \ records : records' = records \cup {n}
  /\ UNCHANGED <<stack, changeset, listed, live, flying, unsettled, objects, mem, ctl, reaper, reruns>>

StackMade ==
  /\ stack = "creating"
  /\ \/ stack' = "created" /\ listed = Resources \ Attached /\ records = RecordNames
     \/ stack' = "failed"
  /\ UNCHANGED <<changeset, listed, live, records, flying, unsettled, objects, mem, ctl, reaper, reruns>>

\* What lingers goes out of sight, for a while or for good.
DropResource ==
  /\ stack = "deleting"
  /\ \E r \in listed, p \in {"none", "hidden"} :
       LET going == {r} \cup {q \in Attached : r = "host"}
           after(q) == IF p = "hidden" /\ q \in Lingering THEN "hidden"
                       ELSE IF q = "host" THEN "ended" ELSE "none"
       IN /\ p = "hidden" => going \cap Lingering # {}
          /\ listed' = listed \ {r}
          /\ live' = [q \in Resources |-> IF q \in going THEN after(q) ELSE live[q]]
          /\ unsettled' = IF p = "hidden" THEN SettleTicks ELSE unsettled
  /\ UNCHANGED <<stack, changeset, records, flying, objects, mem, ctl, reaper, reruns>>

StackDropped ==
  /\ stack = "deleting"
  /\ \/ stack' = "deleted" /\ listed = {}
     \/ stack' = "delete_failed"
  /\ UNCHANGED <<changeset, listed, live, records, flying, unsettled, objects, mem, ctl, reaper, reruns>>

\* A call that was given up takes effect.
Land ==
  /\ unsettled > 0
  /\ \/ "create" \in flying /\ flying' = flying \ {"create"} /\ stack = "none" /\ Hatch
     \/ /\ "execute" \in flying /\ flying' = flying \ {"execute"}
        /\ stack = "review" /\ changeset = "available" /\ Start
  /\ UNCHANGED <<listed, live, records, unsettled, objects, mem, ctl, reaper, reruns>>

Surface ==
  /\ unsettled > 0
  /\ \E r \in Resources : live[r] = "hidden" /\ live' = [live EXCEPT ![r] = "live"]
  /\ UNCHANGED <<stack, changeset, listed, records, flying, unsettled, objects, mem, ctl, reaper, reruns>>

\* What was seen again goes in the end.
Vanish ==
  /\ \E r \in Resources \ listed :
       /\ live[r] = "live" /\ (r \in Attached => "host" \notin listed)
       /\ live' = [live EXCEPT ![r] = "none"]
  /\ UNCHANGED <<stack, changeset, listed, records, flying, unsettled, objects, mem, ctl, reaper, reruns>>

Pass ==
  /\ unsettled > 0 /\ Elapse
  /\ UNCHANGED <<stack, changeset, listed, records, objects, mem, ctl, reaper, reruns>>

-----------------------------------------------------------------------------
Deploy == \/ CreateChangeSet \/ FindChangeSet \/ AwaitReview \/ Review \/ ExecuteChangeSet
          \/ AwaitStack \/ ValidateRuntime \/ TakeInventory \/ Use \/ RecordEvidence \/ Retain \/ BeginCleanup
SealRecords == SealId \/ SealStatus \/ Discover \/ FindBucket \/ PutJournal
Cleanup == \/ OwnResources \/ Resolve \/ CheckReview \/ DropChangeSet \/ DropShell \/ DeleteStack
           \/ AwaitDelete \/ SeeAbsence \/ DropRecords \/ PurgeObjects \/ BeginProof
Prove == SeeStacks \/ SeeHosts \/ SeeServices \/ SeeNames \/ SeeObjects \/ SeeVapi \/ SeeTagged
Reap == \/ ReapLoad \/ ReapLook \/ ReapReview \/ ReapDiscover \/ ReapDelete \/ ReapAwait
        \/ ReapRecords \/ ReapPurge
CloudFormation == SettleChangeSet \/ MakeResource \/ WriteRecords \/ StackMade
                  \/ DropResource \/ StackDropped
Aftermath == Land \/ Surface \/ Vanish \/ Pass

Next == \/ Deploy \/ SealRecords \/ Cleanup \/ Prove \/ Crash
        \/ Reap \/ Interrupt \/ CloudFormation \/ Aftermath

Spec == Init /\ [][Next]_vars

\* CloudFormation works on, time passes, and a reaper that was started goes on.
FairSpec == Spec /\ WF_vars(Reap) /\ WF_vars(CloudFormation) /\ WF_vars(Pass)

-----------------------------------------------------------------------------
(* Properties *)

\* "Seal exact public DNS ownership before deleting any stack resource": once the
\* certificate has left the stack, only a journal in S3 knows its records; through
\* failing calls, crashes, retention and the reaper they are never forgotten.
SealedBeforeDelete == records # {} /\ "cert" \notin listed => "journal" \in objects

\* A run that ends with the proof of zero resources has left no stack, record or
\* object, and nothing that it owned or tagged, not even what was out of sight for a
\* minute or was created by a call that had been given up.
CleanIsClean ==
  ctl.pc = "clean" =>
    /\ stack \in Gone /\ records = {} /\ objects = {}
    /\ \A r \in Tagged \cup Named \cup mem.inventory : live[r] \in {"none", "ended"}

\* The reaper has left no stack, no record and no object when it is done.
RecoveredIsClean == reaper.pc = "recovered" => stack \in Gone /\ records = {} /\ objects = {}

\* A stack whose creation failed is an "authorized cleanup state" of the reaper.
FailedIsReaped == reaper.pc = "refused" => stack # "failed"

\* Wherever the controller stopped after it had the records journaled, the reaper
\* brings the run to an end, unless CloudFormation cannot delete the stack.
JournaledIsRecovered ==
  (ctl.pc \in {"dead", "uncleaned"} /\ "journal" \in objects)
    ~> (reaper.pc = "recovered" \/ stack = "delete_failed")

=============================================================================
