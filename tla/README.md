# Formal models of the Bridgefu–Vapi–Amazon Connect recipe

This directory holds TLA+ models of the recipe, the TLC configurations that check
them on small instances, and theorems about them that TLAPS checks for every value
of the constants. Every definition translates code of this repository; `PROJECT.json`
names, for each, the file and the lines (`map`), and lists the runs, the mutants that
show each property can fail, the theorems, the findings and the hazards.

    tlc -config handoff.cfg MCHandoff.tla      # a run: cfg and module of PROJECT.json
    tlapm HandoffProofs.tla                    # the proofs of one module

## 1. The system

A Vapi voice assistant talks to a caller. When it hands over to a person, a Vapi tool
call stores the *screen-pop* values of the call in DynamoDB, Bridgefu (a SIP gateway on
EC2) is asked to reserve a SIP destination, Vapi dials it, Bridgefu places the call into
Amazon Connect, and Connect's contact flow looks the stored values up by the
correlation id the INVITE carried. CloudFormation deploys all that into a customer's
account. A qualification program deploys the recipe into a test account, has real calls
made through it, proves the scenario from evidence, and removes everything again; a
reaper finishes what a killed qualification run left. A release pipeline publishes only
what was qualified.

| Component | State | Operations | Talks to | Modelled in |
|---|---|---|---|---|
| handoff service (`lambda/prepare_handoff`, `transfer_destination`, `connect_lookup`, `common/bridgefu_handoff.py`, `aws_runtime.py`) | one DynamoDB item per correlation id, with TTL; reservations at Bridgefu | prepare, live-control transfer, transfer destination, lookup | Vapi (HTTP), Connect (invoke), DynamoDB, Bridgefu | `HandoffContract`, `Handoff` |
| direct handoff (direct route of `transfer_destination`; `controller.py`) | the session's item: MAPPED, PREPARED, RESERVED; the Bridgefu leg | issue, route, stage, tool call, inspect, clean up | Vapi, DynamoDB, Bridgefu | `DirectHandoff` |
| Vapi provisioning (`common/vapi_provisioning.py`, `vapi_provisioner`) | assistant, credential, tool in the customer's Vapi account; the physical resource id; the identity secret | Create, Update, Delete | CloudFormation, Vapi, Secrets Manager | `VapiProvisioning` |
| qualification transients (`controller.py`, `reap_qualification.sh`) | direct tool, assistant, phone; journals in S3; the controller's memory | provision, retry, clean up, retain, reap | Vapi, S3, Secrets Manager, CloudFormation | `Transients` |
| qualification run (`controller.py`, `release_safeguards.py`, `deployment_review.py`, `test_database_reset.py`) | change set, stack, ACM records, evidence | review, deploy, smokes, scenario, clean up, zero-state proof | CloudFormation, Route 53, S3, the tag index | `DeploymentReview`, `Deployment`, its end also in `Transients` |
| direct secure preflight (`direct_secure_preflight.py`, `controller.py`) | two programs on the host, their commands, `bridgefu.yaml` and its backup, the receipt | patch, probe, restore, cancel, judge, retain | Systems Manager, Bridgefu, S3 | `SecurePreflight` |
| endpoints and observers (`browser`, `sip-client`, `sdp-observer`, `direct-secure-probe`, Web runtime, demo site) | SIP dialogs, pages, captures | call, observe | Vapi, Bridgefu | – |
| diagnostics | traces | capture | Vapi | – |
| release pipeline, AMI cache, workflows | candidates, receipts, buckets, images | build, verify, publish, prune | S3, GitHub, EC2 | – |
| runtime image (bootstrap, certificate refresh and reload) | certificate files, the reload marker, running services | boot, refresh, reload | ACM, systemd | – |
| configuration resource, screen pop | none (pure) | validate, render | CloudFormation, Connect | – |
| templates, flows, publisher | none (declarations) | – | – | what the models need of them |

How the parts interact: Vapi's requests start Lambda invocations, which share the table
and Bridgefu and nothing else. The provisioner is called by CloudFormation with a
request that names a physical id, and binds the identity the handoff Lambdas will
accept. The controller calls the same Vapi API with objects of its own, points the
direct Lambda's identity secret at its assistant, and leaves journals in S3, through
which alone it speaks to the reaper.

What is hard:

* **Interleavings.** Lambda invocations for one call overlap: Vapi repeats a tool call
  it had no answer to, and asks for a transfer while a prepare is still under way. Reads,
  external calls and conditional updates of one invocation lie seconds apart.
* **Lost answers.** Every write to DynamoDB, Bridgefu, Vapi, Secrets Manager and S3 may
  have happened although its caller was told otherwise, or nothing.
* **Time.** Handoffs expire by a clock, DynamoDB deletes them much later or at once, and
  a clock read at the start of an invocation is compared with later facts.
* **Crashes.** Lambdas run out of time; the controller is cancelled; what remains has to
  be recognised by someone who remembers nothing.
* **Stale reads.** A list may not show a new object, a deleted one may come back; what a
  review has read may be something else by the time it is executed; a proof of absence is
  made of dozens of reads.
* **Two programs on one host.** A command that was given up may still run, beside the one
  that was sent to put its changes back.

What makes each component right is said by its properties, section 4. The hazards, each at
its line with the properties that cover it, are in `PROJECT.json`.

## 2. Modules

| Module | What it is |
|---|---|
| `HandoffContract` | the abstract promise to Connect: a book of entries opened once, never edited, closed only when expired; readers answered with the open entry |
| `Handoff` | the three Lambdas, the table, Bridgefu's reservations, the clock; implements `HandoffContract` (`Contract`) |
| `DirectHandoff` | the direct route of the transfer Lambda, the session's row, the controller around it |
| `VapiProvisioning` | the custom resource's Lambda, the Vapi account, CloudFormation's requests |
| `Transients` | the qualification's own objects at Vapi, their journals, the controller's cleanup, the reaper |
| `Deployment` | the change set and the stack of a run, the ACM records, the proof of zero resources, the reaper |
| `DeploymentReview` | the review of the nested change sets before they are executed |
| `SecurePreflight` | the probe and the cleanup program on the Bridgefu host, Systems Manager, the receipt |
| `MC*` | an instance module for TLC for each of these |
| `*Proofs` | the theorems about each, with their inductive invariants; for `VapiProvisioning` in two modules, `VapiProvisioningProofs` and, on it, `VapiOutcomeProofs` |

An operator whose comment begins with *Mutant* is no part of its model: it is a
plausible bug of the definition it names, kept so that the property next to it in
`PROJECT.json` ("mutants") can be shown to fail when the bug is put in.

### Handoff

`invocation[i]` is a running Lambda with a program counter; one step is one call to
DynamoDB or Bridgefu, or one reading of the clock with the checks that follow it.
`BeginPrepare`, `BeginTransfer`, `BeginLookup` are the handlers' entries, with the request
chosen freely. `PutPrepared` and `CompareExisting` are `put_prepared`: a conditional put,
then on failure a consistent read and the comparison of fingerprint, hash and status.
`GetRecord`, `CheckTransfer`, `Reserve`/`ReserveLost`, `MarkReserved` are
`transfer_destination`, in that order and with the clock read where the code reads it. The
tool that controls a live call (`prepare_handoff/handler.py`, `_reserve`) becomes a transfer
of the same invocation once its put has succeeded. `CheckLookup` is `connect_lookup`.
`Respond*` hand the answer to Vapi or Connect; `Abort` is a kill, a failed call or a lost
answer at any point. `DeleteExpired` is DynamoDB's TTL, at any time after expiry or never.
The histories `promise` and `dialed` say what Vapi was last told, and are dropped when they
no longer bind.

Abstracted: payloads are model values with the hash the code compares; the derivation of the
correlation id is a constant function that may map two calls to one id (`CorrelationOf`);
HTTP codes, schema versions and the fields the code never reads again (`updated_at`,
`bridgefu_call_id`, `attachment_expires_at`) are left out. Bridgefu is external: under one
idempotency key it answers with the live attachment it made before, and after expiry with
that or a new one.

### DirectHandoff

`control[s]` follows the controller through a session: token, route, staged row, smoke,
inspection of the row (`VerifyContext`), deletion and proof of absence. `row[s]` is the item,
`leg[s]` the Bridgefu leg it names. An invocation prepares (one conditional update,
compared with a clock read before), has the leg replaced (conflicts repeated up to
`MaxAttempts`, an answer lost in `ReplaceLost`) and marks the row. `moved` and `accepted`
record which handover moved the caller and which Vapi was told was accepted.

The check of the token lets clocks differ (`Skew`). The Vapi identity is not checked again in
the model: it admits more tool calls than the code.

### VapiProvisioning

`vapi` is the set of objects that bear the stack's names: its own and, at the start, those of
others. `fn` is the Lambda, one step per call to Vapi, Secrets Manager or CloudFormation;
`stack` is the custom resource as CloudFormation sees it, with one piece of history no guard
reads: which objects no list showed when the latest deletion was asked for (`unseen`). A lost create is followed by up to
three scans and one repetition (`PostLost`, `Reconcile`); a found object must be `Acceptable`;
deletion goes assistants, tools, credentials and ends in a scan by owner. `Raise` and
`Crash` stop the Lambda anywhere. CloudFormation delivers a request up to `MaxDeliveries` times,
gives up, updates, rolls back, replaces (a changed physical id leads to a Delete with the old
one, state "cleaning") and deletes. `lag` says whether lists may lag, `calm` whether failures
have ceased.

Abstracted: the client's own retries inside one PATCH or DELETE, of which only the outcomes are
kept; payloads down to the references between objects and one of two field schemas; requests
that have been answered are not delivered again; no two invocations run at once (the
Lambda's timeout is 240 s, CloudFormation's limit for one attempt 300 s). A deletion may follow
a failed creation at once, as a rollback does, while lists still miss what was created.

### Transients

`vapi[k]` says what Vapi has of the tool, the assistant and the phone: nothing, a POST that may
still take effect ("pending"), an object, or a deleted one that may be shown again ("hidden",
only where `flickers`). `journal[k]` are the entries in S3 (intent, request, owner), `mem` what
the controller remembers of ids, doubts and journals, lost in a crash. The controller provisions
(intent, request, POST, ownership), binds the identity, probes the phone and retries it, runs the
smokes, and after each runs `cleanup_sip_transients` and `cleanup_direct_assistant`; at the end
it runs both once more, deletes the stack and purges the journal, or retains everything. The
reaper reads the journals, seals what it finds, deletes phone, binding, assistant, tool and
stack, and purges.

Abstracted: the polling for one outcome is one step; the stack is one bit here, its deletion is
`Deployment`'s subject; the controller keeps only the newest phone's intent, as in the code. A
run that is retained is a local one, nobody's workflow passes `--retain-on-failure`, so it gets
no reaper. A secret written late, after its write failed, is left out.

### Deployment

One run's stack from `create_change_set` to the end. `stack`, `changeset`, `listed` and `live` are
what CloudFormation says and what is really there of each resource: a volume comes and goes
with its host (`Attached`), what the custom resource made at Vapi (`Vapi`) may be seen again
after its deletion (`Lingering`), and a tag index may still show what is gone. `records` are the
validation records ACM has CloudFormation write into Route 53, `objects` what is in S3, the
journal of the records among it. `mem` is what the controller remembers and a crash loses.

A call may fail, succeed without an answer, or be given up and take effect within
`SettleTicks` (`Doubt`, `Land`), of 30 seconds each. The actions follow `deploy` (create, find
again, review, execute, await, validate, inventory), `ensure_acm_validation_journal`
(`SealRecords`, also entered from cleanup and from retention), `cleanup` (what blocks it, the stack in
review taken apart by its change set and its shell, any other deleted, then records, then
objects) and `stable_zero_resource_proof` (`Prove`: seven kinds of reads in a row make one
observation, three empty ones in a row prove). `Crash` may come anywhere; then the reaper works from
the journal and CloudFormation (`Reap`), is interrupted and run again.

Abstracted: a walk over the nested stacks is one step; several hosts, volumes and names are one
of each kind; how the records' names are found in a certificate. The review is a coin here and
`DeploymentReview` is what it tosses. A rerun of the reaper begins when nothing can take effect any
more (the workflow starts it after the run has ended, which takes longer).

### DeploymentReview

`nest` is the sealed catalog, `sets` and `stacks` what CloudFormation has under each id. The review
(`review_create_change_set`) walks breadth first with a queue, one read per step: the
description of a change set (`Take`), its template, the description of each child, the child's
stack. `Change` makes anything under any id something else between two reads: a link to the
parent or the root, a status, a template, a child. `missed` says that this happened to something
after its last read, which no review by reading can notice.

Abstracted: a template is its number and the set it nests; the parameters, tags, role and
capabilities of the invocation are one bit (`invoked`); what a change set holds besides additions
is `odd`.

### SecurePreflight

`host` is the instance: `bridgefu.yaml` (original, patched, cut off in a copy, or a whole copy of a
backup that was cut off), its backup, the run's directory, the service, the calling process.
`probe` and `clean` are the two programs that `direct_secure_preflight.py` writes out, a program
counter each, one step per command that changes something; the probe's exit trap is
`StopOwned` to `AwaitRestored`. A copy has a beginning and an end, and may be cut off in between.
`cmd` are their commands at Systems Manager: lost, delivered, given up, cancelled (the program told
to end, or killed), reported late. `ctl` is `run_direct_secure_preflight` and what `run` does
with its result: observer, upload, send, wait, cancel, receipt, purge, evidence, retention.
Whatever goes wrong is counted in `faults`; nothing else bounds the model.

Assumed: Bridgefu does not come up on a file that is cut off; a terminal status means that the
script does not run any more (the process it started may); the CLI does not repeat a
send-command; a run that is neither kept nor goes on is destroyed with its host.
The contents of the SIP and TLS evidence are one verdict (`JudgeEvidence`).

## 3. Runs

| Run | Question | Size |
|---|---|---|
| `handoff` | two concurrent invocations, of one call with two contents or of two calls under one correlation id: `PreparedIsKept`, `DialedHasContext`, `OneLiveReservation`, and `Contract` (refinement) | 2.3 M states |
| `handoff_expired_ack` | a prepare repeated after expiry is acknowledged (violation) | – |
| `direct_repeats` | three tool calls of two Vapi calls and two contents for one session: `MovedHasContext`, `AcceptedWasMoved`, `CleanStaysGone` | 0.4 M |
| `vapi` | new stack, with objects of others or without, and a stack of the first release; lists prompt or lagging; failures that cease or not: `AtMostOne`, `PromptNothingOutlives`, `OnlyInertOutlive`, `CompleteIsReady`, `ForeignUntouched`, `DeletionConverges` | 2.9 M |
| `vapi_leak` | a duplicate tool outlives the stack, though lists show it (violation) | – |
| `transients` | both smokes, a crash anywhere, a reaper interrupted twice, deleted objects that stay deleted or come back: `CleanIsClean`, `PostsOntoNothing`, `WriteAhead`, `NothingDangles`, `WholeIsRecovered` | 116 k |
| `deployment` | change set to proof or reaper, calls in doubt, resources seen again, a crash anywhere: `SealedBeforeDelete`, `CleanIsClean`, `RecoveredIsClean`, `JournaledIsRecovered` | 0.77 M |
| `late_execution` | an execution given up takes effect during the cleanup (violation) | – |
| `reap_failed` | the reaper refuses a stack that failed without a certificate (violation) | – |
| `review` | the walk over four catalogs while two pieces change: `PassedIsSealed`, `RefusedIsNotSealed`, `ReviewEnds` | 0.97 M |
| `preflight` | the two programs, their commands and the controller with three faults: `PassedIsRestored`, `KeptIsQuiet`, `BackupIsKept`, `FaultFreePasses` | 0.69 M |
| `torn_backup` | a backup that was cut off is restored (violation) | – |

### Bounds, and why they suffice

* `handoff`: `MaxTime` 2 with `Ttl` 2 and `AttachmentTtl` 1: a handoff is prepared, expires, is
  deleted and is prepared again, with a clock read anywhere in between; a reservation runs out within one
  transfer. Two invocations at once, of any kind, in slots used again and again: every property is
  about one row and what one or two invocations know of it, and crashed or answered invocations make
  room for further ones. `direct_repeats`: three invocations (a first, its repetition, a rival),
  `MaxAttempts` 2 for 5 in the code. The theorems remove these bounds.
* `vapi`: `MaxObjects` 4 is one complete set and a duplicate, or the set of a first-release
  stack and one more; a Create at the bound fails, as Vapi may let it fail anyway. `MaxDeliveries` 2 is a
  request and its repetition, `MaxEvents` 2 an update and a deletion after the first creation, or a
  rollback and a deletion. Failures cease between two requests only: what an invocation did until then it
  may do without their ceasing as well. `vapi_leak` has no first-release stack and `MaxObjects` 6.
* `transients`: `MaxAttempts` 2 phones for 3, one retry shows what a retry can meet. `MaxReruns` 2, here
  and in `deployment`: the reaper is stopped, and what it left is stopped again.
* `deployment`: `SettleTicks` 2 are the two pauses between the three observations of the
  code: anything that comes to light within a minute. With a third tick the proof would not hold, and nothing
  in the code says it should. `MaxRounds` 5 lets two observations fail before three succeed. One
  resource of each kind, two record names. A late execution is not allowed here but has its own run.
* `review`: three templates in every shape that differs (a chain, a fork, one nested twice, one
  nested nowhere), two changes: one that spoils and one that hides it. `MaxDepth` 2 is the chain's depth.
* `preflight`: three faults: one that leaves the patch in place, one that disturbs its
  restoration, one in the report of either.
* Symmetry over contents, calls and invocations is used where no liveness property is checked.

### Fairness

* `VapiProvisioning!FairSpec`: a running Lambda goes on (`WF(Work)`), and CloudFormation
  delivers what it has asked for (`WF(Deliver)`). `DeletionConverges` assumes besides that
  failures cease (`calm`), not when.
* `Transients!FairSpec`, `Deployment!FairSpec`: a reaper that was started goes on unless it is interrupted
  (`WF(Reap)`); the workflow starts it after every run that did not succeed, and interruptions are bounded by
  `MaxReruns`. In `Deployment` also CloudFormation works on (`WF(CloudFormation)`) and time passes (`WF(Pass)`). Nothing is
  assumed of the controller: the properties speak of runs that are over.
* `DeploymentReview!FairSpec`: the review reads on (`WF(Read)`); it is a loop of calls with timeouts.
* `SecurePreflight!FairSpec`: the programs run on once started, Systems Manager delivers and
  reports, and the controller, which is one thread, never stands still.

The other specifications state no fairness, their properties are safety properties. Deadlock
is checked except where the system really stops: a session, a qualification run, a
review or a preflight is over.

## 4. What the checks show

*Handoff.* What Vapi was told is prepared stays in the table unchanged until it expires
(`PreparedIsKept`); a caller who is dialled through finds the reserved context of his own call
(`DialedHasContext`), although the transfer read the item seconds before it marked it: an item
that was live can only have been replaced after its expiry. Duplicate transfers share one
attachment (`OneLiveReservation`). To Connect the service is a book of entries (`Contract`).

*Direct handoff.* However many tool calls compete for a token, the one that moves the caller is
the one whose values the agent sees (`MovedHasContext`), nobody else is told "accepted"
(`AcceptedWasMoved`), and no late invocation revives a row the controller has removed
(`CleanStaysGone`).

*Provisioning.* One object of each kind at most (`AtMostOne`), and none left behind
(`PromptNothingOutlives`), while lists are prompt. With lists that lag, duplicates are possible, and a
deletion leaves what no list showed when it was asked for; of all else it leaves only tools, and a credential such a
tool refers to is gone, or is one that no list showed either (`OnlyInertOutlive`). A complete resource is wired up, has the template's schema and is bound,
whatever updates it has been through (`CompleteIsReady`);
objects of others are never touched (`ForeignUntouched`); a deletion comes through once failures
cease, from every intermediate state (`DeletionConverges`).

*Transients.* No object exists that the journal does not announce (`WriteAhead`), through
crashes and recoveries; nothing is deleted while something refers to it (`NothingDangles`); a
run that ends clean, or is retained, is clean though deleted objects flicker
(`CleanIsClean`); no phone meets its predecessor (`PostsOntoNothing`); every whole journal of a
run that ended before the SIP smoke is recovered (`WholeIsRecovered`).

*Deployment.* Once the certificate has left the stack its validation records are in the journal as long
as they exist (`SealedBeforeDelete`); three empty observations mean that nothing is left that the run
owned or tagged, even with resources that are out of sight for a minute and a creation
that takes effect late (`CleanIsClean`); what the reaper calls recovered is (`RecoveredIsClean`), and it gets there from
every run that has its records journaled (`JournaledIsRecovered`).

*Review.* A review by one pass of reads approves the sealed catalog and only that, unless something changes after
its last read (`PassedIsSealed`); it refuses nothing that was sealed all along
(`RefusedIsNotSealed`); and no hierarchy, looped or shared, keeps it from ending (`ReviewEnds`).

*Preflight.* A restoration the controller takes for proven is one, and stays one
(`PassedIsRestored`): what makes it so is that the receipt wants both commands known to have ended, not only
the five facts, since a program that was given up may run later. What goes on to the smokes or is kept is a host
nothing will touch again (`KeptIsQuiet`). As long as one program is about at a time, a patched file has the whole
original beside it; that does not say that the original can always be put back: a backup that was cut off while it
was copied is restored all the same, and with that the original is lost (`BackupIsKept` allows this, `torn_backup`
shows it). Without faults the preflight passes (`FaultFreePasses`).

### Disagreements

| Run | Disagreement |
|---|---|
| `handoff_expired_ack` | `put_prepared` takes an expired item TTL has not deleted for a replay and does not renew it: the prepare is acknowledged, the transfer refused |
| `vapi_leak` | the scan that ends a deletion recognises tools by credentials already deleted, so a duplicate tool outlives the stack |
| `late_execution` | an execution that was answered with an error and takes effect between the look at the stack in review and its deletion leaves records no journal knows |
| `reap_failed` | the reaper's branch for a stack that failed without a certificate tests a status that was overwritten, and refuses |
| `torn_backup` | the backup is copied under its final name; one that was cut off is "restored" over the original and compares equal |

Others were met while modelling and have no run of their own.

* *Replaced stack.* An update returns a physical id of the new form for a first-release
  stack (`vapi_provisioning.py:905`); CloudFormation's clean-up of the old id then deletes the objects the
  stack goes on using (`runbooks/vapi-provisioning.md:41`). `VapiProvisioning` has the
  behaviour (state "cleaning"); `CompleteIsReady` exempts it.
* *Rollback before lists catch up.* A Create that ends unresolved (`vapi_provisioning.py:470`) is
  rolled back at once by a Delete with the pending id, which deletes what its one scan by owner shows
  (`vapi_provisioning.py:913`) and is answered SUCCESS. An object of a lost POST which that list does not
  show yet, a credential for one, outlives the stack, and so may a tool that refers to it. `OnlyInertOutlive`
  exempts just these.
* *Reaping the SIP smoke.* After the Web smoke the journals of the direct objects remain, and
  the reaper expects the SIP smoke's phone to name the direct assistant (`reap_qualification.sh:1137`).
* *Reaping half a journal.* A phone's journal is removed ownership first (`controller.py:6618`); a stop
  after that leaves a request the reaper can never prove absent (`reap_qualification.sh:1197`). `WholeIsRecovered`
  exempts this and the previous one.
* A repeated direct tool call takes the row back from RESERVED to PREPARED
  (`aws_runtime.py:410`), so that a handover that worked may fail the controller's inspection
  (phase "mismatch" of `DirectHandoff`).
* After a failed put of the assistant's ownership entry the controller deletes the assistant by its id
  but never clears the doubt about it (`controller.py:5828`), and holds the tool back until the reaper comes.
* The reaper takes one 404 for final (`reap_qualification.sh:1286`), where the controller
  insists on stable absence (`controller.py:2150`): an object that flickers may come back after its journal is gone.
* An inventory taken in the cleanup while the stack is still being created holds what is there
  at that moment; a resource that is made later, bears no tag and lingers after its deletion is looked for by nobody.
  `CleanIsClean` therefore speaks of what is owned, named or tagged.
* The proof's look at tagged resources, and the check after an unexecuted hierarchy is deleted, probe stacks by their full
  ids, under which CloudFormation keeps deleted stacks for 90 days.
* The cleanup program ignores whether its `systemctl restart` succeeds
  (`direct_secure_preflight.py:997`) and goes by the health check that follows.

## 5. What is proved

Eight modules of theorems, checked by TLAPS, each for every value of its constants under the named
assumptions of its model (`ConstantsAssumption`, `NoneAssumption`, `TransientsAssumption` and so on: lifetimes
positive, `None` distinct from what it replaces, sets of resources that fit together). None of the bounds of section 3 is an assumption,
except where one is part of the code (`MaxDepth`). Each proof has an inductive invariant `IInv` (checked by
TLC before it was proved), a theorem `Invariance`, one lemma for each action or group of actions, and the
properties as corollaries.

`HandoffProofs`

* `Invariance`: `PreparedIsKept` is not inductive: it needs to know what
  invocations that will answer have read, so `IInv` says of every invocation that what it has
  seen is still in the table until it expires (`ReadStays`), that it will answer about its own
  call's item only (`OwnItem`), which fields belong to which program point (`Shape`), and that
  what a lookup could have read on arrival it still can (`ArrivedStays`). These parts speak of one
  invocation, the table and the clock; lemma `Evolution` says that any step changes the table in
  one of four ways (a put into an empty place, a mark, a removal after expiry, nothing) each of
  which keeps them, and so disposes of all invocations that do not move. One lemma per action
  deals with the one that does.
* `TypeCorrect`, `PreparedStays`, `DialedFindsContext` follow from it.
* `ReservedOnce`: duplicate transfers share one live attachment.
* `ImplementsContract`: `Spec => Contract`, by the refinement mapping in `Handoff` (the table is
  the book, a lookup a reader that is answered when it reads the clock).

`DirectHandoffProofs`

* `Invariance`: a session's handovers past the conditional update (the row's, those of the
  invocations about to replace, mark or answer, the one that moved the caller) agree
  pairwise: once values are stored, the condition lets only the same values of the same call
  through. This is what `MovedHasContext` and `AcceptedWasMoved` need in every state before.
* `TypeCorrect`, `MovedFindsContext`, `AcceptedMoved`, `CleanStays`.

`VapiProvisioningProofs`, for any number of objects, deliveries and events

* `Invariance`: the stack's objects have ids that were given out to it and those of others refer to
  none of its (`WorldInv`); what a running invocation, its list of doomed objects, and CloudFormation's physical id hold
  are ids of the stack (`Sound`, `StackInv`); where lists are prompt there is one object of a kind (`PromptInv`), and
  at the point of a creation there is none (`AbsentInv`), which is what makes the repetition of a lost
  create safe.
* `TypeCorrect`, `ForeignStays`, `OneOfAKind`.

`VapiOutcomeProofs`, under the same assumptions

* `Outcome`: what CloudFormation is told must follow from what each earlier request has left, wherever it was broken
  off. `OInv` says it in parts. Every id that is kept, in an object, an invocation or a physical id, was given out, and to
  an object of that kind if there still is one (`Was`), so nothing is found under it but what is meant (`ObjectRefs`,
  `StackRefs`, `FnRefs`). Which request is running, and which form the physical id has, follows from the state of the custom
  resource (`FormInv`, `RequestInv`). A creation has wired up what it has passed (`CreateInv`); an update acts on the objects of the
  physical id (`UpdateInv`); a deletion is going to delete all that
  its scans can find: what lists showed when it was asked for they still show (`Shown`, `DeleteInv`). The part that no single
  step shows is `ToolInv`: where lists are prompt, a tool without a physical id naming it has its credential still,
  because credentials go last, so an interrupted deletion can find it again by that credential.
* `DeletedIsGone`, `LeftIsInert` (which needs no assumption about lists, and promises nothing of what none of them showed when
  the deletion was asked for) and `CompleteWorks`. The last rests on `ReadyInv`: what was ready stays so
  through updates that fail, are rolled back or are broken off anywhere, since an update changes only what it has
  confirmed, to what it was.

`TransientsProofs`, for one smoke or two, any number of phones and reruns

* `Invariance`: the invariant has two parts. `ControllerInv` says what the controller knows, and needs
  no assumption about Vapi: while it runs it is aware of whatever may exist, by an id or as a POST
  in doubt (`Awareness`), what comes later in a run has not begun (`Unbegun`), the phone's journal and the
  direct objects are touched only when there is no phone (`Cleared`), a bound identity counts as
  installed (`Bound`). None of `CleanIsClean` and `PostsOntoNothing` is inductive without it: the
  controller concludes from what it remembers that nothing is there.
  `RecoveryInv` holds where deleted objects stay deleted (`~flickers`): the entries of what may exist are
  complete, ownership is journaled only of what has been seen (`Unowned`), the reaper has sealed
  whatever was requested before it deletes anything, and what it has passed is gone
  (`Reaped`), and what an object under way will refer to is there (`Supported`).
* `TypeCorrect`, `CleanRuns`, `PostsAlone`, and `WritesAhead` and `LeavesNoneDangling`, whose properties
  speak of behaviours in which deleted objects stay deleted.

`DeploymentProofs`, for any resources, names, observations and reruns

* `Invariance`: the certificate goes only when its records are journaled or there are none and will be
  none (`Safe`, `WorldInv`); whenever the controller takes the records for sealed they are, and it reaches a
  deletion on no other way (`ControllerInv`); the reaper knows of a journal if there is one, and every point it has passed
  is behind it (`ReaperInv`). The invariant holds under the hypothesis `Prompt`: no execution takes effect after it was
  given up. `late_execution` shows that without it `SealedBeforeDelete` fails.
* `TypeCorrect` without that hypothesis; `SealedFirst` and `RecoveredClean` under it.
* `CleanRuns` under it and under `Brief`: nothing stays out of sight for longer than the two pauses between the proof's three
  observations. `CInv` weighs one against the other: in the proof the ticks that are left and the empty observations
  are two at most (`ProvingInv`), so what the third observation does not see is not hidden either (`NotSeen`); before it, a
  controller that has objects, records or a stack left knows that it has (`EndInv`).

`DeploymentReviewProofs`, for any set of templates, any catalog, any depth and any number of changes

* `Invariance`: the walk knows each template, change set and stack once and through its parent
  (`WalkInv`), and what it has read of each is what is there as long as it missed no change (`SoundInv`). At the end
  the places of the walk are the witness that what is there is the sealed catalog.
* `TypeCorrect`, `PassedSealed`.
* `RefusedUnsealed`, the converse, takes a place at which the sealed catalog is and shows that the walk is in it: what
  it has met is where the catalog has it (`InPlace`), it meets nothing twice (`OnceInv`), and so no read of it can be refused, except
  for the depth. A template the walk has not met when its queue is empty is nested in circles (`Unreached`). There the depth
  has no bound, which takes an induction over depths; lemma `Climbs` makes it one about finite sets (a set that holds 0, and
  every successor below m, holds m, or counting on would be an injection of it into less than itself).

`SecurePreflightProofs`, for any number of faults

* `Invariance`: a program runs only while its command is under way (`CommandInv`); the controller asks for the
  cleanup when it has concluded about the probe, and what it concludes is so (`ControllerInv`); while no second program
  is about (`Alone`) the probe's way to a patched file leads over a whole copy of the original, so that only
  a copy cut off before the patch can end in the original's loss (`ProbeInv`, `BackupKept`); and what
  the cleanup program has found stays so once the probe's command has ended (`CleanInv`).
* `TypeCorrect`, `PassedRestored`, `KeptQuiet`, `BackupKept`.

*Only model-checked.* All liveness (`DeletionConverges`, `WholeIsRecovered`, `JournaledIsRecovered`, `ReviewEnds`,
`FaultFreePasses`), which with fairness and ENABLED is out of the prover's reach.
Every other property of the runs is stated by a theorem, `CleanIsClean` of `Deployment` for `SettleTicks` up to 2 (with 3 it is
false: something may surface after the last observation). The five disagreements are counterexamples, found by TLC.

## 6. Not modelled

* **Certificate refresh and reload** (`image/runtime`). What goes wrong is decided by which file HAProxy, Bridgefu and systemd read when,
  which is not in this repository; a model would assume what it is to show. From the order of the scripts:
  - certificate, key and HAProxy's bundle are renamed one after the other (`bridgefu-cert-refresh:59`); a reload or
    restart in between pairs a new certificate with an old key. The next refresh repairs a stop between the first two
    renames;
  - it does not repair a later one: whether anything changed is read off the first two files (`bridgefu-cert-refresh:48`),
    so after a kill, or a failing `haproxy -c`, behind their renames the next refresh finds nothing changed, reloads
    nothing and sets no marker, and HAProxy and the running Bridgefu keep the old certificate;
  - a reload that removes the marker (`bridgefu-cert-reload:30`) after a newer refresh has touched it forgets that refresh;
  - active routes are counted, then Bridgefu is restarted (`bridgefu-cert-reload:27`): a call that begins in between is cut
    off, although `bridgefu-cert-refresh.service:2` says "without interrupting active calls".
* Bootstrap and configuration of the instance: one pass at boot.
* The scenario's verification, the contents of evidence and receipts, the database reset: comparisons of documents, and one
  sequence of statements without a second actor.
* Browser and SIP endpoints, observers, Web runtime, diagnostics: their state is a dialog, a page or a capture.
* The release pipeline, the AMI cache and the order of workflow jobs: one-shot comparisons, and what GitHub decides. Only that
  the reaper starts after a run that did not succeed, and never beside the controller, is used.
* Screen-pop validation, configuration resource and rendered flows: pure functions.
* Secret caching in warm Lambdas, HTTP parsing and response size limits.
* In `VapiProvisioning`, two deliveries of one request that overlap in time, and a Create that is delivered again after it was
  answered.

## 7. Plan

What would come next, in this order:

1. The abstract promise of the custom resource to CloudFormation (a resource that is absent, ready, or in doubt), as a
   specification of its own, and `VapiProvisioning` shown to implement it: `OInv` is the invariant that needs.
2. `Deployment` and `Transients` composed: the cleanup of one blocks the other (`blocked`), which each has as a free choice.
3. `ScreenPop`: the values from the tool call to the agent's screen as an operator, checked against
   the documented promise over bounded inputs, with the choice field used for routing.
4. `Release`: the order of candidate, qualification, reaper and publication, with the AMI cache.
