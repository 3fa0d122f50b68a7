------------------------------ MODULE Transients ------------------------------
(***************************************************************************)
(* The Vapi objects a qualification run creates for itself: a direct tool, *)
(* a direct assistant that uses the tool, and a phone number that answers  *)
(* with an assistant. Each must be gone when the run is over, whatever     *)
(* failed and wherever the controller was killed.                          *)
(*                                                                         *)
(* Before a POST the controller writes an intent and then a request entry  *)
(* to a journal in S3, after it an ownership entry. It cleans up after     *)
(* each smoke and once more at the end, and empties the journal only when  *)
(* nothing is left. If the run did not succeed, a reaper works through the *)
(* journal it finds.                                                       *)
(*                                                                         *)
(* One step is one call to Vapi, S3, Secrets Manager or CloudFormation,    *)
(* with the polling for one outcome taken together.                        *)
(***************************************************************************)
EXTENDS Naturals, FiniteSets

CONSTANTS
  SipSmoke,      \* does the SIP smoke follow the Web smoke?
  Flickers,      \* BOOLEAN, or what of it: may Vapi show a deleted object again?
  MaxReruns,     \* bound: how often the reaper is interrupted, and run again
  MaxAttempts    \* how often a phone is provisioned for a smoke: 3 in the code

ASSUME TransientsAssumption ==
  /\ SipSmoke \in BOOLEAN /\ Flickers \subseteq BOOLEAN
  /\ MaxReruns \in Nat
  /\ MaxAttempts \in Nat \ {0}

VARIABLES
  flickers,   \* may it in this run?
  vapi,       \* what Vapi has of each transient
  callee,     \* the assistant the phone's intent names
  binding,    \* the identity the direct handoff Lambda accepts
  stack,      \* does the qualification stack exist?
  journal,    \* the entries in S3 about each transient
  mem,        \* what the controller remembers
  ctl,        \* where the controller is
  reaper,     \* where the reaper is
  reruns      \* how often it has been run again

vars == <<flickers, vapi, callee, binding, stack, journal, mem, ctl, reaper, reruns>>

-----------------------------------------------------------------------------
(* Types *)

Direct == {"tool", "assistant"}
Kinds == Direct \cup {"phone"}
Entries == {"intent", "request", "owner"}

\* "pending": posted, and will appear or not. "hidden": deleted, and may reappear.
Presence == {"none", "pending", "there", "hidden"}

\* known: the ids; doubtful: *_creation_ambiguous; wanted: the phone's intent and
\* the desired direct payloads; filed: the *_journal_object fields; required:
\* direct_vapi_cleanup_required; installed: direct_identity_binding_installed.
Memory == [known : SUBSET Kinds, doubtful : SUBSET Kinds, wanted : SUBSET Kinds,
           filed : [Kinds -> SUBSET Entries], required : BOOLEAN, installed : BOOLEAN]

Forgotten == [known |-> {}, doubtful |-> {}, wanted |-> {},
              filed |-> [k \in Kinds |-> {}], required |-> FALSE, installed |-> FALSE]

Over == {"clean", "blocked", "retained", "dead"}
PC == {"intent", "request", "post", "seal", "bind", "probe", "use", "find_phone",
       "delete_phone", "rm_owner", "rm_request", "rm_intent", "unbind",
       "drop_assistant", "drop_tool", "prove_absent", "decide", "stack", "purge"} \cup Over

\* kind: what is being provisioned; pass: who runs the cleanup; failed: the run has
\* an error; errors: this cleanup has one; tool: cleanup_direct_assistant's tool_id
\* was known.
Control == [pc : PC, kind : Kinds, smoke : {"web", "sip"},
            pass : {"retry", "smoke", "final"}, attempt : 1..MaxAttempts,
            failed : BOOLEAN, errors : BOOLEAN, tool : BOOLEAN]

ReaperPC == {"off", "seal_tool", "seal_assistant", "seal_phone", "drop_phone", "unbind",
             "drop_assistant", "drop_tool", "stack", "purge", "refused", "recovered"}

TypeOK ==
  /\ vapi \in [Kinds -> Presence]
  /\ callee \in {"direct", "product"}
  /\ binding \in {"unbound", "direct"}
  /\ stack \in BOOLEAN
  /\ journal \in [Kinds -> SUBSET Entries]
  /\ mem \in Memory
  /\ ctl \in Control
  /\ reaper \in ReaperPC
  /\ reruns \in 0..MaxReruns
  /\ flickers \in BOOLEAN

Init ==
  /\ vapi = [k \in Kinds |-> "none"]
  /\ callee = "direct"
  /\ binding = "unbound"
  /\ stack = TRUE
  /\ journal = [k \in Kinds |-> {}]
  /\ mem = Forgotten
  /\ ctl = [pc |-> "intent", kind |-> "tool", smoke |-> "web", pass |-> "smoke",
            attempt |-> 1, failed |-> FALSE, errors |-> FALSE, tool |-> FALSE]
  /\ reaper = "off"
  /\ reruns = 0
  /\ flickers \in Flickers

-----------------------------------------------------------------------------
(* Calls. A write that fails may have been made; a DELETE that fails too. *)

Put(k, e, ok) ==
  \E kept \in BOOLEAN :
    /\ ok => kept
    /\ journal' = IF kept THEN [journal EXCEPT ![k] = @ \cup {e}] ELSE journal
    /\ UNCHANGED flickers

RemoveEntry(k, e, ok) ==
  \E kept \in BOOLEAN :
    /\ ok => ~kept
    /\ journal' = IF kept THEN journal ELSE [journal EXCEPT ![k] = @ \ {e}]

Deleted == IF flickers THEN "hidden" ELSE "none"

\* Mutant: one 404 proves absence.
AbsentOnce(k) == vapi' = [vapi EXCEPT ![k] = Deleted]

\* The controller deletes until the object has stayed away for a while.
Absent(k) == vapi' = [vapi EXCEPT ![k] = "none"]
DeleteOwned(k, ok) ==
  IF ok THEN Absent(k)
  ELSE vapi' \in {vapi, [vapi EXCEPT ![k] = Deleted]}

-----------------------------------------------------------------------------
(* The controller provisions *)

At(pc) == ctl.pc = pc
Goto(pc) == [ctl EXCEPT !.pc = pc]

\* An exception ends the smoke; its cleanup starts with the phone.
Failing == [ctl EXCEPT !.pc = "find_phone", !.pass = "smoke", !.failed = TRUE]
Proceed(ok, pc) == ctl' = IF ok THEN Goto(pc) ELSE Failing
Provision(k) == [ctl EXCEPT !.pc = "intent", !.kind = k]

PhoneRecovery ==
  \/ "phone" \in mem.known \cup mem.wanted \cup mem.doubtful
  \/ mem.filed["phone"] # {}

WriteIntent ==
  /\ At("intent")
  /\ LET k == ctl.kind IN
     \E ok \in BOOLEAN :
       /\ Put(k, "intent", ok)
       /\ mem' = [mem EXCEPT !.wanted = @ \cup {k},
                             !.filed[k] = IF ok THEN @ \cup {"intent"} ELSE @,
                             !.required = @ \/ (ok /\ k = "tool")]
       /\ callee' = IF k = "phone" /\ ctl.smoke = "sip" THEN "product" ELSE "direct"
       /\ Proceed(ok, "request")
  /\ UNCHANGED <<vapi, binding, stack, reaper, reruns>>

WriteRequest ==
  /\ At("request")
  /\ LET k == ctl.kind IN
     \E ok \in BOOLEAN :
       /\ Put(k, "request", ok)
       /\ mem' = IF ok THEN [mem EXCEPT !.filed[k] = @ \cup {"request"},
                                        !.doubtful = @ \cup {k}]
                 ELSE mem
       /\ Proceed(ok, "post")
  /\ UNCHANGED <<vapi, callee, binding, stack, reaper, reruns>>

\* The object is created, or found after an answer was lost, and verified.
Post ==
  /\ At("post")
  /\ vapi' = [vapi EXCEPT ![ctl.kind] = "there"]
  /\ mem' = [mem EXCEPT !.known = @ \cup {ctl.kind}]
  /\ ctl' = Goto("seal")
  /\ UNCHANGED <<callee, binding, stack, journal, reaper, reruns, flickers>>

\* The POST was refused, or never answered and not reconciled, or its outcome not
\* verified: there may or may not be an object, now or later.
PostFailed ==
  /\ At("post")
  /\ \E p \in {"none", "pending", "there"} : vapi' = [vapi EXCEPT ![ctl.kind] = p]
  /\ ctl' = Failing
  /\ UNCHANGED <<callee, binding, stack, journal, mem, reaper, reruns, flickers>>

\* The phone's journal object is remembered even if its put fails.
Seal ==
  /\ At("seal")
  /\ LET k == ctl.kind IN
     \E ok \in BOOLEAN :
       /\ Put(k, "owner", ok)
       /\ mem' = [mem EXCEPT !.filed[k] = IF ok \/ k = "phone" THEN @ \cup {"owner"} ELSE @,
                             !.doubtful = IF ok THEN @ \ {k} ELSE @]
       /\ ctl' = IF ~ok THEN Failing
                 ELSE CASE k = "tool" -> Provision("assistant")
                        [] k = "assistant" -> Goto("bind")
                        [] k = "phone" -> Goto("probe")
  /\ UNCHANGED <<vapi, callee, binding, stack, reaper, reruns>>

\* The binding counts as installed before it is written.
Bind ==
  /\ At("bind")
  /\ mem' = [mem EXCEPT !.installed = TRUE]
  /\ \E ok \in BOOLEAN :
       /\ binding' \in IF ok THEN {"direct"} ELSE {binding, "direct"}
       /\ ctl' = IF ok THEN Provision("phone") ELSE Failing
  /\ UNCHANGED <<vapi, callee, stack, journal, reaper, reruns, flickers>>

\* The phone answers a SIP probe, or another phone is tried, or it never gets active.
Probe ==
  /\ At("probe")
  /\ ctl' \in {Goto("use"), Failing, [Goto("find_phone") EXCEPT !.pass = "retry"]}
  /\ UNCHANGED <<vapi, callee, binding, stack, journal, mem, reaper, reruns, flickers>>

\* The smoke itself, which fails or not, and in any event is cleaned up after.
Use ==
  /\ At("use")
  /\ \E failed \in BOOLEAN :
       ctl' = [ctl EXCEPT !.pc = "find_phone", !.pass = "smoke", !.failed = failed]
  /\ UNCHANGED <<vapi, callee, binding, stack, journal, mem, reaper, reruns, flickers>>

-----------------------------------------------------------------------------
(* cleanup_sip_transients *)

\* Mutant: one attempt too many.
AfterPhoneOnceMore(errors) ==
  CASE ctl.pass = "retry" ->
         IF errors \/ ctl.attempt > MaxAttempts THEN Failing
         ELSE [Provision("phone") EXCEPT !.attempt = @ + 1]
    [] ctl.pass = "smoke" /\ ctl.smoke = "sip" ->
         [ctl EXCEPT !.pc = "decide", !.failed = @ \/ errors, !.errors = FALSE]
    [] OTHER -> [ctl EXCEPT !.pc = "unbind", !.errors = errors]

\* Mutant: the next attempt does not wait for the last phone to be gone.
AfterPhoneAnyway(errors) ==
  CASE ctl.pass = "retry" ->
         IF ctl.attempt = MaxAttempts THEN Failing
         ELSE [Provision("phone") EXCEPT !.attempt = @ + 1]
    [] ctl.pass = "smoke" /\ ctl.smoke = "sip" ->
         [ctl EXCEPT !.pc = "decide", !.failed = @ \/ errors, !.errors = FALSE]
    [] OTHER -> [ctl EXCEPT !.pc = "unbind", !.errors = errors]

\* Where the cleanup of the phone goes on, and with what error.
AfterPhone(errors) ==
  CASE ctl.pass = "retry" ->
         IF errors \/ ctl.attempt = MaxAttempts THEN Failing
         ELSE [Provision("phone") EXCEPT !.attempt = @ + 1]
    [] ctl.pass = "smoke" /\ ctl.smoke = "sip" ->
         [ctl EXCEPT !.pc = "decide", !.failed = @ \/ errors, !.errors = FALSE]
    [] OTHER -> [ctl EXCEPT !.pc = "unbind", !.errors = errors]

FindPhone ==
  /\ At("find_phone")
  /\ IF "phone" \notin mem.wanted
     THEN ctl' = AfterPhone(FALSE) /\ UNCHANGED <<journal, mem, flickers>>
     ELSE IF "phone" \in mem.known
     THEN ctl' = Goto("delete_phone") /\ UNCHANGED <<journal, mem, flickers>>
     ELSE \/ /\ vapi["phone"] = "there"
             /\ \E ok \in BOOLEAN :
                  /\ Put("phone", "owner", ok)
                  /\ mem' = [mem EXCEPT !.known = @ \cup {"phone"},
                                        !.filed["phone"] = @ \cup {"owner"}]
                  /\ ctl' = IF ok THEN Goto("delete_phone") ELSE AfterPhone(TRUE)
          \/ /\ vapi["phone"] # "there"
             /\ IF "phone" \in mem.doubtful \/ "request" \in mem.filed["phone"]
                THEN ctl' = AfterPhone(TRUE)
                ELSE ctl' = Goto("rm_owner")
             /\ UNCHANGED <<journal, mem, flickers>>
          \/ /\ ctl' = AfterPhone(TRUE)
             /\ UNCHANGED <<journal, mem, flickers>>
  /\ UNCHANGED <<vapi, callee, binding, stack, reaper, reruns>>

\* Mutant: the journal is cleared although the phone was not deleted.
DeletePhoneAndGoOn ==
  /\ At("delete_phone")
  /\ \E ok \in BOOLEAN :
       /\ DeleteOwned("phone", ok)
       /\ mem' = [mem EXCEPT !.known = @ \ {"phone"}, !.doubtful = @ \ {"phone"}]
       /\ ctl' = Goto("rm_owner")
  /\ UNCHANGED <<callee, binding, stack, journal, reaper, reruns, flickers>>

DeletePhone ==
  /\ At("delete_phone")
  /\ \E ok \in BOOLEAN :
       /\ DeleteOwned("phone", ok)
       /\ mem' = IF ok THEN [mem EXCEPT !.known = @ \ {"phone"}, !.doubtful = @ \ {"phone"}]
                 ELSE mem
       /\ ctl' = IF ok THEN Goto("rm_owner") ELSE AfterPhone(TRUE)
  /\ UNCHANGED <<callee, binding, stack, journal, reaper, reruns, flickers>>

\* The entries go one by one, the ownership first; one that was never written, as
\* far as the controller knows, is skipped.
Unfile(e, next) ==
  \/ /\ e \notin mem.filed["phone"]
     /\ ctl' = next
     /\ UNCHANGED <<journal, mem>>
  \/ /\ e \in mem.filed["phone"]
     /\ \E ok \in BOOLEAN :
          /\ RemoveEntry("phone", e, ok)
          /\ mem' = IF ok THEN [mem EXCEPT !.filed["phone"] = @ \ {e}] ELSE mem
          /\ ctl' = IF ok THEN next ELSE AfterPhone(TRUE)

RemoveOwner ==
  /\ At("rm_owner")
  /\ Unfile("owner", Goto("rm_request"))
  /\ UNCHANGED <<vapi, callee, binding, stack, reaper, reruns, flickers>>

RemoveRequest ==
  /\ At("rm_request")
  /\ Unfile("request", Goto("rm_intent"))
  /\ UNCHANGED <<vapi, callee, binding, stack, reaper, reruns, flickers>>

RemoveIntent ==
  /\ At("rm_intent")
  /\ \/ /\ "intent" \notin mem.filed["phone"]
        /\ mem' = [mem EXCEPT !.wanted = @ \ {"phone"}]
        /\ ctl' = AfterPhone(FALSE)
        /\ UNCHANGED journal
     \/ /\ "intent" \in mem.filed["phone"]
        /\ \E ok \in BOOLEAN :
             /\ RemoveEntry("phone", "intent", ok)
             /\ mem' = IF ok THEN [mem EXCEPT !.filed["phone"] = {},
                                              !.wanted = @ \ {"phone"}]
                       ELSE mem
             /\ ctl' = AfterPhone(~ok)
  /\ UNCHANGED <<vapi, callee, binding, stack, reaper, reruns, flickers>>

-----------------------------------------------------------------------------
(* cleanup_direct_assistant *)

DirectRecovery ==
  \/ mem.required
  \/ mem.installed
  \/ (mem.known \cup mem.doubtful) \cap Direct # {}

Erring(err) == [ctl EXCEPT !.errors = @ \/ err]
AfterDirect(err) ==
  [ctl EXCEPT !.pc = IF ctl.pass = "final" THEN "stack" ELSE "decide",
              !.failed = @ \/ ctl.errors \/ err, !.errors = FALSE]

\* Nothing is touched while there may be a phone. Then the Lambda's identity is
\* unbound, if it may be bound.
Unbind ==
  /\ At("unbind")
  /\ LET begun == [Goto("drop_assistant") EXCEPT !.tool = "tool" \in mem.known] IN
     \/ /\ "phone" \in mem.known \cup mem.wanted \cup mem.doubtful
        /\ ctl' = AfterDirect(TRUE)
        /\ UNCHANGED <<binding, mem>>
     \/ /\ "phone" \notin mem.known \cup mem.wanted \cup mem.doubtful
        /\ ~mem.installed
        /\ ctl' = begun
        /\ UNCHANGED <<binding, mem>>
     \/ /\ "phone" \notin mem.known \cup mem.wanted \cup mem.doubtful
        /\ mem.installed
        /\ \E ok \in BOOLEAN :
             /\ binding' \in IF ok THEN {"unbound"} ELSE {binding, "unbound"}
             /\ mem' = [mem EXCEPT !.installed = ~ok]
             /\ ctl' = [begun EXCEPT !.errors = @ \/ ~ok]
  /\ UNCHANGED <<vapi, callee, stack, journal, reaper, reruns, flickers>>

\* The object is looked for if its POST was in doubt, and deleted; finding it ends
\* the doubt, deleting one whose id was known does not.
Find(k) == k \in mem.known \/ (k \in mem.doubtful /\ vapi[k] = "there")
Dropped(k, ok) ==
  [mem EXCEPT !.known = IF ok THEN @ \ {k} ELSE @ \cup {k},
              !.doubtful = IF k \in mem.known THEN @ ELSE @ \ {k}]

Drop(k, next) ==
  \/ /\ k \notin mem.known \cup mem.doubtful
     /\ ctl' = next
     /\ UNCHANGED <<vapi, mem>>
  \/ /\ Find(k)
     /\ \E ok \in BOOLEAN :
          /\ DeleteOwned(k, ok)
          /\ mem' = Dropped(k, ok)
          /\ ctl' = [next EXCEPT !.errors = @ \/ ~ok,
                                 !.tool = @ \/ k = "tool"]
  \/ /\ k \in mem.doubtful \ mem.known
     /\ ctl' = [next EXCEPT !.errors = TRUE]
     /\ UNCHANGED <<vapi, mem>>

\* Without the tool's id the assistant cannot be told to be ours.
DropAssistant ==
  /\ At("drop_assistant")
  /\ LET proof == ctl.tool /\ "assistant" \in mem.wanted
         claimed == \/ "assistant" \in mem.known \cup mem.doubtful
                    \/ "request" \in mem.filed["assistant"]
     IN \/ /\ mem.installed \/ ~proof
           /\ ctl' = [Goto("drop_tool") EXCEPT !.errors = @ \/ (~mem.installed /\ claimed)]
           /\ UNCHANGED <<vapi, mem>>
        \/ /\ ~mem.installed /\ proof
           /\ Drop("assistant", Goto("drop_tool"))
  /\ UNCHANGED <<callee, binding, stack, journal, reaper, reruns, flickers>>

\* Mutant: an assistant in doubt does not hold the tool back.
DropToolInDoubt ==
  /\ At("drop_tool")
  /\ \/ /\ "assistant" \in mem.known
        /\ ctl' = Goto("prove_absent")
        /\ UNCHANGED <<vapi, mem>>
     \/ /\ "assistant" \notin mem.known
        /\ Drop("tool", Goto("prove_absent"))
  /\ UNCHANGED <<callee, binding, stack, journal, reaper, reruns, flickers>>

DropTool ==
  /\ At("drop_tool")
  /\ \/ /\ "assistant" \in mem.known \cup mem.doubtful
        /\ ctl' = Goto("prove_absent")
        /\ UNCHANGED <<vapi, mem>>
     \/ /\ "assistant" \notin mem.known \cup mem.doubtful
        /\ Drop("tool", Goto("prove_absent"))
  /\ UNCHANGED <<callee, binding, stack, journal, reaper, reruns, flickers>>

\* The journal stays; the fields are forgotten once nothing is listed any more.
Proved ==
  [mem EXCEPT !.required = FALSE, !.wanted = @ \ Direct,
              !.filed = [k \in Kinds |-> IF k \in Direct THEN {} ELSE @[k]]]

ProveAbsent ==
  /\ At("prove_absent")
  /\ \/ /\ ~ctl.errors /\ ~mem.installed
        /\ (mem.known \cup mem.doubtful) \cap Direct = {}
        /\ \A k \in Direct : "request" \in mem.filed[k] => vapi[k] # "there"
        /\ mem' = Proved
        /\ ctl' = AfterDirect(FALSE)
     \/ /\ ctl.errors \/ mem.wanted # {}
        /\ ctl' = AfterDirect(TRUE)
        /\ UNCHANGED mem
     \/ /\ ~ctl.errors
        /\ mem.installed \/ (mem.known \cup mem.doubtful) \cap Direct # {}
        /\ ctl' = AfterDirect(FALSE)
        /\ UNCHANGED mem
  /\ UNCHANGED <<vapi, callee, binding, stack, journal, reaper, reruns, flickers>>

-----------------------------------------------------------------------------
(* The end of a run *)

NextSmoke ==
  /\ At("decide")
  /\ ~ctl.failed /\ ctl.smoke = "web" /\ SipSmoke
  /\ ctl' = [Provision("phone") EXCEPT !.smoke = "sip", !.attempt = 1]
  /\ UNCHANGED <<vapi, callee, binding, stack, journal, mem, reaper, reruns, flickers>>

\* --retain-on-failure
Retain ==
  /\ At("decide")
  /\ ctl.failed /\ ~PhoneRecovery /\ ~DirectRecovery
  /\ ctl' = Goto("retained")
  /\ UNCHANGED <<vapi, callee, binding, stack, journal, mem, reaper, reruns, flickers>>

BeginCleanup ==
  /\ At("decide")
  /\ ctl.failed \/ ctl.smoke = "sip" \/ ~SipSmoke
  /\ ctl' = [Goto("find_phone") EXCEPT !.pass = "final"]
  /\ UNCHANGED <<vapi, callee, binding, stack, journal, mem, reaper, reruns, flickers>>

\* What the stack owns goes with it, the binding's secret too.
StackGone ==
  /\ stack' = FALSE
  /\ binding' = "unbound"

DeleteStack ==
  /\ At("stack")
  /\ \/ /\ PhoneRecovery \/ DirectRecovery
        /\ ctl' = Goto("blocked")
        /\ UNCHANGED <<stack, binding>>
     \/ /\ ~PhoneRecovery /\ ~DirectRecovery
        /\ \/ StackGone /\ ctl' = Goto("purge")
           \/ ctl' = Goto("blocked") /\ UNCHANGED <<stack, binding>>
           \/ ctl' = Goto("blocked") /\ StackGone
  /\ UNCHANGED <<vapi, callee, journal, mem, reaper, reruns, flickers>>

\* purge_object_versions_exact may fail with some versions deleted.
Purge ==
  /\ At("purge")
  /\ \/ /\ journal' = [k \in Kinds |-> {}]
        /\ ctl' = Goto("clean")
     \/ /\ \E kept \in [Kinds -> SUBSET Entries] :
             /\ \A k \in Kinds : kept[k] \subseteq journal[k]
             /\ journal' = kept
        /\ ctl' = Goto("blocked")
  /\ UNCHANGED <<vapi, callee, binding, stack, mem, reaper, reruns, flickers>>

\* The controller is killed.
Crash ==
  /\ ctl.pc \notin Over
  /\ ctl' = Goto("dead")
  /\ mem' = Forgotten
  /\ UNCHANGED <<vapi, callee, binding, stack, journal, reaper, reruns, flickers>>

-----------------------------------------------------------------------------
(* The reaper. It starts when a run is over that did not succeed, and works from  *)
(* the journal alone; its tests end it where they fail.                           *)

Reaping(pc) == reaper = pc

\* Mutant: without the stack nothing is recovered.
DirectJournalNeedsStack ==
  \/ journal["tool"] = {} /\ journal["assistant"] = {}
  \/ "intent" \in journal["tool"] /\ stack

\* Does the journal hold what an orderly writer leaves behind, and what is needed
\* when the stack can no longer be asked?
DirectJournalFits ==
  LET tool == journal["tool"]
      assistant == journal["assistant"]
  IN \/ tool = {} /\ assistant = {}
     \/ /\ "intent" \in tool
        /\ assistant # {} => "intent" \in assistant
        /\ \A k \in Direct : "owner" \in journal[k] => "request" \in journal[k]
        /\ "request" \notin tool => assistant = {}
        /\ ~stack => \A k \in Direct : "request" \in journal[k] => "owner" \in journal[k]

ReadJournal ==
  /\ ctl.pc \in Over \ {"retained"}
  /\ Reaping("off")
  /\ reaper' = IF DirectJournalFits THEN "seal_tool" ELSE "refused"
  /\ UNCHANGED <<vapi, callee, binding, stack, journal, mem, ctl, reruns, flickers>>

\* An object that was requested but not sealed is looked for, and sealed; if it is
\* not found, its absence cannot be proven safe.
SealFound(k, next) ==
  IF "request" \notin journal[k] \/ "owner" \in journal[k]
  THEN reaper' = next /\ UNCHANGED <<journal, flickers>>
  ELSE IF vapi[k] = "there"
  THEN /\ journal' = [journal EXCEPT ![k] = @ \cup {"owner"}]
       /\ UNCHANGED flickers
       /\ reaper' = next
  ELSE reaper' = "refused" /\ UNCHANGED <<journal, flickers>>

ReapTool ==
  /\ Reaping("seal_tool")
  /\ SealFound("tool", "seal_assistant")
  /\ UNCHANGED <<vapi, callee, binding, stack, mem, ctl, reruns>>

ReapAssistant ==
  /\ Reaping("seal_assistant")
  /\ SealFound("assistant", "seal_phone")
  /\ UNCHANGED <<vapi, callee, binding, stack, mem, ctl, reruns>>

\* direct_recovery_*_id is not empty
Recovered(k) == "owner" \in journal[k]

\* The assistant the phone must have: a recovered direct assistant, else the
\* product's while there is a stack, else the one its intent names.
ExpectedCallee ==
  IF Recovered("assistant") THEN "direct" ELSE IF stack THEN "product" ELSE callee

PhoneJournalFits ==
  LET phone == journal["phone"] IN
  /\ phone \cap {"request", "owner"} # {} => "intent" \in phone
  /\ "owner" \in phone => "request" \in phone
  /\ "request" \in phone => ExpectedCallee = callee

ReapPhone ==
  /\ Reaping("seal_phone")
  /\ IF PhoneJournalFits THEN SealFound("phone", "drop_phone")
     ELSE reaper' = "refused" /\ UNCHANGED <<journal, flickers>>
  /\ UNCHANGED <<vapi, callee, binding, stack, mem, ctl, reruns>>

\* One 404 is enough.
ReapDelete(k, next) ==
  /\ vapi' = IF Recovered(k) /\ vapi[k] = "there"
             THEN [vapi EXCEPT ![k] = Deleted] ELSE vapi
  /\ reaper' = next
  /\ UNCHANGED <<callee, stack, journal, mem, ctl, reruns, flickers>>

ReapDropPhone ==
  /\ Reaping("drop_phone")
  /\ ReapDelete("phone", "unbind")
  /\ UNCHANGED binding

ReapUnbind ==
  /\ Reaping("unbind")
  /\ binding' = IF Recovered("assistant") THEN "unbound" ELSE binding
  /\ reaper' = "drop_assistant"
  /\ UNCHANGED <<vapi, callee, stack, journal, mem, ctl, reruns, flickers>>

ReapDropAssistant ==
  /\ Reaping("drop_assistant")
  /\ ReapDelete("assistant", "drop_tool")
  /\ UNCHANGED binding

ReapDropTool ==
  /\ Reaping("drop_tool")
  /\ ReapDelete("tool", "stack")
  /\ UNCHANGED binding

ReapStack ==
  /\ Reaping("stack")
  /\ StackGone
  /\ reaper' = "purge"
  /\ UNCHANGED <<vapi, callee, journal, mem, ctl, reruns, flickers>>

ReapPurge ==
  /\ Reaping("purge")
  /\ journal' = [k \in Kinds |-> {}]
  /\ reaper' = "recovered"
  /\ UNCHANGED <<vapi, callee, binding, stack, mem, ctl, reruns, flickers>>

\* A call fails, or the job is cancelled; someone may have it run again.
Interrupt ==
  /\ reruns < MaxReruns
  /\ reaper \notin {"off", "recovered"}
  /\ reaper' = "off"
  /\ reruns' = reruns + 1
  /\ UNCHANGED <<vapi, callee, binding, stack, journal, mem, ctl, flickers>>

-----------------------------------------------------------------------------
(* Vapi *)

\* A POST that nobody answered takes effect after all, or never will.
Settle ==
  /\ \E k \in Kinds, p \in {"there", "none"} :
       /\ vapi[k] = "pending"
       /\ vapi' = [vapi EXCEPT ![k] = p]
  /\ UNCHANGED <<callee, binding, stack, journal, mem, ctl, reaper, reruns, flickers>>

\* A deleted object is shown again, or is gone for good.
Reappear ==
  /\ \E k \in Kinds, p \in {"there", "none"} :
       /\ vapi[k] = "hidden"
       /\ vapi' = [vapi EXCEPT ![k] = p]
  /\ UNCHANGED <<callee, binding, stack, journal, mem, ctl, reaper, reruns, flickers>>

-----------------------------------------------------------------------------
Provisioning == WriteIntent \/ WriteRequest \/ Post \/ PostFailed \/ Seal \/ Bind \/ Probe \/ Use
CleaningPhone == FindPhone \/ DeletePhone \/ RemoveOwner \/ RemoveRequest \/ RemoveIntent
CleaningDirect == Unbind \/ DropAssistant \/ DropTool \/ ProveAbsent
Ending == NextSmoke \/ Retain \/ BeginCleanup \/ DeleteStack \/ Purge \/ Crash
Reap == \/ ReadJournal \/ ReapTool \/ ReapAssistant \/ ReapPhone \/ ReapDropPhone
        \/ ReapUnbind \/ ReapDropAssistant \/ ReapDropTool \/ ReapStack \/ ReapPurge

Next == \/ Provisioning \/ CleaningPhone \/ CleaningDirect \/ Ending
        \/ Reap \/ Interrupt \/ Settle \/ Reappear

Spec == Init /\ [][Next]_vars

\* A reaper that has been started goes on unless it is interrupted.
FairSpec == Spec /\ WF_vars(Reap)

-----------------------------------------------------------------------------
(* Properties *)

\* Whatever exists in Vapi has been announced: "From this point until exact
\* returned-ID ownership is durably sealed, a process stop may have happened after
\* Vapi committed the POST", so its intent and request are in S3 until it is gone,
\* through every cleanup, retry, crash and recovery, if a deleted object stays so.
WriteAhead ==
  ~flickers =>
  \A k \in Kinds : vapi[k] # "none" => {"intent", "request"} \subseteq journal[k]

\* Nothing outlives what it refers to: the bound identity its assistant, the
\* assistant its tool, the phone the assistant that answers it. Cleanup goes
\* phone, binding, assistant, tool, stack, even where a POST is still in doubt, and
\* if a deleted object stays deleted.
NothingDangles == ~flickers =>
  /\ binding = "direct" => vapi["assistant"] = "there"
  /\ vapi["assistant"] # "none" => vapi["tool"] = "there"
  /\ vapi["phone"] # "none" =>
       IF callee = "direct" THEN vapi["assistant"] = "there" ELSE stack

\* A run that ends with a proof of zero state, or leaves its stack for debugging,
\* leaves no transient and no bound identity behind, not even one that a late
\* POST or a flickering DELETE would bring to light.
CleanIsClean ==
  /\ ctl.pc \in {"clean", "retained"} => /\ \A k \in Kinds : vapi[k] = "none"
                                        /\ binding = "unbound"
  /\ ctl.pc = "clean" => ~stack /\ \A k \in Kinds : journal[k] = {}

\* No POST is sent while an earlier object of its kind may exist: the phone of the
\* next attempt, or of the next smoke, never meets the last one.
PostsOntoNothing == At("post") => vapi[ctl.kind] = "none"

\* The reaper gives up only on a journal with a gap: an entry is missing that was
\* to be written, or that has been removed before others.
WholeJournal ==
  /\ \A k \in Kinds : journal[k] \in {{}, {"intent"}, Entries}
  /\ journal["assistant"] # {} => journal["tool"] = Entries

\* However often it is interrupted, and where a deleted object stays deleted, the
\* reaper brings every run that left whole journals to an end in which nothing is
\* left, wherever the controller stopped; but not a run that stopped in the SIP
\* smoke: the reaper expects the phone of the Web smoke (reap_qualification.sh:1137).
WholeIsRecovered ==
  (~flickers /\ ctl.pc \in Over \ {"retained"} /\ WholeJournal /\ callee = "direct")
    ~> reaper = "recovered"

=============================================================================
