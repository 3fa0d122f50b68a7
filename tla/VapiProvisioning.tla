--------------------------- MODULE VapiProvisioning ---------------------------
(***************************************************************************)
(* The custom resource that creates, updates and deletes the Vapi objects  *)
(* of one stack: an assistant, a webhook credential and a prepare tool.    *)
(*                                                                         *)
(* CloudFormation sends a request; the provisioner Lambda answers it after *)
(* some ten calls to Vapi. A write whose answer is lost may or may not     *)
(* have happened, a list may not show an object that was created moments   *)
(* ago, the Lambda may be killed and the same request delivered again, and *)
(* the answer to CloudFormation may be lost as well. Objects of others may *)
(* carry the very names this stack would choose.                           *)
(*                                                                         *)
(* One step is one call to Vapi, to Secrets Manager or to CloudFormation.  *)
(* update and delete of the client reread the object and write once more   *)
(* when an answer is lost; what is left of that here is their outcome: they *)
(* return only what has happened, and may raise whether or not it has.     *)
(***************************************************************************)
EXTENDS Naturals, FiniteSets

CONSTANTS
  MaxObjects,     \* bound: objects created in all
  MaxDeliveries,  \* how often Lambda delivers one request (first and retries)
  Lags,           \* may lists miss what has just been created? FALSE, TRUE, or both
  Legacy,         \* may the stack date from the first release?
  MaxEvents,      \* bound: updates and deletes CloudFormation asks for
  Others,         \* bound: the kinds of which others may have an object
  Calms,          \* do failures cease for good at some time?
  None

ASSUME ProvisioningAssumption ==
  /\ {MaxObjects, MaxDeliveries, MaxEvents} \subseteq Nat
  /\ {Legacy, Calms} \cup Lags \subseteq BOOLEAN
  /\ Legacy => MaxObjects >= 3     \* a stack of the first release has three objects
  /\ None \notin Nat

MaxReads == 3     \* MAX_RECONCILIATION_READS

VARIABLES
  vapi,       \* the objects in the Vapi account that bear this stack's names
  created,    \* how many objects have been created: the last id given out
  binding,    \* the assistant the Vapi identity secret is bound to
  fn,         \* the provisioner invocation that is running, or None
  stack,      \* what CloudFormation knows of the custom resource
  calm,       \* from here on nothing fails
  lag         \* may a list miss an object that has just been created?

vars == <<vapi, created, binding, fn, stack, calm, lag>>

-----------------------------------------------------------------------------
(* Types *)

Ids == 1..(MaxObjects + 3)   \* the last three are objects of others
Kinds == {"assistant", "credential", "tool"}
Fields == {1, 2}   \* two values of ScreenPopFieldsJson

\* An object: whose it is (by its metadata, or by its shape), whether lists show
\* it, the credential it refers to, the tool an assistant's model has, and the
\* field schema of a tool.
Object == [id : Ids, kind : Kinds, owner : {"stack", "other"}, listed : BOOLEAN,
           credential : Ids \cup {None}, tool : Ids \cup {None},
           fields : Fields \cup {None}]

\* A physical resource id: the pending one, the ids of three objects (a first
\* release left out the credential), or one CloudFormation made up.
PhysicalId == [form : {"pending", "objects", "generated"},
               assistant : Ids \cup {None}, tool : Ids \cup {None},
               credential : Ids \cup {None}]

Pending == [form |-> "pending", assistant |-> None, tool |-> None, credential |-> None]
Generated == [Pending EXCEPT !.form = "generated"]

Requests == {"Create", "Update", "Delete"}

PC == {"find", "check_credentials", "post", "reconcile", "attach", "update_tool",
       "finish", "check_update", "update_credential", "bind", "check_delete",
       "scan_assistants", "scan_credentials", "scan_tools", "delete", "answer", "fail"}

Doom == [id : Ids, kind : Kinds]

Invocation == [request : Requests, pc : PC, kind : Kinds,
               assistant : Ids \cup {None}, attached : Ids \cup {None},
               credential : Ids \cup {None}, tool : Ids \cup {None},
               reads : 0..MaxReads, posts : 0..2, doomed : SUBSET Doom,
               scanned : BOOLEAN]

\* The custom resource: its physical id, the id an update has replaced and that
\* is being cleaned up, and the field schema it has and is to have. unseen is history,
\* which no guard reads: the objects no list showed when its deletion was last asked for.
Stack == [state : {"creating", "create_failed", "complete", "updating", "cleaning",
                   "update_failed", "deleting", "delete_failed", "deleted"},
          physical : PhysicalId, replaced : PhysicalId,
          fields : Fields, wanted : Fields,
          retain : BOOLEAN, tries : 0..MaxDeliveries, events : 0..MaxEvents,
          edited : BOOLEAN, unseen : SUBSET Ids]

TypeOK ==
  /\ vapi \subseteq Object
  /\ created \in 0..MaxObjects
  /\ binding \in Ids \cup {None}
  /\ fn \in Invocation \cup {None}
  /\ stack \in Stack
  /\ calm \in BOOLEAN
  /\ lag \in Lags

Existing(id) == {o \in vapi : o.id = id}
Exists(id) == Existing(id) # {}
Get(id) == CHOOSE o \in vapi : o.id = id
Mine(o) == o.owner = "stack"

-----------------------------------------------------------------------------
(* Initial states: a new stack, in an account where others may have objects  *)
(* of the same names; or a stack of the first release.                       *)

Foreign(id, kind) ==
  [id |-> id, kind |-> kind, owner |-> "other", listed |-> TRUE,
   credential |-> None, tool |-> None, fields |-> None]

Own(id, kind, credential, tool, fields) ==
  [id |-> id, kind |-> kind, owner |-> "stack", listed |-> TRUE,
   credential |-> credential, tool |-> tool, fields |-> fields]

NewStack ==
  /\ \E others \in SUBSET {Foreign(MaxObjects + 1, "assistant"),
                           Foreign(MaxObjects + 2, "credential"),
                           Foreign(MaxObjects + 3, "tool")} :
       /\ {o.kind : o \in others} \subseteq Others
       /\ vapi = others
  /\ created = 0
  /\ binding = None
  /\ \E retain \in BOOLEAN :
       stack = [state |-> "creating", physical |-> Pending, replaced |-> Pending,
                fields |-> 1, wanted |-> 1, retain |-> retain, tries |-> 0, events |-> 0,
                edited |-> FALSE, unseen |-> {}]

LegacyStack ==
  /\ vapi = {Own(1, "assistant", 2, 3, None), Own(2, "credential", None, None, None),
             Own(3, "tool", 2, None, 1)}
  /\ created = 3
  /\ binding = 1
  /\ stack = [state |-> "complete", fields |-> 1, wanted |-> 1, retain |-> FALSE,
              tries |-> 0, events |-> 0, edited |-> FALSE, unseen |-> {}, replaced |-> Pending,
              physical |-> [form |-> "objects", assistant |-> 1, tool |-> 3,
                            credential |-> None]]

Init ==
  /\ NewStack \/ (Legacy /\ LegacyStack)
  /\ fn = None
  /\ calm = FALSE
  /\ lag \in Lags

-----------------------------------------------------------------------------
(* The invocation *)

At(pc) == fn # None /\ fn.pc = pc
Goto(pc) == fn' = [fn EXCEPT !.pc = pc]
Find(kind) == fn' = [fn EXCEPT !.pc = "find", !.kind = kind, !.posts = 0, !.reads = 0]
Fail == Goto("fail")
Keep == UNCHANGED <<vapi, created, binding, stack, calm, lag>>

\* The objects a list shows. Whatever is in vapi bears the stack's name, or,
\* for a tool, its prepare URL.
Matches(kind) == {o \in vapi : o.kind = kind /\ o.listed}

\* Mutant of Acceptable: the name is enough.
AcceptableByName(o) == TRUE

\* A single match is the stack's own: by its metadata, by its shape and the
\* credential the assistant already has, by the credential the tool refers to.
Acceptable(o) ==
  CASE o.kind = "assistant" -> Mine(o)
    [] o.kind = "credential" -> Mine(o) /\ fn.attached \in {None, o.id}
    [] o.kind = "tool" -> o.credential = fn.credential

\* The object of fn.kind has been found or created.
Obtained(o) ==
  CASE o.kind = "assistant" ->
         fn' = [fn EXCEPT !.assistant = o.id, !.attached = o.credential,
                          !.pc = "find", !.kind = "credential",
                          !.posts = 0, !.reads = 0]
    [] o.kind = "credential" ->
         fn' = [fn EXCEPT !.credential = o.id,
                          !.pc = IF fn.attached \in {None, o.id} THEN "attach" ELSE "fail"]
    [] o.kind = "tool" -> fn' = [fn EXCEPT !.tool = o.id, !.pc = "update_tool"]

\* A scan by owner: one match of the stack's own is adopted, any other match or
\* several are refused, and none is left to the caller.
Adopt(none) ==
  LET found == Matches(fn.kind) IN
  IF found = {} THEN none
  ELSE IF \E o \in found : found = {o} /\ Acceptable(o)
    THEN \E o \in found : Obtained(o)
    ELSE Fail

FindOwned ==
  /\ At("find")
  /\ Adopt(Goto(IF fn.kind = "assistant" THEN "check_credentials" ELSE "post"))
  /\ Keep

\* Without an assistant of the stack's own, a credential of its name is refused.
CheckCredentials ==
  /\ At("check_credentials")
  /\ IF Matches("credential") # {} THEN Fail ELSE Goto("post")
  /\ Keep

\* Mutant of NewObject: an id that has been given out before.
NewObjectReused(kind) ==
  [Own(created, kind, None, None, None) EXCEPT !.listed = ~lag]

NewObject(kind) ==
  [id |-> created + 1, kind |-> kind, owner |-> "stack", listed |-> ~lag,
   credential |-> IF kind = "tool" THEN fn.credential ELSE None, tool |-> None,
   fields |-> IF kind = "tool" THEN stack.wanted ELSE None]

Commit ==
  /\ created' = created + 1
  /\ vapi' = vapi \cup {NewObject(fn.kind)}

Post ==
  /\ At("post")
  /\ IF created < MaxObjects
       THEN Commit /\ Obtained(NewObject(fn.kind))
       ELSE Fail /\ UNCHANGED <<vapi, created>>
  /\ UNCHANGED <<binding, stack, calm, lag>>

\* Mutant of PostLost: the create is repeated without looking.
PostBlindly ==
  /\ At("post") /\ ~calm /\ fn.posts = 0
  /\ fn' = [fn EXCEPT !.posts = 1]
  /\ (created < MaxObjects /\ Commit) \/ UNCHANGED <<vapi, created>>
  /\ UNCHANGED <<binding, stack, calm, lag>>

\* The answer to a create is lost: it has happened or not, and the owner scan
\* has to tell.
PostLost ==
  /\ At("post")
  /\ ~calm
  /\ fn' = [fn EXCEPT !.pc = "reconcile", !.posts = @ + 1, !.reads = 0]
  /\ (created < MaxObjects /\ Commit) \/ UNCHANGED <<vapi, created>>
  /\ UNCHANGED <<binding, stack, calm, lag>>

\* Up to three scans; after them the create is repeated, once.
Reconcile ==
  /\ At("reconcile")
  /\ Adopt(IF fn.reads + 1 < MaxReads
             THEN fn' = [fn EXCEPT !.reads = @ + 1]
             ELSE Goto(IF fn.posts = 1 THEN "post" ELSE "fail"))
  /\ Keep

\* A PATCH of the object with this id, with the values of new. It returns, or it
\* raises although it was applied (that it was not applied is Raise).
Patch(id, new, returned) ==
  /\ IF Exists(id)
       THEN /\ vapi' = (vapi \ Existing(id)) \cup {new}
            /\ returned \/ (~calm /\ Fail)
       ELSE Fail /\ UNCHANGED vapi
  /\ UNCHANGED <<created, binding, stack, calm, lag>>

\* The preliminary assistant: the credential attached, no tool in its model.
Attach ==
  /\ At("attach")
  /\ Patch(fn.assistant,
           [Get(fn.assistant) EXCEPT !.credential = fn.credential, !.tool = None],
           Find("tool"))

UpdateTool ==
  /\ At("update_tool")
  /\ Patch(fn.tool,
           [Get(fn.tool) EXCEPT !.credential = fn.credential, !.fields = stack.wanted],
           Goto(IF fn.request = "Create" THEN "finish" ELSE "bind"))

\* Mutant of Finish: the preliminary assistant is left as it is.
SkipFinish == At("finish") /\ Goto("bind") /\ Keep

\* The final assistant: credential and tool.
Finish ==
  /\ At("finish")
  /\ Patch(fn.assistant,
           [Get(fn.assistant) EXCEPT !.credential = fn.credential, !.tool = fn.tool],
           Goto("bind"))

\* An update trusts the ids of the physical resource id no further than the
\* objects confirm them; the assistant itself is the customer's by now.
CheckUpdate ==
  LET p == stack.physical
      a == Get(p.assistant)
      t == Get(p.tool)
      confirmed ==
        /\ p.form = "objects"
        /\ Exists(p.assistant) /\ Exists(p.tool)
        /\ Mine(a)
        /\ a.credential # None
        /\ p.credential \in {None, a.credential}
        /\ Exists(a.credential) /\ Mine(Get(a.credential))
        /\ t.credential = a.credential
  IN
  /\ At("check_update")
  /\ IF confirmed
       THEN fn' = [fn EXCEPT !.pc = "update_credential", !.assistant = p.assistant,
                             !.tool = p.tool, !.credential = a.credential]
       ELSE Fail
  /\ Keep

\* The new bearer token; nothing the model tells apart.
UpdateCredential ==
  /\ At("update_credential")
  /\ IF Exists(fn.credential) THEN Goto("update_tool") ELSE Fail
  /\ Keep

\* The identity secret is bound to the assistant. When that fails a Create takes
\* back what it has made, and fails in any case.
BindFailed ==
  IF fn.request = "Create" THEN Goto("check_delete") ELSE Fail

BindIdentity ==
  /\ At("bind")
  /\ \/ /\ Exists(fn.assistant)
        /\ binding' = fn.assistant
        /\ Goto("answer") \/ (~calm /\ BindFailed)
     \/ /\ ~calm \/ ~Exists(fn.assistant)
        /\ BindFailed
        /\ UNCHANGED binding
  /\ UNCHANGED <<vapi, created, stack, calm, lag>>

-----------------------------------------------------------------------------
(* Deletion *)

Name(o) == [id |-> o.id, kind |-> o.kind]

\* Mutant of Confirmed: an interrupted deletion cannot be taken up again.
ConfirmedWhole(assistant, tool, credential, credentialId) ==
  assistant # {} /\ tool # {} /\ credential # {}

\* Each of the three objects that exists is the stack's own and refers to the
\* others; each is given as the set of the objects found, one or none.
Confirmed(assistant, tool, credential, credentialId) ==
  /\ \A o \in assistant \cup credential : Mine(o)
  /\ \A t \in tool : {t.credential} = credentialId
  /\ \A a \in assistant :
       /\ \A t \in tool : a.tool = t.id
       /\ \A c \in credential : a.credential = c.id

\* The objects a physical resource id names, as far as they exist. The first
\* release's id leaves the credential to the assistant, or else to the tool.
CheckDelete ==
  LET assistant == Existing(fn.assistant)
      tool == Existing(fn.tool)
      Refer(objects) == {o.credential : o \in objects} \ {None}
      credentialId == IF fn.credential # None THEN {fn.credential}
                      ELSE IF Refer(assistant) # {} THEN Refer(assistant)
                      ELSE Refer(tool)
      credential == UNION {Existing(c) : c \in credentialId}
  IN
  /\ At("check_delete")
  /\ IF Confirmed(assistant, tool, credential, credentialId)
       THEN fn' = [fn EXCEPT !.pc = "delete",
                     !.doomed = {Name(o) : o \in assistant \cup tool \cup credential}]
       ELSE Fail
  /\ Keep

\* The scan by owner of a pending id, and of every deletion's end.
ScanAssistants ==
  /\ At("scan_assistants")
  /\ fn' = [fn EXCEPT !.pc = "scan_credentials",
                      !.doomed = {Name(o) : o \in {m \in Matches("assistant") : Mine(m)}}]
  /\ Keep

ScanCredentials ==
  /\ At("scan_credentials")
  /\ fn' = [fn EXCEPT !.pc = "scan_tools",
                      !.doomed = @ \cup {Name(o) : o \in
                                   {m \in Matches("credential") : Mine(m)}}]
  /\ Keep

\* A tool is the stack's own when its credential is.
ScanTools ==
  LET credentials == {d.id : d \in {e \in fn.doomed : e.kind = "credential"}} IN
  /\ At("scan_tools")
  /\ fn' = [fn EXCEPT !.pc = "delete", !.scanned = TRUE,
                      !.doomed = @ \cup {Name(o) : o \in
                                   {m \in Matches("tool") : m.credential \in credentials}}]
  /\ Keep

\* Mutant of Order: the credential goes first.
OrderReversed(kind) ==
  CASE kind = "assistant" -> 3 [] kind = "tool" -> 2 [] kind = "credential" -> 1

\* Assistants first, credentials last: what is left of an interrupted deletion
\* can still be recognised.
Order(kind) ==
  CASE kind = "assistant" -> 1 [] kind = "tool" -> 2 [] kind = "credential" -> 3

DeleteNext ==
  /\ At("delete")
  /\ \E d \in fn.doomed :
       /\ \A e \in fn.doomed : Order(d.kind) <= Order(e.kind)
       /\ vapi' = vapi \ Existing(d.id)
       /\ \/ fn' = [fn EXCEPT !.doomed = @ \ {d}]
          \/ ~calm /\ Fail
  /\ UNCHANGED <<created, binding, stack, calm, lag>>

\* Mutant of DeletePassed: no scan by owner follows.
DeleteUnscanned ==
  /\ At("delete")
  /\ fn.doomed = {}
  /\ Goto(IF fn.request = "Create" THEN "fail" ELSE "answer")
  /\ Keep

\* An id of objects is followed by a scan, so that duplicates of a lost create
\* go too; a Create that takes back its objects has failed nevertheless.
DeletePassed ==
  /\ At("delete")
  /\ fn.doomed = {}
  /\ Goto(IF ~fn.scanned THEN "scan_assistants"
          ELSE IF fn.request = "Create" THEN "fail" ELSE "answer")
  /\ Keep

\* Vapi refuses a call or cannot be reached, or the time CloudFormation leaves
\* the Lambda has run out: the operation is given up where it stands.
Raise ==
  /\ fn # None
  /\ fn.pc \notin {"bind", "answer", "fail"}
  /\ ~calm
  /\ Fail
  /\ Keep

-----------------------------------------------------------------------------
(* CloudFormation and Lambda *)

Busy == stack.state \in {"creating", "updating", "cleaning", "deleting"}

RequestOf(state) ==
  CASE state = "creating" -> "Create" [] state = "updating" -> "Update"
    [] state \in {"cleaning", "deleting"} -> "Delete"

\* Where an invocation with a request about a physical id begins.
First(request, physical) ==
  CASE request = "Create" -> "find"
    [] request = "Update" -> "check_update"
    [] request = "Delete" /\ stack.retain -> "answer"
    [] request = "Delete" /\ ~stack.retain ->
         CASE physical.form = "pending" -> "scan_assistants"
           [] physical.form = "objects" -> "check_delete"
           [] physical.form = "generated" -> "fail"

Deliver ==
  LET request == RequestOf(stack.state)
      physical == IF stack.state = "cleaning" THEN stack.replaced ELSE stack.physical
  IN
  /\ Busy
  /\ fn = None
  /\ stack.tries < MaxDeliveries
  /\ stack' = [stack EXCEPT !.tries = @ + 1]
  /\ fn' = [request |-> request, pc |-> First(request, physical),
            kind |-> "assistant", attached |-> None,
            assistant |-> physical.assistant, credential |-> physical.credential,
            tool |-> physical.tool, scanned |-> FALSE, reads |-> 0, posts |-> 0, doomed |-> {}]
  /\ UNCHANGED <<vapi, created, binding, calm, lag>>

\* Killed: out of time, or of memory, or unable to answer at all.
Crash ==
  /\ fn # None
  /\ ~calm
  /\ fn' = None
  /\ Keep

Done(state) == [stack EXCEPT !.state = state, !.tries = 0]

\* CloudFormation accepts the first answer that reaches it. An update that
\* returns another physical id has replaced the resource: the one of the old id
\* is deleted, and whatever becomes of that the update is complete.
Answered == [form |-> "objects", assistant |-> fn.assistant, tool |-> fn.tool,
             credential |-> fn.credential]

Accepted ==
  CASE stack.state = "creating" -> [Done("complete") EXCEPT !.physical = Answered]
    [] stack.state = "updating" ->
         [Done(IF Answered = stack.physical THEN "complete" ELSE "cleaning") EXCEPT
            !.fields = stack.wanted, !.replaced = stack.physical, !.physical = Answered]
    [] stack.state = "cleaning" -> Done("complete")
    [] stack.state = "deleting" -> Done("deleted")

Failed ==
  CASE stack.state = "creating" -> Done("create_failed")
    [] stack.state = "updating" -> Done("update_failed")
    [] stack.state = "cleaning" -> Done("complete")
    [] stack.state = "deleting" -> Done("delete_failed")

\* The answer. SUCCESS that does not get through is followed by FAILED.
AnswerSuccess ==
  /\ At("answer")
  /\ \/ /\ stack' = Accepted
        /\ fn' = None
     \/ /\ ~calm
        /\ Fail
        /\ UNCHANGED stack
  /\ UNCHANGED <<vapi, created, binding, calm, lag>>

AnswerFailed ==
  /\ At("fail")
  /\ stack' = Failed
  /\ fn' = None
  /\ UNCHANGED <<vapi, created, binding, calm, lag>>

\* No answer came in time. The resource of a Create then has no id of ours.
GiveUp ==
  /\ Busy
  /\ fn = None
  /\ stack.tries = MaxDeliveries
  /\ stack' = [Failed EXCEPT
                 !.physical = IF stack.state = "creating" THEN Generated ELSE @]
  /\ UNCHANGED <<vapi, created, binding, fn, calm, lag>>

\* An update of the stack, or the rollback of one that failed.
RequestUpdate ==
  /\ stack.state \in {"complete", "update_failed"}
  /\ stack.events < MaxEvents
  /\ \E f \in Fields :
       /\ stack.state = "update_failed" => f = stack.fields
       /\ stack' = [stack EXCEPT !.state = "updating", !.wanted = f, !.events = @ + 1]
  /\ UNCHANGED <<vapi, created, binding, fn, calm, lag>>

\* The stack, or a failed creation, is deleted: by the customer, or by the rollback
\* that follows a failure at once, whatever lists show by then.
RequestDelete ==
  /\ stack.state \in {"complete", "create_failed", "update_failed", "delete_failed"}
  /\ stack.events < MaxEvents
  /\ stack' = [stack EXCEPT !.state = "deleting", !.events = @ + 1,
                            !.unseen = {o.id : o \in {q \in vapi : ~q.listed}}]
  /\ UNCHANGED <<vapi, created, binding, fn, calm, lag>>

BecomeListed ==
  /\ \E o \in vapi :
       /\ ~o.listed
       /\ vapi' = (vapi \ {o}) \cup {[o EXCEPT !.listed = TRUE]}
  /\ UNCHANGED <<created, binding, fn, stack, calm, lag>>

\* Once the stack is complete the assistant is the customer's: he may take the
\* tool out of it, or delete it or one of the others.
CustomerEdits ==
  /\ stack.state \notin {"creating", "create_failed", "deleted"}
  /\ stack.physical.form = "objects"
  /\ ~stack.edited
  /\ \E o \in vapi :
       /\ Mine(o)
       /\ \/ vapi' = vapi \ {o}
          \/ o.tool # None /\ vapi' = (vapi \ {o}) \cup {[o EXCEPT !.tool = None]}
  /\ stack' = [stack EXCEPT !.edited = TRUE]
  /\ UNCHANGED <<created, binding, fn, calm, lag>>

\* Nothing is asked of the custom resource; the stack may rest here for good.
Rest ==
  /\ fn = None
  /\ ~Busy
  /\ UNCHANGED vars

\* Failures cease, at some time between two requests: what an invocation did before
\* they ceased it may also have done without their ceasing yet.
CalmDown ==
  /\ Calms
  /\ ~calm
  /\ fn = None
  /\ ~Busy
  /\ calm' = TRUE
  /\ UNCHANGED <<vapi, created, binding, fn, stack, lag>>

\* What the Lambda does by itself, once it is running.
Work ==
  \/ FindOwned \/ CheckCredentials \/ Post \/ PostLost \/ Reconcile
  \/ Attach \/ UpdateTool \/ Finish
  \/ CheckUpdate \/ UpdateCredential \/ BindIdentity
  \/ CheckDelete \/ ScanAssistants \/ ScanCredentials \/ ScanTools
  \/ DeleteNext \/ DeletePassed
  \/ Raise \/ AnswerSuccess \/ AnswerFailed

Environment ==
  \/ Deliver \/ Crash \/ GiveUp \/ RequestUpdate \/ RequestDelete
  \/ BecomeListed \/ CustomerEdits \/ Rest \/ CalmDown

Next == Work \/ Environment

Spec == Init /\ [][Next]_vars
\* Lambda runs what it has been given, and is given what CloudFormation asks.
FairSpec == Spec /\ WF_vars(Work) /\ WF_vars(Deliver)

-----------------------------------------------------------------------------
(* Properties *)

\* A custom resource that CloudFormation holds for complete is: its objects exist
\* and refer to one another, the tool has the field schema of the template, and
\* the webhook answers to that assistant. An update keeps what it was given, and
\* replaces the id by itself, except that the first update of a first-release stack
\* answers with an id of another form: CloudFormation takes it for a replacement and
\* has the old id deleted.
CompleteIsReady ==
  LET p == stack.physical
      a == Get(p.assistant)
      t == Get(p.tool)
  IN stack.state = "complete" /\ ~stack.edited /\ stack.replaced \in {Pending, p} =>
       /\ Exists(p.assistant) /\ Exists(p.tool) /\ Exists(a.credential)
       /\ p.credential \in {None, a.credential}
       /\ a.tool = t.id
       /\ t.credential = a.credential
       /\ t.fields = stack.fields
       /\ binding = a.id

\* However often a creation is retried and whatever answers are lost, the stack
\* has one object of each kind at most (while lists show what was created).
AtMostOne == ~lag =>
  \A kind \in Kinds : Cardinality({o \in vapi : o.kind = kind /\ Mine(o)}) <= 1

Gone == stack.state = "deleted" /\ ~stack.retain

\* A deletion that was asked for when lists showed every object of the stack, and that
\* CloudFormation was told has succeeded, leaves nothing behind. Where an earlier create
\* was lost while lists lagged, the code breaks this: see OnlyInertOutlive.
NothingOutlives == Gone /\ stack.unseen = {} => \A o \in vapi : ~Mine(o)

\* Where lists always show what was created, a successful deletion leaves nothing,
\* through lost answers, kills, redeliveries and deletions that were broken off and
\* taken up again.
PromptNothingOutlives == ~lag /\ Gone => \A o \in vapi : ~Mine(o)

\* Where lists lag, what outlives a successful deletion is an object no list showed when
\* the deletion was asked for (the rollback of a lost create comes that soon), or else a
\* tool; and the credential such a tool refers to is gone, or was one no list showed.
OnlyInertOutlive == Gone =>
  \A o \in vapi : Mine(o) /\ o.id \notin stack.unseen =>
    /\ o.kind = "tool"
    /\ Exists(o.credential) => o.credential \in stack.unseen

\* Objects of others that bear the stack's names are never changed or deleted.
ForeignUntouched == [][\A o \in vapi : ~Mine(o) => o \in vapi']_vars

\* Once nothing fails any more, a deletion of objects the customer has left alone
\* succeeds, however many earlier requests were broken off at whatever point.
DeletionConverges ==
  stack.state = "deleting" /\ stack.tries = 0 /\ calm
    /\ stack.physical.form # "generated"
  ~> stack.state = "deleted" \/ stack.edited
=============================================================================
