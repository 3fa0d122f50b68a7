--------------------------- MODULE VapiOutcomeProofs ---------------------------
(***************************************************************************)
(* What CloudFormation is told of the Vapi objects is so, for any number   *)
(* of objects, deliveries and events, and whatever fails, is killed, is    *)
(* delivered again or is hidden from a list: a custom resource that is     *)
(* complete is wired up and bound; one that is deleted has left nothing,   *)
(* or, where lists lag, nothing that could still be used.                  *)
(***************************************************************************)
EXTENDS VapiProvisioningProofs

-----------------------------------------------------------------------------
(* The invariant *)

OfStack(kind) == {o \in vapi : Mine(o) /\ o.kind = kind}

\* An id that was given out, and to an object of this kind if there still is one.
Was(id, kind) == id \in 1..created /\ \A o \in Existing(id) : o.kind = kind

RefersWell(p) ==
  /\ p.assistant = None \/ Was(p.assistant, "assistant")
  /\ p.tool = None \/ Was(p.tool, "tool")
  /\ p.credential = None \/ Was(p.credential, "credential")

\* No two objects share an id, and wherever an id is kept it is that of an object of
\* the kind it is kept for, or of none.
ObjectRefs ==
  /\ \A o, q \in vapi : o.id = q.id => o = q
  /\ \A t \in OfStack("tool") : Was(t.credential, "credential")
StackRefs == RefersWell(stack.physical) /\ RefersWell(stack.replaced)
FnRefs == fn # None => RefersWell(fn) /\ \A d \in fn.doomed : Was(d.id, d.kind)

\* What CloudFormation knows in each state of the custom resource.
FormInv ==
  LET p == stack.physical
      r == stack.replaced
  IN
  /\ stack.state \in {"complete", "updating", "cleaning", "update_failed"} => p.form = "objects"
  /\ stack.state = "creating" => p.form = "pending" /\ ~stack.edited /\ stack.fields = stack.wanted
  /\ r.form = "objects" => p.form = "objects" /\ r.tool = p.tool
  /\ r.form # "objects" => r = Pending
  /\ stack.state = "cleaning" => r.form = "objects" /\ r # p

\* What an invocation does follows from its request, and that from the state.
RequestInv == fn # None =>
  /\ fn.request = RequestOf(stack.state)
  /\ fn.pc \in {"find", "check_credentials", "post", "reconcile", "attach", "finish"} =>
       fn.request = "Create"
  /\ fn.pc \in {"check_update", "update_credential"} => fn.request = "Update"
  /\ fn.pc \in {"update_tool", "bind"} => fn.request # "Delete"
  /\ fn.pc \in {"check_delete", "scan_assistants", "scan_credentials", "scan_tools", "delete"} =>
       fn.request # "Update"

\* What a creation has obtained and wired up so far.
Looking(kinds) == fn.pc \in {"find", "post", "reconcile"} /\ fn.kind \in kinds
CreateInv == fn # None /\ fn.request = "Create" =>
  /\ Looking({"credential", "tool"}) \/ fn.pc \in {"attach", "update_tool", "finish", "bind", "answer"} =>
       Exists(fn.assistant)
  /\ Looking({"tool"}) \/ fn.pc \in {"attach", "update_tool", "finish", "bind", "answer"} =>
       Exists(fn.credential)
  /\ fn.pc \in {"update_tool", "finish", "bind", "answer"} => Exists(fn.tool)
  /\ fn.pc \in {"update_tool", "finish", "bind", "answer"} /\ ~lag =>
       \A t \in OfStack("tool") : t.id = fn.tool
  /\ fn.pc \in {"finish", "bind", "answer"} =>
       \A t \in Existing(fn.tool) : t.credential = fn.credential /\ t.fields = stack.wanted
  /\ fn.pc \in {"bind", "answer"} =>
       \A a \in Existing(fn.assistant) : a.credential = fn.credential /\ a.tool = fn.tool
  /\ fn.pc = "answer" => binding = fn.assistant

\* What an update has confirmed, and found as it was unless the customer has touched it.
UpdateInv ==
  fn # None /\ fn.request = "Update" /\ fn.pc \in {"update_credential", "update_tool", "bind", "answer"} =>
    /\ fn.assistant = stack.physical.assistant /\ fn.tool = stack.physical.tool
    /\ fn.credential # None /\ stack.physical.credential \in {None, fn.credential}
    /\ ~stack.edited =>
         /\ Exists(fn.assistant) /\ Exists(fn.tool) /\ Exists(fn.credential)
         /\ \A a \in Existing(fn.assistant) : a.credential = fn.credential
         /\ \A t \in Existing(fn.tool) : t.credential = fn.credential
         /\ fn.pc \in {"bind", "answer"} => \A t \in Existing(fn.tool) : t.fields = stack.wanted
         /\ fn.pc = "answer" => binding = fn.assistant

\* The objects a deletion of the stack can find by its scans: all, where lists are prompt,
\* or else all that lists showed when it was asked for.
Shown(kind) ==
  {o \in OfStack(kind) :
     ~lag \/ (stack.state \in {"deleting", "deleted"} /\ o.id \notin stack.unseen)}

\* A deletion is going to delete, or has deleted, all these.
Doomed(objects) == \A o \in objects : Name(o) \in fn.doomed
DeleteInv == fn # None =>
  /\ fn.pc = "check_delete" /\ ~lag => \A t \in OfStack("tool") : t.id = fn.tool
  /\ fn.pc = "delete" /\ ~lag => Doomed(OfStack("tool"))
  /\ fn.pc \in {"scan_assistants", "scan_credentials", "scan_tools"} /\ ~lag
       /\ stack.physical.form = "objects" => OfStack("tool") = {}
  /\ fn.pc \in {"scan_credentials", "scan_tools"} => Doomed(Shown("assistant"))
  /\ fn.pc = "scan_tools" => Doomed(Shown("credential"))
  /\ fn.pc = "delete" /\ fn.scanned => Doomed(Shown("assistant")) /\ Doomed(Shown("credential"))
  /\ fn.pc = "answer" /\ fn.request = "Delete" /\ ~stack.retain =>
       /\ Shown("assistant") = {} /\ Shown("credential") = {}
       /\ ~lag => OfStack("tool") = {}

RunInv == RequestInv /\ CreateInv /\ UpdateInv /\ DeleteInv

\* Where lists are prompt the stack has no tool but the one it knows by its id; before
\* there is an id each has its credential, by which it can be found.
ToolInv == ~lag =>
  /\ stack.physical.form = "objects" => \A t \in OfStack("tool") : t.id = stack.physical.tool
  /\ stack.physical.form # "objects" => \A t \in OfStack("tool") : Exists(t.credential)

GoneInv ==
  /\ stack.state \in {"deleting", "delete_failed", "deleted"} =>
       \A o \in vapi : o.listed \/ o.id \in stack.unseen
  /\ stack.state = "deleted" /\ ~stack.retain =>
       /\ Shown("assistant") = {} /\ Shown("credential") = {}
       /\ ~lag => OfStack("tool") = {}

\* As long as the customer has not touched them, the objects are as they were given to him.
ReadyInv == stack.physical.form = "objects" /\ ~stack.edited =>
  LET p == stack.physical IN
  /\ \A a \in Existing(p.assistant) : a.tool = p.tool
  /\ stack.state \in {"complete", "updating", "update_failed"} /\ stack.replaced \in {Pending, p} =>
       /\ Exists(p.assistant) /\ Exists(p.tool) /\ binding = p.assistant
       /\ \A a \in Existing(p.assistant) :
            /\ Exists(a.credential) /\ p.credential \in {None, a.credential}
            /\ \A t \in Existing(p.tool) : t.credential = a.credential
       /\ stack.state = "complete" => \A t \in Existing(p.tool) : t.fields = stack.fields

OInv ==
  /\ ObjectRefs /\ StackRefs /\ FnRefs /\ FormInv /\ RunInv
  /\ ToolInv /\ GoneInv /\ ReadyInv

-----------------------------------------------------------------------------
(* Ids *)

\* What the invariants of module VapiProvisioningProofs say of the present state.
LEMMA Known ==
  ASSUME IInv
  PROVE  /\ World /\ TypeOK /\ vapi \subseteq Object /\ created \in Nat /\ lag \in BOOLEAN
         /\ stack \in Stack /\ stack.physical \in PhysicalId /\ stack.replaced \in PhysicalId
         /\ fn # None => fn \in Invocation /\ Sound(fn) /\ Busy
         /\ \A o \in vapi : o.id \in Nat /\ o.id # None /\ o.kind \in Kinds
         /\ None \notin Nat
<1>1. World /\ TypeOK /\ (fn # None => fn \in Invocation /\ Sound(fn) /\ Busy)
  BY DEF IInv, World, TypeOK, InvocationInv
<1>2. created \in Nat /\ lag \in BOOLEAN /\ None \notin Nat /\ vapi \subseteq Object /\ Ids \subseteq Nat
  BY <1>1, ProvisioningAssumption DEF TypeOK, Ids
<1>3. stack \in Stack /\ stack.physical \in PhysicalId /\ stack.replaced \in PhysicalId
  BY <1>1 DEF TypeOK, Stack
<1>4. \A o \in vapi : o.id \in Nat /\ o.kind \in Kinds
  BY <1>2 DEF Object
<1> QED BY <1>1, <1>2, <1>3, <1>4

\* What exists under an id that was given out is the stack's.
LEMMA OwnId ==
  ASSUME IInv, NEW id, NEW kind, Was(id, kind)
  PROVE  /\ id # None /\ id \in 1..created
         /\ \A o \in Existing(id) : o \in vapi /\ Mine(o) /\ o.id = id /\ o \in OfStack(kind)
<1>1. id \in Nat /\ id \in 1..created /\ created \in 0..MaxObjects /\ None \notin Nat /\ MaxObjects \in Nat
  BY Known, ProvisioningAssumption DEF Was, TypeOK
<1>2. id \in OwnIds
  BY <1>1 DEF OwnIds
<1>3. \A o \in Existing(id) : Mine(o) /\ o.id = id
  BY <1>2, Known, FoundIsMine
<1> QED BY <1>1, <1>3 DEF Was, OfStack, Existing

\* An id that was given out stays one, while objects only change or go.
Alike(o, q) == o.id = q.id /\ o.kind = q.kind /\ o.owner = q.owner
Stays == UNCHANGED <<created, lag>> /\ \A o \in vapi' : \E q \in vapi : Alike(o, q)

LEMMA WasStays ==
  ASSUME Stays
  PROVE  /\ \A id, kind : Was(id, kind) => Was(id, kind)'
         /\ \A kind : \A o \in OfStack(kind)' : \E q \in OfStack(kind) : q.id = o.id
         /\ \A p : RefersWell(p) => RefersWell(p)'
<1>1. \A id, kind : Was(id, kind) => Was(id, kind)'
  BY DEF Stays, Alike, Was, Existing
<1>2. \A kind : \A o \in OfStack(kind)' : \E q \in OfStack(kind) : q.id = o.id
  BY DEF Stays, Alike, OfStack, Mine
<1>3. \A p : RefersWell(p) => RefersWell(p)'
  BY <1>1 DEF RefersWell
<1> QED BY <1>1, <1>2, <1>3

\* And while one more is created.
LEMMA WasGoesOn ==
  ASSUME IInv, Commit, created < MaxObjects, fn # None, NEW new, new = NewObject(fn.kind)
  PROVE  /\ \A id, kind : Was(id, kind) => Was(id, kind)'
         /\ \A id : Exists(id) => Exists(id)'
         /\ \A p : RefersWell(p) => RefersWell(p)'
         /\ \A o \in vapi : o.id # created + 1
         /\ Was(new.id, new.kind)' /\ Exists(new.id)' /\ new.id = created + 1
         /\ new.kind = fn.kind /\ vapi' = vapi \cup {new} /\ Mine(new)
<1>1. created \in Nat /\ created' = created + 1 /\ vapi' = vapi \cup {new}
  BY Known DEF Commit
<1>2. new.id = created + 1 /\ new.kind = fn.kind /\ new.owner = "stack"
  BY DEF NewObject, Own
<1>3. \A o \in vapi : o.id # created + 1
  <2>1. ASSUME NEW o \in vapi PROVE o.id # created + 1
    <3>1. CASE Mine(o)
      BY <1>1, <3>1, Known DEF World, WorldInv
    <3>2. CASE ~Mine(o)
      <4>1. o.id \notin OwnIds
        BY <3>2, Known DEF World, WorldInv
      <4>2. created + 1 \in OwnIds
        BY <1>1, ProvisioningAssumption DEF OwnIds
      <4> QED BY <4>1, <4>2
    <3> QED BY <3>1, <3>2
  <2> QED BY <2>1
<1>4. \A id, kind : Was(id, kind) => Was(id, kind)'
  <2>1. ASSUME NEW id, NEW kind, Was(id, kind) PROVE Was(id, kind)'
    <3>1. id \in 1..created' /\ id # created + 1
      BY <1>1, <2>1 DEF Was
    <3>2. Existing(id)' = Existing(id)
      BY <1>1, <1>2, <3>1 DEF Existing
    <3> QED BY <2>1, <3>1, <3>2 DEF Was
  <2> QED BY <2>1
<1>5. \A id : Exists(id) => Exists(id)'
  BY <1>1 DEF Exists, Existing
<1>6. Was(new.id, new.kind)' /\ Exists(new.id)'
  <2>1. new \in vapi' /\ new.id \in 1..created'
    BY <1>1, <1>2
  <2>2. \A o \in vapi' : o.id = new.id => o.kind = new.kind
    BY <1>1, <1>2, <1>3
  <2> QED BY <2>1, <2>2 DEF Was, Exists, Existing
<1>7. \A p : RefersWell(p) => RefersWell(p)'
  BY <1>4 DEF RefersWell
<1> QED BY <1>1, <1>2, <1>3, <1>4, <1>5, <1>6, <1>7 DEF Mine

-----------------------------------------------------------------------------
(* Steps of the invocation that only look *)

Quiet == UNCHANGED <<vapi, created, binding, stack, lag>>

LEMMA QuietKeeps ==
  ASSUME OInv, Quiet, FnRefs', RunInv'
  PROVE  OInv'
<1>1. UNCHANGED vapi /\ UNCHANGED created /\ UNCHANGED binding /\ UNCHANGED stack /\ UNCHANGED lag
  BY DEF Quiet
<1>2. ObjectRefs' /\ StackRefs'
  BY <1>1 DEF OInv, ObjectRefs, StackRefs, RefersWell, Was, Existing, OfStack
<1>3. FormInv' /\ GoneInv'
  BY <1>1 DEF OInv, FormInv, GoneInv, Shown, OfStack
<1>4. ToolInv' /\ ReadyInv'
  BY <1>1 DEF OInv, ToolInv, ReadyInv, OfStack, Exists, Existing
<1> QED BY <1>1, <1>2, <1>3, <1>4 DEF OInv

LEMMA QuietStays ==
  ASSUME Quiet
  PROVE  Stays
  BY DEF Quiet, Stays, Alike

\* An invocation that gives up, or is killed, has nothing to answer for.
LEMMA BreaksOff ==
  ASSUME IInv, OInv, Stays, fn # None, stack'.state = stack.state, fn' = None \/ Fail
  PROVE  FnRefs' /\ RunInv'
<1>1. CASE fn' = None
  BY <1>1 DEF FnRefs, RunInv, RequestInv, CreateInv, UpdateInv, DeleteInv
<1>2. CASE Fail
  <2>1. fn \in Invocation
    BY Known
  <2>2. /\ fn'.pc = "fail" /\ fn'.request = fn.request /\ fn'.doomed = fn.doomed
        /\ fn'.assistant = fn.assistant /\ fn'.tool = fn.tool /\ fn'.credential = fn.credential
    BY <1>2, <2>1 DEF Fail, Goto, Invocation
  <2>3. FnRefs'
    <3>1. \A d \in fn.doomed : Was(d.id, d.kind)'
      BY WasStays DEF OInv, FnRefs
    <3>2. RefersWell(fn)'
      <4>1. /\ fn.assistant = None \/ Was(fn.assistant, "assistant")
            /\ fn.tool = None \/ Was(fn.tool, "tool")
            /\ fn.credential = None \/ Was(fn.credential, "credential")
        BY DEF OInv, FnRefs, RefersWell
      <4> QED BY <2>2, <4>1, WasStays DEF RefersWell
    <3> QED BY <2>2, <3>1, <3>2 DEF FnRefs
  <2>4. RequestInv'
    BY <2>2 DEF OInv, RunInv, RequestInv, RequestOf
  <2>5. CreateInv' /\ UpdateInv' /\ DeleteInv'
    BY <2>2 DEF CreateInv, Looking, UpdateInv, DeleteInv
  <2> QED BY <2>3, <2>4, <2>5 DEF RunInv
<1> QED BY <1>1, <1>2

-----------------------------------------------------------------------------
(* Creation *)

\* Ids and objects stay, and more may come.
Grows ==
  /\ \A id, kind : Was(id, kind) => Was(id, kind)'
  /\ \A id : Exists(id) => Exists(id)'
  /\ UNCHANGED <<binding, stack, lag>>

\* A creation goes on with the object it has found or created.
LEMMA ObtainedKeeps ==
  ASSUME IInv, OInv, Grows, fn # None, fn.pc \in {"find", "reconcile", "post"},
         NEW o \in vapi', o.kind = fn.kind, Was(o.id, o.kind)', Obtained(o),
         o.kind = "tool" /\ ~lag => \A t \in OfStack("tool")' : t = o
  PROVE  FnRefs' /\ RunInv'
<1>1. /\ fn \in Invocation /\ fn.kind \in Kinds /\ fn.request = "Create" /\ stack.state = "creating"
      /\ UNCHANGED stack /\ UNCHANGED lag
  BY Known DEF OInv, RunInv, RequestInv, RequestOf, Invocation, Busy, Grows
<1>2. /\ RefersWell(fn) /\ \A d \in fn.doomed : Was(d.id, d.kind)
      /\ CreateInv
  BY DEF OInv, FnRefs, RunInv
<1> PICK f : f = fn
  OBVIOUS
<1>3. /\ f.assistant = None \/ Was(f.assistant, "assistant")'
      /\ f.tool = None \/ Was(f.tool, "tool")'
      /\ f.credential = None \/ Was(f.credential, "credential")'
      /\ \A d \in f.doomed : Was(d.id, d.kind)'
  BY <1>2 DEF RefersWell, Grows
<1>4. Exists(o.id)'
  BY DEF Exists, Existing
<1>6. CASE o.kind = "assistant"
  <2>1. /\ fn'.request = "Create" /\ fn'.pc = "find" /\ fn'.kind = "credential" /\ fn'.doomed = fn.doomed
        /\ fn'.assistant = o.id /\ fn'.tool = fn.tool /\ fn'.credential = fn.credential
    BY <1>1, <1>6, ZenonT(60) DEF Obtained, Invocation
  <2>2. FnRefs'
    BY <1>3, <1>6, <2>1 DEF FnRefs, RefersWell
  <2>3. RequestInv' /\ UpdateInv' /\ DeleteInv'
    BY <1>1, <2>1 DEF RequestInv, UpdateInv, DeleteInv, RequestOf
  <2>4. CreateInv'
    BY <1>4, <2>1 DEF CreateInv, Looking
  <2> QED BY <2>2, <2>3, <2>4 DEF RunInv
<1>7. CASE o.kind = "credential"
  <2>1. /\ fn'.request = "Create" /\ fn'.pc \in {"attach", "fail"} /\ fn'.doomed = fn.doomed
        /\ fn'.assistant = fn.assistant /\ fn'.tool = fn.tool /\ fn'.credential = o.id
    BY <1>1, <1>7 DEF Obtained, Invocation
  <2>2. FnRefs'
    BY <1>3, <1>7, <2>1 DEF FnRefs, RefersWell
  <2>3. RequestInv' /\ UpdateInv' /\ DeleteInv'
    BY <1>1, <2>1 DEF RequestInv, UpdateInv, DeleteInv, RequestOf
  <2>4. Exists(f.assistant)'
    BY <1>1, <1>2, <1>7 DEF CreateInv, Looking, Grows
  <2>5. CreateInv'
    BY <1>4, <2>1, <2>4 DEF CreateInv, Looking
  <2> QED BY <2>2, <2>3, <2>5 DEF RunInv
<1>8. CASE o.kind = "tool"
  <2>1. /\ fn'.request = "Create" /\ fn'.pc = "update_tool" /\ fn'.doomed = fn.doomed
        /\ fn'.assistant = fn.assistant /\ fn'.tool = o.id /\ fn'.credential = fn.credential
    BY <1>1, <1>8 DEF Obtained, Invocation
  <2>2. FnRefs'
    BY <1>3, <1>8, <2>1 DEF FnRefs, RefersWell
  <2>3. RequestInv' /\ UpdateInv' /\ DeleteInv'
    BY <1>1, <2>1 DEF RequestInv, UpdateInv, DeleteInv, RequestOf
  <2>4. Exists(f.assistant)' /\ Exists(f.credential)'
    BY <1>1, <1>2, <1>8 DEF CreateInv, Looking, Grows
  <2>5. ~lag' => \A t \in OfStack("tool")' : t.id = o.id
    BY <1>1, <1>8
  <2>6. CreateInv'
    BY <1>4, <2>1, <2>4, <2>5 DEF CreateInv, Looking
  <2> QED BY <2>2, <2>3, <2>6 DEF RunInv
<1> QED BY <1>1, <1>6, <1>7, <1>8 DEF Kinds

\* A creation looks again, or creates an object of the kind it has been looking for.
LEMMA LooksOn ==
  ASSUME IInv, OInv, Grows, fn # None, fn.pc \in {"find", "check_credentials", "reconcile", "post"},
         fn' \in Invocation, fn'.pc \in {"find", "check_credentials", "reconcile", "post"},
         fn'.kind = fn.kind, fn'.request = fn.request, fn'.doomed = fn.doomed,
         fn'.assistant = fn.assistant, fn'.tool = fn.tool, fn'.credential = fn.credential,
         fn.pc = "check_credentials" => fn.kind = "assistant"
  PROVE  FnRefs' /\ RunInv'
<1>1. fn.request = "Create" /\ stack.state = "creating" /\ UNCHANGED stack
  BY Known DEF OInv, RunInv, RequestInv, RequestOf, Busy, Grows
<1>2. FnRefs'
  <2>1. /\ fn.assistant = None \/ Was(fn.assistant, "assistant")'
        /\ fn.tool = None \/ Was(fn.tool, "tool")'
        /\ fn.credential = None \/ Was(fn.credential, "credential")'
        /\ \A d \in fn.doomed : Was(d.id, d.kind)'
    BY DEF OInv, FnRefs, RefersWell, Grows
  <2> QED BY <2>1 DEF FnRefs, RefersWell
<1>3. RequestInv' /\ UpdateInv' /\ DeleteInv'
  BY <1>1 DEF RequestInv, UpdateInv, DeleteInv, RequestOf
<1>4. /\ fn.kind \in {"credential", "tool"} => Exists(fn.assistant)'
      /\ fn.kind = "tool" => Exists(fn.credential)'
  BY <1>1 DEF OInv, RunInv, CreateInv, Looking, Grows
<1>5. CreateInv'
  BY <1>4 DEF CreateInv, Looking
<1> QED BY <1>2, <1>3, <1>5 DEF RunInv

LEMMA QuietGrows ==
  ASSUME Quiet
  PROVE  Grows
  BY DEF Quiet, Grows, Was, Exists, Existing

\* What a scan by owner adopts.
LEMMA AdoptedKeeps ==
  ASSUME IInv, OInv, Quiet, fn # None, fn.pc \in {"find", "reconcile"},
         (\E o \in Matches(fn.kind) : Acceptable(o) /\ Obtained(o)) \/ Fail
  PROVE  FnRefs' /\ RunInv'
<1>1. CASE Fail
  BY <1>1, QuietStays, BreaksOff DEF Quiet
<1>2. ASSUME NEW o \in Matches(fn.kind), Acceptable(o), Obtained(o) PROVE FnRefs' /\ RunInv'
  <2>1. o \in vapi /\ o.kind = fn.kind /\ o.kind \in Kinds
    BY <1>2, Known DEF Matches
  <2>2. Mine(o)
    BY <1>2, <2>1, Known DEF Acceptable, Sound, World, WorldInv, Kinds
  <2>3. Was(o.id, o.kind)
    BY <2>1, <2>2, Known DEF Was, Existing, World, WorldInv, OInv, ObjectRefs
  <2>4. Was(o.id, o.kind)' /\ o \in vapi'
    BY <2>1, <2>3, QuietGrows DEF Grows, Quiet
  <2>5. o.kind = "tool" /\ ~lag => \A t \in OfStack("tool")' : t = o
    BY <2>1, <2>2, Known DEF Quiet, OfStack, Mine, World, PromptInv
  <2> QED BY <1>2, <2>1, <2>4, <2>5, QuietGrows, ObtainedKeeps
<1> QED BY <1>1, <1>2

LEMMA LookKeepsOutcome ==
  ASSUME IInv, OInv, FindOwned \/ CheckCredentials \/ Reconcile
  PROVE  OInv'
<1>1. fn # None /\ fn \in Invocation /\ Sound(fn) /\ Quiet
  BY Known DEF FindOwned, CheckCredentials, Reconcile, At, Keep, Quiet
<1>2. ASSUME NEW pc \in {"check_credentials", "post"}, Goto(pc),
             fn.pc \in {"find", "check_credentials", "reconcile"}
      PROVE  FnRefs' /\ RunInv'
  <2>1. /\ fn' \in Invocation /\ fn'.pc = pc /\ fn'.kind = fn.kind /\ fn'.request = fn.request
        /\ fn'.doomed = fn.doomed /\ fn'.assistant = fn.assistant /\ fn'.tool = fn.tool
        /\ fn'.credential = fn.credential
    BY <1>1, <1>2 DEF Goto, Invocation, PC
  <2>2. fn.pc = "check_credentials" => fn.kind = "assistant"
    BY <1>1 DEF Sound
  <2> QED BY <1>1, <1>2, <2>1, <2>2, QuietGrows, LooksOn
<1>3. CASE FindOwned
  <2>1. fn.pc = "find"
    BY <1>3 DEF FindOwned, At
  <2>2. CASE Matches(fn.kind) = {}
    <3>1. Goto("check_credentials") \/ Goto("post")
      BY <1>3, <2>2 DEF FindOwned, Adopt
    <3> QED BY <1>1, <1>2, <2>1, <3>1, QuietKeeps
  <2>3. CASE Matches(fn.kind) # {}
    <3>1. (\E o \in Matches(fn.kind) : Acceptable(o) /\ Obtained(o)) \/ Fail
      BY <1>3, <2>3 DEF FindOwned, Adopt
    <3> QED BY <1>1, <2>1, <3>1, AdoptedKeeps, QuietKeeps
  <2> QED BY <2>2, <2>3
<1>4. CASE CheckCredentials
  <2>1. fn.pc = "check_credentials" /\ (Goto("post") \/ Fail)
    BY <1>4 DEF CheckCredentials, At
  <2>2. FnRefs' /\ RunInv'
    BY <1>1, <1>2, <2>1, QuietStays, BreaksOff DEF Quiet
  <2> QED BY <1>1, <2>2, QuietKeeps
<1>5. CASE Reconcile
  <2>1. fn.pc = "reconcile"
    BY <1>5 DEF Reconcile, At
  <2>2. CASE Matches(fn.kind) = {}
    <3>1. \/ fn.reads + 1 < MaxReads /\ fn' = [fn EXCEPT !.reads = @ + 1]
          \/ Goto("post")
          \/ Fail
      BY <1>5, <2>2 DEF Reconcile, Adopt, Fail
    <3>2. CASE fn.reads + 1 < MaxReads /\ fn' = [fn EXCEPT !.reads = @ + 1]
      <4>1. fn' \in Invocation
        BY <1>1, <3>2 DEF Invocation, MaxReads
      <4>2. /\ fn'.pc = "reconcile" /\ fn'.kind = fn.kind /\ fn'.request = fn.request
            /\ fn'.doomed = fn.doomed /\ fn'.assistant = fn.assistant /\ fn'.tool = fn.tool
            /\ fn'.credential = fn.credential
        BY <1>1, <2>1, <3>2 DEF Invocation
      <4> QED BY <1>1, <2>1, <4>1, <4>2, QuietGrows, LooksOn, QuietKeeps
    <3>3. CASE Goto("post")
      BY <1>1, <1>2, <2>1, <3>3, QuietKeeps
    <3>4. CASE Fail
      <4>1. FnRefs' /\ RunInv'
        BY <1>1, <3>4, QuietStays, BreaksOff DEF Quiet
      <4> QED BY <1>1, <4>1, QuietKeeps
    <3> QED BY <3>1, <3>2, <3>3, <3>4
  <2>3. CASE Matches(fn.kind) # {}
    <3>1. (\E o \in Matches(fn.kind) : Acceptable(o) /\ Obtained(o)) \/ Fail
      BY <1>5, <2>3 DEF Reconcile, Adopt
    <3> QED BY <1>1, <2>1, <3>1, AdoptedKeeps, QuietKeeps
  <2> QED BY <2>2, <2>3
<1> QED BY <1>3, <1>4, <1>5

\* One more object, while the stack is being created.
LEMMA CreatedKeeps ==
  ASSUME IInv, OInv, fn # None, fn.pc = "post", created < MaxObjects, Commit,
         UNCHANGED <<binding, stack, lag>>, FnRefs', RunInv'
  PROVE  OInv'
<1> DEFINE new == NewObject(fn.kind)
<1>1. /\ \A id, kind : Was(id, kind) => Was(id, kind)'
      /\ \A id : Exists(id) => Exists(id)'
      /\ \A p : RefersWell(p) => RefersWell(p)'
      /\ \A o \in vapi : o.id # created + 1
      /\ new.id = created + 1 /\ new.kind = fn.kind /\ vapi' = vapi \cup {new} /\ Mine(new)
  BY WasGoesOn
<1>2. fn.request = "Create" /\ stack.state = "creating" /\ stack.physical.form = "pending"
  BY Known DEF OInv, RunInv, RequestInv, RequestOf, Busy, FormInv
<1>3. fn.kind = "tool" => Was(fn.credential, "credential") /\ Exists(fn.credential) /\ new.credential = fn.credential
  <2>1. fn.kind = "tool" => Exists(fn.credential)
    BY <1>2 DEF OInv, RunInv, CreateInv, Looking
  <2>2. fn.kind = "tool" => fn.credential # None
    BY Known DEF Sound
  <2>3. fn.kind = "tool" => new.credential = fn.credential
    BY DEF NewObject
  <2> QED BY <2>1, <2>2, <2>3 DEF OInv, FnRefs, RefersWell
<1> HIDE DEF new
<1>4. ObjectRefs'
  <2>1. \A o, q \in vapi' : o.id = q.id => o = q
    BY <1>1 DEF OInv, ObjectRefs
  <2>2. \A t \in OfStack("tool")' : Was(t.credential, "credential")'
    BY <1>1, <1>3 DEF OInv, ObjectRefs, OfStack, Mine
  <2> QED BY <2>1, <2>2 DEF ObjectRefs
<1>5. UNCHANGED stack /\ UNCHANGED lag
  OBVIOUS
<1>6. StackRefs'
  BY <1>1, <1>5 DEF OInv, StackRefs, RefersWell
<1>7. ToolInv'
  BY <1>1, <1>2, <1>3, <1>5 DEF OInv, ToolInv, OfStack, Mine
<1>8. FormInv' /\ GoneInv' /\ ReadyInv'
  BY <1>2, <1>5 DEF OInv, FormInv, GoneInv, ReadyInv
<1> QED BY <1>4, <1>6, <1>7, <1>8 DEF OInv

LEMMA PostKeepsOutcome ==
  ASSUME IInv, OInv, Post \/ PostLost
  PROVE  OInv'
<1>1. /\ fn # None /\ fn.pc = "post" /\ fn \in Invocation /\ Sound(fn)
      /\ UNCHANGED <<binding, stack, lag>>
  BY Known DEF Post, PostLost, At
<1>2. UNCHANGED <<vapi, created>> => Quiet
  BY <1>1 DEF Quiet
<1>3. CASE Post
  <2>1. CASE created < MaxObjects /\ Commit /\ Obtained(NewObject(fn.kind))
    <3>1. PICK new : new = NewObject(fn.kind)
      OBVIOUS
    <3>2. Grows /\ Was(new.id, new.kind)' /\ new \in vapi' /\ new.kind = fn.kind
          /\ vapi' = vapi \cup {new}
      BY <1>1, <2>1, <3>1, WasGoesOn DEF Grows
    <3>3. new.kind = "tool" /\ ~lag => \A t \in OfStack("tool")' : t = new
      BY <1>1, <3>2 DEF IInv, AbsentInv, OfStack, Mine
    <3>4. FnRefs' /\ RunInv'
      BY <1>1, <2>1, <3>1, <3>2, <3>3, ObtainedKeeps
    <3> QED BY <1>1, <2>1, <3>4, CreatedKeeps
  <2>2. CASE Fail /\ UNCHANGED <<vapi, created>>
    <3>1. FnRefs' /\ RunInv'
      BY <1>1, <1>2, <2>2, QuietStays, BreaksOff DEF Quiet
    <3> QED BY <1>2, <2>2, <3>1, QuietKeeps
  <2> QED BY <1>3, <2>1, <2>2 DEF Post
<1>4. CASE PostLost
  <2>1. fn' = [fn EXCEPT !.pc = "reconcile", !.posts = @ + 1, !.reads = 0]
    BY <1>4 DEF PostLost
  <2>2. fn.posts \in 0..1 /\ fn.posts + 1 \in 0..2 /\ 0 \in 0..MaxReads /\ "reconcile" \in PC
    BY <1>1 DEF Sound, PC, MaxReads
  <2>3. fn' \in Invocation
    BY <1>1, <2>1, <2>2 DEF Invocation
  <2>4. /\ fn'.pc = "reconcile" /\ fn'.kind = fn.kind /\ fn'.request = fn.request
        /\ fn'.doomed = fn.doomed /\ fn'.assistant = fn.assistant /\ fn'.tool = fn.tool
        /\ fn'.credential = fn.credential
    BY <1>1, <2>1 DEF Invocation
  <2>5. CASE created < MaxObjects /\ Commit
    <3>1. Grows
      BY <1>1, <2>5, WasGoesOn DEF Grows
    <3>2. FnRefs' /\ RunInv'
      BY <1>1, <2>3, <2>4, <3>1, LooksOn
    <3> QED BY <1>1, <2>5, <3>2, CreatedKeeps
  <2>6. CASE UNCHANGED <<vapi, created>>
    <3>1. FnRefs' /\ RunInv'
      BY <1>1, <1>2, <2>3, <2>4, <2>6, QuietGrows, LooksOn
    <3> QED BY <1>2, <2>6, <3>1, QuietKeeps
  <2> QED BY <1>4, <2>5, <2>6 DEF PostLost
<1> QED BY <1>3, <1>4

-----------------------------------------------------------------------------
(* Changes *)

\* One object is another version of what it was, and the rest as before.
LEMMA Patched ==
  ASSUME IInv, OInv, NEW id, NEW kind, Was(id, kind), Exists(id), NEW new, Same(Get(id), new),
         vapi' = (vapi \ Existing(id)) \cup {new}, UNCHANGED <<created, lag>>
  PROVE  /\ Stays /\ Existing(id) = {Get(id)} /\ Existing(id)' = {new}
         /\ new.id = id /\ new.kind = kind /\ Mine(new)
         /\ \A x : Exists(x)' <=> Exists(x)
         /\ \A x : x # id => Existing(x)' = Existing(x)
         /\ \A o, q \in vapi' : o.id = q.id => o = q
         /\ \A k : k # kind => OfStack(k)' = OfStack(k)
         /\ \A o \in OfStack(kind)' : o = new \/ o \in OfStack(kind)
<1> PICK old : old = Get(id)
  OBVIOUS
<1>1. old \in Existing(id)
  BY DEF Exists, Existing, Get
<1>2. old \in vapi /\ old.id = id /\ old.kind = kind /\ Mine(old)
  BY <1>1, OwnId DEF OfStack
<1>3. Existing(id) = {old}
  BY <1>1, <1>2 DEF Existing, OInv, ObjectRefs
<1>4. vapi' = (vapi \ {old}) \cup {new} /\ new.id = id /\ new.kind = kind /\ new.owner = old.owner
  BY <1>2, <1>3 DEF Same
<1>5. Mine(new)
  BY <1>2, <1>4 DEF Mine
<1>6. \A o \in vapi : o.id = id => o = old
  BY <1>2 DEF OInv, ObjectRefs
<1>7. Stays
  BY <1>2, <1>4 DEF Stays, Alike
<1>8. Existing(id)' = {new}
  BY <1>4, <1>6 DEF Existing
<1>9. \A x : x # id => Existing(x)' = Existing(x)
  BY <1>2, <1>4 DEF Existing
<1>10. \A x : Exists(x)' <=> Exists(x)
  <2>1. ASSUME NEW x PROVE Exists(x)' <=> Exists(x)
    <3>1. CASE x = id
      BY <1>3, <1>8, <3>1 DEF Exists
    <3>2. CASE x # id
      BY <1>9, <3>2 DEF Exists
    <3> QED BY <3>1, <3>2
  <2> QED BY <2>1
<1>11. \A o, q \in vapi' : o.id = q.id => o = q
  BY <1>4, <1>6 DEF OInv, ObjectRefs
<1>12. /\ \A k : k # kind => OfStack(k)' = OfStack(k)
       /\ \A o \in OfStack(kind)' : o = new \/ o \in OfStack(kind)
  BY <1>2, <1>4 DEF OfStack, Mine
<1> QED BY <1>3, <1>4, <1>5, <1>7, <1>8, <1>9, <1>10, <1>11, <1>12

\* An assistant, or a tool that goes on referring to a credential.
LEMMA PatchKeepsObjects ==
  ASSUME IInv, OInv, NEW id, NEW kind \in {"assistant", "tool"}, Was(id, kind), Exists(id),
         NEW new, Same(Get(id), new), vapi' = (vapi \ Existing(id)) \cup {new},
         UNCHANGED <<created, lag, stack>>, stack.state \in {"creating", "updating"},
         kind = "tool" => /\ Was(new.credential, "credential")
                          /\ stack.physical.form # "objects" => Exists(new.credential)
  PROVE  ObjectRefs' /\ StackRefs' /\ FormInv' /\ ToolInv' /\ GoneInv'
<1>1. /\ Stays /\ new.id = id /\ new.kind = kind
      /\ \A x : Exists(x)' <=> Exists(x)
      /\ \A o, q \in vapi' : o.id = q.id => o = q
      /\ \A k : k # kind => OfStack(k)' = OfStack(k)
      /\ \A o \in OfStack(kind)' : o = new \/ o \in OfStack(kind)
  BY Patched
<1>2. UNCHANGED stack /\ UNCHANGED lag
  OBVIOUS
<1>3. \A t \in OfStack("tool")' : t \in OfStack("tool") \/ (kind = "tool" /\ t = new)
  BY <1>1
<1>4. ObjectRefs'
  <2>1. \A t \in OfStack("tool")' : Was(t.credential, "credential")
    BY <1>3 DEF OInv, ObjectRefs
  <2>2. \A t \in OfStack("tool")' : Was(t.credential, "credential")'
    BY <1>1, <2>1, WasStays
  <2> QED BY <1>1, <2>2 DEF ObjectRefs
<1>5. StackRefs'
  <2>1. \A p : RefersWell(p) => RefersWell(p)'
    BY <1>1, WasStays
  <2> QED BY <1>2, <2>1 DEF OInv, StackRefs, RefersWell
<1>6. ToolInv'
  <2>1. stack.physical.form = "objects" /\ ~lag => \A t \in OfStack("tool")' : t.id = stack.physical.tool
    <3>1. \A t \in OfStack("tool")' : \E q \in OfStack("tool") : q.id = t.id
      BY <1>1, WasStays
    <3> QED BY <3>1 DEF OInv, ToolInv
  <2>2. stack.physical.form # "objects" /\ ~lag => \A t \in OfStack("tool")' : Exists(t.credential)
    BY <1>3 DEF OInv, ToolInv
  <2> QED BY <1>1, <1>2, <2>1, <2>2 DEF ToolInv
<1>7. FormInv' /\ GoneInv'
  BY <1>2 DEF OInv, FormInv, GoneInv
<1> QED BY <1>4, <1>5, <1>6, <1>7

\* Attach and Finish: the assistant of a creation.
LEMMA AssistantKeeps ==
  ASSUME IInv, OInv, fn # None, fn.pc \in {"attach", "finish"}, NEW new, NEW c, NEW t,
         new = [Get(fn.assistant) EXCEPT !.credential = c, !.tool = t],
         c = fn.credential, t = IF fn.pc = "attach" THEN None ELSE fn.tool,
         Patch(fn.assistant, new, Find("tool") \/ Goto("bind")),
         Find("tool") => fn.pc = "attach", Goto("bind") => fn.pc = "finish"
  PROVE  OInv'
<1>1. /\ fn \in Invocation /\ Sound(fn) /\ UNCHANGED <<created, binding, stack, lag>>
      /\ fn.request = "Create" /\ stack.state = "creating" /\ stack.physical.form = "pending"
  BY Known DEF Patch, OInv, RunInv, RequestInv, RequestOf, Busy, FormInv
<1>2. CASE ~Exists(fn.assistant)
  <2>1. Fail /\ Quiet
    BY <1>1, <1>2 DEF Patch, Quiet
  <2> QED BY <1>1, <2>1, QuietStays, BreaksOff, QuietKeeps
<1>3. CASE Exists(fn.assistant)
  <2> PICK f : f = fn
    OBVIOUS
  <2>1. vapi' = (vapi \ Existing(f.assistant)) \cup {new} /\ (Find("tool") \/ Goto("bind") \/ Fail)
    BY <1>3 DEF Patch
  <2>2. Was(f.assistant, "assistant") /\ (f.tool = None \/ Was(f.tool, "tool"))
    <3>1. f.assistant # None
      BY <1>3, Known DEF Exists, Existing
    <3> QED BY <3>1 DEF OInv, FnRefs, RefersWell
  <2>3. Get(f.assistant) \in Object
    BY <1>3, Known DEF Get, Exists, Existing
  <2>4. Same(Get(f.assistant), new) /\ new.credential = f.credential /\ new.tool = t
    <3>1. c \in Ids \cup {None} /\ t \in Ids \cup {None}
      BY <1>1 DEF Invocation
    <3>2. Same(Get(f.assistant), new)
      BY <2>3, <3>1, Rewired
    <3>3. new.credential = c /\ new.tool = t
      BY <2>3 DEF Object
    <3> QED BY <3>2, <3>3
  <2>5. /\ ObjectRefs' /\ StackRefs' /\ FormInv' /\ ToolInv' /\ GoneInv'
    BY <1>1, <1>3, <2>1, <2>2, <2>4, PatchKeepsObjects
  <2>6. /\ Stays /\ Existing(f.assistant)' = {new}
        /\ \A x : Exists(x)' <=> Exists(x)
        /\ \A x : x # f.assistant => Existing(x)' = Existing(x)
        /\ OfStack("tool")' = OfStack("tool")
    <3>1. /\ Stays /\ Existing(f.assistant)' = {new}
          /\ \A x : Exists(x)' <=> Exists(x)
          /\ \A x : x # f.assistant => Existing(x)' = Existing(x)
          /\ \A k : k # "assistant" => OfStack(k)' = OfStack(k)
      <4>1. /\ Exists(f.assistant) /\ UNCHANGED <<created, lag>> /\ Was(f.assistant, "assistant")
            /\ Same(Get(f.assistant), new) /\ vapi' = (vapi \ Existing(f.assistant)) \cup {new}
        BY <1>1, <1>3, <2>1, <2>2, <2>4
      <4> QED BY ONLY <4>1, IInv, OInv, Patched, Zenon
    <3>2. "tool" # "assistant"
      OBVIOUS
    <3> QED BY <3>1, <3>2
  <2>7. ReadyInv'
    BY <1>1 DEF ReadyInv
  <2>8. FnRefs' /\ RunInv'
    <3>1. CASE Fail
      BY <1>1, <2>6, <3>1, BreaksOff
    <3>2. CASE Find("tool") \/ Goto("bind")
      <4>1. /\ fn'.pc \in {"find", "bind"} /\ fn'.request = "Create" /\ fn'.doomed = f.doomed
            /\ fn'.assistant = f.assistant /\ fn'.tool = f.tool /\ fn'.credential = f.credential
            /\ fn'.pc = "find" => fn'.kind = "tool" /\ f.pc = "attach"
            /\ fn'.pc = "bind" => f.pc = "finish"
        BY <1>1, <3>2 DEF Find, Goto, Invocation
      <4>2. FnRefs'
        <5>1. /\ RefersWell(f) /\ \A d \in f.doomed : Was(d.id, d.kind)
          BY DEF OInv, FnRefs
        <5>2. RefersWell(f)' /\ \A d \in f.doomed : Was(d.id, d.kind)'
          BY <2>6, <5>1, WasStays
        <5> QED BY <4>1, <5>2 DEF FnRefs, RefersWell
      <4>3. RequestInv' /\ UpdateInv' /\ DeleteInv'
        BY <1>1, <4>1 DEF RequestInv, UpdateInv, DeleteInv, RequestOf
      <4>4. Exists(f.assistant)' /\ Exists(f.credential)'
        BY <1>1, <2>6 DEF OInv, RunInv, CreateInv
      <4>5. f.pc = "finish" =>
              /\ Exists(f.tool)' /\ (~lag => \A o \in OfStack("tool")' : o.id = f.tool)
              /\ \A o \in Existing(f.tool)' : o.credential = f.credential /\ o.fields = stack.wanted
              /\ \A o \in Existing(f.assistant)' : o.credential = f.credential /\ o.tool = f.tool
        <5> SUFFICES ASSUME f.pc = "finish"
                     PROVE  /\ Exists(f.tool)' /\ (~lag => \A o \in OfStack("tool")' : o.id = f.tool)
                            /\ \A o \in Existing(f.tool)' : o.credential = f.credential /\ o.fields = stack.wanted
                            /\ \A o \in Existing(f.assistant)' : o.credential = f.credential /\ o.tool = f.tool
          OBVIOUS
        <5>1. /\ Exists(f.tool) /\ (~lag => \A o \in OfStack("tool") : o.id = f.tool)
              /\ \A o \in Existing(f.tool) : o.credential = f.credential /\ o.fields = stack.wanted
          BY <1>1 DEF OInv, RunInv, CreateInv
        <5>2. f.tool # f.assistant
          <6>1. PICK o \in Existing(f.tool) : TRUE
            BY <5>1 DEF Exists
          <6>2. o \in OfStack("tool")
            <7>1. f.tool # None
              BY <6>1, Known DEF Existing
            <7> QED BY <2>2, <6>1, <7>1, OwnId
          <6>3. f.tool = f.assistant => o \in OfStack("assistant")
            BY <2>2, <6>1, OwnId
          <6> QED BY <6>2, <6>3 DEF OfStack
        <5>3. Existing(f.tool)' = Existing(f.tool)
          BY <2>6, <5>2
        <5> QED BY <2>4, <2>6, <5>1, <5>3
      <4>6. UNCHANGED stack /\ UNCHANGED lag
        BY <1>1
      <4>7. CreateInv'
        BY <4>1, <4>4, <4>5, <4>6 DEF CreateInv, Looking
      <4> QED BY <4>2, <4>3, <4>7 DEF RunInv
    <3> QED BY <2>1, <3>1, <3>2
  <2> QED BY <2>5, <2>7, <2>8 DEF OInv
<1> QED BY <1>2, <1>3

LEMMA ToolKeeps ==
  ASSUME IInv, OInv, UpdateTool
  PROVE  OInv'
<1>1. /\ fn # None /\ fn.pc = "update_tool" /\ fn \in Invocation /\ Sound(fn)
      /\ UNCHANGED <<created, binding, stack, lag>>
      /\ fn.request \in {"Create", "Update"} /\ fn.request = RequestOf(stack.state)
  BY Known DEF UpdateTool, At, Patch, OInv, RunInv, RequestInv, Invocation, Requests
<1>2. stack.state = IF fn.request = "Create" THEN "creating" ELSE "updating"
  BY <1>1, Known DEF RequestOf, Busy
<1>3. CASE ~Exists(fn.tool)
  <2>1. Fail /\ Quiet
    BY <1>1, <1>3 DEF UpdateTool, Patch, Quiet
  <2> QED BY <1>1, <2>1, QuietStays, BreaksOff, QuietKeeps
<1>4. CASE Exists(fn.tool)
  <2> PICK f : f = fn
    OBVIOUS
  <2> PICK new : new = [Get(fn.tool) EXCEPT !.credential = fn.credential, !.fields = stack.wanted]
    OBVIOUS
  <2>1. /\ vapi' = (vapi \ Existing(f.tool)) \cup {new}
        /\ Goto(IF fn.request = "Create" THEN "finish" ELSE "bind") \/ Fail
    BY <1>4 DEF UpdateTool, Patch
  <2>2. /\ Was(f.tool, "tool") /\ Was(f.credential, "credential")
        /\ f.assistant = None \/ Was(f.assistant, "assistant")
    <3>1. f.tool # None
      BY <1>4, Known DEF Exists, Existing
    <3>2. f.credential # None
      <4>1. fn.request = "Create" => Exists(fn.credential)
        BY <1>1 DEF OInv, RunInv, CreateInv
      <4>2. fn.request = "Update" => fn.credential # None
        BY <1>1 DEF OInv, RunInv, UpdateInv
      <4> QED BY <1>1, <4>1, <4>2, Known DEF Exists, Existing
    <3> QED BY <1>1, <3>1, <3>2 DEF OInv, FnRefs, RefersWell
  <2>3. Get(f.tool) \in Object
    BY <1>4, Known DEF Get, Exists, Existing
  <2>4. Same(Get(f.tool), new) /\ new.credential = f.credential /\ new.fields = stack.wanted
    <3>1. fn.credential \in Ids \cup {None} /\ stack.wanted \in Fields \cup {None}
      BY <1>1, Known DEF Invocation, Stack
    <3>2. Same(Get(f.tool), new)
      BY <2>3, <3>1, Revised
    <3>3. new.credential = f.credential /\ new.fields = stack.wanted
      BY <2>3 DEF Object
    <3> QED BY <3>2, <3>3
  <2>5. stack.physical.form # "objects" => Exists(f.credential)
    <3>1. stack.physical.form # "objects" => fn.request = "Create"
      BY <1>1, <1>2 DEF OInv, FormInv
    <3> QED BY <1>1, <3>1 DEF OInv, RunInv, CreateInv
  <2>6. /\ ObjectRefs' /\ StackRefs' /\ FormInv' /\ ToolInv' /\ GoneInv'
    BY <1>1, <1>2, <1>4, <2>1, <2>2, <2>4, <2>5, PatchKeepsObjects
  <2>7. /\ Stays /\ Existing(f.tool)' = {new}
        /\ \A x : Exists(x)' <=> Exists(x)
        /\ \A x : x # f.tool => Existing(x)' = Existing(x)
    <3>1. /\ Exists(f.tool) /\ UNCHANGED <<created, lag>> /\ Was(f.tool, "tool")
          /\ Same(Get(f.tool), new) /\ vapi' = (vapi \ Existing(f.tool)) \cup {new}
      BY <1>1, <1>4, <2>1, <2>2, <2>4
    <3> QED BY ONLY <3>1, IInv, OInv, Patched, Zenon
  <2>8. \A p : p = f.tool \/ Was(p, "assistant") => (p = f.tool <=> ~Was(p, "assistant"))
    <3>1. \E o \in Existing(f.tool) : o.kind = "tool"
      BY <1>4, <2>2 DEF Was, Exists
    <3> QED BY <3>1 DEF Was
  <2>9. ReadyInv'
    <3> PICK p : p = stack.physical
      OBVIOUS
    <3>1. UNCHANGED stack /\ UNCHANGED binding
      BY <1>1
    <3>2. CASE stack.state = "creating"
      BY <3>1, <3>2 DEF OInv, FormInv, ReadyInv
    <3>3. CASE stack.state = "updating"
      <4> SUFFICES ASSUME ~stack.edited
                   PROVE  /\ \A a \in Existing(p.assistant)' : a.tool = p.tool
                          /\ stack.replaced \in {Pending, p} =>
                               /\ Exists(p.assistant)' /\ Exists(p.tool)' /\ binding = p.assistant
                               /\ \A a \in Existing(p.assistant)' :
                                    /\ Exists(a.credential)' /\ p.credential \in {None, a.credential}
                                    /\ \A t \in Existing(p.tool)' : t.credential = a.credential
        BY <3>1, <3>3, <2>7 DEF ReadyInv
      <4>1. /\ p.tool = f.tool /\ p.assistant = f.assistant /\ p.form = "objects"
            /\ \A a \in Existing(f.assistant) : a.credential = f.credential
        BY <1>1, <1>2, <3>3 DEF OInv, RunInv, UpdateInv, FormInv
      <4>2. Existing(p.assistant)' = Existing(p.assistant)
        <5>1. p.assistant # f.tool
          BY <2>2, <2>8, <4>1, OwnId
        <5> QED BY <2>7, <5>1
      <4>3. \A a \in Existing(p.assistant) : a.tool = p.tool
        BY <4>1 DEF OInv, ReadyInv
      <4>4. stack.replaced \in {Pending, p} =>
              /\ Exists(p.assistant) /\ Exists(p.tool) /\ binding = p.assistant
              /\ \A a \in Existing(p.assistant) : Exists(a.credential) /\ p.credential \in {None, a.credential}
        BY <3>3, <4>1 DEF OInv, ReadyInv
      <4>5. \A t \in Existing(p.tool)' : t.credential = f.credential
        BY <2>4, <2>7, <4>1
      <4>6. \A a \in Existing(p.assistant)' : a.credential = f.credential
        BY <4>1, <4>2
      <4> QED BY <2>7, <4>2, <4>3, <4>4, <4>5, <4>6
    <3> QED BY <1>2, <3>2, <3>3
  <2>10. FnRefs' /\ RunInv'
    <3>1. CASE Fail
      BY <1>1, <2>7, <3>1, BreaksOff
    <3>2. CASE Goto(IF fn.request = "Create" THEN "finish" ELSE "bind")
      <4>1. /\ fn'.request = f.request /\ fn'.doomed = f.doomed
            /\ fn'.assistant = f.assistant /\ fn'.tool = f.tool /\ fn'.credential = f.credential
            /\ fn'.pc = IF f.request = "Create" THEN "finish" ELSE "bind"
        BY <1>1, <3>2 DEF Goto, Invocation
      <4>2. FnRefs'
        <5>1. /\ RefersWell(f) /\ \A d \in f.doomed : Was(d.id, d.kind)
          BY <1>1 DEF OInv, FnRefs
        <5>2. RefersWell(f)' /\ \A d \in f.doomed : Was(d.id, d.kind)'
          BY <2>7, <5>1, WasStays
        <5> QED BY <4>1, <5>2 DEF FnRefs, RefersWell
      <4>3. UNCHANGED stack /\ UNCHANGED lag
        BY <1>1
      <4>4. RequestInv' /\ DeleteInv'
        BY <1>1, <1>2, <4>1, <4>3 DEF RequestInv, DeleteInv, RequestOf
      <4>5. CreateInv'
        <5> SUFFICES ASSUME f.request = "Create" PROVE CreateInv'
          BY <4>1 DEF CreateInv
        <5>1. /\ Exists(f.assistant)' /\ Exists(f.credential)' /\ Exists(f.tool)'
              /\ ~lag => \A t \in OfStack("tool") : t.id = f.tool
          BY <1>1, <1>4, <2>7 DEF OInv, RunInv, CreateInv
        <5>2. ~lag => \A t \in OfStack("tool")' : t.id = f.tool
          BY <2>7, <5>1, WasStays
        <5> QED BY <2>4, <2>7, <4>1, <4>3, <5>1, <5>2 DEF CreateInv, Looking
      <4>6. UpdateInv'
        <5> SUFFICES ASSUME f.request = "Update" PROVE UpdateInv'
          BY <1>1, <4>1 DEF UpdateInv
        <5>1. /\ f.assistant = stack.physical.assistant /\ f.tool = stack.physical.tool
              /\ f.credential # None /\ stack.physical.credential \in {None, f.credential}
              /\ ~stack.edited => /\ Exists(f.assistant) /\ Exists(f.tool) /\ Exists(f.credential)
                                  /\ \A a \in Existing(f.assistant) : a.credential = f.credential
          BY <1>1 DEF OInv, RunInv, UpdateInv
        <5>2. f.assistant # f.tool
          BY <1>4, <2>2, <2>8, Known DEF Exists, Existing
        <5>3. Existing(f.assistant)' = Existing(f.assistant)
          BY <2>7, <5>2
        <5>4. ~stack.edited =>
                /\ Exists(f.assistant)' /\ Exists(f.tool)' /\ Exists(f.credential)'
                /\ \A a \in Existing(f.assistant)' : a.credential = f.credential
          BY <2>7, <5>1, <5>3
        <5>5. \A t \in Existing(f.tool)' : t.credential = f.credential /\ t.fields = stack.wanted
          BY <2>4, <2>7
        <5> QED BY <4>1, <4>3, <5>1, <5>4, <5>5 DEF UpdateInv
      <4> QED BY <4>2, <4>4, <4>5, <4>6 DEF RunInv
    <3> QED BY <2>1, <3>1, <3>2
  <2> QED BY <2>6, <2>9, <2>10 DEF OInv
<1> QED BY <1>3, <1>4

LEMMA ChangeKeepsOutcome ==
  ASSUME IInv, OInv, Attach \/ UpdateTool \/ Finish
  PROVE  OInv'
<1>1. CASE UpdateTool
  BY <1>1, ToolKeeps
<1>2. CASE Attach
  <2> PICK new : new = [Get(fn.assistant) EXCEPT !.credential = fn.credential, !.tool = None]
    OBVIOUS
  <2>1. fn # None /\ fn.pc = "attach" /\ fn \in Invocation /\ Patch(fn.assistant, new, Find("tool"))
    BY <1>2, Known DEF Attach, At
  <2>2. /\ fn'.pc \in {"find", "fail"}
    BY <2>1 DEF Patch, Find, Fail, Goto, Invocation
  <2>3. ~Goto("bind")
    BY <2>1, <2>2 DEF Goto, Invocation
  <2>4. Patch(fn.assistant, new, Find("tool") \/ Goto("bind"))
    BY <2>1 DEF Patch
  <2> QED BY <2>1, <2>3, <2>4, AssistantKeeps
<1>3. CASE Finish
  <2> PICK new : new = [Get(fn.assistant) EXCEPT !.credential = fn.credential, !.tool = fn.tool]
    OBVIOUS
  <2>1. fn # None /\ fn.pc = "finish" /\ fn \in Invocation /\ Patch(fn.assistant, new, Goto("bind"))
    BY <1>3, Known DEF Finish, At
  <2>2. /\ fn'.pc \in {"bind", "fail"}
    BY <2>1 DEF Patch, Fail, Goto, Invocation
  <2>3. ~Find("tool")
    BY <2>1, <2>2 DEF Find, Invocation
  <2>4. Patch(fn.assistant, new, Find("tool") \/ Goto("bind"))
    BY <2>1 DEF Patch
  <2> QED BY <2>1, <2>3, <2>4, AssistantKeeps
<1> QED BY <1>1, <1>2, <1>3

\* Goto keeps all but the place.
LEMMA GoesOnAs ==
  ASSUME fn \in Invocation, NEW pc, Goto(pc)
  PROVE  /\ fn'.pc = pc /\ fn'.request = fn.request /\ fn'.doomed = fn.doomed /\ fn'.kind = fn.kind
         /\ fn'.assistant = fn.assistant /\ fn'.tool = fn.tool /\ fn'.credential = fn.credential
         /\ fn'.scanned = fn.scanned
  BY DEF Goto, Invocation

LEMMA CheckUpdateKeeps ==
  ASSUME IInv, OInv, CheckUpdate
  PROVE  OInv'
<1>1. /\ fn # None /\ fn.pc = "check_update" /\ fn \in Invocation /\ Quiet
      /\ fn.request = "Update" /\ stack.state = "updating"
  BY Known DEF CheckUpdate, At, Keep, Quiet, OInv, RunInv, RequestInv, RequestOf, Busy
<1>2. CASE Fail
  BY <1>1, <1>2, QuietStays, BreaksOff, QuietKeeps DEF Quiet
<1>3. CASE ~Fail
  <2> DEFINE p == stack.physical
             a == Get(p.assistant)
             t == Get(p.tool)
  <2>1. /\ Exists(p.assistant) /\ Exists(p.tool)
        /\ a.credential # None /\ p.credential \in {None, a.credential}
        /\ Exists(a.credential) /\ t.credential = a.credential
        /\ fn' = [fn EXCEPT !.pc = "update_credential", !.assistant = p.assistant,
                            !.tool = p.tool, !.credential = a.credential]
    BY <1>3 DEF CheckUpdate
  <2>2. /\ a \in Existing(p.assistant) /\ t \in Existing(p.tool)
        /\ \A o \in Existing(p.assistant) : o = a
        /\ \A o \in Existing(p.tool) : o = t
    BY <2>1 DEF Exists, Existing, Get, OInv, ObjectRefs
  <2> HIDE DEF a, t
  <2>3. /\ RefersWell(p) /\ p.tool # None
    BY <2>2, Known DEF OInv, StackRefs, Existing
  <2>4. Was(a.credential, "credential")
    <3>1. t \in OfStack("tool")
      BY <2>2, <2>3, OwnId DEF RefersWell
    <3> QED BY <2>1, <3>1 DEF OInv, ObjectRefs
  <2> HIDE DEF p
  <2>5. /\ fn'.pc = "update_credential" /\ fn'.request = "Update" /\ fn'.doomed = fn.doomed
        /\ fn'.assistant = p.assistant /\ fn'.tool = p.tool /\ fn'.credential = a.credential
    BY <1>1, <2>1 DEF Invocation
  <2> PICK q : q = p
    OBVIOUS
  <2> PICK c : c = a.credential
    OBVIOUS
  <2>6. /\ UNCHANGED stack /\ UNCHANGED lag /\ q = stack.physical /\ q = stack'.physical
    BY <1>1 DEF Quiet, p
  <2>7. \A id, kind : Was(id, kind) => Was(id, kind)'
    BY <1>1, QuietStays, WasStays
  <2>8. FnRefs'
    <3>1. /\ q.assistant = None \/ Was(q.assistant, "assistant")'
          /\ q.tool = None \/ Was(q.tool, "tool")'
          /\ Was(c, "credential")'
      BY <2>3, <2>4, <2>7 DEF RefersWell
    <3>2. \A d \in fn.doomed : Was(d.id, d.kind)
      BY <1>1 DEF OInv, FnRefs
    <3> QED BY <2>5, <2>7, <3>1, <3>2 DEF FnRefs, RefersWell
  <2>9. RequestInv' /\ CreateInv' /\ DeleteInv'
    BY <1>1, <2>5, <2>6 DEF RequestInv, CreateInv, DeleteInv, RequestOf
  <2>10. /\ Exists(q.assistant)' /\ Exists(q.tool)' /\ Exists(c)'
         /\ \A o \in Existing(q.assistant)' : o.credential = c
         /\ \A o \in Existing(q.tool)' : o.credential = c
    <3>1. \A x : Existing(x)' = Existing(x)
      BY <1>1 DEF Existing, Quiet
    <3> QED BY <2>1, <2>2, <3>1 DEF Exists
  <2>11. UpdateInv'
    BY <2>1, <2>5, <2>6, <2>10 DEF UpdateInv
  <2> QED BY <1>1, <2>8, <2>9, <2>11, QuietKeeps DEF RunInv
<1> QED BY <1>2, <1>3

LEMMA CredentialKeeps ==
  ASSUME IInv, OInv, UpdateCredential \/ Raise
  PROVE  OInv'
<1>1. /\ fn # None /\ fn \in Invocation /\ Quiet
      /\ Fail \/ (fn.pc = "update_credential" /\ Goto("update_tool"))
  BY Known DEF UpdateCredential, Raise, At, Keep, Quiet
<1>2. CASE Fail
  BY <1>1, <1>2, QuietStays, BreaksOff, QuietKeeps DEF Quiet
<1>3. CASE fn.pc = "update_credential" /\ Goto("update_tool")
  <2>1. /\ fn'.pc = "update_tool" /\ fn'.request = fn.request /\ fn'.doomed = fn.doomed
        /\ fn'.assistant = fn.assistant /\ fn'.tool = fn.tool /\ fn'.credential = fn.credential
    BY <1>1, <1>3, GoesOnAs
  <2>2. fn.request = "Update" /\ stack.state = "updating" /\ UNCHANGED stack /\ UNCHANGED vapi /\ UNCHANGED created
    BY <1>1, <1>3, Known DEF Quiet, OInv, RunInv, RequestInv, RequestOf, Busy
  <2>3. FnRefs'
    BY <1>1, <2>1, <2>2 DEF OInv, FnRefs, RefersWell, Was, Existing
  <2>4. RequestInv' /\ CreateInv' /\ DeleteInv'
    BY <2>1, <2>2 DEF RequestInv, CreateInv, DeleteInv, RequestOf
  <2>5. UpdateInv'
    BY <1>1, <1>3, <2>1, <2>2 DEF OInv, RunInv, UpdateInv, Exists, Existing
  <2> QED BY <1>1, <2>3, <2>4, <2>5, QuietKeeps DEF RunInv
<1> QED BY <1>1, <1>2, <1>3

LEMMA BindKeeps ==
  ASSUME IInv, OInv, BindIdentity
  PROVE  OInv'
<1>1. /\ fn # None /\ fn \in Invocation /\ fn.pc = "bind"
      /\ UNCHANGED vapi /\ UNCHANGED created /\ UNCHANGED stack /\ UNCHANGED lag
      /\ fn.request \in {"Create", "Update"} /\ fn.request = RequestOf(stack.state)
  BY Known DEF BindIdentity, At, OInv, RunInv, RequestInv, Invocation, Requests
<1>2. stack.state = IF fn.request = "Create" THEN "creating" ELSE "updating"
  BY <1>1, Known DEF RequestOf, Busy
<1>3. PICK pc \in {"answer", "check_delete", "fail"} :
        /\ Goto(pc)
        /\ pc = "answer" => binding' = fn.assistant
        /\ pc = "check_delete" => fn.request = "Create"
        /\ binding' \in {binding, fn.assistant}
  BY DEF BindIdentity, BindFailed, Fail
<1>4. /\ fn'.pc = pc /\ fn'.request = fn.request /\ fn'.doomed = fn.doomed
      /\ fn'.assistant = fn.assistant /\ fn'.tool = fn.tool /\ fn'.credential = fn.credential
  BY <1>1, <1>3, GoesOnAs
<1>5. ObjectRefs' /\ StackRefs' /\ FnRefs'
  BY <1>1, <1>4 DEF OInv, ObjectRefs, StackRefs, FnRefs, RefersWell, Was, Existing, OfStack
<1>6. FormInv' /\ ToolInv' /\ GoneInv'
  BY <1>1 DEF OInv, FormInv, ToolInv, GoneInv, Shown, OfStack, Exists, Existing
<1>7. /\ \A x : Existing(x)' = Existing(x) /\ (Exists(x)' <=> Exists(x))
      /\ \A k : OfStack(k)' = OfStack(k)
  BY <1>1 DEF Existing, Exists, OfStack
<1>8. ReadyInv'
  <2>1. CASE stack.state = "creating"
    BY <1>1, <2>1 DEF OInv, FormInv, ReadyInv
  <2>2. CASE stack.state = "updating"
    <3>1. fn.assistant = stack.physical.assistant
      BY <1>1, <1>2, <2>2 DEF OInv, RunInv, UpdateInv
    <3> QED BY <1>1, <1>3, <1>7, <2>2, <3>1 DEF OInv, ReadyInv
  <2> QED BY <1>2, <2>1, <2>2
<1>9. RequestInv'
  BY <1>1, <1>3, <1>4 DEF RequestInv, RequestOf
<1>10. CreateInv'
  BY <1>1, <1>3, <1>4, <1>7 DEF OInv, RunInv, CreateInv, Looking
<1>11. UpdateInv'
  BY <1>1, <1>3, <1>4, <1>7 DEF OInv, RunInv, UpdateInv
<1>12. DeleteInv'
  <2>1. pc = "check_delete" /\ ~lag => \A t \in OfStack("tool") : t.id = fn.tool
    BY <1>1, <1>3 DEF OInv, RunInv, CreateInv
  <2> QED BY <1>1, <1>3, <1>4, <1>7, <2>1 DEF DeleteInv
<1> QED BY <1>5, <1>6, <1>8, <1>9, <1>10, <1>11, <1>12 DEF OInv, RunInv

-----------------------------------------------------------------------------
(* Deletion *)

\* The scan by owner is the end of a deletion.
ScanInv == fn # None /\ fn.scanned => fn.pc \in {"delete", "answer", "fail"}

\* Creating and changing have no part in it.
LEMMA ObtainedUnscanned ==
  ASSUME fn \in Invocation, NEW o, o.kind \in Kinds, Obtained(o)
  PROVE  fn'.scanned = fn.scanned
  BY DEF Obtained, Kinds, Invocation

LEMMA WorkUnscanned ==
  ASSUME IInv, \/ FindOwned \/ CheckCredentials \/ Post \/ PostLost \/ Reconcile
               \/ Attach \/ UpdateTool \/ Finish \/ CheckUpdate \/ UpdateCredential \/ BindIdentity
               \/ CheckDelete \/ ScanAssistants \/ ScanCredentials
  PROVE  /\ fn # None /\ fn \in Invocation /\ fn'.scanned = fn.scanned
         /\ fn.pc \notin {"delete", "answer", "fail"}
<1>1. /\ fn # None /\ fn \in Invocation /\ fn.pc \notin {"delete", "answer", "fail"}
  BY Known DEF FindOwned, CheckCredentials, Post, PostLost, Reconcile, Attach, UpdateTool, Finish, CheckUpdate,
               UpdateCredential, BindIdentity, CheckDelete, ScanAssistants, ScanCredentials, At
<1>2. ASSUME NEW pc, Goto(pc) PROVE fn'.scanned = fn.scanned
  BY <1>1, <1>2, GoesOnAs
<1>3. Fail => fn'.scanned = fn.scanned
  BY <1>2 DEF Fail
<1>4. ASSUME NEW none, Adopt(none), none => fn'.scanned = fn.scanned PROVE fn'.scanned = fn.scanned
  <2>1. \A o \in Matches(fn.kind) : o.kind \in Kinds
    BY Known DEF Matches
  <2> QED BY <1>1, <1>3, <1>4, <2>1, ObtainedUnscanned DEF Adopt
<1>5. CASE FindOwned
  BY <1>1, <1>2, <1>4, <1>5 DEF FindOwned
<1>6. CASE CheckCredentials
  BY <1>1, <1>2, <1>3, <1>6 DEF CheckCredentials
<1>7. CASE Post
  <2>1. NewObject(fn.kind).kind \in Kinds
    BY <1>1 DEF NewObject, Own, Invocation
  <2> QED BY <1>1, <1>3, <1>7, <2>1, ObtainedUnscanned DEF Post
<1>8. CASE PostLost \/ ScanAssistants \/ ScanCredentials
  BY <1>1, <1>8 DEF PostLost, ScanAssistants, ScanCredentials, Invocation
<1>9. CASE Reconcile
  <2>1. CASE Matches(fn.kind) = {}
    <3>1. \/ fn' = [fn EXCEPT !.reads = @ + 1]
          \/ Goto("post") \/ Fail
      BY <1>9, <2>1 DEF Reconcile, Adopt, Fail
    <3>2. fn' = [fn EXCEPT !.reads = @ + 1] => fn'.scanned = fn.scanned
      BY <1>1 DEF Invocation
    <3> QED BY <1>1, <1>2, <1>3, <3>1, <3>2
  <2>2. CASE Matches(fn.kind) # {}
    <3>1. (\E o \in Matches(fn.kind) : Acceptable(o) /\ Obtained(o)) \/ Fail
      BY <1>9, <2>2 DEF Reconcile, Adopt
    <3>2. \A o \in Matches(fn.kind) : o.kind \in Kinds
      BY Known DEF Matches
    <3> QED BY <1>1, <1>3, <3>1, <3>2, ObtainedUnscanned
  <2> QED BY <2>1, <2>2
<1>10. CASE Attach
  <2>1. Find("tool") => fn'.scanned = fn.scanned
    BY <1>1 DEF Find, Invocation
  <2> QED BY <1>1, <1>3, <1>10, <2>1 DEF Attach, Patch
<1>11. CASE UpdateTool
  BY <1>1, <1>2, <1>3, <1>11 DEF UpdateTool, Patch
<1>12. CASE Finish
  BY <1>1, <1>2, <1>3, <1>12 DEF Finish, Patch
<1>13. CASE CheckUpdate
  <2>1. Fail \/ \E p, c : fn' = [fn EXCEPT !.pc = "update_credential", !.assistant = p.assistant,
                                          !.tool = p.tool, !.credential = c]
    BY <1>13 DEF CheckUpdate
  <2>2. \A p, c : [fn EXCEPT !.pc = "update_credential", !.assistant = p.assistant,
                             !.tool = p.tool, !.credential = c].scanned = fn.scanned
    BY <1>1 DEF Invocation
  <2> QED BY <1>1, <1>3, <2>1, <2>2, ZenonT(60)
<1>14. CASE UpdateCredential
  BY <1>1, <1>2, <1>3, <1>14 DEF UpdateCredential
<1>15. CASE BindIdentity
  BY <1>1, <1>2, <1>3, <1>15 DEF BindIdentity, BindFailed
<1>16. CASE CheckDelete
  <2>1. Fail \/ \E D : fn' = [fn EXCEPT !.pc = "delete", !.doomed = D]
    BY <1>16 DEF CheckDelete
  <2>2. \A D : [fn EXCEPT !.pc = "delete", !.doomed = D].scanned = fn.scanned
    BY <1>1 DEF Invocation
  <2> QED BY <1>1, <1>3, <2>1, <2>2
<1> QED BY <1>5, <1>6, <1>7, <1>8, <1>9, <1>10, <1>11, <1>12, <1>13, <1>14, <1>15, <1>16

LEMMA ScanKeeps == IInv /\ ScanInv /\ [Next]_vars => ScanInv'
<1> SUFFICES ASSUME IInv, ScanInv, [Next]_vars PROVE ScanInv'
  OBVIOUS
<1>1. CASE \/ FindOwned \/ CheckCredentials \/ Post \/ PostLost \/ Reconcile
           \/ Attach \/ UpdateTool \/ Finish \/ CheckUpdate \/ UpdateCredential \/ BindIdentity
           \/ CheckDelete \/ ScanAssistants \/ ScanCredentials
  BY <1>1, WorkUnscanned DEF ScanInv
<1>2. CASE ScanTools
  <2>1. fn \in Invocation /\ \E D : fn' = [fn EXCEPT !.pc = "delete", !.scanned = TRUE, !.doomed = D]
    BY <1>2, Known DEF ScanTools, At
  <2> QED BY <2>1 DEF ScanInv, Invocation
<1>3. CASE DeleteNext
  <2>1. fn \in Invocation /\ fn.pc = "delete" /\ (Fail \/ \E D : fn' = [fn EXCEPT !.doomed = D])
    BY <1>3, Known DEF DeleteNext, At
  <2>2. Fail => ScanInv'
    BY <2>1, GoesOnAs DEF Fail, ScanInv
  <2>3. \A D : [fn EXCEPT !.doomed = D].pc = "delete"
    BY <2>1 DEF Invocation
  <2> QED BY <2>1, <2>2, <2>3 DEF ScanInv
<1>4. CASE DeletePassed
  <2>1. fn \in Invocation /\ (Goto("answer") \/ Fail \/ (~fn.scanned /\ Goto("scan_assistants")))
    BY <1>4, Known DEF DeletePassed, At, Fail
  <2> QED BY <2>1, GoesOnAs DEF Fail, ScanInv
<1>5. CASE Raise \/ AnswerSuccess \/ AnswerFailed
  <2>1. fn' = None \/ (fn \in Invocation /\ Fail)
    BY <1>5, Known DEF Raise, AnswerSuccess, AnswerFailed, At
  <2> QED BY <2>1, GoesOnAs DEF Fail, ScanInv
<1>6. CASE Deliver
  <2>1. ~fn'.scanned
    BY <1>6 DEF Deliver
  <2> QED BY <2>1 DEF ScanInv
<1>7. CASE \/ Crash \/ GiveUp \/ RequestUpdate \/ RequestDelete
           \/ BecomeListed \/ CustomerEdits \/ Rest \/ CalmDown \/ UNCHANGED vars
  <2>1. fn' = None \/ fn' = fn
    BY <1>7 DEF Crash, GiveUp, RequestUpdate, RequestDelete, BecomeListed, CustomerEdits, Rest, CalmDown, vars
  <2> QED BY <2>1 DEF ScanInv
<1> QED BY <1>1, <1>2, <1>3, <1>4, <1>5, <1>6, <1>7 DEF Next, Work, Environment

\* What of the stack's is chosen to be deleted is chosen by its id and its kind.
LEMMA NamesWere ==
  ASSUME IInv, OInv, NEW S, \A o \in S : o \in vapi /\ Mine(o)
  PROVE  \A d \in {Name(o) : o \in S} : Was(d.id, d.kind)
<1>1. \A o \in S : o.id \in 1..created /\ \A q \in Existing(o.id) : q = o
  BY Known DEF Existing, World, WorldInv, OInv, ObjectRefs
<1> QED BY <1>1 DEF Was, Name

\* A deletion finds what to delete.
NamedIn(objects, names) == \A o \in objects : Name(o) \in names

LEMMA DeletionGoesOn ==
  ASSUME IInv, OInv, Keep, fn # None,
         fn.pc \in {"check_delete", "scan_assistants", "scan_credentials", "scan_tools"},
         NEW pc \in {"scan_credentials", "scan_tools", "delete"}, NEW D, NEW scanned \in BOOLEAN,
         fn' = [fn EXCEPT !.pc = pc, !.doomed = D, !.scanned = scanned],
         \A d \in D : Was(d.id, d.kind),
         pc = "delete" /\ ~lag => NamedIn(OfStack("tool"), D),
         pc # "delete" => fn.pc # "check_delete",
         pc # "delete" \/ scanned => NamedIn(Shown("assistant"), D),
         pc = "scan_tools" \/ scanned => NamedIn(Shown("credential"), D)
  PROVE  OInv'
<1>1. /\ fn \in Invocation /\ Quiet /\ UNCHANGED vapi /\ UNCHANGED created /\ UNCHANGED stack /\ UNCHANGED lag
      /\ fn.request = RequestOf(stack.state) /\ fn.request # "Update"
  BY Known DEF Keep, Quiet, OInv, RunInv, RequestInv
<1>2. /\ fn'.pc = pc /\ fn'.doomed = D /\ fn'.request = fn.request /\ fn'.scanned = scanned
      /\ fn'.assistant = fn.assistant /\ fn'.tool = fn.tool /\ fn'.credential = fn.credential
  BY <1>1 DEF Invocation
<1>3. FnRefs'
  BY <1>1, <1>2 DEF OInv, FnRefs, RefersWell, Was, Existing
<1>4. RequestInv' /\ CreateInv' /\ UpdateInv'
  BY <1>1, <1>2 DEF RequestInv, CreateInv, UpdateInv, Looking, RequestOf
<1>5. DeleteInv'
  <2>1. pc # "delete" /\ ~lag /\ stack.physical.form = "objects" => OfStack("tool") = {}
    BY DEF OInv, RunInv, DeleteInv
  <2>2. \A k : Shown(k)' = Shown(k) /\ OfStack(k)' = OfStack(k)
    BY <1>1 DEF Shown, OfStack
  <2> QED BY <1>1, <1>2, <2>1, <2>2 DEF DeleteInv, Doomed, NamedIn
<1> QED BY <1>1, <1>3, <1>4, <1>5, QuietKeeps DEF RunInv

LEMMA CheckDeleteKeeps ==
  ASSUME IInv, OInv, ScanInv, CheckDelete
  PROVE  OInv'
<1>1. /\ fn # None /\ fn.pc = "check_delete" /\ fn \in Invocation /\ Sound(fn) /\ Keep /\ Quiet
  BY Known DEF CheckDelete, At, Keep, Quiet
<1>2. CASE Fail
  BY <1>1, <1>2, QuietStays, BreaksOff, QuietKeeps DEF Quiet
<1>3. CASE ~Fail
  <2> DEFINE assistant == Existing(fn.assistant)
             tool == Existing(fn.tool)
             Refer(objects) == {o.credential : o \in objects} \ {None}
             credentialId == IF fn.credential # None THEN {fn.credential}
                             ELSE IF Refer(assistant) # {} THEN Refer(assistant)
                             ELSE Refer(tool)
             credential == UNION {Existing(c) : c \in credentialId}
             S == assistant \cup tool \cup credential
             names == {Name(o) : o \in S}
  <2>1. /\ Confirmed(assistant, tool, credential, credentialId)
        /\ fn' = [fn EXCEPT !.pc = "delete", !.doomed = names]
    BY <1>3 DEF CheckDelete
  <2>2. \A o \in S : o \in vapi
    BY DEF Existing
  <2>3. \A o \in S : Mine(o)
    <3>1. \A o \in assistant \cup credential : Mine(o)
      BY <2>1 DEF Confirmed
    <3>2. \A o \in tool : Mine(o)
      BY <1>1, Known, FoundIsMine DEF Sound
    <3> QED BY <3>1, <3>2
  <2>4. ~lag => \A o \in OfStack("tool") : o \in S
    BY <1>1 DEF OInv, RunInv, DeleteInv, OfStack, Existing
  <2> HIDE DEF S
  <2>5. \A d \in names : Was(d.id, d.kind)
    BY <2>2, <2>3, NamesWere
  <2>6. ~lag => NamedIn(OfStack("tool"), names)
    BY <2>4 DEF NamedIn
  <2> HIDE DEF names
  <2>7. fn' = [fn EXCEPT !.pc = "delete", !.doomed = names, !.scanned = fn.scanned] /\ fn.scanned = FALSE
    BY <1>1, <2>1 DEF Invocation, ScanInv
  <2> QED BY <1>1, <2>5, <2>6, <2>7, DeletionGoesOn
<1> QED BY <1>2, <1>3

\* What the scans by owner show.
LEMMA ListedAll ==
  ASSUME IInv, OInv, fn # None, NEW kind
  PROVE  /\ \A o \in Shown(kind) : o \in Matches(kind) /\ Mine(o)
         /\ ~lag => Shown(kind) = OfStack(kind)
<1>1. ASSUME NEW o \in Shown(kind) PROVE o \in vapi /\ Mine(o) /\ o.kind = kind /\ o.listed
  <2>1. o \in OfStack(kind)
    BY DEF Shown
  <2>2. CASE ~lag
    BY <2>1, <2>2, Known DEF World, PromptInv, OfStack
  <2>3. CASE lag
    <3>1. stack.state = "deleting" /\ o.id \notin stack.unseen
      BY <2>3, Known DEF Shown, Busy
    <3> QED BY <2>1, <3>1 DEF OInv, GoneInv, OfStack
  <2> QED BY <2>1, <2>2, <2>3, Known DEF OfStack
<1>2. ~lag => Shown(kind) = OfStack(kind)
  BY DEF Shown
<1> QED BY <1>1, <1>2 DEF Matches

LEMMA ScanKeepsOutcome ==
  ASSUME IInv, OInv, ScanInv, ScanAssistants \/ ScanCredentials
  PROVE  OInv'
<1>1. /\ fn # None /\ fn.pc \in {"scan_assistants", "scan_credentials"} /\ fn \in Invocation
      /\ Keep /\ fn.scanned = FALSE
  BY Known DEF Invocation, ScanAssistants, ScanCredentials, At, ScanInv
<1>2. CASE ScanAssistants
  <2> DEFINE S == {m \in Matches("assistant") : Mine(m)}
             names == {Name(o) : o \in S}
  <2>1. \A o \in S : o \in vapi /\ Mine(o)
    BY DEF Matches
  <2>2. \A o \in Shown("assistant") : o \in S
    BY <1>1, ListedAll
  <2>3. fn' = [fn EXCEPT !.pc = "scan_credentials", !.doomed = names]
    BY <1>2 DEF ScanAssistants
  <2> HIDE DEF S
  <2>4. \A d \in names : Was(d.id, d.kind)
    BY <2>1, NamesWere
  <2>5. NamedIn(Shown("assistant"), names)
    BY <2>2 DEF NamedIn
  <2> HIDE DEF names
  <2>6. fn' = [fn EXCEPT !.pc = "scan_credentials", !.doomed = names, !.scanned = fn.scanned]
    BY <1>1, <2>3 DEF Invocation
  <2>7. fn.pc = "scan_assistants"
    BY <1>2 DEF ScanAssistants, At
  <2> QED BY <1>1, <2>4, <2>5, <2>6, <2>7, DeletionGoesOn
<1>3. CASE ScanCredentials
  <2> DEFINE S == {m \in Matches("credential") : Mine(m)}
             names == {Name(o) : o \in S}
             D == fn.doomed \cup names
  <2>1. \A o \in S : o \in vapi /\ Mine(o)
    BY DEF Matches
  <2>2. \A o \in Shown("credential") : o \in S
    BY <1>1, ListedAll
  <2>3. fn' = [fn EXCEPT !.pc = "scan_tools", !.doomed = D]
    BY <1>3 DEF ScanCredentials
  <2> HIDE DEF S
  <2>4. \A d \in names : Was(d.id, d.kind)
    BY <2>1, NamesWere
  <2>5. NamedIn(Shown("credential"), D)
    BY <2>2 DEF NamedIn
  <2> HIDE DEF names
  <2>6. fn.pc = "scan_credentials"
    BY <1>3 DEF ScanCredentials, At
  <2>7. \A d \in D : Was(d.id, d.kind)
    BY <1>1, <2>4 DEF OInv, FnRefs
  <2>8. NamedIn(Shown("assistant"), D)
    BY <1>1, <2>6 DEF NamedIn, OInv, RunInv, DeleteInv, Doomed
  <2> HIDE DEF D
  <2>9. fn' = [fn EXCEPT !.pc = "scan_tools", !.doomed = D, !.scanned = fn.scanned]
    BY <1>1, <2>3 DEF Invocation
  <2> QED BY <1>1, <2>5, <2>6, <2>7, <2>8, <2>9, DeletionGoesOn
<1> QED BY <1>2, <1>3


\* Where lists are prompt the scan finds the tool by its credential, if not by its id.
LEMMA ScanToolsKeeps ==
  ASSUME IInv, OInv, ScanInv, ScanTools
  PROVE  OInv'
<1> DEFINE credentials == {d.id : d \in {e \in fn.doomed : e.kind = "credential"}}
           S == {m \in Matches("tool") : m.credential \in credentials}
           names == {Name(o) : o \in S}
           D == fn.doomed \cup names
<1>1. /\ fn # None /\ fn.pc = "scan_tools" /\ fn \in Invocation /\ Keep
      /\ \A d \in fn.doomed : Was(d.id, d.kind)
  BY Known DEF ScanTools, At, OInv, FnRefs
<1>2. fn' = [fn EXCEPT !.pc = "delete", !.scanned = TRUE, !.doomed = D]
  BY DEF ScanTools
<1>3. None \notin credentials
  BY <1>1, OwnId
<1>4. \A o \in S : o \in vapi /\ Mine(o)
  <2>1. \A o \in S : o \in vapi /\ o.credential # None
    BY <1>3 DEF Matches
  <2> QED BY <2>1, Known DEF World, WorldInv
<1>5. NamedIn(Shown("assistant"), fn.doomed) /\ NamedIn(Shown("credential"), fn.doomed)
  BY <1>1 DEF OInv, RunInv, DeleteInv, Doomed, NamedIn
<1>6. ~lag => \A o \in OfStack("tool") : o \in S
  <2> SUFFICES ASSUME ~lag, NEW t \in OfStack("tool") PROVE t \in S
    OBVIOUS
  <2>1. stack.physical.form # "objects"
    BY <1>1 DEF OInv, RunInv, DeleteInv
  <2>2. PICK q \in Existing(t.credential) : TRUE
    BY <2>1 DEF OInv, ToolInv, Exists
  <2>3. Was(t.credential, "credential")
    BY DEF OInv, ObjectRefs
  <2>4. q \in OfStack("credential") /\ q.id = t.credential /\ q.kind = "credential"
    BY <2>2, <2>3, OwnId DEF OfStack
  <2>5. Name(q) \in fn.doomed /\ Name(q).id = t.credential /\ Name(q).kind = "credential"
    BY <1>1, <1>5, <2>4, ListedAll DEF NamedIn, Name
  <2>6. t \in Matches("tool")
    BY <1>1, ListedAll
  <2> QED BY <2>5, <2>6
<1> HIDE DEF S
<1>7. \A d \in names : Was(d.id, d.kind)
  BY <1>4, NamesWere
<1>8. ~lag => NamedIn(OfStack("tool"), D)
  BY <1>6 DEF NamedIn
<1> HIDE DEF names
<1>9. NamedIn(Shown("assistant"), D) /\ NamedIn(Shown("credential"), D)
  BY <1>5 DEF NamedIn
<1>10. \A d \in D : Was(d.id, d.kind)
  BY <1>1, <1>7
<1> HIDE DEF D
<1>11. fn' = [fn EXCEPT !.pc = "delete", !.doomed = D, !.scanned = TRUE]
  BY <1>1, <1>2 DEF Invocation
<1> QED BY <1>1, <1>8, <1>9, <1>10, <1>11, DeletionGoesOn


\* Ids refer as they did when objects go, or are changed in what the deletion does not ask for.
Remains == Stays /\ \A o \in vapi' : \E q \in vapi : Alike(o, q) /\ o.credential = q.credential

LEMMA RefsKeep ==
  ASSUME OInv, Remains, \A o, q \in vapi' : o.id = q.id => o = q,
         stack'.physical = stack.physical, stack'.replaced = stack.replaced
  PROVE  ObjectRefs' /\ StackRefs'
<1>1. \A id, kind : Was(id, kind) => Was(id, kind)'
  BY WasStays DEF Remains
<1>2. \A t \in OfStack("tool")' : Was(t.credential, "credential")'
  <2>1. \A t \in OfStack("tool")' : \E q \in OfStack("tool") : q.credential = t.credential
    BY DEF Remains, Alike, OfStack, Mine
  <2> QED BY <1>1, <2>1 DEF OInv, ObjectRefs
<1> PICK p, r : p = stack.physical /\ r = stack.replaced
  OBVIOUS
<1>3. RefersWell(p)' /\ RefersWell(r)'
  BY WasStays DEF Remains, OInv, StackRefs
<1> QED BY <1>2, <1>3 DEF ObjectRefs, StackRefs, RefersWell

LEMMA InvocationRefers ==
  ASSUME OInv, Stays, fn # None, fn'.doomed \subseteq fn.doomed,
         fn'.assistant = fn.assistant, fn'.tool = fn.tool, fn'.credential = fn.credential
  PROVE  FnRefs'
<1> PICK f : f = fn
  OBVIOUS
<1>1. RefersWell(f) /\ \A d \in f.doomed : Was(d.id, d.kind)
  BY DEF OInv, FnRefs
<1>2. RefersWell(f)' /\ \A d \in f.doomed : Was(d.id, d.kind)'
  BY <1>1, WasStays
<1> QED BY <1>2 DEF FnRefs, RefersWell

LEMMA DeleteNextKeeps ==
  ASSUME IInv, OInv, DeleteNext
  PROVE  OInv'
<1>1. /\ fn # None /\ fn.pc = "delete" /\ fn \in Invocation
      /\ UNCHANGED created /\ UNCHANGED binding /\ UNCHANGED stack /\ UNCHANGED lag
      /\ fn.request = RequestOf(stack.state) /\ fn.request # "Update"
      /\ stack.state \in {"creating", "cleaning", "deleting"}
  BY Known DEF DeleteNext, At, OInv, RunInv, RequestInv, RequestOf, Busy
<1>2. PICK d \in fn.doomed :
        /\ \A e \in fn.doomed : Order(d.kind) <= Order(e.kind)
        /\ vapi' = vapi \ Existing(d.id)
        /\ fn' = [fn EXCEPT !.doomed = fn.doomed \ {d}] \/ Fail
  BY DEF DeleteNext
<1>3. Was(d.id, d.kind) /\ d.kind \in Kinds
  BY <1>1 DEF OInv, FnRefs, Invocation, Doom
<1>4. \A o \in vapi' : o \in vapi /\ o.id # d.id
  BY <1>2 DEF Existing
<1>5. Stays /\ Remains
  BY <1>1, <1>4 DEF Remains, Stays, Alike
<1>6. /\ \A x : x # d.id => Existing(x)' = Existing(x)
      /\ \A x : Existing(x)' \subseteq Existing(x)
      /\ \A k : OfStack(k)' \subseteq OfStack(k) /\ Shown(k)' \subseteq Shown(k)
  BY <1>1, <1>2 DEF Existing, OfStack, Shown, Mine
<1>7. ObjectRefs' /\ StackRefs'
  <2>1. \A o, q \in vapi' : o.id = q.id => o = q
    BY <1>4 DEF OInv, ObjectRefs
  <2> QED BY <1>1, <1>5, <2>1, RefsKeep
<1>8. FormInv' /\ GoneInv'
  BY <1>1, <1>4 DEF OInv, FormInv, GoneInv
<1>9. ToolInv'
  <2>1. ASSUME ~lag, stack.physical.form # "objects", NEW t \in OfStack("tool")'
        PROVE  Exists(t.credential)'
    <3>1. t \in OfStack("tool") /\ Name(t) \in fn.doomed /\ Name(t).kind = "tool"
      BY <1>1, <1>6, <2>1 DEF OInv, RunInv, DeleteInv, Doomed, Name, OfStack
    <3>2. Order(d.kind) <= Order("tool")
      BY <1>2, <3>1
    <3>3. d.kind # "credential"
      BY <3>2 DEF Order
    <3>4. PICK q \in Existing(t.credential) : TRUE
      BY <2>1, <3>1 DEF OInv, ToolInv, Exists
    <3>5. q.kind = "credential" /\ q.id = t.credential
      BY <3>1, <3>4 DEF OInv, ObjectRefs, Was, Existing
    <3>6. t.credential # d.id
      BY <1>3, <3>3, <3>4, <3>5 DEF Was
    <3> QED BY <1>6, <3>4, <3>6 DEF Exists
  <2> QED BY <1>1, <1>6, <2>1 DEF OInv, ToolInv
<1>10. ReadyInv'
  <2>1. stack.physical.form = "objects" /\ ~stack.edited
          => \A a \in Existing(stack.physical.assistant) : a.tool = stack.physical.tool
    BY DEF OInv, ReadyInv
  <2> QED BY <1>1, <1>6, <2>1 DEF ReadyInv
<1>11. FnRefs' /\ RunInv'
  <2>1. CASE Fail
    BY <1>1, <1>5, <2>1, BreaksOff
  <2>2. CASE fn' = [fn EXCEPT !.doomed = fn.doomed \ {d}]
    <3>1. /\ fn'.pc = "delete" /\ fn'.doomed = fn.doomed \ {d} /\ fn'.request = fn.request
          /\ fn'.scanned = fn.scanned
          /\ fn'.assistant = fn.assistant /\ fn'.tool = fn.tool /\ fn'.credential = fn.credential
      BY <1>1, <2>2 DEF Invocation
    <3>2. FnRefs'
      BY <1>1, <1>5, <3>1, InvocationRefers
    <3>3. RequestInv' /\ CreateInv' /\ UpdateInv'
      BY <1>1, <3>1 DEF RequestInv, CreateInv, UpdateInv, Looking, RequestOf
    <3>4. \A k : /\ Doomed(OfStack(k)) => Doomed(OfStack(k))'
                 /\ Doomed(Shown(k)) => Doomed(Shown(k))'
      <4>1. \A o \in vapi' : Name(o) # d
        BY <1>4 DEF Name
      <4>2. \A k : \A o \in OfStack(k)' \cup Shown(k)' : o \in vapi'
        BY DEF OfStack, Shown
      <4> QED BY <1>6, <3>1, <4>1, <4>2 DEF Doomed
    <3>5. DeleteInv'
      BY <1>1, <3>1, <3>4 DEF OInv, RunInv, DeleteInv
    <3> QED BY <3>2, <3>3, <3>5 DEF RunInv
  <2> QED BY <1>2, <2>1, <2>2
<1> QED BY <1>7, <1>8, <1>9, <1>10, <1>11 DEF OInv


LEMMA DeletePassedKeeps ==
  ASSUME IInv, OInv, DeletePassed
  PROVE  OInv'
<1>1. /\ fn # None /\ fn.pc = "delete" /\ fn \in Invocation /\ Quiet /\ fn.doomed = {}
      /\ UNCHANGED vapi /\ UNCHANGED stack /\ UNCHANGED lag
      /\ fn.request = RequestOf(stack.state) /\ fn.request # "Update"
  BY Known DEF DeletePassed, At, Keep, Quiet, OInv, RunInv, RequestInv
<1>2. /\ ~lag => OfStack("tool") = {}
      /\ fn.scanned => Shown("assistant") = {} /\ Shown("credential") = {}
  BY <1>1 DEF OInv, RunInv, DeleteInv, Doomed
<1>3. CASE Fail
  BY <1>1, <1>3, QuietStays, BreaksOff, QuietKeeps DEF Quiet
<1>4. ASSUME NEW pc, Goto(pc), \/ pc = "scan_assistants"
                               \/ pc = "answer" /\ fn.scanned /\ fn.request = "Delete"
      PROVE  OInv'
  <2>1. /\ fn'.pc = pc /\ fn'.request = fn.request /\ fn'.doomed = fn.doomed
        /\ fn'.assistant = fn.assistant /\ fn'.tool = fn.tool /\ fn'.credential = fn.credential
    BY <1>1, <1>4, GoesOnAs
  <2>2. FnRefs'
    BY <1>1, <2>1, QuietStays, InvocationRefers
  <2>3. RequestInv' /\ CreateInv' /\ UpdateInv'
    BY <1>1, <1>4, <2>1 DEF RequestInv, CreateInv, UpdateInv, Looking, RequestOf
  <2>4. \A k : Shown(k)' = Shown(k) /\ OfStack(k)' = OfStack(k)
    BY <1>1 DEF Shown, OfStack
  <2>5. DeleteInv'
    BY <1>1, <1>2, <1>4, <2>1, <2>4 DEF DeleteInv
  <2> QED BY <1>1, <2>2, <2>3, <2>5, QuietKeeps DEF RunInv
<1>5. \/ Goto("scan_assistants") \/ Fail
      \/ Goto("answer") /\ fn.scanned /\ fn.request = "Delete"
  <2>1. fn.request \in {"Create", "Delete"} /\ fn.scanned \in BOOLEAN
    BY <1>1 DEF Invocation, Requests
  <2> QED BY <2>1 DEF DeletePassed, Fail
<1> QED BY <1>3, <1>4, <1>5
-----------------------------------------------------------------------------
(* The answer *)

\* What holds of the objects themselves is no matter of the answer.
LEMMA ObjectsRest ==
  ASSUME OInv, UNCHANGED <<vapi, created>>
  PROVE  /\ ObjectRefs' /\ \A x : Existing(x)' = Existing(x) /\ (Exists(x)' <=> Exists(x))
         /\ \A k : OfStack(k)' = OfStack(k)
         /\ \A p : RefersWell(p) => RefersWell(p)'
<1>1. vapi' = vapi /\ created' = created
  OBVIOUS
<1> QED BY <1>1 DEF OInv, ObjectRefs, Was, Existing, Exists, OfStack, RefersWell

\* CloudFormation ends what it has been doing, and asks for nothing.
LEMMA Ended ==
  ASSUME fn' = None
  PROVE  FnRefs' /\ RunInv'
  BY DEF FnRefs, RunInv, RequestInv, CreateInv, UpdateInv, DeleteInv

\* A creation, or an update, has succeeded: what it answers is so.
LEMMA CreationAnswered ==
  ASSUME IInv, OInv, fn # None, fn.pc = "answer", stack.state = "creating", stack' = Accepted,
         fn' = None, UNCHANGED <<vapi, created, binding, lag>>
  PROVE  OInv'
<1>1. /\ fn \in Invocation /\ fn.request = "Create" /\ ~stack.edited
      /\ stack \in Stack /\ stack.physical.form = "pending" /\ stack.replaced.form # "objects"
      /\ stack.replaced = Pending
  BY Known DEF OInv, RunInv, RequestInv, RequestOf, FormInv
<1>2. PICK p : p = Answered
  OBVIOUS
<1>3. /\ p.form = "objects" /\ p.assistant = fn.assistant /\ p.tool = fn.tool /\ p.credential = fn.credential
  BY <1>2 DEF Answered
<1>4. /\ stack'.state = "complete" /\ stack'.physical = p /\ stack'.replaced = Pending
      /\ stack'.edited = stack.edited /\ stack'.fields = stack.fields
  BY <1>1, <1>2 DEF Accepted, Done, Stack
<1>5. RefersWell(p) /\ RefersWell(Pending)
  BY <1>3 DEF OInv, FnRefs, RefersWell, Pending
<1>6. StackRefs'
  BY <1>4, <1>5, ObjectsRest DEF StackRefs
<1>7. FormInv'
  BY <1>3, <1>4 DEF FormInv, Pending
<1>8. /\ Exists(p.assistant) /\ Exists(p.credential) /\ Exists(p.tool) /\ binding = p.assistant
      /\ ~lag => \A t \in OfStack("tool") : t.id = p.tool
      /\ \A t \in Existing(p.tool) : t.credential = p.credential /\ t.fields = stack.wanted
      /\ \A a \in Existing(p.assistant) : a.credential = p.credential /\ a.tool = p.tool
  BY <1>1, <1>3 DEF OInv, RunInv, CreateInv
<1>9. ToolInv'
  BY <1>3, <1>4, <1>8, ObjectsRest DEF ToolInv
<1>10. GoneInv'
  BY <1>4 DEF GoneInv
<1>11. stack'.fields = stack.wanted /\ p.credential # None
  <2>1. stack.fields = stack.wanted
    BY DEF OInv, FormInv
  <2>2. p.credential # None
    BY <1>8, Known DEF Exists, Existing
  <2> QED BY <1>4, <2>1, <2>2
<1>12. ReadyInv'
  <2> DEFINE Wired(o) == o.credential = p.credential /\ o.tool = p.tool
             Keyed(o) == o.credential = p.credential /\ o.fields = stack'.fields
  <2>1. /\ Exists(p.assistant)' /\ Exists(p.tool)' /\ binding' = p.assistant /\ Exists(p.credential)'
        /\ \A a \in Existing(p.assistant)' : Wired(a)
        /\ \A t \in Existing(p.tool)' : Keyed(t)
    BY <1>8, <1>11, ObjectsRest
  <2> QED BY <1>4, <2>1 DEF ReadyInv
<1> QED BY <1>6, <1>7, <1>9, <1>10, <1>12, Ended, ObjectsRest DEF OInv


LEMMA UpdateAnswered ==
  ASSUME IInv, OInv, fn # None, fn.pc = "answer", stack.state = "updating", stack' = Accepted,
         fn' = None, UNCHANGED <<vapi, created, binding, lag>>
  PROVE  OInv'
<1>1. /\ fn \in Invocation /\ fn.request = "Update" /\ stack \in Stack /\ stack.physical.form = "objects"
  BY Known DEF OInv, RunInv, RequestInv, RequestOf, FormInv
<1>2. PICK p : p = Answered
  OBVIOUS
<1>3. PICK q : q = stack.physical
  OBVIOUS
<1>4. /\ p.form = "objects" /\ p.assistant = fn.assistant /\ p.tool = fn.tool /\ p.credential = fn.credential
  BY <1>2 DEF Answered
<1>5. /\ p.assistant = q.assistant /\ p.tool = q.tool /\ p.credential # None
      /\ ~stack.edited =>
           /\ Exists(p.assistant) /\ Exists(p.tool) /\ Exists(p.credential) /\ binding = p.assistant
           /\ \A a \in Existing(p.assistant) : a.credential = p.credential
           /\ \A t \in Existing(p.tool) : t.credential = p.credential /\ t.fields = stack.wanted
  BY <1>1, <1>3, <1>4 DEF OInv, RunInv, UpdateInv
<1>6. /\ stack'.state = (IF p = q THEN "complete" ELSE "cleaning")
      /\ stack'.physical = p /\ stack'.replaced = q
      /\ stack'.edited = stack.edited /\ stack'.fields = stack.wanted
  BY <1>1, <1>2, <1>3 DEF Accepted, Done, Stack
<1>7. RefersWell(p) /\ RefersWell(q)
  BY <1>3, <1>4 DEF OInv, FnRefs, StackRefs, RefersWell
<1>8. StackRefs'
  BY <1>6, <1>7, ObjectsRest DEF StackRefs
<1>9. FormInv'
  BY <1>1, <1>3, <1>4, <1>5, <1>6 DEF FormInv
<1>10. ToolInv'
  <2>1. ~lag => \A t \in OfStack("tool") : t.id = p.tool
    BY <1>1, <1>3, <1>5 DEF OInv, ToolInv
  <2> QED BY <1>4, <1>6, <2>1, ObjectsRest DEF ToolInv
<1>11. GoneInv'
  BY <1>6 DEF GoneInv
<1>12. ReadyInv'
  <2> SUFFICES ASSUME ~stack'.edited PROVE ReadyInv'
    BY DEF ReadyInv
  <2>1. \A a \in Existing(p.assistant)' : a.tool = p.tool
    BY <1>1, <1>3, <1>5, <1>6, ObjectsRest DEF OInv, ReadyInv
  <2>2. /\ Exists(p.assistant)' /\ Exists(p.tool)' /\ binding' = p.assistant /\ Exists(p.credential)'
        /\ \A a \in Existing(p.assistant)' : a.credential = p.credential
        /\ \A t \in Existing(p.tool)' : t.credential = p.credential
        /\ \A t \in Existing(p.tool)' : t.fields = stack'.fields
    BY <1>5, <1>6, ObjectsRest
  <2> QED BY <1>6, <2>1, <2>2 DEF ReadyInv
<1> QED BY <1>8, <1>9, <1>10, <1>11, <1>12, Ended, ObjectsRest DEF OInv

\* The custom resource goes from state to state, and keeps its physical ids.
Moves(s, t) ==
  \/ s = "creating" /\ t = "create_failed"
  \/ s = "updating" /\ t = "update_failed"
  \/ s = "cleaning" /\ t = "complete"
  \/ s = "deleting" /\ t = "delete_failed"
  \/ s = "deleting" /\ t = "deleted"
  \/ s \in {"complete", "update_failed"} /\ t = "updating"
  \/ s \in {"complete", "create_failed", "update_failed", "delete_failed"} /\ t = "deleting"

LEMMA StateMoves ==
  ASSUME OInv, UNCHANGED <<vapi, created, binding, lag>>, Moves(stack.state, stack'.state),
         stack'.physical = stack.physical, stack'.replaced = stack.replaced,
         stack'.edited = stack.edited, stack'.fields = stack.fields,
         \/ stack'.unseen = stack.unseen /\ stack'.state # "deleting"
         \/ \A o \in vapi : o.listed \/ o.id \in stack'.unseen,
         stack'.state = "deleted" /\ ~stack'.retain =>
           /\ stack.state = "deleting" /\ stack'.unseen = stack.unseen
           /\ Shown("assistant") = {} /\ Shown("credential") = {}
           /\ ~lag => OfStack("tool") = {}
  PROVE  ObjectRefs' /\ StackRefs' /\ FormInv' /\ ToolInv' /\ GoneInv' /\ ReadyInv'
<1> PICK p, r : p = stack.physical /\ r = stack.replaced
  OBVIOUS
<1>1. StackRefs'
  <2>1. RefersWell(p) /\ RefersWell(r)
    BY DEF OInv, StackRefs
  <2> QED BY <2>1, ObjectsRest DEF StackRefs
<1>2. FormInv'
  BY DEF OInv, FormInv, Moves
<1>3. ToolInv'
  BY ObjectsRest DEF OInv, ToolInv
<1>4. GoneInv'
  <2>1. stack'.state \in {"deleting", "delete_failed", "deleted"} =>
          \A o \in vapi' : o.listed \/ o.id \in stack'.unseen
    BY DEF OInv, GoneInv, Moves
  <2>2. stack.state = "deleting" /\ stack'.state = "deleted" /\ stack'.unseen = stack.unseen
          => \A k : Shown(k)' = Shown(k)
    BY DEF Shown, OfStack
  <2> QED BY <2>1, <2>2, ObjectsRest DEF GoneInv
<1>5. ReadyInv'
  <2>1. r \in {Pending, p} /\ stack'.state \in {"complete", "updating", "update_failed"}
          => stack.state \in {"complete", "updating", "update_failed"} /\ stack'.state # "complete"
    BY DEF Moves, OInv, FormInv, Pending
  <2>2. p.form = "objects" /\ ~stack.edited => \A a \in Existing(p.assistant)' : a.tool = p.tool
    BY ObjectsRest DEF OInv, ReadyInv
  <2>3. ASSUME p.form = "objects", ~stack.edited, r \in {Pending, p},
               stack'.state \in {"complete", "updating", "update_failed"}
        PROVE  /\ Exists(p.assistant)' /\ Exists(p.tool)' /\ binding' = p.assistant
               /\ \A a \in Existing(p.assistant)' :
                    /\ Exists(a.credential)' /\ p.credential \in {None, a.credential}
                    /\ \A t \in Existing(p.tool)' : t.credential = a.credential
    BY <2>1, <2>3, ObjectsRest DEF OInv, ReadyInv
  <2> QED BY <2>1, <2>2, <2>3 DEF ReadyInv
<1> QED BY <1>1, <1>2, <1>3, <1>4, <1>5, ObjectsRest


\* Done changes the state only, and the count of deliveries.
LEMMA DoneIs ==
  ASSUME stack \in Stack, NEW state
  PROVE  /\ Done(state).state = state /\ Done(state).physical = stack.physical
         /\ Done(state).replaced = stack.replaced /\ Done(state).edited = stack.edited
         /\ Done(state).fields = stack.fields /\ Done(state).retain = stack.retain
         /\ Done(state).unseen = stack.unseen
  BY DEF Done, Stack

LEMMA AnswerKeepsOutcome ==
  ASSUME IInv, OInv, AnswerSuccess \/ AnswerFailed
  PROVE  OInv'
<1>1. /\ fn # None /\ fn \in Invocation /\ Busy /\ stack \in Stack /\ fn.pc \in {"answer", "fail"}
      /\ UNCHANGED <<vapi, created, binding, lag>> /\ fn.request = RequestOf(stack.state)
  BY Known DEF AnswerSuccess, AnswerFailed, At, OInv, RunInv, RequestInv
<1>2. CASE Fail /\ UNCHANGED stack
  <2>1. Quiet
    BY <1>1, <1>2 DEF Quiet
  <2>2. FnRefs' /\ RunInv'
    BY <1>1, <1>2, <2>1, QuietStays, BreaksOff
  <2> QED BY <2>1, <2>2, QuietKeeps
<1>3. CASE AnswerFailed
  <2>1. fn' = None /\ stack' = Failed
    BY <1>3 DEF AnswerFailed
  <2>2. PICK state \in {"create_failed", "update_failed", "complete", "delete_failed"} :
          stack' = Done(state) /\ Moves(stack.state, state)
    BY <1>1, <2>1 DEF Failed, Busy, Moves
  <2>3. /\ stack'.state = state /\ stack'.physical = stack.physical /\ stack'.replaced = stack.replaced
        /\ stack'.edited = stack.edited /\ stack'.fields = stack.fields /\ stack'.unseen = stack.unseen
    BY <1>1, <2>2, DoneIs
  <2> QED BY <1>1, <2>1, <2>2, <2>3, StateMoves, Ended DEF OInv
<1>4. CASE AnswerSuccess /\ stack' = Accepted /\ fn' = None
  <2>1. fn.pc = "answer"
    BY <1>4 DEF AnswerSuccess, At
  <2>2. CASE stack.state \in {"cleaning", "deleting"}
    <3>1. PICK state \in {"complete", "deleted"} :
            /\ stack' = Done(state) /\ Moves(stack.state, state)
            /\ state = "deleted" => stack.state = "deleting"
      BY <1>4, <2>2 DEF Accepted, Moves
    <3>2. /\ stack'.state = state /\ stack'.physical = stack.physical /\ stack'.replaced = stack.replaced
          /\ stack'.edited = stack.edited /\ stack'.fields = stack.fields /\ stack'.retain = stack.retain
          /\ stack'.unseen = stack.unseen
      BY <1>1, <3>1, DoneIs
    <3>3. stack'.state = "deleted" /\ ~stack'.retain =>
            /\ stack.state = "deleting"
            /\ Shown("assistant") = {} /\ Shown("credential") = {}
            /\ ~lag => OfStack("tool") = {}
      BY <1>1, <2>1, <3>1, <3>2 DEF OInv, RunInv, DeleteInv, RequestOf
    <3> QED BY <1>1, <1>4, <3>1, <3>2, <3>3, StateMoves, Ended DEF OInv
  <2> QED BY <1>1, <1>4, <2>1, <2>2, CreationAnswered, UpdateAnswered DEF Busy
<1> QED BY <1>2, <1>3, <1>4 DEF AnswerSuccess
-----------------------------------------------------------------------------
(* CloudFormation, the customer and time *)

LEMMA GiveUpKeeps ==
  ASSUME IInv, OInv, GiveUp
  PROVE  OInv'
<1>1. /\ fn' = None /\ Busy /\ stack \in Stack /\ UNCHANGED <<vapi, created, binding, lag>>
  BY Known DEF GiveUp
<1>2. PICK state \in {"create_failed", "update_failed", "complete", "delete_failed"} :
        Failed = Done(state) /\ Moves(stack.state, state) /\ (state = "create_failed" <=> stack.state = "creating")
  BY <1>1 DEF Failed, Busy, Moves
<1>3. /\ Failed.state = state /\ Failed.physical = stack.physical /\ Failed.replaced = stack.replaced
      /\ Failed.edited = stack.edited /\ Failed.fields = stack.fields /\ Failed.unseen = stack.unseen
      /\ Failed \in Stack
  BY <1>1, <1>2, DoneIs, AnswersTyped
<1>4. stack' = [Failed EXCEPT !.physical = IF stack.state = "creating" THEN Generated ELSE Failed.physical]
  BY DEF GiveUp
<1>5. /\ stack'.state = state /\ stack'.replaced = stack.replaced
      /\ stack'.edited = stack.edited /\ stack'.fields = stack.fields /\ stack'.unseen = stack.unseen
      /\ stack'.physical = IF stack.state = "creating" THEN Generated ELSE stack.physical
  <2> HIDE DEF Failed, Generated
  <2> QED BY <1>3, <1>4 DEF Stack
<1>6. CASE stack.state # "creating"
  BY <1>1, <1>2, <1>5, <1>6, StateMoves, Ended DEF OInv
<1>7. CASE stack.state = "creating"
  <2>1. /\ stack.physical.form = "pending" /\ stack.replaced = Pending /\ stack'.physical = Generated
        /\ stack'.state = "create_failed" /\ stack'.replaced = Pending
    BY <1>2, <1>5, <1>7 DEF OInv, FormInv
  <2>2. Generated.form = "generated" /\ RefersWell(Generated) /\ Pending.form = "pending" /\ RefersWell(Pending)
    BY DEF Generated, Pending, RefersWell
  <2> HIDE DEF Generated, Pending
  <2>3. StackRefs'
    BY <1>1, <2>1, <2>2, ObjectsRest DEF StackRefs
  <2>4. FormInv' /\ GoneInv' /\ ReadyInv'
    BY <2>1, <2>2 DEF FormInv, GoneInv, ReadyInv
  <2>5. ToolInv'
    BY <1>1, <2>1, <2>2, ObjectsRest DEF OInv, ToolInv
  <2> QED BY <1>1, <2>3, <2>4, <2>5, ObjectsRest, Ended DEF OInv
<1> QED BY <1>6, <1>7

LEMMA RequestKeepsOutcome ==
  ASSUME IInv, OInv, RequestUpdate \/ RequestDelete
  PROVE  OInv'
<1>1. /\ stack \in Stack /\ UNCHANGED <<vapi, created, binding, lag>> /\ fn = None /\ fn' = None
  BY Known DEF RequestUpdate, RequestDelete, Busy
<1>2. /\ stack'.state \in {"updating", "deleting"} /\ Moves(stack.state, stack'.state)
      /\ \/ stack'.unseen = stack.unseen /\ stack'.state # "deleting"
         \/ \A o \in vapi : o.listed \/ o.id \in stack'.unseen
      /\ stack'.physical = stack.physical /\ stack'.replaced = stack.replaced
      /\ stack'.edited = stack.edited /\ stack'.fields = stack.fields
  <2>1. CASE RequestUpdate
    <3>1. PICK f \in Fields : stack' = [stack EXCEPT !.state = "updating", !.wanted = f, !.events = stack.events + 1]
      BY <2>1 DEF RequestUpdate
    <3>2. Moves(stack.state, "updating")
      BY <2>1 DEF RequestUpdate, Moves
    <3> QED BY <1>1, <3>1, <3>2 DEF Stack
  <2>2. CASE RequestDelete
    <3> DEFINE unseen == {o.id : o \in {q \in vapi : ~q.listed}}
    <3>1. stack' = [stack EXCEPT !.state = "deleting", !.events = stack.events + 1, !.unseen = unseen]
      BY <2>2 DEF RequestDelete
    <3>2. Moves(stack.state, "deleting")
      BY <2>2 DEF RequestDelete, Moves
    <3>3. \A o \in vapi : o.listed \/ o.id \in unseen
      OBVIOUS
    <3> HIDE DEF unseen
    <3> QED BY <1>1, <3>1, <3>2, <3>3 DEF Stack
  <2> QED BY <2>1, <2>2
<1> QED BY <1>1, <1>2, StateMoves, Ended DEF OInv

LEMMA PauseKeeps ==
  ASSUME IInv, OInv, Crash \/ Rest \/ CalmDown \/ UNCHANGED vars
  PROVE  OInv'
<1>1. Quiet /\ (fn' = None \/ fn' = fn)
  BY DEF Crash, Rest, CalmDown, Keep, vars, Quiet
<1>2. CASE fn' = None
  BY <1>1, <1>2, Ended, QuietKeeps
<1>3. CASE fn' = fn
  <2>1. FnRefs' /\ RunInv'
    <3>1. UNCHANGED vapi /\ UNCHANGED created /\ UNCHANGED binding /\ UNCHANGED stack /\ UNCHANGED lag
      BY <1>1 DEF Quiet
    <3>2. FnRefs' /\ RequestInv'
      BY <1>3, <3>1 DEF OInv, FnRefs, RefersWell, Was, Existing, RunInv, RequestInv
    <3>3. CreateInv' /\ UpdateInv'
      BY <1>3, <3>1 DEF OInv, RunInv, CreateInv, UpdateInv, Looking, Exists, Existing, OfStack
    <3>4. DeleteInv'
      <4>1. \A k : Shown(k)' = Shown(k) /\ OfStack(k)' = OfStack(k)
        BY <3>1 DEF Shown, OfStack
      <4> QED BY <1>3, <3>1, <4>1 DEF OInv, RunInv, DeleteInv, Doomed
    <3> QED BY <3>2, <3>3, <3>4 DEF RunInv
  <2> QED BY <1>1, <2>1, QuietKeeps
<1> QED BY <1>1, <1>2, <1>3


LEMMA DeliverKeepsOutcome ==
  ASSUME IInv, OInv, Deliver
  PROVE  OInv'
<1> DEFINE physical == IF stack.state = "cleaning" THEN stack.replaced ELSE stack.physical
           request == RequestOf(stack.state)
           pc == First(request, physical)
<1>1. /\ UNCHANGED <<vapi, created, binding, lag>> /\ Busy /\ stack \in Stack
      /\ physical.form \in {"pending", "objects", "generated"} /\ stack.retain \in BOOLEAN
  BY Known DEF Deliver, PhysicalId, Stack
<1>2. /\ stack'.state = stack.state /\ stack'.physical = stack.physical /\ stack'.replaced = stack.replaced
      /\ stack'.edited = stack.edited /\ stack'.fields = stack.fields /\ stack'.wanted = stack.wanted
      /\ stack'.retain = stack.retain /\ stack'.unseen = stack.unseen
  BY <1>1 DEF Deliver, Stack
<1>3. /\ fn'.request = request /\ fn'.pc = pc /\ fn'.kind = "assistant" /\ fn'.doomed = {}
      /\ fn'.assistant = physical.assistant /\ fn'.tool = physical.tool /\ fn'.credential = physical.credential
  BY DEF Deliver
<1>4. /\ request = "Create" => pc = "find"
      /\ request = "Update" => pc = "check_update"
      /\ request = "Delete" => \/ pc = "answer" /\ stack.retain
                               \/ pc = "scan_assistants" /\ physical.form = "pending"
                               \/ pc = "check_delete" /\ physical.form = "objects"
                               \/ pc = "fail"
      /\ request = RequestOf(stack'.state)
      /\ request = "Delete" <=> stack.state \in {"cleaning", "deleting"}
      /\ request \in {"Create", "Update", "Delete"}
  BY <1>1, <1>2 DEF First, RequestOf, Busy
<1>5. RefersWell(physical)
  BY DEF OInv, StackRefs
<1>6. pc = "check_delete" /\ ~lag => \A t \in OfStack("tool") : t.id = physical.tool
  BY <1>4 DEF OInv, FormInv, ToolInv
<1>7. pc = "scan_assistants" => stack.physical.form # "objects"
  BY <1>4 DEF OInv, FormInv
<1> HIDE DEF physical, request, pc
<1> PICK p, r, q : p = stack.physical /\ r = stack.replaced /\ q = physical
  OBVIOUS
<1>8. StackRefs'
  <2>1. RefersWell(p)' /\ RefersWell(r)'
    BY <1>1, ObjectsRest DEF OInv, StackRefs
  <2> QED BY <1>2, <2>1 DEF StackRefs, RefersWell
<1>9. FnRefs'
  <2>1. RefersWell(q)'
    BY <1>1, <1>5, ObjectsRest
  <2> QED BY <1>3, <2>1 DEF FnRefs, RefersWell
<1>10. FormInv' /\ GoneInv'
  <2>1. \A k : Shown(k)' = Shown(k)
    BY <1>1, <1>2 DEF Shown, OfStack
  <2> QED BY <1>1, <1>2, <2>1, ObjectsRest DEF OInv, FormInv, GoneInv
<1>11. ToolInv' /\ ReadyInv'
  BY <1>1, <1>2, ObjectsRest DEF OInv, ToolInv, ReadyInv
<1>12. RequestInv' /\ CreateInv' /\ UpdateInv'
  BY <1>2, <1>3, <1>4 DEF RequestInv, CreateInv, UpdateInv, Looking
<1>13. DeleteInv'
  <2>1. fn'.pc = "check_delete" /\ ~lag' => \A t \in OfStack("tool")' : t.id = fn'.tool
    BY <1>1, <1>3, <1>6, ObjectsRest
  <2>2. fn'.pc = "answer" /\ fn'.request = "Delete" => stack'.retain
    BY <1>2, <1>3, <1>4
  <2>3. fn'.pc = "scan_assistants" => stack'.physical.form # "objects"
    BY <1>2, <1>3, <1>7
  <2>4. fn'.pc \in {"find", "check_update", "answer", "scan_assistants", "check_delete", "fail"}
    BY <1>3, <1>4
  <2> QED BY <2>1, <2>2, <2>3, <2>4 DEF DeleteInv
<1> QED BY <1>1, <1>8, <1>9, <1>10, <1>11, <1>12, <1>13, ObjectsRest DEF OInv, RunInv

\* What has been found of the objects is still all there is when they go or change.
LEMMA LessIsShown ==
  ASSUME Stays, stack'.state = stack.state, stack'.unseen = stack.unseen
  PROVE  \A k : /\ \A o \in OfStack(k)' : \E q \in OfStack(k) : q.id = o.id /\ Name(q) = Name(o)
                /\ \A o \in Shown(k)' : \E q \in Shown(k) : q.id = o.id /\ Name(q) = Name(o)
<1>1. \A k : \A o \in OfStack(k)' : \E q \in OfStack(k) : q.id = o.id /\ Name(q) = Name(o)
  BY DEF Stays, Alike, OfStack, Mine, Name
<1>2. lag' = lag
  BY DEF Stays
<1> QED BY <1>1, <1>2 DEF Shown

LEMMA DeletionRemains ==
  ASSUME OInv, Stays, fn' = fn, stack'.state = stack.state, stack'.physical = stack.physical,
         stack'.retain = stack.retain, stack'.unseen = stack.unseen
  PROVE  DeleteInv'
<1>1. lag' = lag
  BY DEF Stays
<1>2. \A k : /\ OfStack(k) = {} => OfStack(k)' = {}
             /\ Shown(k) = {} => Shown(k)' = {}
             /\ Doomed(OfStack(k)) => Doomed(OfStack(k))'
             /\ Doomed(Shown(k)) => Doomed(Shown(k))'
  BY LessIsShown DEF Doomed
<1>3. SUFFICES ASSUME fn # None PROVE DeleteInv'
  BY DEF DeleteInv
<1>4. fn.pc = "check_delete" /\ ~lag => \A t \in OfStack("tool")' : t.id = fn.tool
  BY <1>3, LessIsShown DEF OInv, RunInv, DeleteInv
<1>5. /\ fn.pc = "delete" /\ ~lag => Doomed(OfStack("tool"))'
      /\ fn.pc \in {"scan_credentials", "scan_tools"} => Doomed(Shown("assistant"))'
      /\ fn.pc = "scan_tools" => Doomed(Shown("credential"))'
      /\ fn.pc = "delete" /\ fn.scanned => Doomed(Shown("assistant"))' /\ Doomed(Shown("credential"))'
  BY <1>2, <1>3 DEF OInv, RunInv, DeleteInv
<1>6. /\ fn.pc \in {"scan_assistants", "scan_credentials", "scan_tools"} /\ ~lag
           /\ stack.physical.form = "objects" => OfStack("tool")' = {}
      /\ fn.pc = "answer" /\ fn.request = "Delete" /\ ~stack.retain =>
           /\ Shown("assistant")' = {} /\ Shown("credential")' = {}
           /\ ~lag => OfStack("tool")' = {}
  BY <1>2, <1>3 DEF OInv, RunInv, DeleteInv
<1> QED BY <1>1, <1>3, <1>4, <1>5, <1>6 DEF DeleteInv

LEMMA ListedKeeps ==
  ASSUME IInv, OInv, BecomeListed
  PROVE  OInv'
<1>1. /\ UNCHANGED created /\ UNCHANGED binding /\ UNCHANGED stack /\ UNCHANGED lag /\ fn' = fn
  BY DEF BecomeListed
<1>2. PICK old \in vapi : ~old.listed /\ vapi' = (vapi \ {old}) \cup {[old EXCEPT !.listed = TRUE]}
  BY DEF BecomeListed
<1>3. PICK new : new = [old EXCEPT !.listed = TRUE]
  OBVIOUS
<1>4. vapi' = (vapi \ {old}) \cup {new}
  BY <1>2, <1>3
<1>5. /\ Alike(new, old) /\ new.credential = old.credential /\ new.tool = old.tool /\ new.fields = old.fields
  <2>1. old \in Object
    BY Known
  <2> QED BY <1>3, <2>1 DEF Object, Alike
<1>6. lag
  BY <1>2, Known DEF World, PromptInv
<1> DEFINE Equal(o, q) == /\ Alike(o, q) /\ o.credential = q.credential /\ o.tool = q.tool
                          /\ o.fields = q.fields
<1>7. /\ \A o \in vapi' : \E q \in vapi : Equal(o, q)
      /\ \A q \in vapi : \E o \in vapi' : Equal(o, q)
  BY <1>4, <1>5 DEF Alike
<1>8. /\ \A x : Exists(x)' <=> Exists(x)
      /\ \A x : \A o \in Existing(x)' : \E q \in Existing(x) : Equal(o, q)
  BY <1>7 DEF Exists, Existing, Alike
<1>9. Stays /\ Remains
  BY <1>1, <1>7 DEF Stays, Remains
<1>10. \A o, q \in vapi' : o.id = q.id => o = q
  BY <1>4, <1>5 DEF Alike, OInv, ObjectRefs
<1>11. ObjectRefs' /\ StackRefs'
  BY <1>1, <1>9, <1>10, RefsKeep
<1>12. FnRefs'
  BY <1>1, <1>9, InvocationRefers DEF FnRefs
<1>13. FormInv' /\ RequestInv'
  BY <1>1 DEF OInv, FormInv, RunInv, RequestInv
<1>14. ToolInv' /\ GoneInv'
  <2>1. new.id = old.id /\ new.listed
    <3>1. old \in Object
      BY Known
    <3> QED BY <1>3, <3>1 DEF Object
  <2>2. stack.state \in {"deleting", "delete_failed", "deleted"} =>
          \A o \in vapi' : o.listed \/ o.id \in stack.unseen
    BY <1>4, <2>1 DEF OInv, GoneInv
  <2>3. \A k : Shown(k) = {} => Shown(k)' = {}
    BY <1>1, <1>9, LessIsShown
  <2> QED BY <1>1, <1>6, <2>2, <2>3 DEF ToolInv, GoneInv, OInv
<1>15. CreateInv' /\ UpdateInv'
  BY <1>1, <1>6, <1>8 DEF OInv, RunInv, CreateInv, UpdateInv, Looking
<1>16. DeleteInv'
  BY <1>1, <1>9, DeletionRemains
<1>17. ReadyInv'
  BY <1>1, <1>8 DEF OInv, ReadyInv
<1> QED BY <1>11, <1>12, <1>13, <1>14, <1>15, <1>16, <1>17 DEF OInv, RunInv

LEMMA CustomerKeeps ==
  ASSUME IInv, OInv, CustomerEdits
  PROVE  OInv'
<1>1. /\ UNCHANGED created /\ UNCHANGED binding /\ UNCHANGED lag /\ fn' = fn
      /\ stack.state \notin {"creating", "create_failed", "deleted"} /\ stack.physical.form = "objects"
      /\ stack \in Stack
  BY Known DEF CustomerEdits
<1>2. /\ stack'.state = stack.state /\ stack'.physical = stack.physical /\ stack'.replaced = stack.replaced
      /\ stack'.fields = stack.fields /\ stack'.wanted = stack.wanted /\ stack'.retain = stack.retain
      /\ stack'.edited = TRUE /\ stack'.unseen = stack.unseen
  BY <1>1 DEF CustomerEdits, Stack
<1>3. PICK old \in vapi : vapi' = vapi \ {old} \/ vapi' = (vapi \ {old}) \cup {[old EXCEPT !.tool = None]}
  BY DEF CustomerEdits
<1>4. PICK new : new = [old EXCEPT !.tool = None]
  OBVIOUS
<1>5. Alike(new, old) /\ new.credential = old.credential /\ new.listed = old.listed
  <2>1. old \in Object
    BY Known
  <2> QED BY <1>4, <2>1 DEF Object, Alike
<1>6. vapi' = vapi \ {old} \/ vapi' = (vapi \ {old}) \cup {new}
  BY <1>3, <1>4
<1>7. Stays /\ Remains
  BY <1>1, <1>5, <1>6 DEF Stays, Remains, Alike
<1>8. \A o, q \in vapi' : o.id = q.id => o = q
  BY <1>5, <1>6 DEF Alike, OInv, ObjectRefs
<1>9. ObjectRefs' /\ StackRefs'
  BY <1>2, <1>7, <1>8, RefsKeep
<1>10. FnRefs'
  BY <1>1, <1>7, InvocationRefers DEF FnRefs
<1>11. FormInv' /\ RequestInv'
  BY <1>1, <1>2 DEF OInv, FormInv, RunInv, RequestInv
<1>12. CreateInv'
  BY <1>1, Known DEF CreateInv, OInv, RunInv, RequestInv, RequestOf, Busy
<1>13. UpdateInv'
  BY <1>1, <1>2 DEF OInv, RunInv, UpdateInv
<1>14. DeleteInv'
  BY <1>1, <1>2, <1>7, DeletionRemains
<1>15. ToolInv'
  BY <1>1, <1>2, <1>7, WasStays DEF OInv, ToolInv
<1>16. GoneInv'
  <2>1. stack.state \in {"deleting", "delete_failed", "deleted"} =>
          \A o \in vapi' : o.listed \/ o.id \in stack.unseen
    BY <1>5, <1>6 DEF OInv, GoneInv, Alike
  <2> QED BY <1>1, <1>2, <2>1 DEF GoneInv
<1>17. ReadyInv'
  BY <1>2 DEF ReadyInv
<1> QED BY <1>9, <1>10, <1>11, <1>12, <1>13, <1>14, <1>15, <1>16, <1>17 DEF OInv, RunInv

-----------------------------------------------------------------------------
(* The theorems *)

LEMMA OutcomeBegins == Init => OInv /\ ScanInv
<1> SUFFICES ASSUME Init PROVE OInv /\ ScanInv
  OBVIOUS
<1>1. fn = None
  BY DEF Init
<1>2. ScanInv /\ FnRefs /\ RunInv
  BY <1>1 DEF ScanInv, FnRefs, RunInv, RequestInv, CreateInv, UpdateInv, DeleteInv
<1>3. CASE NewStack
  <2>1. /\ stack.physical = Pending /\ stack.replaced = Pending /\ stack.state = "creating" /\ ~stack.edited
        /\ stack.fields = stack.wanted
    BY <1>3 DEF NewStack
  <2>2. Pending.form = "pending" /\ RefersWell(Pending)
    BY DEF Pending, RefersWell
  <2>3. /\ vapi \subseteq {Foreign(MaxObjects + 1, "assistant"), Foreign(MaxObjects + 2, "credential"),
                           Foreign(MaxObjects + 3, "tool")}
    BY <1>3 DEF NewStack
  <2>4. \A o \in vapi : ~Mine(o)
    BY <2>3 DEF Foreign, Mine
  <2>5. ObjectRefs
    <3>1. \A o, q \in vapi : o.id = q.id => o = q
      <4>1. MaxObjects \in Nat
        BY ProvisioningAssumption
      <4>2. \A o \in vapi : \/ o = Foreign(MaxObjects + 1, "assistant") /\ o.id = MaxObjects + 1
                            \/ o = Foreign(MaxObjects + 2, "credential") /\ o.id = MaxObjects + 2
                            \/ o = Foreign(MaxObjects + 3, "tool") /\ o.id = MaxObjects + 3
        BY <2>3 DEF Foreign
      <4>3. /\ MaxObjects + 1 # MaxObjects + 2 /\ MaxObjects + 1 # MaxObjects + 3
            /\ MaxObjects + 2 # MaxObjects + 3
        BY <4>1
      <4> QED BY <4>2, <4>3, ZenonT(60)
    <3> QED BY <2>4, <3>1 DEF ObjectRefs, OfStack
  <2>6. \A k : OfStack(k) = {}
    BY <2>4 DEF OfStack
  <2> HIDE DEF Pending
  <2>7. StackRefs /\ FormInv
    BY <2>1, <2>2 DEF StackRefs, FormInv
  <2>8. ToolInv /\ GoneInv /\ ReadyInv
    BY <2>1, <2>2, <2>6 DEF ToolInv, GoneInv, ReadyInv
  <2> QED BY <1>2, <2>5, <2>7, <2>8 DEF OInv
<1>4. CASE LegacyStack
  <2> DEFINE a == Own(1, "assistant", 2, 3, None)
             c == Own(2, "credential", None, None, None)
             t == Own(3, "tool", 2, None, 1)
  <2>1. /\ a.id = 1 /\ a.kind = "assistant" /\ a.credential = 2 /\ a.tool = 3
        /\ c.id = 2 /\ c.kind = "credential"
        /\ t.id = 3 /\ t.kind = "tool" /\ t.credential = 2 /\ t.fields = 1
    BY DEF Own
  <2>2. vapi = {a, c, t} /\ created = 3 /\ binding = 1
    BY <1>4 DEF LegacyStack
  <2> HIDE DEF a, c, t
  <2>3. /\ Existing(1) = {a} /\ Existing(2) = {c} /\ Existing(3) = {t}
        /\ OfStack("tool") \subseteq {t} /\ OfStack("assistant") \subseteq {a}
    BY <2>1, <2>2 DEF Existing, OfStack
  <2>4. Was(1, "assistant") /\ Was(2, "credential") /\ Was(3, "tool")
    BY <2>1, <2>2, <2>3 DEF Was
  <2>5. ObjectRefs
    BY <2>1, <2>2, <2>3, <2>4 DEF ObjectRefs
  <2>6. /\ stack.state = "complete" /\ stack.replaced = Pending /\ stack.fields = 1
        /\ stack.physical = [form |-> "objects", assistant |-> 1, tool |-> 3, credential |-> None]
    BY <1>4 DEF LegacyStack
  <2>7. /\ stack.physical.form = "objects" /\ stack.physical.assistant = 1 /\ stack.physical.tool = 3
        /\ stack.physical.credential = None
    BY <2>6
  <2>8. Pending.form = "pending" /\ RefersWell(Pending)
    BY DEF Pending, RefersWell
  <2> HIDE DEF Pending
  <2>9. StackRefs /\ FormInv
    BY <2>4, <2>6, <2>7, <2>8 DEF StackRefs, RefersWell, FormInv
  <2>10. ToolInv /\ GoneInv
    BY <2>1, <2>3, <2>6, <2>7 DEF ToolInv, GoneInv
  <2>11. ReadyInv
    BY <2>1, <2>2, <2>3, <2>6, <2>7 DEF ReadyInv, Exists
  <2> QED BY <1>2, <2>5, <2>9, <2>10, <2>11 DEF OInv
<1> QED BY <1>3, <1>4 DEF Init

LEMMA OutcomeKeeps == IInv /\ ScanInv /\ OInv /\ [Next]_vars => OInv'
<1> SUFFICES ASSUME IInv, ScanInv, OInv, [Next]_vars PROVE OInv'
  OBVIOUS
<1>1. CASE Work
  BY <1>1, LookKeepsOutcome, PostKeepsOutcome, ChangeKeepsOutcome, CheckUpdateKeeps, CredentialKeeps,
     BindKeeps, CheckDeleteKeeps, ScanKeepsOutcome, ScanToolsKeeps, DeleteNextKeeps, DeletePassedKeeps,
     AnswerKeepsOutcome DEF Work
<1>2. CASE Environment
  BY <1>2, DeliverKeepsOutcome, GiveUpKeeps, RequestKeepsOutcome, ListedKeeps, CustomerKeeps, PauseKeeps
     DEF Environment
<1>3. CASE UNCHANGED vars
  BY <1>3, PauseKeeps
<1> QED BY <1>1, <1>2, <1>3 DEF Next

\* What the custom resource, the objects and an invocation have to do with one another,
\* through every request, failure, kill, redelivery and edit: the three theorems below
\* are what CloudFormation may rely on of it.
THEOREM Outcome == Spec => [](IInv /\ OInv)
<1>1. Init => IInv /\ ScanInv /\ OInv
  BY InitKeeps, OutcomeBegins
<1>2. (IInv /\ ScanInv /\ OInv) /\ [Next]_vars => (IInv /\ ScanInv /\ OInv)'
  BY NextKeeps, ScanKeeps, OutcomeKeeps
<1> QED BY <1>1, <1>2, PTL DEF Spec

\* Where lists are prompt a deletion that CloudFormation was told has succeeded has left
\* nothing of the stack: neither a create whose answer was lost and that was repeated, nor
\* a deletion broken off and taken up again by another delivery or another request.
THEOREM DeletedIsGone == Spec => []PromptNothingOutlives
<1>1. IInv /\ OInv => PromptNothingOutlives
  <2> SUFFICES ASSUME IInv, OInv, ~lag, stack.state = "deleted", ~stack.retain, NEW o \in vapi, Mine(o)
               PROVE  FALSE
    BY DEF PromptNothingOutlives, Gone
  <2>1. OfStack("assistant") = {} /\ OfStack("credential") = {} /\ OfStack("tool") = {}
    BY DEF OInv, GoneInv, Shown
  <2>2. o.kind \in Kinds
    BY Known
  <2> QED BY <2>1, <2>2 DEF OfStack, Kinds
<1> QED BY <1>1, Outcome, PTL

\* Whenever a deletion is asked for, be it by a rollback while lists still lag: what it has
\* left when it succeeds is what no list showed then, and tools; and if such a tool's
\* credential is still there, no list showed that one either.
THEOREM LeftIsInert == Spec => []OnlyInertOutlive
<1>1. IInv /\ OInv => OnlyInertOutlive
  <2> SUFFICES ASSUME IInv, OInv, stack.state = "deleted", ~stack.retain, NEW o \in vapi, Mine(o),
                      o.id \notin stack.unseen
               PROVE  /\ o.kind = "tool"
                      /\ Exists(o.credential) => o.credential \in stack.unseen
    BY DEF OnlyInertOutlive, Gone
  <2>1. \A q \in OfStack("assistant") \cup OfStack("credential") : q.id \in stack.unseen
    BY DEF OInv, GoneInv, Shown
  <2>2. o.kind = "tool"
    BY <2>1, Known DEF OfStack, Kinds
  <2>3. Was(o.credential, "credential")
    BY <2>2 DEF OInv, ObjectRefs, OfStack
  <2>4. \A q \in Existing(o.credential) : q \in OfStack("credential") /\ q.id = o.credential
    BY <2>3, OwnId
  <2> QED BY <2>1, <2>2, <2>4 DEF Exists
<1> QED BY <1>1, Outcome, PTL

\* A custom resource that CloudFormation holds for complete is, until the customer changes
\* it: its objects exist, refer to one another and carry the template's field schema, and
\* the webhook is bound to its assistant; whatever failed on the way, and after any number
\* of updates that succeeded, failed or were rolled back.
THEOREM CompleteWorks == Spec => []CompleteIsReady
<1>1. IInv /\ OInv => CompleteIsReady
  <2> DEFINE p == stack.physical
             a == Get(p.assistant)
             t == Get(p.tool)
  <2> SUFFICES ASSUME IInv, OInv, stack.state = "complete", ~stack.edited, stack.replaced \in {Pending, p}
               PROVE  /\ Exists(p.assistant) /\ Exists(p.tool) /\ Exists(a.credential)
                      /\ p.credential \in {None, a.credential}
                      /\ a.tool = t.id
                      /\ t.credential = a.credential
                      /\ t.fields = stack.fields
                      /\ binding = a.id
    BY DEF CompleteIsReady
  <2>1. p.form = "objects"
    BY DEF OInv, FormInv
  <2>2. /\ Exists(p.assistant) /\ Exists(p.tool) /\ binding = p.assistant
        /\ \A o \in Existing(p.assistant) :
             /\ o.tool = p.tool /\ Exists(o.credential) /\ p.credential \in {None, o.credential}
             /\ \A q \in Existing(p.tool) : q.credential = o.credential
        /\ \A q \in Existing(p.tool) : q.fields = stack.fields
    BY <2>1 DEF OInv, ReadyInv
  <2>3. a \in Existing(p.assistant) /\ a.id = p.assistant
    BY <2>2 DEF Exists, Existing, Get
  <2>4. t \in Existing(p.tool) /\ t.id = p.tool
    BY <2>2 DEF Exists, Existing, Get
  <2> HIDE DEF a, t, p
  <2> QED BY <2>2, <2>3, <2>4
<1> QED BY <1>1, Outcome, PTL

=============================================================================
