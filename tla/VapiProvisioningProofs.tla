------------------------ MODULE VapiProvisioningProofs ------------------------
(***************************************************************************)
(* What a creation, an update and a deletion may never do, whatever fails, *)
(* is killed, is delivered again or is hidden from a list, for any number  *)
(* of objects, deliveries and events: touch an object of somebody else     *)
(* that bears the stack's name; and, while lists show what was created,    *)
(* make a second object of one kind.                                       *)
(***************************************************************************)
EXTENDS VapiProvisioning, FiniteSetTheorems, TLAPS

-----------------------------------------------------------------------------
(* The invariant *)

OwnIds == 1..MaxObjects

\* The stack's objects have ids given out to it; those of others refer to nothing of its.
WorldInv ==
  \A o \in vapi :
    IF Mine(o) THEN o.id \in 1..created
    ELSE o.id \notin OwnIds /\ o.credential = None /\ o.listed

\* Where lists are prompt they show everything, and there is one object of a kind.
PromptInv ==
  ~lag => /\ \A o \in vapi : o.listed
          /\ \A o, q \in vapi : Mine(o) /\ Mine(q) /\ o.kind = q.kind => o = q

World == vapi \subseteq Object /\ created \in 0..MaxObjects /\ WorldInv /\ PromptInv

\* What an invocation will change or delete is the stack's, and a tool is looked for by a
\* credential.
Sound(f) ==
  /\ {f.assistant, f.tool} \subseteq OwnIds \cup {None}
  /\ \A d \in f.doomed : d.id \in OwnIds
  /\ f.pc \in {"find", "check_credentials"} => f.posts = 0
  /\ f.pc = "post" => f.posts \in 0..1
  /\ f.pc = "check_credentials" => f.kind = "assistant"
  /\ f.pc = "attach" \/ (f.pc \in {"find", "post", "reconcile"} /\ f.kind = "tool")
       => f.credential # None

InvocationInv == fn # None => Busy /\ Sound(fn)

\* Before it creates an object it has seen that there is none.
AbsentInv ==
  ~lag /\ fn # None /\ fn.pc \in {"post", "check_credentials"} =>
    \A o \in vapi : Mine(o) => o.kind # fn.kind

StackInv ==
  \A p \in {stack.physical, stack.replaced} : {p.assistant, p.tool} \subseteq OwnIds \cup {None}

IInv == TypeOK /\ WorldInv /\ PromptInv /\ InvocationInv /\ AbsentInv /\ StackInv

-----------------------------------------------------------------------------
(* What may become of the objects *)

\* Objects of others stay as they are.
ForeignKept == \A o \in vapi : ~Mine(o) => o \in vapi'

\* Objects of the stack are deleted.
LEMMA ObjectsGo ==
  ASSUME World, vapi' \subseteq vapi, ForeignKept, UNCHANGED <<created, lag>>
  PROVE  World'
  BY DEF World, WorldInv, PromptInv, Mine

\* An object is created: it is the only one of its kind if there was none.
LEMMA ObjectComes ==
  ASSUME TypeOK, World, fn \in Invocation, created < MaxObjects, Commit, UNCHANGED lag,
         ~lag => \A o \in vapi : Mine(o) => o.kind # fn.kind
  PROVE  /\ World' /\ ForeignKept
         /\ NewObject(fn.kind) \in Object /\ NewObject(fn.kind).id \in OwnIds
         /\ NewObject(fn.kind).kind = fn.kind
<1> DEFINE new == NewObject(fn.kind)
<1>1. /\ created \in 0..MaxObjects /\ MaxObjects \in Nat /\ stack.wanted \in Fields /\ lag \in BOOLEAN
      /\ fn.kind \in Kinds /\ fn.credential \in Ids \cup {None} /\ created + 1 \in OwnIds /\ OwnIds \subseteq Ids
  BY ProvisioningAssumption DEF TypeOK, World, Stack, Invocation, OwnIds, Ids
<1>2. /\ new \in Object /\ new.id = created + 1 /\ new.kind = fn.kind /\ new.owner = "stack"
      /\ new.listed = ~lag
  BY <1>1 DEF NewObject, Object
<1> HIDE DEF new
<1>3. created' = created + 1 /\ vapi' = vapi \cup {new}
  BY DEF Commit, new
<1>4. \A o \in vapi : IF Mine(o) THEN o.id \in 1..created' ELSE o.id \notin OwnIds /\ o.credential = None /\ o.listed
  BY <1>1, <1>3 DEF World, WorldInv
<1>5. WorldInv'
  <2>1. Mine(new) /\ new.id \in 1..created'
    BY <1>1, <1>2, <1>3 DEF Mine
  <2> QED BY <1>3, <1>4, <2>1 DEF WorldInv
<1>6. PromptInv'
  BY <1>1, <1>2, <1>3, ZenonT(60) DEF World, PromptInv, Mine
<1>7. vapi' \subseteq Object /\ created' \in 0..MaxObjects
  BY <1>1, <1>2, <1>3 DEF World
<1>8. World' /\ ForeignKept
  BY <1>3, <1>5, <1>6, <1>7 DEF World, ForeignKept
<1> QED BY <1>1, <1>2, <1>8 DEF new

\* An object of the stack is replaced by one with the same id, kind and owner.
LEMMA ObjectChanges ==
  ASSUME World, UNCHANGED <<created, lag>>, NEW old \in vapi, Mine(old), NEW new \in Object,
         new.id = old.id, new.kind = old.kind, new.owner = old.owner, new.listed \/ new.listed = old.listed,
         NEW gone \in SUBSET vapi, old \in gone, \A o \in gone : Mine(o),
         vapi' = (vapi \ gone) \cup {new}
  PROVE  World' /\ ForeignKept
<1>1. WorldInv'
  BY DEF World, WorldInv, Mine
<1>2. PromptInv'
  BY DEF World, PromptInv, Mine
<1>3. vapi' \subseteq Object
  BY DEF World
<1> QED BY <1>1, <1>2, <1>3 DEF World, ForeignKept

\* What is found under an id of the stack's is the stack's, and has that id.
LEMMA FoundIsMine ==
  ASSUME World, TypeOK, NEW id \in OwnIds \cup {None}
  PROVE  /\ \A o \in Existing(id) : Mine(o) /\ o.id = id
         /\ Exists(id) => Get(id) \in Existing(id)
<1>1. \A o \in vapi : o.id \in Nat
  BY ProvisioningAssumption DEF World, Object, Ids
<1>2. \A o \in vapi : Mine(o) \/ o.id \notin OwnIds
  BY DEF World, WorldInv
<1>3. \A o \in Existing(id) : Mine(o) /\ o.id = id
  BY <1>1, <1>2, ProvisioningAssumption DEF Existing
<1>4. Exists(id) => Get(id) \in Existing(id)
  BY DEF Exists, Existing, Get
<1> QED BY <1>3, <1>4

-----------------------------------------------------------------------------
(* What may become of the invocation *)

\* It goes on soundly, and not to a creation.
Good == fn' \in Invocation /\ Sound(fn') /\ fn'.pc \notin {"post", "check_credentials"}

Beginnings == {"find", "check_credentials", "post", "reconcile", "attach"}

LEMMA GoesTo ==
  ASSUME fn \in Invocation, Sound(fn), NEW pc \in PC, Goto(pc)
  PROVE  /\ fn' \in Invocation /\ fn'.pc = pc
         /\ fn'.kind = fn.kind /\ fn'.posts = fn.posts /\ fn'.credential = fn.credential
         /\ fn'.assistant = fn.assistant /\ fn'.tool = fn.tool /\ fn'.doomed = fn.doomed
         /\ pc \notin Beginnings => Good
  BY DEF Goto, Invocation, Good, Sound, Beginnings

LEMMA Fails ==
  ASSUME fn \in Invocation, Sound(fn), Fail
  PROVE  Good
  BY GoesTo DEF Fail, PC, Beginnings

\* An object of the stack's own is obtained: the next one is looked for, or all are there.
LEMMA ObtainedSound ==
  ASSUME fn \in Invocation, Sound(fn), NEW o \in Object, o.id \in OwnIds, Obtained(o)
  PROVE  Good
<1>1. /\ o.id \in Ids /\ o.id # None /\ o.kind \in Kinds /\ o.credential \in Ids \cup {None}
  BY ProvisioningAssumption DEF Object, OwnIds
<1>2. CASE o.kind = "assistant"
  <2>1. fn' = [fn EXCEPT !.assistant = o.id, !.attached = o.credential, !.pc = "find",
                         !.kind = "credential", !.posts = 0, !.reads = 0]
    BY <1>2 DEF Obtained
  <2>2. fn' \in Invocation
    <3>1. 0 \in 0..MaxReads /\ 0 \in 0..2 /\ "find" \in PC /\ "credential" \in Kinds
      BY DEF MaxReads, PC, Kinds
    <3> QED BY <1>1, <2>1, <3>1 DEF Invocation
  <2>3. /\ fn'.assistant = o.id /\ fn'.tool = fn.tool /\ fn'.doomed = fn.doomed /\ fn'.pc = "find"
        /\ fn'.posts = 0 /\ fn'.kind = "credential"
    BY <2>1 DEF Invocation
  <2> QED BY <2>2, <2>3 DEF Good, Sound
<1>3. CASE o.kind = "credential"
  <2>1. \/ fn' = [fn EXCEPT !.credential = o.id, !.pc = "attach"]
        \/ fn' = [fn EXCEPT !.credential = o.id, !.pc = "fail"]
    BY <1>3 DEF Obtained
  <2>2. fn' \in Invocation
    BY <1>1, <2>1, ZenonT(60) DEF Invocation, PC
  <2>3. /\ fn'.assistant = fn.assistant /\ fn'.tool = fn.tool /\ fn'.doomed = fn.doomed
        /\ fn'.pc \in {"attach", "fail"} /\ fn'.credential = o.id
    BY <2>1 DEF Invocation
  <2> QED BY <1>1, <2>2, <2>3 DEF Good, Sound
<1>4. CASE o.kind = "tool"
  <2>1. fn' = [fn EXCEPT !.tool = o.id, !.pc = "update_tool"]
    BY <1>4 DEF Obtained
  <2>2. fn' \in Invocation
    BY <1>1, <2>1 DEF Invocation, PC
  <2>3. /\ fn'.assistant = fn.assistant /\ fn'.tool = o.id /\ fn'.doomed = fn.doomed
        /\ fn'.pc = "update_tool"
    BY <2>1 DEF Invocation
  <2> QED BY <2>2, <2>3 DEF Good, Sound
<1> QED BY <1>1, <1>2, <1>3, <1>4 DEF Kinds

\* What a scan by owner adopts is the stack's: a tool of others refers to no credential.
LEMMA AdoptedSound ==
  ASSUME TypeOK, World, fn \in Invocation, Sound(fn), fn.pc \in {"find", "reconcile"},
         (\E o \in Matches(fn.kind) : Acceptable(o) /\ Obtained(o)) \/ Fail
  PROVE  Good
<1>1. CASE Fail
  BY <1>1, Fails
<1>2. ASSUME NEW o \in Matches(fn.kind), Acceptable(o), Obtained(o) PROVE Good
  <2>1. o \in vapi /\ o \in Object /\ o.kind = fn.kind /\ o.kind \in Kinds
    BY <1>2 DEF Matches, World, Object
  <2>2. Mine(o)
    BY <1>2, <2>1 DEF Acceptable, Sound, World, WorldInv, Kinds
  <2>3. o.id \in OwnIds
    BY <2>1, <2>2, ProvisioningAssumption DEF World, WorldInv, OwnIds
  <2> QED BY <1>2, <2>1, <2>3, ObtainedSound
<1> QED BY <1>1, <1>2

\* An invocation that runs has all it needs.
LEMMA Running ==
  ASSUME IInv, NEW pc, At(pc)
  PROVE  fn # None /\ fn.pc = pc /\ fn \in Invocation /\ Sound(fn) /\ Busy /\ World /\ TypeOK /\ lag \in BOOLEAN
  BY ProvisioningAssumption DEF IInv, TypeOK, At, InvocationInv, World

\* A list that is prompt and shows nothing proves that there is nothing.
LEMMA NothingListed ==
  ASSUME World, ~lag, NEW kind, Matches(kind) = {}
  PROVE  \A o \in vapi : Mine(o) => o.kind # kind
  BY DEF World, PromptInv, Matches

LEMMA LookKeeps ==
  ASSUME IInv, FindOwned \/ CheckCredentials \/ Reconcile
  PROVE  fn' \in Invocation /\ Sound(fn') /\ AbsentInv' /\ Keep
<1>1. fn # None /\ fn \in Invocation /\ Sound(fn) /\ World /\ TypeOK /\ lag \in BOOLEAN /\ Keep
  BY Running DEF FindOwned, CheckCredentials, Reconcile
<1>2. Good => fn' \in Invocation /\ Sound(fn') /\ AbsentInv'
  BY DEF Good, AbsentInv
<1>3. CASE FindOwned
  <2>1. fn.pc = "find" /\ fn.posts = 0
    BY <1>1, <1>3 DEF FindOwned, At, Sound
  <2>2. CASE Matches(fn.kind) = {}
    <3>1. Goto(IF fn.kind = "assistant" THEN "check_credentials" ELSE "post")
      BY <1>3, <2>2 DEF FindOwned, Adopt
    <3>2. /\ fn' \in Invocation /\ fn'.pc = (IF fn.kind = "assistant" THEN "check_credentials" ELSE "post")
          /\ fn'.kind = fn.kind /\ fn'.posts = 0 /\ fn'.credential = fn.credential
          /\ fn'.assistant = fn.assistant /\ fn'.tool = fn.tool /\ fn'.doomed = fn.doomed
      BY <1>1, <2>1, <3>1, GoesTo DEF PC
    <3>3. Sound(fn')
      BY <1>1, <2>1, <3>2 DEF Sound
    <3>4. AbsentInv'
      BY <1>1, <2>2, <3>2, NothingListed DEF AbsentInv, Keep, Mine
    <3> QED BY <1>1, <3>2, <3>3, <3>4
  <2>3. CASE Matches(fn.kind) # {}
    <3>1. (\E o \in Matches(fn.kind) : Acceptable(o) /\ Obtained(o)) \/ Fail
      BY <1>3, <2>3 DEF FindOwned, Adopt
    <3> QED BY <1>1, <1>2, <2>1, <3>1, AdoptedSound
  <2> QED BY <2>2, <2>3
<1>4. CASE CheckCredentials
  <2>1. fn.pc = "check_credentials" /\ fn.posts = 0 /\ fn.kind = "assistant"
    BY <1>1, <1>4 DEF CheckCredentials, At, Sound
  <2>2. CASE Fail
    BY <1>1, <1>2, <2>2, Fails
  <2>3. CASE Goto("post")
    <3>1. /\ fn' \in Invocation /\ fn'.pc = "post"
          /\ fn'.kind = fn.kind /\ fn'.posts = 0 /\ fn'.credential = fn.credential
          /\ fn'.assistant = fn.assistant /\ fn'.tool = fn.tool /\ fn'.doomed = fn.doomed
      BY <1>1, <2>1, <2>3, GoesTo DEF PC
    <3>2. Sound(fn')
      BY <1>1, <2>1, <3>1 DEF Sound
    <3>3. AbsentInv'
      BY <1>1, <2>1, <3>1 DEF IInv, AbsentInv, Keep, Mine
    <3> QED BY <1>1, <3>1, <3>2, <3>3
  <2> QED BY <1>4, <2>2, <2>3 DEF CheckCredentials
<1>5. CASE Reconcile
  <2>1. fn.pc = "reconcile"
    BY <1>5 DEF Reconcile, At
  <2>2. CASE Matches(fn.kind) = {}
    <3>1. CASE fn.reads + 1 < MaxReads /\ fn' = [fn EXCEPT !.reads = @ + 1]
      <4>1. fn' \in Invocation
        BY <1>1, <3>1 DEF Invocation, MaxReads
      <4>2. Good
        BY <1>1, <2>1, <3>1, <4>1 DEF Good, Sound, Invocation
      <4> QED BY <1>1, <1>2, <4>2
    <3>2. CASE fn.posts = 1 /\ Goto("post")
      <4>1. /\ fn' \in Invocation /\ fn'.pc = "post"
            /\ fn'.kind = fn.kind /\ fn'.posts = 1 /\ fn'.credential = fn.credential
            /\ fn'.assistant = fn.assistant /\ fn'.tool = fn.tool /\ fn'.doomed = fn.doomed
        BY <1>1, <2>1, <3>2, GoesTo DEF PC
      <4>2. Sound(fn')
        BY <1>1, <2>1, <4>1 DEF Sound
      <4>3. AbsentInv'
        BY <1>1, <2>2, <4>1, NothingListed DEF AbsentInv, Keep, Mine
      <4> QED BY <1>1, <4>1, <4>2, <4>3
    <3>3. CASE Goto("fail")
      BY <1>1, <1>2, <3>3, Fails DEF Fail
    <3> QED BY <1>5, <2>2, <3>1, <3>2, <3>3 DEF Reconcile, Adopt
  <2>3. CASE Matches(fn.kind) # {}
    <3>1. (\E o \in Matches(fn.kind) : Acceptable(o) /\ Obtained(o)) \/ Fail
      BY <1>5, <2>3 DEF Reconcile, Adopt
    <3> QED BY <1>1, <1>2, <2>1, <3>1, AdoptedSound
  <2> QED BY <2>2, <2>3
<1> QED BY <1>3, <1>4, <1>5

-----------------------------------------------------------------------------
(* Creation *)

\* What a step of the invocation leaves as it should be.
Works ==
  /\ World' /\ ForeignKept /\ AbsentInv' /\ UNCHANGED <<stack, calm, lag>>
  /\ binding' \in Ids \cup {None}
  /\ fn' \in Invocation /\ Sound(fn')

LEMMA NothingTouched ==
  ASSUME World, UNCHANGED <<vapi, created, lag>>
  PROVE  World' /\ ForeignKept
  BY DEF World, WorldInv, PromptInv, ForeignKept, Mine

LEMMA LookWorks ==
  ASSUME IInv, FindOwned \/ CheckCredentials \/ Reconcile
  PROVE  Works
  BY LookKeeps, NothingTouched, Running DEF Works, Keep, FindOwned, CheckCredentials, Reconcile, IInv, TypeOK

LEMMA PostWorks ==
  ASSUME IInv, Post \/ PostLost
  PROVE  Works
<1>1. /\ fn # None /\ fn.pc = "post" /\ fn \in Invocation /\ Sound(fn) /\ World /\ TypeOK /\ lag \in BOOLEAN
      /\ UNCHANGED <<binding, stack, calm, lag>> /\ binding \in Ids \cup {None}
  BY Running DEF Post, PostLost, IInv, TypeOK
<1>2. ~lag => \A o \in vapi : Mine(o) => o.kind # fn.kind
  BY <1>1 DEF IInv, AbsentInv
<1>3. ASSUME created < MaxObjects, Commit
      PROVE  World' /\ ForeignKept /\ NewObject(fn.kind) \in Object /\ NewObject(fn.kind).id \in OwnIds
  BY <1>1, <1>2, <1>3, ObjectComes
<1>4. CASE Post
  <2>1. CASE created < MaxObjects /\ Commit /\ Obtained(NewObject(fn.kind))
    <3>1. Good
      BY <1>1, <1>3, <2>1, ObtainedSound
    <3> QED BY <1>1, <1>3, <2>1, <3>1 DEF Works, Good, AbsentInv
  <2>2. CASE Fail /\ UNCHANGED <<vapi, created>>
    <3>1. Good
      BY <1>1, <2>2, Fails
    <3> QED BY <1>1, <2>2, <3>1, NothingTouched DEF Works, Good, AbsentInv
  <2> QED BY <1>4, <2>1, <2>2 DEF Post
<1>5. CASE PostLost
  <2>1. fn' = [fn EXCEPT !.pc = "reconcile", !.posts = @ + 1, !.reads = 0]
    BY <1>5 DEF PostLost
  <2>2. fn.posts \in 0..1 /\ fn.posts + 1 \in 0..2 /\ 0 \in 0..MaxReads /\ "reconcile" \in PC
    BY <1>1 DEF Sound, PC, MaxReads
  <2>3. fn' \in Invocation
    BY <1>1, <2>1, <2>2 DEF Invocation
  <2>4. /\ fn'.assistant = fn.assistant /\ fn'.tool = fn.tool /\ fn'.doomed = fn.doomed
        /\ fn'.pc = "reconcile" /\ fn'.kind = fn.kind /\ fn'.credential = fn.credential
    BY <1>1, <2>1 DEF Invocation
  <2>5. Sound(fn') /\ AbsentInv'
    BY <1>1, <2>4 DEF Sound, AbsentInv
  <2>6. World' /\ ForeignKept
    BY <1>1, <1>3, <1>5, NothingTouched DEF PostLost
  <2> QED BY <1>1, <2>3, <2>5, <2>6 DEF Works
<1> QED BY <1>4, <1>5

-----------------------------------------------------------------------------
(* Changes *)

LEMMA PatchWorks ==
  ASSUME World, TypeOK, NEW id \in OwnIds \cup {None}, NEW new, UNCHANGED <<created, lag>>,
         IF Exists(id) THEN vapi' = (vapi \ Existing(id)) \cup {new} ELSE UNCHANGED vapi,
         Exists(id) => /\ new \in Object /\ new.id = Get(id).id /\ new.kind = Get(id).kind
                       /\ new.owner = Get(id).owner /\ new.listed = Get(id).listed
  PROVE  World' /\ ForeignKept
<1>1. CASE ~Exists(id)
  BY <1>1, NothingTouched
<1>2. CASE Exists(id)
  <2>1. /\ Get(id) \in Existing(id) /\ Get(id) \in vapi /\ Existing(id) \in SUBSET vapi
        /\ \A o \in Existing(id) : Mine(o)
    BY <1>2, FoundIsMine DEF Existing
  <2> QED BY <1>2, <2>1, ObjectChanges
<1> QED BY <1>1, <1>2

\* References and fields are replaced, and the object is the same.
Same(o, new) ==
  /\ new \in Object /\ new.id = o.id /\ new.kind = o.kind
  /\ new.owner = o.owner /\ new.listed = o.listed

LEMMA Rewired ==
  ASSUME NEW o \in Object, NEW c \in Ids \cup {None}, NEW t \in Ids \cup {None}
  PROVE  Same(o, [o EXCEPT !.credential = c, !.tool = t])
  BY DEF Object, Same

LEMMA Revised ==
  ASSUME NEW o \in Object, NEW c \in Ids \cup {None}, NEW f \in Fields \cup {None}
  PROVE  Same(o, [o EXCEPT !.credential = c, !.fields = f])
  BY DEF Object, Same

LEMMA ChangeWorks ==
  ASSUME IInv, Attach \/ UpdateTool \/ Finish
  PROVE  Works
<1>1. /\ fn # None /\ fn \in Invocation /\ Sound(fn) /\ World /\ TypeOK /\ lag \in BOOLEAN
      /\ fn.pc \in {"attach", "update_tool", "finish"}
      /\ UNCHANGED <<created, binding, stack, calm, lag>> /\ binding \in Ids \cup {None}
  BY Running DEF Attach, UpdateTool, Finish, Patch, IInv, TypeOK
<1>2. /\ fn.assistant \in OwnIds \cup {None} /\ fn.tool \in OwnIds \cup {None} /\ fn.tool \in Ids \cup {None}
      /\ fn.credential \in Ids \cup {None} /\ stack.wanted \in Fields \cup {None} /\ None \in Ids \cup {None}
  BY <1>1 DEF Sound, Invocation, TypeOK, Stack
<1>3. ASSUME NEW id \in OwnIds \cup {None}, Exists(id) PROVE Get(id) \in Object
  BY <1>1, <1>3, FoundIsMine DEF World, Existing
<1>4. Good => Sound(fn') /\ fn' \in Invocation /\ AbsentInv'
  BY DEF Good, AbsentInv
<1>5. CASE Attach
  <2> DEFINE new == [Get(fn.assistant) EXCEPT !.credential = fn.credential, !.tool = None]
  <2>1. Exists(fn.assistant) => Same(Get(fn.assistant), new)
    BY <1>2, <1>3, Rewired
  <2>2. IF Exists(fn.assistant) THEN vapi' = (vapi \ Existing(fn.assistant)) \cup {new} ELSE UNCHANGED vapi
    BY <1>5 DEF Attach, Patch
  <2>3. World' /\ ForeignKept
    <3> HIDE DEF new
    <3> QED BY <1>1, <1>2, <2>1, <2>2, PatchWorks DEF Same
  <2>4. CASE Find("tool")
    <3>1. 0 \in 0..MaxReads /\ 0 \in 0..2 /\ "find" \in PC /\ "tool" \in Kinds
      BY DEF MaxReads, PC, Kinds
    <3>2. fn' \in Invocation
      BY <1>1, <2>4, <3>1 DEF Find, Invocation
    <3>3. /\ fn'.assistant = fn.assistant /\ fn'.tool = fn.tool /\ fn'.doomed = fn.doomed
          /\ fn'.pc = "find" /\ fn'.posts = 0 /\ fn'.credential = fn.credential
      BY <1>1, <2>4 DEF Find, Invocation
    <3>4. fn.credential # None
      BY <1>1, <1>5 DEF Attach, At, Sound
    <3> QED BY <1>1, <1>4, <2>3, <3>2, <3>3, <3>4 DEF Good, Sound, Works
  <2>5. CASE Fail
    BY <1>1, <1>4, <2>3, <2>5, Fails DEF Works
  <2> QED BY <1>5, <2>4, <2>5 DEF Attach, Patch
<1>6. CASE UpdateTool
  <2> DEFINE new == [Get(fn.tool) EXCEPT !.credential = fn.credential, !.fields = stack.wanted]
  <2>1. Exists(fn.tool) => Same(Get(fn.tool), new)
    BY <1>2, <1>3, Revised
  <2>2. IF Exists(fn.tool) THEN vapi' = (vapi \ Existing(fn.tool)) \cup {new} ELSE UNCHANGED vapi
    BY <1>6 DEF UpdateTool, Patch
  <2>3. World' /\ ForeignKept
    <3> HIDE DEF new
    <3> QED BY <1>1, <1>2, <2>1, <2>2, PatchWorks DEF Same
  <2>4. ASSUME Goto("finish") \/ Goto("bind") \/ Fail PROVE Good
    BY <1>1, <2>4, GoesTo, Fails DEF PC, Beginnings
  <2>5. Goto("finish") \/ Goto("bind") \/ Fail
    BY <1>6 DEF UpdateTool, Patch
  <2> QED BY <1>1, <1>4, <2>3, <2>4, <2>5 DEF Works
<1>7. CASE Finish
  <2> DEFINE new == [Get(fn.assistant) EXCEPT !.credential = fn.credential, !.tool = fn.tool]
  <2>1. Exists(fn.assistant) => Same(Get(fn.assistant), new)
    BY <1>2, <1>3, Rewired
  <2>2. IF Exists(fn.assistant) THEN vapi' = (vapi \ Existing(fn.assistant)) \cup {new} ELSE UNCHANGED vapi
    BY <1>7 DEF Finish, Patch
  <2>3. World' /\ ForeignKept
    <3> HIDE DEF new
    <3> QED BY <1>1, <1>2, <2>1, <2>2, PatchWorks DEF Same
  <2>4. ASSUME Goto("bind") \/ Fail PROVE Good
    BY <1>1, <2>4, GoesTo, Fails DEF PC, Beginnings
  <2>5. Goto("bind") \/ Fail
    BY <1>7 DEF Finish, Patch
  <2> QED BY <1>1, <1>4, <2>3, <2>4, <2>5 DEF Works
<1> QED BY <1>5, <1>6, <1>7

LEMMA UpdateWorks ==
  ASSUME IInv, CheckUpdate \/ UpdateCredential \/ BindIdentity \/ Raise
  PROVE  Works
<1>1. /\ fn # None /\ fn \in Invocation /\ Sound(fn) /\ World /\ TypeOK
      /\ UNCHANGED <<vapi, created, stack, calm, lag>> /\ binding \in Ids \cup {None}
  BY Running DEF CheckUpdate, UpdateCredential, BindIdentity, Raise, Keep, IInv, TypeOK, InvocationInv, World
<1>2. World' /\ ForeignKept
  BY <1>1, NothingTouched
<1>3. Good => Sound(fn') /\ fn' \in Invocation /\ AbsentInv'
  BY DEF Good, AbsentInv
<1>4. ASSUME NEW pc \in PC \ Beginnings, Goto(pc) PROVE Good
  BY <1>1, <1>4, GoesTo
<1>5. {"answer", "fail", "check_delete", "update_tool"} \subseteq PC \ Beginnings
  BY DEF PC, Beginnings
<1>6. CASE CheckUpdate
  <2>1. binding' = binding
    BY <1>6 DEF CheckUpdate, Keep
  <2>2. CASE Fail
    BY <1>1, <1>2, <1>3, <2>1, <2>2, Fails DEF Works
  <2>3. ASSUME fn' = [fn EXCEPT !.pc = "update_credential", !.assistant = stack.physical.assistant,
                                !.tool = stack.physical.tool,
                                !.credential = Get(stack.physical.assistant).credential],
               Get(stack.physical.assistant).credential \in Ids \cup {None}
        PROVE  Good
    <3>1. /\ stack.physical.assistant \in OwnIds \cup {None} /\ stack.physical.tool \in OwnIds \cup {None}
          /\ stack.physical.assistant \in Ids \cup {None} /\ stack.physical.tool \in Ids \cup {None}
      BY <1>1 DEF IInv, StackInv, TypeOK, Stack, PhysicalId
    <3>2. fn' \in Invocation
      BY <1>1, <2>3, <3>1 DEF Invocation, PC
    <3>3. /\ fn'.assistant = stack.physical.assistant /\ fn'.tool = stack.physical.tool
          /\ fn'.doomed = fn.doomed /\ fn'.pc = "update_credential"
      BY <1>1, <2>3 DEF Invocation
    <3> QED BY <1>1, <3>1, <3>2, <3>3 DEF Good, Sound
  <2>4. Exists(stack.physical.assistant) => Get(stack.physical.assistant).credential \in Ids \cup {None}
    <3>1. stack.physical.assistant \in OwnIds \cup {None}
      BY DEF IInv, StackInv
    <3> QED BY <1>1, <3>1, FoundIsMine DEF World, Existing, Object
  <2>5. \/ Fail
        \/ /\ Exists(stack.physical.assistant)
           /\ fn' = [fn EXCEPT !.pc = "update_credential", !.assistant = stack.physical.assistant,
                               !.tool = stack.physical.tool,
                               !.credential = Get(stack.physical.assistant).credential]
    BY <1>6 DEF CheckUpdate
  <2> QED BY <1>1, <1>2, <1>3, <2>1, <2>2, <2>3, <2>4, <2>5 DEF Works
<1>7. CASE UpdateCredential
  <2>1. Good /\ binding' = binding
    BY <1>4, <1>5, <1>7 DEF UpdateCredential, Keep, Fail
  <2> QED BY <1>1, <1>2, <1>3, <2>1 DEF Works
<1>8. CASE BindIdentity
  <2>1. Goto("answer") \/ Goto("fail") \/ Goto("check_delete")
    BY <1>8 DEF BindIdentity, BindFailed, Fail
  <2>2. Good
    BY <1>4, <1>5, <2>1
  <2>3. binding' \in Ids \cup {None}
    BY <1>1, <1>8 DEF BindIdentity, Invocation
  <2> QED BY <1>1, <1>2, <1>3, <2>2, <2>3 DEF Works
<1>9. CASE Raise
  <2>1. Good /\ binding' = binding
    BY <1>4, <1>5, <1>9 DEF Raise, Keep, Fail
  <2> QED BY <1>1, <1>2, <1>3, <2>1 DEF Works
<1> QED BY <1>6, <1>7, <1>8, <1>9

-----------------------------------------------------------------------------
(* Deletion *)

\* Only what is the stack's is ever chosen to be deleted.
LEMMA NamesSound ==
  ASSUME World, NEW S \in SUBSET vapi, \A o \in S : Mine(o)
  PROVE  {Name(o) : o \in S} \in SUBSET Doom /\ \A d \in {Name(o) : o \in S} : d.id \in OwnIds
<1>1. \A o \in S : o.id \in Ids /\ o.kind \in Kinds /\ o.id \in OwnIds
  BY ProvisioningAssumption DEF World, WorldInv, Object, OwnIds
<1> QED BY <1>1 DEF Name, Doom

LEMMA ChosenSound ==
  ASSUME fn \in Invocation, Sound(fn), NEW pc \in PC \ Beginnings, NEW D \in SUBSET Doom,
         \A d \in D : d.id \in OwnIds, NEW scanned \in BOOLEAN,
         fn' = [fn EXCEPT !.pc = pc, !.doomed = D, !.scanned = scanned]
  PROVE  Good
<1>1. fn' \in Invocation
  BY DEF Invocation
<1>2. /\ fn'.assistant = fn.assistant /\ fn'.tool = fn.tool /\ fn'.doomed = D /\ fn'.pc = pc
  BY DEF Invocation
<1> QED BY <1>1, <1>2 DEF Good, Sound, Beginnings

LEMMA DeletionWorks ==
  ASSUME IInv, \/ CheckDelete \/ ScanAssistants \/ ScanCredentials \/ ScanTools
               \/ DeleteNext \/ DeletePassed
  PROVE  Works
<1>1. /\ fn # None /\ fn \in Invocation /\ Sound(fn) /\ World /\ TypeOK
      /\ UNCHANGED <<created, binding, stack, calm, lag>> /\ binding \in Ids \cup {None}
  BY Running DEF CheckDelete, ScanAssistants, ScanCredentials, ScanTools, DeleteNext, DeletePassed, Keep,
                 IInv, TypeOK, InvocationInv, World
<1>2. Good => Sound(fn') /\ fn' \in Invocation /\ AbsentInv'
  BY DEF Good, AbsentInv
<1>3. UNCHANGED vapi => World' /\ ForeignKept
  BY <1>1, NothingTouched
<1>4. {"scan_assistants", "scan_credentials", "scan_tools", "delete", "answer", "fail"} \subseteq PC \ Beginnings
  BY DEF PC, Beginnings
<1>5. fn.doomed \in SUBSET Doom /\ fn.scanned \in BOOLEAN /\ \A d \in fn.doomed : d.id \in OwnIds
  BY <1>1 DEF Invocation, Sound
<1>6. ASSUME NEW S \in SUBSET vapi, \A o \in S : Mine(o), NEW pc \in PC \ Beginnings,
             NEW scanned \in BOOLEAN, NEW D \in SUBSET fn.doomed,
             fn' = [fn EXCEPT !.pc = pc, !.doomed = D \cup {Name(o) : o \in S}, !.scanned = scanned]
      PROVE  Good
  <2> DEFINE names == {Name(o) : o \in S}
  <2>1. names \in SUBSET Doom /\ \A d \in names : d.id \in OwnIds
    BY <1>1, <1>6, NamesSound
  <2> HIDE DEF names
  <2>2. D \cup names \in SUBSET Doom /\ \A d \in D \cup names : d.id \in OwnIds
    BY <1>5, <2>1
  <2>3. fn' = [fn EXCEPT !.pc = pc, !.doomed = D \cup names, !.scanned = scanned]
    BY <1>6 DEF names
  <2> QED BY <1>1, <2>2, <2>3, ChosenSound
<1>7. ASSUME NEW pc \in PC \ Beginnings, NEW D, fn' = [fn EXCEPT !.pc = pc, !.doomed = D]
      PROVE  fn' = [fn EXCEPT !.pc = pc, !.doomed = D, !.scanned = fn.scanned]
  BY <1>1, <1>7 DEF Invocation
<1>8. CASE CheckDelete
  <2>1. CASE Fail
    BY <1>1, <1>2, <1>3, <1>8, <2>1, Fails DEF Works, CheckDelete, Keep
  <2>2. CASE ~Fail
    <3> DEFINE assistant == Existing(fn.assistant)
               tool == Existing(fn.tool)
               Refer(objects) == {o.credential : o \in objects} \ {None}
               credentialId == IF fn.credential # None THEN {fn.credential}
                               ELSE IF Refer(assistant) # {} THEN Refer(assistant)
                               ELSE Refer(tool)
               credential == UNION {Existing(c) : c \in credentialId}
               S == assistant \cup tool \cup credential
    <3>1. /\ Confirmed(assistant, tool, credential, credentialId)
          /\ fn' = [fn EXCEPT !.pc = "delete", !.doomed = {Name(o) : o \in S}]
      BY <1>8, <2>2 DEF CheckDelete
    <3>2. S \in SUBSET vapi
      BY DEF Existing
    <3>3. \A o \in S : Mine(o)
      <4>1. \A o \in assistant \cup credential : Mine(o)
        BY <3>1 DEF Confirmed
      <4>2. \A o \in tool : Mine(o)
        BY <1>1, FoundIsMine DEF Sound
      <4> QED BY <4>1, <4>2
    <3> DEFINE names == {Name(o) : o \in S}
    <3>4. names \in SUBSET Doom /\ \A d \in names : d.id \in OwnIds
      BY <1>1, <3>2, <3>3, NamesSound
    <3> HIDE DEF names
    <3>5. fn' = [fn EXCEPT !.pc = "delete", !.doomed = names, !.scanned = fn.scanned]
      BY <1>4, <1>7, <3>1 DEF names
    <3>6. Good
      BY <1>1, <1>4, <1>5, <3>4, <3>5, ChosenSound
    <3> QED BY <1>1, <1>2, <1>3, <1>8, <3>6 DEF Works, CheckDelete, Keep
  <2> QED BY <2>1, <2>2
<1>9. CASE ScanAssistants
  <2> DEFINE S == {m \in Matches("assistant") : Mine(m)}
  <2>1. S \in SUBSET vapi /\ \A o \in S : Mine(o)
    BY DEF Matches
  <2> DEFINE names == {Name(o) : o \in S}
  <2>2. names \in SUBSET Doom /\ \A d \in names : d.id \in OwnIds
    BY <1>1, <2>1, NamesSound
  <2> HIDE DEF names
  <2>3. fn' = [fn EXCEPT !.pc = "scan_credentials", !.doomed = names, !.scanned = fn.scanned]
    BY <1>4, <1>7, <1>9 DEF ScanAssistants, names
  <2>4. Good
    BY <1>1, <1>4, <1>5, <2>2, <2>3, ChosenSound
  <2> QED BY <1>1, <1>2, <1>3, <1>9, <2>4 DEF Works, ScanAssistants, Keep
<1>10. CASE ScanCredentials
  <2> DEFINE S == {m \in Matches("credential") : Mine(m)}
  <2>1. S \in SUBSET vapi /\ \A o \in S : Mine(o)
    BY SMTT(40) DEF Matches
  <2>2. fn' = [fn EXCEPT !.pc = "scan_tools", !.doomed = fn.doomed \cup {Name(o) : o \in S},
                         !.scanned = fn.scanned]
    BY <1>4, <1>7, <1>10 DEF ScanCredentials
  <2> HIDE DEF S
  <2>3. Good
    BY <1>4, <1>5, <1>6, <2>1, <2>2
  <2> QED BY <1>1, <1>2, <1>3, <1>10, <2>3 DEF Works, ScanCredentials, Keep
<1>11. CASE ScanTools
  <2> DEFINE credentials == {d.id : d \in {e \in fn.doomed : e.kind = "credential"}}
             S == {m \in Matches("tool") : m.credential \in credentials}
  <2>1. None \notin credentials
    BY <1>5, ProvisioningAssumption DEF OwnIds
  <2>2. S \in SUBSET vapi /\ \A o \in S : Mine(o)
    BY <1>1, <2>1 DEF Matches, World, WorldInv
  <2>3. fn' = [fn EXCEPT !.pc = "delete", !.doomed = fn.doomed \cup {Name(o) : o \in S}, !.scanned = TRUE]
    BY <1>1, <1>11 DEF ScanTools, Invocation
  <2> HIDE DEF S
  <2>4. Good
    BY <1>4, <1>5, <1>6, <2>2, <2>3
  <2> QED BY <1>1, <1>2, <1>3, <1>11, <2>4 DEF Works, ScanTools, Keep
<1>12. CASE DeleteNext
  <2>1. PICK d \in fn.doomed : /\ vapi' = vapi \ Existing(d.id)
                               /\ fn' = [fn EXCEPT !.doomed = fn.doomed \ {d}] \/ Fail
    BY <1>12 DEF DeleteNext
  <2>2. \A o \in Existing(d.id) : Mine(o)
    BY <1>1, <1>5, FoundIsMine
  <2>3. World' /\ ForeignKept
    BY <1>1, <2>1, <2>2, ObjectsGo DEF ForeignKept
  <2>4. CASE Fail
    BY <1>1, <1>2, <2>3, <2>4, Fails DEF Works
  <2>5. CASE fn' = [fn EXCEPT !.doomed = fn.doomed \ {d}]
    <3>1. fn.pc = "delete"
      BY <1>12 DEF DeleteNext, At
    <3>2. fn' = [fn EXCEPT !.pc = "delete", !.doomed = fn.doomed \ {d}, !.scanned = fn.scanned]
      BY <1>1, <2>5, <3>1 DEF Invocation
    <3>3. Good
      BY <1>1, <1>4, <1>5, <3>2, ChosenSound
    <3> QED BY <1>1, <1>2, <2>3, <3>3 DEF Works
  <2> QED BY <2>1, <2>4, <2>5
<1>13. CASE DeletePassed
  <2>1. Goto("scan_assistants") \/ Goto("fail") \/ Goto("answer")
    BY <1>13 DEF DeletePassed
  <2>2. Good
    BY <1>1, <1>4, <2>1, GoesTo
  <2> QED BY <1>1, <1>2, <1>3, <1>13, <2>2 DEF Works, DeletePassed, Keep
<1> QED BY <1>8, <1>9, <1>10, <1>11, <1>12, <1>13

-----------------------------------------------------------------------------
(* CloudFormation *)

\* A step of the invocation that does not answer keeps the invariant.
LEMMA WorksKeeps ==
  ASSUME IInv, fn # None, Works
  PROVE  IInv' /\ ForeignKept
<1>1. TypeOK'
  BY DEF IInv, TypeOK, Works, World
<1>2. InvocationInv' /\ StackInv'
  BY DEF IInv, InvocationInv, Busy, StackInv, Works
<1> QED BY <1>1, <1>2 DEF IInv, Works, World

LEMMA WorkKeeps ==
  ASSUME IInv, Work, ~AnswerSuccess, ~AnswerFailed
  PROVE  IInv' /\ ForeignKept
<1>1. fn # None
  BY DEF Work, FindOwned, CheckCredentials, Post, PostLost, Reconcile, Attach, UpdateTool, Finish, CheckUpdate,
         UpdateCredential, BindIdentity, CheckDelete, ScanAssistants, ScanCredentials, ScanTools, DeleteNext,
         DeletePassed, Raise, At
<1> QED BY <1>1, WorksKeeps, LookWorks, PostWorks, ChangeWorks, UpdateWorks, DeletionWorks DEF Work

\* What CloudFormation makes of an answer, or of none, is a state of the custom resource.
LEMMA AnswersTyped ==
  ASSUME IInv, Busy
  PROVE  /\ Failed \in Stack /\ Failed.physical = stack.physical /\ Failed.replaced = stack.replaced
         /\ fn # None => /\ Accepted \in Stack /\ Answered \in PhysicalId
                         /\ Accepted.physical \in {stack.physical, Answered}
                         /\ Accepted.replaced \in {stack.physical, stack.replaced}
<1>1. stack \in Stack /\ stack.physical \in PhysicalId /\ stack.wanted \in Fields /\ 0 \in 0..MaxDeliveries
  BY ProvisioningAssumption DEF IInv, TypeOK, Stack
<1>2. ASSUME NEW state \in {"complete", "cleaning", "create_failed", "update_failed", "delete_failed", "deleted"}
      PROVE  /\ Done(state) \in Stack /\ Done(state).physical = stack.physical
             /\ Done(state).replaced = stack.replaced
  BY <1>1 DEF Done, Stack
<1>3. Failed \in Stack /\ Failed.physical = stack.physical /\ Failed.replaced = stack.replaced
  BY <1>2 DEF Failed, Busy
<1>4. ASSUME fn # None
      PROVE  /\ Accepted \in Stack /\ Answered \in PhysicalId
             /\ Accepted.physical \in {stack.physical, Answered}
             /\ Accepted.replaced \in {stack.physical, stack.replaced}
  <2>1. Answered \in PhysicalId
    BY <1>4 DEF IInv, TypeOK, Invocation, Answered, PhysicalId
  <2> HIDE DEF Answered
  <2>2. CASE stack.state = "creating"
    <3>1. Accepted = [Done("complete") EXCEPT !.physical = Answered]
      BY <2>2 DEF Accepted
    <3> QED BY <1>2, <2>1, <3>1 DEF Stack
  <2>3. CASE stack.state = "updating"
    <3>1. PICK state \in {"complete", "cleaning"} :
            Accepted = [Done(state) EXCEPT !.fields = stack.wanted, !.replaced = stack.physical,
                                           !.physical = Answered]
      BY <2>3 DEF Accepted
    <3>2. Done(state) \in Stack
      BY <1>2
    <3> QED BY <1>1, <2>1, <3>1, <3>2 DEF Stack
  <2>4. CASE stack.state \in {"cleaning", "deleting"}
    BY <1>2, <2>1, <2>4 DEF Accepted
  <2> QED BY <2>2, <2>3, <2>4 DEF Busy
<1> QED BY <1>3, <1>4

LEMMA AnswerKeeps ==
  ASSUME IInv, AnswerSuccess \/ AnswerFailed
  PROVE  IInv' /\ ForeignKept
<1>1. /\ fn # None /\ fn \in Invocation /\ Sound(fn) /\ Busy /\ World /\ TypeOK
      /\ UNCHANGED <<vapi, created, binding, calm, lag>>
  BY Running DEF AnswerSuccess, AnswerFailed, IInv, TypeOK, InvocationInv, World
<1>2. World' /\ ForeignKept
  BY <1>1, NothingTouched
<1>3. CASE AnswerSuccess /\ Fail /\ UNCHANGED stack
  <2>1. Good
    BY <1>1, <1>3, Fails
  <2> QED BY <1>1, <1>2, <1>3, <2>1, WorksKeeps DEF Works, Good, AbsentInv, TypeOK
<1>4. ASSUME fn' = None, stack' \in {Accepted, Failed} PROVE IInv' /\ ForeignKept
  <2>1. /\ stack' \in Stack /\ {Answered.assistant, Answered.tool} \subseteq OwnIds \cup {None}
        /\ stack'.physical \in {stack.physical, Answered} /\ stack'.replaced \in {stack.physical, stack.replaced}
    BY <1>1, <1>4, AnswersTyped DEF Sound, Answered
  <2>2. StackInv'
    BY <2>1 DEF IInv, StackInv
  <2>3. TypeOK' /\ InvocationInv' /\ AbsentInv'
    BY <1>1, <1>2, <1>4, <2>1 DEF TypeOK, InvocationInv, AbsentInv, World
  <2> QED BY <1>2, <2>2, <2>3 DEF IInv, World
<1> QED BY <1>3, <1>4 DEF AnswerSuccess, AnswerFailed

LEMMA DeliverKeeps ==
  ASSUME IInv, Deliver
  PROVE  IInv' /\ ForeignKept
<1> DEFINE physical == IF stack.state = "cleaning" THEN stack.replaced ELSE stack.physical
           request == RequestOf(stack.state)
<1>1. /\ World /\ TypeOK /\ UNCHANGED <<vapi, created, binding, calm, lag>> /\ Busy
  BY DEF Deliver, IInv, TypeOK, World
<1>2. World' /\ ForeignKept
  BY <1>1, NothingTouched
<1>3. /\ stack' \in Stack /\ stack'.physical = stack.physical /\ stack'.replaced = stack.replaced
      /\ stack'.state = stack.state
  BY <1>1, ProvisioningAssumption DEF Deliver, TypeOK, Stack
<1>4. /\ physical \in PhysicalId /\ {physical.assistant, physical.tool} \subseteq OwnIds \cup {None}
      /\ physical.form \in {"pending", "objects", "generated"}
      /\ {physical.assistant, physical.tool, physical.credential} \subseteq Ids \cup {None}
  BY <1>1 DEF TypeOK, Stack, PhysicalId, IInv, StackInv
<1>5. request \in Requests /\ stack.retain \in BOOLEAN
  BY <1>1 DEF RequestOf, Busy, Requests, TypeOK, Stack
<1>6. First(request, physical) \in {"find", "check_update", "answer", "scan_assistants", "check_delete", "fail"}
  BY <1>4, <1>5 DEF First, Requests
<1> DEFINE pc == First(request, physical)
<1>7. /\ fn' = [request |-> request, pc |-> pc, kind |-> "assistant", attached |-> None,
                assistant |-> physical.assistant, credential |-> physical.credential,
                tool |-> physical.tool, scanned |-> FALSE, reads |-> 0, posts |-> 0, doomed |-> {}]
  BY DEF Deliver
<1> HIDE DEF physical, request, pc
<1>8. pc \in {"find", "check_update", "answer", "scan_assistants", "check_delete", "fail"}
  BY <1>6 DEF pc
<1>9. /\ 0 \in 0..MaxReads /\ 0 \in 0..2 /\ {} \in SUBSET Doom /\ "assistant" \in Kinds /\ pc \in PC
  BY <1>8 DEF MaxReads, Kinds, PC
<1>10. fn' \in Invocation
  BY <1>4, <1>5, <1>7, <1>9 DEF Invocation
<1>11. Sound(fn') /\ AbsentInv'
  BY <1>4, <1>7, <1>8 DEF Sound, AbsentInv
<1>12. TypeOK'
  BY <1>1, <1>2, <1>3, <1>10 DEF TypeOK, World
<1>13. InvocationInv' /\ StackInv'
  BY <1>1, <1>3, <1>11 DEF InvocationInv, Busy, IInv, StackInv
<1> QED BY <1>2, <1>11, <1>12, <1>13 DEF IInv, World

\* CloudFormation, the customer and time.
LEMMA RequestKeeps ==
  ASSUME IInv, GiveUp \/ RequestUpdate \/ RequestDelete \/ Crash \/ Rest \/ CalmDown
  PROVE  IInv' /\ ForeignKept
<1>1. /\ World /\ TypeOK /\ UNCHANGED <<vapi, created, binding, lag>> /\ stack \in Stack
  BY DEF GiveUp, RequestUpdate, RequestDelete, Crash, Rest, CalmDown, Keep, vars, IInv, TypeOK, World
<1>2. World' /\ ForeignKept
  BY <1>1, NothingTouched
<1>3. CASE Crash \/ Rest \/ CalmDown
  <2>1. TypeOK' /\ InvocationInv' /\ AbsentInv' /\ StackInv'
    BY <1>1, <1>3 DEF Crash, Rest, CalmDown, Keep, vars, IInv, TypeOK, InvocationInv, Busy, AbsentInv, StackInv
  <2> QED BY <1>2, <2>1 DEF IInv, World
<1>4. CASE GiveUp \/ RequestUpdate \/ RequestDelete
  <2>1. ~Busy => fn = None
    BY DEF IInv, InvocationInv
  <2>2. fn = None /\ UNCHANGED <<fn, calm>>
    BY <1>4, <2>1 DEF GiveUp, RequestUpdate, RequestDelete, Busy
  <2>3. stack' \in Stack /\ stack'.replaced = stack.replaced /\ stack'.physical \in {stack.physical, Generated}
    <3>1. CASE GiveUp
      <4>1. /\ Failed \in Stack /\ Failed.physical = stack.physical /\ Failed.replaced = stack.replaced
        BY <3>1, AnswersTyped DEF GiveUp
      <4>2. Generated \in PhysicalId
        BY DEF Generated, Pending, PhysicalId
      <4>3. stack' \in {[Failed EXCEPT !.physical = Generated], [Failed EXCEPT !.physical = Failed.physical]}
        BY <3>1 DEF GiveUp
      <4> HIDE DEF Failed, Generated
      <4> QED BY <4>1, <4>2, <4>3 DEF Stack
    <3>2. CASE RequestUpdate \/ RequestDelete
      <4>1. stack.events < MaxEvents => stack.events + 1 \in 0..MaxEvents
        BY <1>1, ProvisioningAssumption DEF Stack
      <4>2. CASE RequestUpdate
        <5>1. PICK f \in Fields : stack' = [stack EXCEPT !.state = "updating", !.wanted = f,
                                                         !.events = stack.events + 1]
          BY <4>2 DEF RequestUpdate
        <5> QED BY <1>1, <4>1, <4>2, <5>1 DEF RequestUpdate, Stack
      <4>3. CASE RequestDelete
        <5> DEFINE unseen == {o.id : o \in {q \in vapi : ~q.listed}}
        <5>1. stack' = [stack EXCEPT !.state = "deleting", !.events = stack.events + 1, !.unseen = unseen]
          BY <4>3 DEF RequestDelete
        <5>2. unseen \subseteq Ids
          BY DEF IInv, TypeOK, Object
        <5> HIDE DEF unseen
        <5> QED BY <1>1, <4>1, <4>3, <5>1, <5>2 DEF RequestDelete, Stack
      <4> QED BY <3>2, <4>2, <4>3
    <3> QED BY <1>4, <3>1, <3>2
  <2>4. StackInv'
    BY <2>3 DEF IInv, StackInv, Generated, Pending
  <2>5. TypeOK' /\ InvocationInv' /\ AbsentInv'
    BY <1>1, <1>2, <2>2, <2>3 DEF TypeOK, InvocationInv, AbsentInv, World
  <2> QED BY <1>2, <2>4, <2>5 DEF IInv, World
<1> QED BY <1>3, <1>4

\* Nothing but the invocation creates objects, so one that has seen none still sees none.
LEMMA NoneComes ==
  ASSUME IInv, UNCHANGED <<fn, lag>>, \A o \in vapi' : Mine(o) => \E q \in vapi : Mine(q) /\ q.kind = o.kind
  PROVE  AbsentInv'
  BY DEF IInv, AbsentInv, Mine

LEMMA ObjectsKeep ==
  ASSUME IInv, BecomeListed \/ CustomerEdits
  PROVE  IInv' /\ ForeignKept
<1>1. /\ World /\ TypeOK /\ UNCHANGED <<created, binding, fn, calm, lag>> /\ stack \in Stack
  BY DEF BecomeListed, CustomerEdits, IInv, TypeOK, World
<1>2. /\ stack' \in Stack /\ stack'.physical = stack.physical /\ stack'.replaced = stack.replaced
      /\ stack'.state = stack.state
  BY <1>1 DEF BecomeListed, CustomerEdits, Stack
<1>3. World' /\ ForeignKept /\ \A o \in vapi' : Mine(o) => \E q \in vapi : Mine(q) /\ q.kind = o.kind
  <2>1. CASE BecomeListed
    <3>1. PICK o \in vapi : ~o.listed /\ vapi' = (vapi \ {o}) \cup {[o EXCEPT !.listed = TRUE]}
      BY <2>1 DEF BecomeListed
    <3> DEFINE new == [o EXCEPT !.listed = TRUE]
    <3>2. /\ Mine(o) /\ new \in Object /\ new.id = o.id /\ new.kind = o.kind /\ new.owner = o.owner /\ new.listed
      BY <1>1, <3>1 DEF World, WorldInv, Object
    <3> HIDE DEF new
    <3>3. vapi' = (vapi \ {o}) \cup {new}
      BY <3>1 DEF new
    <3>4. World' /\ ForeignKept
      BY <1>1, <3>2, <3>3, ObjectChanges
    <3> QED BY <3>2, <3>3, <3>4 DEF Mine
  <2>2. CASE CustomerEdits
    <3>1. PICK o \in vapi :
            /\ Mine(o)
            /\ vapi' = vapi \ {o} \/ vapi' = (vapi \ {o}) \cup {[o EXCEPT !.tool = None]}
      BY <2>2 DEF CustomerEdits
    <3>2. CASE vapi' = vapi \ {o}
      BY <1>1, <3>1, <3>2, ObjectsGo DEF ForeignKept
    <3>3. CASE vapi' = (vapi \ {o}) \cup {[o EXCEPT !.tool = None]}
      <4> DEFINE new == [o EXCEPT !.tool = None]
      <4>1. new \in Object /\ new.id = o.id /\ new.kind = o.kind /\ new.owner = o.owner /\ new.listed = o.listed
        <5>1. o \in Object /\ None \in Ids \cup {None}
          BY <1>1, <3>1 DEF World
        <5> QED BY <5>1 DEF Object
      <4> HIDE DEF new
      <4>2. vapi' = (vapi \ {o}) \cup {new}
        BY <3>3 DEF new
      <4>3. World' /\ ForeignKept
        BY <1>1, <3>1, <4>1, <4>2, ObjectChanges, ZenonT(60)
      <4> QED BY <3>1, <4>1, <4>2, <4>3 DEF Mine
    <3> QED BY <3>1, <3>2, <3>3
  <2> QED BY <2>1, <2>2
<1>4. TypeOK'
  BY <1>1, <1>2, <1>3 DEF TypeOK, World
<1>5. InvocationInv' /\ StackInv'
  BY <1>1, <1>2 DEF IInv, InvocationInv, Busy, StackInv
<1>6. AbsentInv'
  BY <1>1, <1>3, NoneComes
<1> QED BY <1>3, <1>4, <1>5, <1>6 DEF IInv, World

-----------------------------------------------------------------------------
(* The theorems *)

LEMMA InitKeeps == Init => IInv
<1> SUFFICES ASSUME Init PROVE IInv
  OBVIOUS
<1>1. /\ MaxObjects \in Nat /\ MaxDeliveries \in Nat /\ MaxEvents \in Nat /\ Lags \subseteq BOOLEAN
      /\ Legacy => MaxObjects >= 3
      /\ None \notin Nat
  BY ProvisioningAssumption
<1>2. fn = None /\ calm = FALSE /\ lag \in Lags
  BY DEF Init
<1>3. Pending \in PhysicalId /\ Pending.assistant = None /\ Pending.tool = None
  BY DEF Pending, PhysicalId
<1>4. CASE NewStack
  <2>1. /\ vapi \subseteq {Foreign(MaxObjects + 1, "assistant"), Foreign(MaxObjects + 2, "credential"),
                           Foreign(MaxObjects + 3, "tool")}
        /\ created = 0 /\ binding = None
    BY <1>4 DEF NewStack
  <2>2. \A o \in vapi : /\ o \in Object /\ o.owner = "other" /\ o.listed /\ o.credential = None
                        /\ o.id \notin OwnIds
    <3>1. \A n \in {1, 2, 3} : MaxObjects + n \in Ids /\ MaxObjects + n \notin OwnIds
      BY <1>1 DEF Ids, OwnIds
    <3>2. \A n \in {1, 2, 3}, kind \in Kinds :
            LET o == Foreign(MaxObjects + n, kind)
            IN  /\ o \in Object /\ o.owner = "other" /\ o.listed /\ o.credential = None /\ o.id \notin OwnIds
      BY <3>1 DEF Foreign, Object
    <3> QED BY <2>1, <3>2 DEF Kinds
  <2>3. PICK retain \in BOOLEAN :
          stack = [state |-> "creating", physical |-> Pending, replaced |-> Pending,
                   fields |-> 1, wanted |-> 1, retain |-> retain, tries |-> 0, events |-> 0,
                   edited |-> FALSE, unseen |-> {}]
    BY <1>4 DEF NewStack
  <2>4. stack \in Stack /\ stack.physical = Pending /\ stack.replaced = Pending
    <3>1. 1 \in Fields /\ 0 \in 0..MaxDeliveries /\ 0 \in 0..MaxEvents
      BY <1>1 DEF Fields
    <3> HIDE DEF Pending
    <3> QED BY <1>3, <2>3, <3>1 DEF Stack
  <2>5. WorldInv /\ PromptInv
    BY <2>2 DEF WorldInv, PromptInv, Mine
  <2>6. TypeOK
    <3>1. created \in 0..MaxObjects /\ binding \in Ids \cup {None} /\ vapi \subseteq Object
      BY <1>1, <2>1, <2>2
    <3> QED BY <1>2, <2>4, <3>1 DEF TypeOK
  <2> QED BY <1>2, <1>3, <2>4, <2>5, <2>6 DEF IInv, InvocationInv, AbsentInv, StackInv
<1>5. CASE Legacy /\ LegacyStack
  <2>1. /\ vapi = {Own(1, "assistant", 2, 3, None), Own(2, "credential", None, None, None), Own(3, "tool", 2, None, 1)}
        /\ created = 3 /\ binding = 1
    BY <1>5 DEF LegacyStack
  <2>2. {1, 2, 3} \subseteq OwnIds /\ {1, 2, 3} \subseteq Ids
    BY <1>1, <1>5 DEF OwnIds, Ids
  <2>3. /\ Own(1, "assistant", 2, 3, None) \in Object /\ Own(2, "credential", None, None, None) \in Object
        /\ Own(3, "tool", 2, None, 1) \in Object
    BY <2>2 DEF Own, Object, Kinds, Fields
  <2>4. WorldInv /\ PromptInv
    BY <2>1 DEF Own, WorldInv, PromptInv, Mine
  <2> DEFINE first == [form |-> "objects", assistant |-> 1, tool |-> 3, credential |-> None]
  <2>5. first \in PhysicalId /\ {first.assistant, first.tool} \subseteq OwnIds \cup {None}
    BY <2>2 DEF PhysicalId
  <2> HIDE DEF first
  <2>6. stack = [state |-> "complete", fields |-> 1, wanted |-> 1, retain |-> FALSE, tries |-> 0, events |-> 0,
                 edited |-> FALSE, unseen |-> {}, replaced |-> Pending, physical |-> first]
    BY <1>5 DEF LegacyStack, first
  <2>7. stack \in Stack /\ stack.physical = first /\ stack.replaced = Pending
    <3>1. 1 \in Fields /\ 0 \in 0..MaxDeliveries /\ 0 \in 0..MaxEvents
      BY <1>1 DEF Fields
    <3> HIDE DEF Pending
    <3> QED BY <1>3, <2>5, <2>6, <3>1 DEF Stack
  <2>8. TypeOK
    <3>1. created \in 0..MaxObjects /\ binding \in Ids \cup {None} /\ vapi \subseteq Object
      BY <1>1, <1>5, <2>1, <2>2, <2>3
    <3> QED BY <1>2, <2>7, <3>1 DEF TypeOK
  <2> QED BY <1>2, <1>3, <2>4, <2>5, <2>7, <2>8 DEF IInv, InvocationInv, AbsentInv, StackInv
<1> QED BY <1>4, <1>5 DEF Init

LEMMA NextKeeps == IInv /\ [Next]_vars => IInv' /\ ForeignKept
<1>1. ASSUME IInv, UNCHANGED vars PROVE IInv' /\ ForeignKept
  <2>1. World' /\ ForeignKept
    BY <1>1, NothingTouched DEF vars, IInv, World, TypeOK
  <2>2. TypeOK' /\ InvocationInv' /\ AbsentInv' /\ StackInv'
    BY <1>1 DEF vars, IInv, TypeOK, InvocationInv, Busy, AbsentInv, StackInv
  <2> QED BY <2>1, <2>2 DEF IInv, World
<1> QED BY <1>1, WorkKeeps, AnswerKeeps, DeliverKeeps, RequestKeeps, ObjectsKeep DEF Next, Environment

\* What an invocation holds for the stack's is, and where it creates there is none.
THEOREM Invariance == Spec => []IInv
  BY InitKeeps, NextKeeps, PTL DEF Spec

\* Vapi's objects, the invocation and the custom resource keep their types.
THEOREM TypeCorrect == Spec => []TypeOK
<1>1. IInv => TypeOK
  BY DEF IInv
<1> QED BY Invariance, <1>1, PTL

\* Objects of others that bear the stack's names are never changed or deleted.
THEOREM ForeignStays == Spec => ForeignUntouched
<1>1. IInv /\ [Next]_vars => [\A o \in vapi : ~Mine(o) => o \in vapi']_vars
  BY NextKeeps DEF ForeignKept
<1> QED BY Invariance, <1>1, PTL DEF Spec, ForeignUntouched

\* However often a creation is retried and whatever answers are lost, there is one object of
\* a kind at most, while lists show what was created.
THEOREM OneOfAKind == Spec => []AtMostOne
<1>1. ASSUME IInv PROVE AtMostOne
  <2> SUFFICES ASSUME ~lag, NEW kind \in Kinds
               PROVE  Cardinality({o \in vapi : o.kind = kind /\ Mine(o)}) <= 1
    BY DEF AtMostOne
  <2> DEFINE S == {o \in vapi : o.kind = kind /\ Mine(o)}
  <2>1. \A o, q \in S : o = q
    BY <1>1 DEF IInv, PromptInv
  <2>2. CASE S = {}
    BY <2>2, FS_EmptySet
  <2>3. CASE S # {}
    <3>1. PICK o \in S : TRUE
      BY <2>3
    <3>2. S = {o}
      BY <2>1, <3>1
    <3>3. Cardinality({o}) = 1
      BY FS_Singleton
    <3> QED BY <3>2, <3>3
  <2> QED BY <2>2, <2>3
<1> QED BY Invariance, <1>1, PTL
=============================================================================
