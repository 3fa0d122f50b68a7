------------------------ MODULE DeploymentReviewProofs ------------------------
(***************************************************************************)
(* The review passes only what is sealed, for every catalog of templates,  *)
(* every depth, and any number of changes to what is reviewed; and what it *)
(* refuses, if nothing changed meanwhile, was not sealed, or too deep.     *)
(***************************************************************************)
EXTENDS DeploymentReview, FiniteSetTheorems, TLAPS

-----------------------------------------------------------------------------
(* The invariant *)

RootEntry == [set |-> Root, stack |-> Root, url |-> RootTemplate, parent |-> Nothing, depth |-> 0]

Waiting == {queue[k] : k \in DOMAIN queue}
Known == hierarchy \cup Waiting \cup (IF pc = "template" THEN {current} ELSE {})
Newest == queue[Len(queue)]

\* The nested stacks of an entry that the review has not looked at yet.
Pending(e) == IF pc \in {"edge", "stack"} /\ e = current THEN children ELSE {}

\* What the walk knows without regard to what is under the ids: it began at the root,
\* and everything else it has met was nested in something it has been through.
WalkInv ==
  /\ RootEntry \in Known
  /\ \A f \in Known : f.set \in DOMAIN sets
  /\ \A f \in Known : f = RootEntry \/ \E e \in hierarchy : f.url \in nest[e.url]
  /\ pc \in {"edge", "stack"} =>
       current \in hierarchy /\ children # {} /\ children \subseteq nest[current.url]
  /\ pc = "stack" => queue # <<>>
  /\ pc = "template" => ~Traversed(current) /\ current.depth <= MaxDepth
  /\ pc = "passed" => queue = <<>> /\ Complete(hierarchy)

\* What has been read of an entry is what is there.
Held(e) ==
  /\ Linked(sets[e.set], e)
  /\ sets[e.set].body = e.url
  /\ Edges(sets[e.set], nest[e.url])

ChildOf(f, e, t) ==
  /\ f.url = t /\ f.set = sets[e.set].child[t] /\ f.parent = e.set
  /\ sets[e.set].physical[t] \in {Nothing, f.stack}
Nested(f, e) ==
  f.stack \in DOMAIN stacks /\ stacks[f.stack] = [review |-> TRUE, parent |-> e.stack, root |-> Root]
Followed(e, t) == \E f \in Known : ChildOf(f, e, t) /\ Nested(f, e)

\* The description the walk goes by; the template is read on its own.
Agrees(d, s) == d.child = s.child /\ d.physical = s.physical /\ d.odd = s.odd

\* While nothing changes behind its back, what the walk has read it has read right.
SoundInv == ~missed =>
  /\ stacks[Root] = [review |-> TRUE, parent |-> Nothing, root |-> Nothing]
  /\ \A e \in hierarchy : Held(e) /\ \A t \in nest[e.url] \ Pending(e) : Followed(e, t)
  /\ pc = "template" => Linked(sets[current.set], current)
  /\ pc \in {"template", "edge", "stack"} => Agrees(description, sets[current.set])
  /\ pc = "stack" => ChildOf(Newest, current, NextChild)

IInv ==
  /\ TypeOK
  /\ Root \in DOMAIN sets
  /\ pc = "start" => hierarchy = {}
  /\ pc \notin {"start", "refused"} => WalkInv /\ SoundInv

-----------------------------------------------------------------------------
(* Lemmas about the queue and the ids *)

\* The first of a sequence and the rest are the sequence.
LEMMA TakenFirst ==
  ASSUME NEW S, NEW q \in Seq(S), q # <<>>
  PROVE  /\ Head(q) \in S /\ Tail(q) \in Seq(S)
         /\ {q[k] : k \in DOMAIN q} = {Head(q)} \cup {Tail(q)[k] : k \in DOMAIN Tail(q)}
<1>1. /\ Len(q) \in Nat \ {0} /\ DOMAIN q = 1..Len(q) /\ Head(q) = q[1] /\ q[1] \in S
      /\ Tail(q) \in Seq(S) /\ Len(Tail(q)) = Len(q) - 1 /\ DOMAIN Tail(q) = 1..(Len(q) - 1)
      /\ \A k \in 1..(Len(q) - 1) : Tail(q)[k] = q[k + 1]
  OBVIOUS
<1>2. ASSUME NEW k \in DOMAIN q PROVE q[k] = Head(q) \/ \E m \in DOMAIN Tail(q) : q[k] = Tail(q)[m]
  <2>1. CASE k = 1
    BY <1>1, <2>1
  <2>2. CASE k # 1
    <3>1. k - 1 \in DOMAIN Tail(q) /\ Tail(q)[k - 1] = q[k]
      BY <1>1, <2>2
    <3> QED BY <3>1
  <2> QED BY <2>1, <2>2
<1>3. ASSUME NEW m \in DOMAIN Tail(q) PROVE m + 1 \in DOMAIN q /\ Tail(q)[m] = q[m + 1]
  BY <1>1
<1>4. 1 \in DOMAIN q
  BY <1>1
<1> QED BY <1>1, <1>2, <1>3, <1>4, ZenonT(60)

\* A sequence with one more at its end.
LEMMA Appended ==
  ASSUME NEW S, NEW q \in Seq(S), NEW x \in S
  PROVE  /\ Append(q, x) \in Seq(S) /\ Append(q, x) # <<>>
         /\ Append(q, x)[Len(Append(q, x))] = x
         /\ {Append(q, x)[k] : k \in DOMAIN Append(q, x)} = {q[k] : k \in DOMAIN q} \cup {x}
<1>1. /\ Len(q) \in Nat /\ DOMAIN q = 1..Len(q) /\ Append(q, x) \in Seq(S)
      /\ Len(Append(q, x)) = Len(q) + 1 /\ DOMAIN Append(q, x) = 1..(Len(q) + 1)
      /\ \A k \in 1..Len(q) : Append(q, x)[k] = q[k]
      /\ Append(q, x)[Len(q) + 1] = x
  OBVIOUS
<1>2. Append(q, x) # <<>>
  BY <1>1
<1>3. ASSUME NEW k \in DOMAIN Append(q, x) PROVE Append(q, x)[k] = x \/ \E m \in DOMAIN q : Append(q, x)[k] = q[m]
  <2>1. k = Len(q) + 1 \/ k \in DOMAIN q
    BY <1>1
  <2> QED BY <1>1, <2>1
<1>4. \A m \in DOMAIN q : m \in DOMAIN Append(q, x) /\ Append(q, x)[m] = q[m]
  BY <1>1
<1>5. Len(q) + 1 \in DOMAIN Append(q, x)
  BY <1>1
<1> QED BY <1>1, <1>2, <1>3, <1>4, <1>5, SMTT(40)

\* No id is the absent one, and the root is one.
LEMMA IdsAre == /\ Root \in Ids /\ Nothing \notin Ids
                /\ \A t, u \in Templates : <<t, u>> \in Ids /\ <<t, u>> # Root
                /\ \A i \in Ids : i[2] \in Templates /\ (i # Root => i[1] \in Templates)
  BY ReviewAssumption DEF Root, Ids, Nothing

LEMMA RootIsEntry == RootEntry \in Entry
  BY IdsAre, ReviewAssumption DEF RootEntry, Entry

-----------------------------------------------------------------------------
(* Initially *)

LEMMA InitHolds == Init => IInv
<1> SUFFICES ASSUME Init PROVE IInv
  OBVIOUS
<1>1. nest \in [Templates -> SUBSET Templates]
  BY ReviewAssumption DEF Init
<1>2. Made(nest) \subseteq Ids /\ Root \in Made(nest)
  BY IdsAre DEF Made
<1>3. ASSUME NEW id \in Made(nest) PROVE ParentOf(nest, id) \in Ids \cup {Nothing}
  <2>1. CASE id = Root
    BY <2>1 DEF ParentOf
  <2>2. CASE id # Root
    <3>1. id \in Ids /\ id[1] \in Templates /\ id[2] \in nest[id[1]]
      BY <1>2, <2>2, IdsAre DEF Made
    <3>2. \E i \in Made(nest) : i[2] = id[1]
      <4>1. CASE id[1] = RootTemplate
        BY <1>2, <4>1 DEF Root
      <4>2. CASE id[1] # RootTemplate
        <5>1. PICK p \in Templates : id[1] \in nest[p]
          BY <3>1, <4>2, ReviewAssumption DEF Init
        <5>2. <<p, id[1]>> \in Made(nest)
          BY <3>1, <5>1, IdsAre DEF Made
        <5> QED BY <5>2
      <4> QED BY <4>1, <4>2
    <3> QED BY <1>2, <2>2, <3>2 DEF ParentOf
  <2> QED BY <2>1, <2>2
<1>4. ASSUME NEW id \in Made(nest) PROVE MadeSet(nest, id) \in ChangeSet
  <2>1. id \in Ids /\ id[2] \in Templates /\ Root \in Ids
    BY <1>2, IdsAre
  <2>2. [t \in Templates |-> IF t \in nest[id[2]] THEN <<id[2], t>> ELSE Nothing]
          \in [Templates -> Ids \cup {Nothing}]
    BY <2>1, IdsAre
  <2>3. [t \in Templates |-> Nothing] \in [Templates -> Ids \cup {Nothing}]
    OBVIOUS
  <2> QED BY <1>3, <2>1, <2>2, <2>3 DEF MadeSet, ChangeSet
<1>5. ASSUME NEW id \in Made(nest) PROVE MadeStack(nest, id) \in Stack
  BY <1>2, <1>3, IdsAre DEF MadeStack, Stack
<1>6. queue \in Seq(Entry) /\ 0 \in 0..MaxChanges
  BY ReviewAssumption DEF Init
<1>7. TypeOK
  BY <1>1, <1>2, <1>4, <1>5, <1>6 DEF Init, TypeOK
<1> QED BY <1>2, <1>7 DEF Init, IInv

-----------------------------------------------------------------------------
(* The review's own steps *)

\* A refusal keeps every variable's type and needs nothing else.
LEMMA Refused ==
  ASSUME IInv, Refuse, UNCHANGED cloud
  PROVE  IInv'
  BY DEF IInv, TypeOK, Refuse, cloud

LEMMA DescribeRootStackKeeps ==
  ASSUME IInv, DescribeRootStack
  PROVE  IInv'
<1>1. pc = "start" /\ UNCHANGED <<nest, sets, stacks, changes, moved, missed>> /\ TypeOK
  BY DEF DescribeRootStack, cloud, IInv
<1>2. CASE ~InReview(Root, Nothing, Nothing)
  BY <1>2, Refused DEF DescribeRootStack
<1>3. CASE InReview(Root, Nothing, Nothing)
  <2>1. /\ queue' = <<RootEntry>> /\ pc' = "take"
        /\ UNCHANGED <<current, description, children, hierarchy>>
    BY <1>3 DEF DescribeRootStack, RootEntry
  <2>2. <<RootEntry>> \in Seq(Entry) /\ {<<RootEntry>>[k] : k \in DOMAIN <<RootEntry>>} = {RootEntry}
    BY RootIsEntry
  <2>3. TypeOK'
    BY <1>1, <2>1, <2>2 DEF TypeOK
  <2>4. hierarchy' = {} /\ Known' = {RootEntry} /\ RootEntry.set = Root
    BY <1>1, <2>1, <2>2 DEF IInv, Known, Waiting, RootEntry
  <2>5. WalkInv'
    BY <1>1, <2>1, <2>4 DEF WalkInv, IInv
  <2>6. SoundInv'
    BY <1>1, <1>3, <2>1, <2>4 DEF SoundInv, InReview
  <2> QED BY <1>1, <2>1, <2>3, <2>5, <2>6 DEF IInv
<1> QED BY <1>2, <1>3

\* What has been read stays so while CloudFormation's side does not change.
LEMMA StaysHeld ==
  ASSUME UNCHANGED <<nest, sets, stacks>>
  PROVE  \A e, f, t :
           /\ Held(e)' <=> Held(e)
           /\ ChildOf(f, e, t)' <=> ChildOf(f, e, t)
           /\ Nested(f, e)' <=> Nested(f, e)
           /\ Linked(sets[e.set], e)' <=> Linked(sets[e.set], e)
  BY DEF Held, Linked, AsInvoked, Edges, ChildOf, Nested

LEMMA TakeKeeps ==
  ASSUME IInv, Take
  PROVE  IInv'
<1>1. /\ pc = "take" /\ queue # <<>> /\ UNCHANGED <<nest, sets, stacks, changes, moved, missed>>
      /\ TypeOK /\ WalkInv /\ SoundInv
  BY DEF Take, cloud, IInv
<1> DEFINE e == Head(queue)
<1>2. CASE e.depth > MaxDepth \/ Traversed(e) \/ ~Linked(sets[e.set], e)
  BY <1>2, Refused DEF Take
<1>3. CASE ~(e.depth > MaxDepth \/ Traversed(e) \/ ~Linked(sets[e.set], e))
  <2>1. /\ current' = e /\ description' = sets[e.set] /\ queue' = Tail(queue)
        /\ pc' = "template" /\ UNCHANGED <<children, hierarchy>>
    BY <1>3 DEF Take
  <2>2. e \in Entry /\ Tail(queue) \in Seq(Entry) /\ Waiting = {e} \cup Waiting'
    <3>1. queue \in Seq(Entry) /\ queue # <<>>
      BY <1>1 DEF TypeOK
    <3>2. /\ e \in Entry /\ Tail(queue) \in Seq(Entry)
          /\ Waiting = {e} \cup {Tail(queue)[k] : k \in DOMAIN Tail(queue)}
      BY <3>1, TakenFirst DEF Waiting
    <3> QED BY <2>1, <3>2 DEF Waiting
  <2>3. Known' = Known
    BY <1>1, <2>1, <2>2 DEF Known
  <2>4. e.depth <= MaxDepth
    BY <1>3, <2>2, ReviewAssumption DEF Entry
  <2>5. sets[e.set] \in ChangeSet
    BY <1>1, <2>2 DEF TypeOK, WalkInv, Known
  <2>6. TypeOK'
    BY <1>1, <2>1, <2>2, <2>5 DEF TypeOK
  <2>7. WalkInv'
    <3>1. ~Traversed(current)' /\ current'.depth <= MaxDepth
      BY <1>3, <2>1, <2>4 DEF Traversed
    <3> QED BY <1>1, <2>1, <2>3, <3>1 DEF WalkInv
  <2>8. SoundInv'
    <3>1. ASSUME NEW h, NEW t, Followed(h, t) PROVE Followed(h, t)'
      BY <1>1, <2>3, <3>1, StaysHeld DEF Followed
    <3>2. \A h : Pending(h) = {} /\ Pending(h)' = {}
      BY <1>1, <2>1 DEF Pending
    <3> QED BY <1>1, <1>3, <2>1, <3>1, <3>2, StaysHeld DEF SoundInv, Agrees
  <2> QED BY <1>1, <2>1, <2>6, <2>7, <2>8 DEF IInv
<1> QED BY <1>2, <1>3

LEMMA ReadTemplateKeeps ==
  ASSUME IInv, ReadTemplate
  PROVE  IInv'
<1>1. /\ pc = "template" /\ UNCHANGED <<nest, sets, stacks, changes, moved, missed>>
      /\ TypeOK /\ WalkInv /\ SoundInv
  BY DEF ReadTemplate, cloud, IInv
<1> DEFINE nested == NestedUrls(current.url)
<1>2. CASE ~(sets[current.set].body = current.url /\ Edges(description, nested))
  BY <1>2, Refused DEF ReadTemplate
<1>3. CASE sets[current.set].body = current.url /\ Edges(description, nested)
  <2>1. /\ hierarchy' = hierarchy \cup {current} /\ children' = nest[current.url]
        /\ pc' = (IF children' = {} THEN "take" ELSE "edge")
        /\ UNCHANGED <<queue, current, description>>
    BY <1>3 DEF ReadTemplate, NestedUrls
  <2>2. current \in Entry /\ nest[current.url] \subseteq Templates
    <3>1. nest \in [Templates -> SUBSET Templates]
      BY <1>1, ReviewAssumption DEF TypeOK
    <3>2. current \in Entry /\ current.url \in Templates
      BY <1>1 DEF TypeOK, Entry
    <3> QED BY <3>1, <3>2
  <2>3. Known' = Known
    BY <1>1, <2>1 DEF Known, Waiting
  <2>4. TypeOK'
    <3>1. \A e, f \in hierarchy' : e.url = f.url \/ e.set = f.set \/ e.stack = f.stack => e = f
      BY <1>1, <2>1 DEF TypeOK, WalkInv, Traversed
    <3> QED BY <1>1, <2>1, <2>2, <3>1 DEF TypeOK, WalkInv
  <2>5. WalkInv'
    BY <1>1, <2>1, <2>3 DEF WalkInv
  <2>6. SoundInv'
    <3> SUFFICES ASSUME ~missed
                 PROVE  SoundInv'
      BY <1>1 DEF SoundInv
    <3>1. ASSUME NEW h, NEW t, Followed(h, t) PROVE Followed(h, t)'
      BY <1>1, <2>3, <3>1, StaysHeld DEF Followed
    <3>2. \A h \in hierarchy : Pending(h) = {} /\ Held(h)
      BY <1>1 DEF Pending, SoundInv
    <3>3. nest[current.url] \subseteq Pending(current)'
      BY <2>1 DEF Pending
    <3>4. Held(current)
      BY <1>1, <1>3 DEF SoundInv, Held, Agrees, Edges, NestedUrls
    <3>5. \A h \in hierarchy' : Held(h)' /\ \A t \in nest[h.url] \ Pending(h)' : Followed(h, t)'
      BY <1>1, <2>1, <3>1, <3>2, <3>3, <3>4, StaysHeld DEF SoundInv
    <3>6. Agrees(description, sets[current.set])'
      BY <1>1, <2>1 DEF SoundInv, Agrees
    <3>7. /\ stacks'[Root] = [review |-> TRUE, parent |-> Nothing, root |-> Nothing]
          /\ pc' \notin {"template", "stack"}
      BY <1>1, <2>1 DEF SoundInv
    <3> QED BY <1>1, <3>5, <3>6, <3>7 DEF SoundInv
  <2> QED BY <1>1, <2>1, <2>4, <2>5, <2>6 DEF IInv
<1> QED BY <1>2, <1>3

LEMMA DescribeChildKeeps ==
  ASSUME IInv, DescribeChild
  PROVE  IInv'
<1>1. /\ pc = "edge" /\ UNCHANGED <<nest, sets, stacks, changes, moved, missed>>
      /\ TypeOK /\ WalkInv /\ SoundInv
  BY DEF DescribeChild, cloud, IInv
<1> DEFINE child == description.child[NextChild]
           physical == description.physical[NextChild]
           n == [set |-> child, stack |-> sets[child].stack, url |-> NextChild,
                 parent |-> current.set, depth |-> current.depth + 1]
<1>2. CASE ~(child \in DOMAIN sets /\ physical \in {Nothing, sets[child].stack})
  BY <1>2, Refused DEF DescribeChild
<1>3. CASE child \in DOMAIN sets /\ physical \in {Nothing, sets[child].stack}
  <2>1. /\ queue' = Append(queue, n) /\ pc' = "stack"
        /\ UNCHANGED <<current, description, children, hierarchy>>
    BY <1>3 DEF DescribeChild
  <2>2. NextChild \in children
    BY <1>1 DEF WalkInv, NextChild
  <2>3. n \in Entry
    BY <1>1, <1>3, <2>2 DEF TypeOK, Entry, ChangeSet
  <2>4. /\ queue' \in Seq(Entry) /\ queue' # <<>> /\ Newest' = n
        /\ Waiting' = Waiting \cup {n}
    <3>1. queue \in Seq(Entry)
      BY <1>1 DEF TypeOK
    <3> HIDE DEF n
    <3>2. /\ Append(queue, n) \in Seq(Entry) /\ Append(queue, n) # <<>>
          /\ Append(queue, n)[Len(Append(queue, n))] = n
          /\ {Append(queue, n)[k] : k \in DOMAIN Append(queue, n)}
               = {queue[k] : k \in DOMAIN queue} \cup {n}
      BY <2>3, <3>1, Appended
    <3> QED BY <2>1, <3>2 DEF Newest, Waiting
  <2>5. Known' = Known \cup {n}
    BY <1>1, <2>1, <2>4 DEF Known
  <2>6. TypeOK'
    BY <1>1, <2>1, <2>4 DEF TypeOK
  <2>7. WalkInv'
    BY <1>1, <1>3, <2>1, <2>2, <2>4, <2>5 DEF WalkInv
  <2>8. SoundInv'
    <3> SUFFICES ASSUME ~missed
                 PROVE  SoundInv'
      BY <1>1 DEF SoundInv
    <3>1. ASSUME NEW h, NEW t, Followed(h, t) PROVE Followed(h, t)'
      BY <1>1, <2>5, <3>1, StaysHeld DEF Followed
    <3>2. \A h : Pending(h)' = Pending(h)
      BY <1>1, <2>1 DEF Pending
    <3>3. ChildOf(Newest, current, NextChild)'
      <4>1. ChildOf(n, current, NextChild)
        BY <1>1, <1>3 DEF SoundInv, Agrees, ChildOf
      <4>2. NextChild' = NextChild
        BY <2>1 DEF NextChild
      <4> QED BY <1>1, <2>1, <2>4, <4>1, <4>2 DEF ChildOf
    <3>4. Agrees(description, sets[current.set])'
      BY <1>1, <2>1 DEF SoundInv, Agrees
    <3> QED BY <1>1, <2>1, <3>1, <3>2, <3>3, <3>4, StaysHeld DEF SoundInv
  <2> QED BY <1>1, <2>1, <2>6, <2>7, <2>8 DEF IInv
<1> QED BY <1>2, <1>3

LEMMA DescribeChildStackKeeps ==
  ASSUME IInv, DescribeChildStack
  PROVE  IInv'
<1>1. /\ pc = "stack" /\ UNCHANGED <<nest, sets, stacks, changes, moved, missed>>
      /\ TypeOK /\ WalkInv /\ SoundInv
  BY DEF DescribeChildStack, cloud, IInv
<1>2. CASE ~InReview(queue[Len(queue)].stack, current.stack, Root)
  BY <1>2, Refused DEF DescribeChildStack
<1>3. CASE InReview(queue[Len(queue)].stack, current.stack, Root)
  <2>1. /\ children' = children \ {NextChild}
        /\ pc' = (IF children' = {} THEN "take" ELSE "edge")
        /\ UNCHANGED <<queue, current, description, hierarchy>>
    BY <1>3 DEF DescribeChildStack
  <2>2. Known' = Known
    BY <1>1, <2>1 DEF Known, Waiting
  <2>3. Newest \in Known
    <3>1. queue \in Seq(Entry) /\ queue # <<>>
      BY <1>1 DEF TypeOK, WalkInv
    <3>2. Len(queue) \in DOMAIN queue
      BY <3>1
    <3> QED BY <3>2 DEF Newest, Known, Waiting
  <2>4. TypeOK'
    BY <1>1, <2>1 DEF TypeOK
  <2>5. WalkInv'
    BY <1>1, <2>1, <2>2 DEF WalkInv
  <2>6. SoundInv'
    <3> SUFFICES ASSUME ~missed
                 PROVE  SoundInv'
      BY <1>1 DEF SoundInv
    <3>1. ASSUME NEW h, NEW t, Followed(h, t) PROVE Followed(h, t)'
      BY <1>1, <2>2, <3>1, StaysHeld DEF Followed
    <3>2. \A h : Pending(h) \subseteq Pending(h)' \cup (IF h = current THEN {NextChild} ELSE {})
      BY <1>1, <2>1 DEF Pending
    <3>3. Followed(current, NextChild)
      BY <1>1, <1>3, <2>3 DEF SoundInv, Followed, Newest, InReview, Nested
    <3>4. \A h \in hierarchy' : Held(h)' /\ \A t \in nest'[h.url] \ Pending(h)' : Followed(h, t)'
      BY <1>1, <2>1, <3>1, <3>2, <3>3, StaysHeld DEF SoundInv
    <3>5. Agrees(description, sets[current.set])'
      BY <1>1, <2>1 DEF SoundInv, Agrees
    <3> QED BY <1>1, <2>1, <3>4, <3>5 DEF SoundInv
  <2> QED BY <1>1, <2>1, <2>4, <2>5, <2>6 DEF IInv
<1> QED BY <1>2, <1>3

LEMMA FinishKeeps ==
  ASSUME IInv, Finish
  PROVE  IInv'
<1>1. /\ pc = "take" /\ queue = <<>> /\ UNCHANGED <<nest, sets, stacks, changes, moved, missed>>
      /\ UNCHANGED <<queue, current, description, children, hierarchy>>
      /\ pc' = (IF Complete(hierarchy) THEN "passed" ELSE "refused")
      /\ TypeOK /\ WalkInv /\ SoundInv
  BY DEF Finish, cloud, IInv
<1>2. TypeOK'
  BY <1>1 DEF TypeOK
<1>3. Known' = Known
  BY <1>1 DEF Known, Waiting
<1>4. CASE pc' = "passed"
  <2>1. WalkInv'
    BY <1>1, <1>3, <1>4 DEF WalkInv, Complete
  <2>2. SoundInv'
    <3>1. ASSUME NEW h, NEW t, Followed(h, t) PROVE Followed(h, t)'
      BY <1>1, <1>3, <3>1, StaysHeld DEF Followed
    <3>2. \A h : Pending(h)' = {} /\ Pending(h) = {}
      BY <1>1, <1>4 DEF Pending
    <3> QED BY <1>1, <1>4, <3>1, <3>2, StaysHeld DEF SoundInv
  <2> QED BY <1>1, <1>2, <1>4, <2>1, <2>2 DEF IInv
<1>5. CASE pc' = "refused"
  BY <1>1, <1>2, <1>5 DEF IInv
<1> QED BY <1>1, <1>4, <1>5

-----------------------------------------------------------------------------
(* A change of what is reviewed *)

\* A change keeps the types.
LEMMA ChangeTyped ==
  ASSUME TypeOK, Change
  PROVE  TypeOK' /\ DOMAIN sets' = DOMAIN sets /\ DOMAIN stacks' = DOMAIN stacks
<1>1. PICK i \in DOMAIN sets :
        \/ ChangeLinks(i) /\ UNCHANGED stacks
        \/ ChangeBody(i) /\ UNCHANGED stacks
        \/ ChangeStack(i) /\ UNCHANGED sets
  BY DEF Change
<1>2. /\ changes' \in 0..MaxChanges
      /\ UNCHANGED <<nest, pc, queue, current, description, children, hierarchy>>
  BY ReviewAssumption DEF Change, TypeOK
<1>3. /\ sets[i] \in ChangeSet /\ stacks[i] \in Stack /\ i \in DOMAIN stacks
      /\ DOMAIN sets \subseteq Ids
  BY <1>1 DEF TypeOK
<1>4. ASSUME ChangeLinks(i)
      PROVE  \E s \in ChangeSet : sets' = [sets EXCEPT ![i] = s]
  <2>1. \A x \in Others(sets[i].stack) \ {Nothing} : [sets[i] EXCEPT !.stack = x] \in ChangeSet
    BY <1>3 DEF ChangeSet, Others
  <2>2. /\ \A x \in Others(sets[i].parent) : [sets[i] EXCEPT !.parent = x] \in ChangeSet
        /\ \A x \in Others(sets[i].root) : [sets[i] EXCEPT !.root = x] \in ChangeSet
    BY <1>3 DEF ChangeSet, Others
  <2>3. /\ [sets[i] EXCEPT !.complete = ~@] \in ChangeSet
        /\ [sets[i] EXCEPT !.available = ~@] \in ChangeSet
        /\ [sets[i] EXCEPT !.invoked = ~@] \in ChangeSet
    BY <1>3 DEF ChangeSet
  <2>4. \A o \in {"conditional", "unsafe", "orphan"} : [sets[i] EXCEPT !.odd = o] \in ChangeSet
    BY <1>3 DEF ChangeSet
  <2>5. \A t \in Templates, x \in DOMAIN sets \cup {Nothing} :
          /\ [sets[i] EXCEPT !.child[t] = x] \in ChangeSet
          /\ [sets[i] EXCEPT !.physical[t] = x] \in ChangeSet
    BY <1>3 DEF ChangeSet
  <2> QED BY <1>4, <2>1, <2>2, <2>3, <2>4, <2>5 DEF ChangeLinks
<1>5. ASSUME ChangeBody(i)
      PROVE  \E s \in ChangeSet : sets' = [sets EXCEPT ![i] = s]
  <2>1. \A b \in Templates \cup {Foreign} : [sets[i] EXCEPT !.body = b] \in ChangeSet
    BY <1>3 DEF ChangeSet
  <2> QED BY <1>5, <2>1 DEF ChangeBody
<1>6. ASSUME ChangeStack(i)
      PROVE  \E s \in Stack : stacks' = [stacks EXCEPT ![i] = s]
  <2>1. /\ [stacks[i] EXCEPT !.review = ~@] \in Stack
        /\ \A x \in Others(stacks[i].parent) : [stacks[i] EXCEPT !.parent = x] \in Stack
        /\ \A x \in Others(stacks[i].root) : [stacks[i] EXCEPT !.root = x] \in Stack
    BY <1>3 DEF Stack, Others
  <2> QED BY <1>6, <2>1 DEF ChangeStack
<1>7. CASE UNCHANGED stacks
  <2>1. PICK s \in ChangeSet : sets' = [sets EXCEPT ![i] = s] \/ UNCHANGED sets
    BY <1>1, <1>3, <1>4, <1>5
  <2> QED BY <1>2, <1>3, <1>7, <2>1 DEF TypeOK
<1>8. CASE UNCHANGED sets
  <2>1. PICK s \in Stack : stacks' = [stacks EXCEPT ![i] = s] \/ UNCHANGED stacks
    BY <1>1, <1>3, <1>6
  <2> QED BY <1>2, <1>3, <1>8, <2>1 DEF TypeOK
<1> QED BY <1>1, <1>7, <1>8

\* Nothing the walk stands on changes but by a change it has missed.
LEMMA ChangeKeeps ==
  ASSUME IInv, Change
  PROVE  IInv'
<1>1. /\ TypeOK' /\ DOMAIN sets' = DOMAIN sets /\ DOMAIN stacks' = DOMAIN stacks
      /\ UNCHANGED <<nest, pc, queue, current, description, children, hierarchy>>
  BY ChangeTyped DEF Change, IInv
<1>2. PICK i \in DOMAIN sets :
        \/ ChangeLinks(i) /\ missed' = (missed \/ SetRead(i)) /\ UNCHANGED stacks
        \/ ChangeBody(i) /\ missed' = (missed \/ BodyRead(i)) /\ UNCHANGED stacks
        \/ ChangeStack(i) /\ missed' = (missed \/ StackRead(i)) /\ UNCHANGED sets
  BY DEF Change
<1>3. /\ Known' = Known /\ Newest' = Newest /\ NextChild' = NextChild
      /\ \A e : Pending(e)' = Pending(e)
  BY <1>1 DEF Known, Waiting, Newest, NextChild, Pending
<1>4. ASSUME pc \notin {"start", "refused"}
      PROVE  WalkInv'
  <2>1. WalkInv /\ (Traversed(current)' <=> Traversed(current))
             /\ (Complete(hierarchy)' <=> Complete(hierarchy))
    BY <1>1, <1>4 DEF IInv, Traversed, Complete
  <2> QED BY <1>1, <1>3, <2>1 DEF WalkInv
<1>5. ASSUME pc \notin {"start", "refused"}
      PROVE  SoundInv'
  <2> SUFFICES ASSUME ~missed'
               PROVE  SoundInv'
    BY DEF SoundInv
  <2>1. ~missed /\ TypeOK /\ WalkInv /\ SoundInv
    BY <1>2, <1>5 DEF IInv
  <2>2. ASSUME NEW e \in hierarchy
        PROVE  sets'[e.set] = sets[e.set]
    <3> e.set \in DOMAIN sets
      BY <2>1 DEF WalkInv, Known
    <3>1. i # e.set \/ UNCHANGED sets
      BY <1>2 DEF SetRead, BodyRead
    <3> QED BY <1>2, <3>1 DEF ChangeLinks, ChangeBody
  <2>3. ASSUME pc = "template"
        PROVE  \/ sets'[current.set] = sets[current.set]
               \/ \E b : sets'[current.set] = [sets[current.set] EXCEPT !.body = b]
    <3> current.set \in DOMAIN sets
      BY <2>1, <2>3 DEF WalkInv, Known
    <3>1. i # current.set \/ ChangeBody(i) \/ UNCHANGED sets
      BY <1>2, <2>3 DEF SetRead
    <3> QED BY <1>2, <3>1 DEF ChangeLinks, ChangeBody
  <2>4. ASSUME NEW j, StackRead(j)
        PROVE  j \in DOMAIN stacks => stacks'[j] = stacks[j]
    <3>1. i # j \/ UNCHANGED stacks
      BY <1>2, <2>4
    <3> QED BY <1>2, <3>1 DEF ChangeStack
  <2>5. stacks'[Root] = [review |-> TRUE, parent |-> Nothing, root |-> Nothing]
    BY <1>5, <2>1, <2>4 DEF StackRead, SoundInv, IInv, TypeOK
  <2>6. ASSUME NEW e \in hierarchy
        PROVE  Held(e)'
    BY <1>1, <2>1, <2>2 DEF SoundInv, Held, Linked, AsInvoked, Edges
  <2>7. ASSUME NEW e \in hierarchy, NEW t \in nest[e.url] \ Pending(e)
        PROVE  Followed(e, t)'
    <3>1. PICK f \in Known : ChildOf(f, e, t) /\ Nested(f, e)
      BY <2>1 DEF SoundInv, Followed
    <3>2. StackRead(f.stack)
      <4>1. CASE f \in hierarchy \/ (pc = "template" /\ f = current)
        BY <4>1 DEF StackRead
      <4>2. CASE f \in Waiting
        <5>1. PICK k \in DOMAIN queue : f = queue[k]
          BY <4>2 DEF Waiting
        <5>2. CASE pc = "stack" /\ k = Len(queue)
          <6>1. f.parent = current.set /\ f.url = NextChild /\ f.parent = e.set /\ f.url = t
            BY <2>1, <3>1, <5>1, <5>2 DEF SoundInv, ChildOf, Newest
          <6>2. current \in hierarchy /\ NextChild \in children
            BY <2>1, <5>2 DEF WalkInv, NextChild
          <6>3. e = current
            BY <2>1, <6>1, <6>2 DEF TypeOK
          <6> QED BY <5>2, <6>1, <6>2, <6>3 DEF Pending
        <5>3. CASE ~(pc = "stack" /\ k = Len(queue))
          BY <5>1, <5>3 DEF StackRead
        <5> QED BY <5>2, <5>3
      <4> QED BY <4>1, <4>2 DEF Known
    <3>3. ChildOf(f, e, t)'
      BY <2>2, <3>1 DEF ChildOf
    <3>4. Nested(f, e)'
      BY <1>1, <2>4, <3>1, <3>2 DEF Nested
    <3> QED BY <1>3, <3>3, <3>4 DEF Followed
  <2>8. pc = "template" => Linked(sets[current.set], current)'
    <3> SUFFICES ASSUME pc = "template"
                 PROVE  Linked(sets[current.set], current)'
      OBVIOUS
    <3>1. Linked(sets[current.set], current) /\ sets[current.set] \in ChangeSet
      BY <2>1 DEF SoundInv, TypeOK, WalkInv, Known
    <3> QED BY <1>1, <2>3, <3>1 DEF Linked, AsInvoked, ChangeSet
  <2>9. pc \in {"template", "edge", "stack"} => Agrees(description, sets[current.set])'
    <3> SUFFICES ASSUME pc \in {"template", "edge", "stack"}
                 PROVE  Agrees(description, sets[current.set])'
      OBVIOUS
    <3>1. Agrees(description, sets[current.set])
      BY <2>1 DEF SoundInv
    <3>2. CASE pc = "template"
      <4>1. sets[current.set] \in ChangeSet
        BY <2>1, <3>2 DEF TypeOK, WalkInv, Known
      <4> QED BY <1>1, <2>3, <3>1, <3>2, <4>1 DEF Agrees, ChangeSet
    <3>3. CASE pc \in {"edge", "stack"}
      <4>1. current \in hierarchy
        BY <2>1, <3>3 DEF WalkInv
      <4> QED BY <1>1, <2>2, <3>1, <4>1 DEF Agrees
    <3> QED BY <3>2, <3>3
  <2>10. pc = "stack" => ChildOf(Newest, current, NextChild)'
    <3> SUFFICES ASSUME pc = "stack"
                 PROVE  ChildOf(Newest, current, NextChild)'
      OBVIOUS
    <3>1. current \in hierarchy /\ ChildOf(Newest, current, NextChild)
      BY <2>1 DEF WalkInv, SoundInv
    <3> QED BY <1>1, <1>3, <2>2, <3>1 DEF ChildOf
  <2> QED BY <1>1, <1>3, <2>5, <2>6, <2>7, <2>8, <2>9, <2>10 DEF SoundInv
<1> QED BY <1>1, <1>4, <1>5 DEF IInv

-----------------------------------------------------------------------------
(* What the invariant says of a review that has passed *)

\* The entry of a template.
At(t) == CHOOSE e \in hierarchy : e.url = t

\* Every template is met, the root in its place, and every other in the one template
\* that nests it.
LEMMA PassedHierarchy ==
  ASSUME IInv, pc = "passed", ~missed
  PROVE  /\ \A t \in Templates : At(t) \in hierarchy /\ At(t).url = t /\ At(t) \in Entry /\ Held(At(t))
         /\ \A e \in hierarchy : e = At(e.url)
         /\ At(RootTemplate) = RootEntry
         /\ \A t \in Templates : At(t).set = Root <=> t = RootTemplate
         /\ \A t \in Templates : \A u \in nest[t] :
              u \in Templates /\ u # RootTemplate /\ ChildOf(At(u), At(t), u) /\ Nested(At(u), At(t))
         /\ \A t \in Templates \ {RootTemplate} : \E p \in Templates : t \in nest[p]
<1>1. /\ TypeOK /\ WalkInv /\ SoundInv /\ queue = <<>> /\ Complete(hierarchy)
      /\ Known = hierarchy /\ RootTemplate \in Templates
  <2>1. TypeOK /\ WalkInv /\ SoundInv /\ queue = <<>> /\ Complete(hierarchy)
    BY DEF IInv, WalkInv
  <2>2. Waiting = {}
    BY <2>1 DEF Waiting
  <2> QED BY <2>1, <2>2, ReviewAssumption DEF Known
<1>2. \A t \in Templates : At(t) \in hierarchy /\ At(t).url = t
  BY <1>1 DEF Complete, At
<1>3. \A e \in hierarchy : e \in Entry /\ e.url \in Templates /\ e = At(e.url)
  BY <1>1, <1>2 DEF TypeOK, Entry
<1>4. At(RootTemplate) = RootEntry
  BY <1>1, <1>3 DEF WalkInv, RootEntry
<1>5. \A t \in Templates : At(t).set = Root <=> t = RootTemplate
  BY <1>1, <1>2, <1>4 DEF RootEntry, TypeOK
<1>6. \A e \in hierarchy : Held(e) /\ \A t \in nest[e.url] : Followed(e, t)
  BY <1>1 DEF SoundInv, Pending
<1>7. ASSUME NEW t \in Templates, NEW u \in nest[t]
      PROVE  u \in Templates /\ u # RootTemplate /\ ChildOf(At(u), At(t), u) /\ Nested(At(u), At(t))
  <2>1. PICK f \in hierarchy : ChildOf(f, At(t), u) /\ Nested(f, At(t))
    BY <1>1, <1>2, <1>6 DEF Followed
  <2>2. f = At(u) /\ u \in Templates
    BY <1>3, <2>1 DEF ChildOf
  <2>3. f.parent \in Ids
    BY <1>2, <1>3, <2>1 DEF ChildOf, Entry
  <2>4. u # RootTemplate
    BY <1>4, <2>2, <2>3, IdsAre DEF RootEntry
  <2> QED BY <2>1, <2>2, <2>4
<1>8. ASSUME NEW t \in Templates \ {RootTemplate}
      PROVE  \E p \in Templates : t \in nest[p]
  <2>1. PICK e \in hierarchy : t \in nest[e.url]
    BY <1>1, <1>2, <1>4 DEF WalkInv, RootEntry
  <2> QED BY <1>3, <2>1
<1> QED BY <1>2, <1>3, <1>4, <1>5, <1>6, <1>7, <1>8

\* Each template has one place, and the places are the sealed catalog.
LEMMA PassedMeansSealed == IInv => PassedIsSealed
<1> SUFFICES ASSUME IInv, pc = "passed", ~missed
             PROVE  /\ SealedHierarchy({e.set : e \in hierarchy})
                    /\ \A e \in hierarchy : sets[e.set].stack = e.stack
  BY DEF PassedIsSealed
<1> DEFINE place == [t \in Templates |-> At(t).set]
<1>1. \A e \in hierarchy : sets[e.set].stack = e.stack
  BY PassedHierarchy DEF IInv, TypeOK, Entry, Held, Linked
<1>2. \A t \in Templates :
        place[t] = At(t).set /\ sets[place[t]].stack = At(t).stack /\ At(t) \in hierarchy
  BY <1>1, PassedHierarchy
<1>3. place \in [Templates -> {e.set : e \in hierarchy}]
  BY PassedHierarchy
<1>4. RootTemplate \in Templates /\ place[RootTemplate] = Root /\ At(RootTemplate) = RootEntry
  BY ReviewAssumption, PassedHierarchy DEF RootEntry
<1>5. \A t, u \in Templates : (place[t] = place[u] \/ sets[place[t]].stack = sets[place[u]].stack) => t = u
  <2>1. \A e, f \in hierarchy : e.set = f.set \/ e.stack = f.stack => e = f
    BY DEF IInv, TypeOK
  <2> QED BY <1>2, <2>1, PassedHierarchy
<1>6. ASSUME NEW t \in Templates
      PROVE  Cardinality({p \in Templates : t \in nest[p]}) = IF t = RootTemplate THEN 0 ELSE 1
  <2>1. CASE t = RootTemplate
    <3>1. {p \in Templates : t \in nest[p]} = {}
      BY <2>1, PassedHierarchy
    <3> QED BY <2>1, <3>1, FS_EmptySet
  <2>2. CASE t # RootTemplate
    <3>1. PICK p \in Templates : t \in nest[p]
      BY <2>2, PassedHierarchy
    <3>2. \A q \in Templates : t \in nest[q] => At(q).set = At(t).parent
      BY PassedHierarchy DEF ChildOf
    <3>3. {q \in Templates : t \in nest[q]} = {p}
      BY <1>2, <1>5, <3>1, <3>2
    <3> QED BY <2>2, <3>3, FS_Singleton
  <2> QED BY <2>1, <2>2
<1>7. /\ sets[Root].stack = Root /\ sets[Root].parent = Nothing /\ sets[Root].root = Nothing
      /\ sets[Root].invoked
      /\ stacks[Root] = [review |-> TRUE, parent |-> Nothing, root |-> Nothing]
  <2>1. Held(RootEntry)
    BY <1>4, PassedHierarchy
  <2>2. SoundInv
    BY DEF IInv
  <2> QED BY <2>1, <2>2 DEF Held, Linked, AsInvoked, RootEntry, SoundInv
<1>8. ASSUME NEW t \in Templates
      PROVE  Placed(place, t) /\ \A u \in nest[t] : NestedAt(place, t, u)
  <2>1. At(t).url = t /\ Held(At(t)) /\ (At(t).set = Root <=> t = RootTemplate)
    BY PassedHierarchy
  <2>2. /\ sets[At(t).set].body = t /\ sets[At(t).set].complete
        /\ sets[At(t).set].odd \notin {"unsafe", "orphan"}
        /\ sets[At(t).set].available <=> t = RootTemplate
        /\ \A u \in Templates \ nest[t] : sets[At(t).set].child[u] = Nothing
    BY <2>1 DEF Held, Linked, Edges
  <2>3. ASSUME NEW u \in nest[t]
        PROVE  /\ sets[At(t).set].child[u] = At(u).set
               /\ sets[At(t).set].physical[u] \in {Nothing, At(u).stack}
               /\ sets[At(u).set].parent = At(t).set /\ sets[At(u).set].root = Root
               /\ stacks[At(u).stack] = [review |-> TRUE, parent |-> At(t).stack, root |-> Root]
    <3>1. /\ u \in Templates /\ u # RootTemplate /\ ChildOf(At(u), At(t), u) /\ Nested(At(u), At(t))
          /\ Held(At(u)) /\ At(u).set # Root
      BY PassedHierarchy
    <3> QED BY <3>1 DEF ChildOf, Nested, Held, Linked
  <2>4. \A u \in nest[t] : u \in Templates
    BY PassedHierarchy
  <2> HIDE DEF place
  <2>5. Placed(place, t)
    <3>1. place[t] = At(t).set
      BY <1>2
    <3> QED BY <2>2, <3>1 DEF Placed
  <2>6. ASSUME NEW u \in nest[t] PROVE NestedAt(place, t, u)
    <3>1. u \in Templates
      BY <2>4
    <3>2. /\ place[t] = At(t).set /\ sets[At(t).set].stack = At(t).stack
          /\ place[u] = At(u).set /\ sets[At(u).set].stack = At(u).stack
      BY <1>2, <3>1
    <3> QED BY <2>3, <3>2 DEF NestedAt
  <2> QED BY <2>5, <2>6
<1>9. SealedAt(place)
  <2> HIDE DEF place
  <2> QED BY <1>4, <1>5, <1>6, <1>7, <1>8 DEF SealedAt
<1> QED BY <1>1, <1>3, <1>9 DEF SealedHierarchy

-----------------------------------------------------------------------------
(* What is refused *)

\* A set of numbers that holds 0, and with every number below m the next one, holds m:
\* otherwise counting on would map it into itself without 0, and it is finite.
LEMMA Climbs ==
  ASSUME NEW m \in Nat, NEW D \in SUBSET (0..m), 0 \in D, \A n \in D : n < m => n + 1 \in D
  PROVE  m \in D
<1> SUFFICES ASSUME m \notin D PROVE FALSE
  OBVIOUS
<1>1. IsFiniteSet(D)
  <2>1. 0 \in Int /\ m \in Int
    OBVIOUS
  <2>2. IsFiniteSet(0..m)
    BY <2>1, FS_Interval
  <2> QED BY <2>2, FS_Subset
<1>2. \A n \in D : n \in Nat /\ n < m
  OBVIOUS
<1> DEFINE up == [n \in D |-> n + 1]
<1>3. up \in Injection(D, D \ {0})
  <2>1. up \in [D -> D \ {0}]
    BY <1>2
  <2>2. \A n, k \in D : up[n] = up[k] => n = k
    BY <1>2
  <2> HIDE DEF up
  <2> QED BY <2>1, <2>2 DEF Injection, IsInjective
<1>4. IsFiniteSet(D \ {0}) /\ Cardinality(D \ {0}) = Cardinality(D) - 1 /\ Cardinality(D) \in Nat
  BY <1>1, FS_RemoveElement, FS_CardinalityType
<1>5. Cardinality(D) <= Cardinality(D \ {0})
  <2> HIDE DEF up
  <2> QED BY <1>3, <1>4, FS_Injection
<1> QED BY <1>4, <1>5

\* A sealed catalog nests every template but the root in one other, and the root in none.
LEMMA OneParent ==
  ASSUME TypeOK, NEW place, SealedAt(place)
  PROVE  /\ nest \in [Templates -> SUBSET Templates]
         /\ \A t, p \in Templates : t \in nest[p] => t # RootTemplate
         /\ \A t, p, q \in Templates : t \in nest[p] /\ t \in nest[q] => p = q
         /\ \A t \in Templates \ {RootTemplate} : \E p \in Templates : t \in nest[p]
<1>1. nest \in [Templates -> SUBSET Templates]
  BY ReviewAssumption DEF TypeOK
<1>2. ASSUME NEW t \in Templates
      PROVE  /\ IsFiniteSet({p \in Templates : t \in nest[p]})
             /\ Cardinality({p \in Templates : t \in nest[p]}) = IF t = RootTemplate THEN 0 ELSE 1
  BY FS_Subset, ReviewAssumption DEF SealedAt
<1>3. ASSUME NEW t \in Templates, NEW p \in Templates, t \in nest[p] PROVE t # RootTemplate
  BY <1>2, <1>3, FS_EmptySet
<1>4. ASSUME NEW t \in Templates \ {RootTemplate} PROVE \E x : {p \in Templates : t \in nest[p]} = {x}
  BY <1>2, FS_Singleton
<1> QED BY <1>1, <1>3, <1>4

\* What no walk from the root can reach goes in circles, which are deeper than any bound.
LEMMA Unreached ==
  ASSUME nest \in [Templates -> SUBSET Templates], NEW H \in SUBSET Templates, RootTemplate \in H,
         \A t \in H : nest[t] \subseteq H, H # Templates,
         \A t \in Templates \ {RootTemplate} : \E p \in Templates : t \in nest[p]
  PROVE  Deep
<1> DEFINE U == Templates \ H
           Chain(c, n) == c \in [0..n -> U] /\ \A k \in 0..n - 1 : c[k + 1] \in nest[c[k]]
           D == {n \in 0..MaxDepth + 1 : \E c : Chain(c, n)}
<1>1. \A t \in U : \E p \in U : t \in nest[p]
  OBVIOUS
<1>2. MaxDepth + 1 \in Nat
  BY ReviewAssumption
<1>3. 0 \in D
  <2>1. PICK t \in U : TRUE
    OBVIOUS
  <2>2. [k \in 0..0 |-> t] \in [0..0 -> U] /\ 0..0 - 1 = {}
    OBVIOUS
  <2>3. \A k \in 0..0 - 1 : FALSE
    BY <2>2
  <2>4. Chain([k \in 0..0 |-> t], 0)
    BY <2>2, <2>3
  <2>5. \E c : Chain(c, 0)
    BY <2>4
  <2> QED BY <1>2, <2>5
<1>4. ASSUME NEW n \in D, n < MaxDepth + 1 PROVE n + 1 \in D
  <2>1. n \in Nat /\ n + 1 \in 0..MaxDepth + 1
    BY <1>2, <1>4
  <2>2. PICK c : Chain(c, n)
    OBVIOUS
  <2>3. PICK p \in U : c[0] \in nest[p]
    BY <1>1, <2>1, <2>2
  <2> DEFINE d == [k \in 0..n + 1 |-> IF k = 0 THEN p ELSE c[k - 1]]
  <2>4. d \in [0..n + 1 -> U]
    BY <2>1, <2>2
  <2>5. ASSUME NEW k \in 0..n PROVE d[k + 1] \in nest[d[k]]
    <3>1. CASE k = 0
      BY <2>1, <2>3, <3>1
    <3>2. CASE k # 0
      <4>1. k - 1 \in 0..n - 1 /\ d[k + 1] = c[k] /\ d[k] = c[k - 1] /\ (k - 1) + 1 = k
        BY <2>1, <3>2
      <4>2. c[(k - 1) + 1] \in nest[c[k - 1]]
        BY <2>2, <4>1
      <4> QED BY <4>1, <4>2
    <3> QED BY <3>1, <3>2
  <2>6. Chain(d, n + 1)
    <3>1. (n + 1) - 1 = n
      BY <2>1
    <3> HIDE DEF d
    <3> QED BY <2>4, <2>5, <3>1
  <2> QED BY <2>1, <2>6
<1>5. MaxDepth + 1 \in D
  <2> HIDE DEF D
  <2>1. D \in SUBSET (0..MaxDepth + 1)
    BY DEF D
  <2> QED BY <1>2, <1>3, <1>4, <2>1, Climbs
<1>6. PICK c : Chain(c, MaxDepth + 1)
  BY <1>5
<1>7. c \in [0..MaxDepth + 1 -> Templates] /\ (MaxDepth + 1) - 1 = MaxDepth
  BY <1>2, <1>6, ReviewAssumption
<1> QED BY <1>6, <1>7 DEF Deep

Taken == hierarchy \cup (IF pc = "template" THEN {current} ELSE {})
Met(t) == \E f \in Known : f.url = t
Path(t, d) ==
  \E chain \in [0..d -> Templates] :
    chain[d] = t /\ \A k \in 0..d - 1 : chain[k + 1] \in nest[chain[k]]

\* An entry of the walk over a sealed catalog is what is in the place of its template.
InPlace(f, place) ==
  /\ f.set = place[f.url] /\ f.stack = sets[f.set].stack
  /\ \/ f = RootEntry
     \/ \E p \in hierarchy : f.url \in nest[p.url] /\ f.parent = place[p.url]
  /\ f.depth <= MaxDepth + 1 /\ Path(f.url, f.depth)

\* No template is waiting twice, or after it has been met.
OnceInv ==
  /\ \A k, m \in DOMAIN queue : queue[k].url = queue[m].url => k = m
  /\ \A f \in Waiting : \A h \in Taken : h.url # f.url
  /\ pc = "edge" => \A t \in children : ~Met(t)
  /\ pc = "stack" => Newest.url = NextChild /\ \A t \in children \ {NextChild} : ~Met(t)

Honest(place) ==
  /\ pc = "refused" => Deep
  /\ pc # "refused" => OnceInv /\ \A f \in Known : InPlace(f, place)
  /\ pc \in {"template", "edge", "stack"} => description = sets[current.set]

\* As long as nothing has changed since the walk began, it finds a sealed catalog to be one.
RInv ==
  /\ \A i \in DOMAIN sets : sets[i].stack \in DOMAIN sets
  /\ pc = "start" => ~moved /\ ~missed /\ queue = <<>>
  /\ missed => moved
  /\ ~moved /\ pc # "start" => \A place \in [Templates -> DOMAIN sets] : SealedAt(place) => Honest(place)

LEMMA InitHonest == Init => RInv
<1> SUFFICES ASSUME Init PROVE RInv
  OBVIOUS
<1>1. /\ DOMAIN sets = Made(nest) /\ pc = "start" /\ ~moved /\ ~missed /\ queue = <<>>
      /\ \A i \in DOMAIN sets : sets[i].stack = i
  BY DEF Init, MadeSet
<1> QED BY <1>1 DEF RInv

\* A walk over what stays as it is goes on if it stays honest.
LEMMA StaysSealed ==
  ASSUME IInv, RInv, UNCHANGED cloud, pc' # "start",
         ASSUME NEW place \in [Templates -> DOMAIN sets], SealedAt(place), ~moved,
                pc # "start" => Honest(place)
         PROVE  Honest(place)'
  PROVE  RInv'
<1>1. UNCHANGED <<nest, sets, stacks, moved, missed>>
  BY DEF cloud
<1>2. ASSUME ~moved, NEW place \in [Templates -> DOMAIN sets], SealedAt(place)' PROVE Honest(place)'
  <2>1. SealedAt(place)
    BY <1>1, <1>2 DEF SealedAt, Placed, NestedAt
  <2>2. pc # "start" => Honest(place)
    BY <1>2, <2>1 DEF RInv
  <2> QED BY <1>2, <2>1, <2>2
<1> QED BY <1>1, <1>2 DEF RInv

LEMMA PathStays ==
  ASSUME UNCHANGED nest, NEW t, NEW d
  PROVE  (Path(t, d)' <=> Path(t, d)) /\ (Deep' <=> Deep)
  BY DEF Path, Deep

LEMMA DescribeRootStackHonest == ASSUME IInv, RInv, DescribeRootStack PROVE RInv'
<1>1. pc = "start" /\ UNCHANGED <<nest, sets, stacks, changes, moved, missed>> /\ UNCHANGED cloud
      /\ hierarchy = {} /\ pc' # "start" /\ Root \in DOMAIN stacks
  BY DEF DescribeRootStack, cloud, IInv, Refuse, TypeOK
<1>2. ASSUME NEW place \in [Templates -> DOMAIN sets], SealedAt(place)
      PROVE  Honest(place)'
  <2>1. InReview(Root, Nothing, Nothing)
    BY <1>1, <1>2 DEF SealedAt, InReview
  <2>2. /\ queue' = <<RootEntry>> /\ pc' = "take"
        /\ UNCHANGED <<current, description, children, hierarchy>>
    BY <2>1 DEF DescribeRootStack, RootEntry
  <2>3. {<<RootEntry>>[k] : k \in DOMAIN <<RootEntry>>} = {RootEntry} /\ DOMAIN <<RootEntry>> = {1}
    OBVIOUS
  <2>4. Waiting' = {RootEntry} /\ Known' = {RootEntry}
    BY <1>1, <2>2, <2>3 DEF Known, Waiting
  <2>5. InPlace(RootEntry, place)'
    <3>1. place[RootTemplate] = Root /\ sets'[Root].stack = Root
      BY <1>1, <1>2 DEF SealedAt
    <3>2. Path(RootTemplate, 0)
      <4>1. [k \in 0..0 |-> RootTemplate] \in [0..0 -> Templates] /\ \A k \in 0..0 - 1 : FALSE
        BY ReviewAssumption
      <4>2. [k \in 0..0 |-> RootTemplate][0] = RootTemplate
        OBVIOUS
      <4> QED BY <4>1, <4>2 DEF Path
    <3>3. Path(RootTemplate, 0)'
      BY <1>1, <3>2, PathStays
    <3> QED BY <3>1, <3>3, ReviewAssumption DEF InPlace, RootEntry
  <2>6. OnceInv'
    BY <1>1, <2>2, <2>3, <2>4 DEF OnceInv, Taken
  <2> QED BY <2>2, <2>4, <2>5, <2>6 DEF Honest
<1> QED BY <1>1, <1>2, StaysSealed

\* A place, and one that is nested in it.
LEMMA PlaceIn ==
  ASSUME NEW place, SealedAt(place), NEW t \in Templates, NEW u \in nest[t]
  PROVE  Placed(place, t) /\ NestedAt(place, t, u)
  BY DEF SealedAt

\* What is in its place in a sealed catalog is what the walk expects there.
LEMMA LinkedInPlace ==
  ASSUME TypeOK, WalkInv, NEW place \in [Templates -> DOMAIN sets], SealedAt(place),
         NEW e \in Entry, InPlace(e, place)
  PROVE  Linked(sets[e.set], e)
<1>1. e.url \in Templates /\ place[e.url] = e.set /\ (e.set = Root <=> e.url = RootTemplate)
  <2>1. e.url \in Templates /\ place[e.url] = e.set
    BY DEF InPlace, Entry
  <2>2. place[RootTemplate] = Root /\ \A t, u \in Templates : place[t] = place[u] => t = u
    BY DEF SealedAt
  <2> QED BY <2>1, <2>2, ReviewAssumption
<1>2. sets[e.set].complete /\ sets[e.set].stack = e.stack /\ sets[e.set].available = (e.set = Root)
  <2>1. sets[e.set].available <=> e.set = Root
    BY <1>1 DEF SealedAt, Placed
  <2>2. sets[e.set] \in ChangeSet
    BY <1>1 DEF TypeOK
  <2>3. sets[e.set].available \in BOOLEAN /\ (e.set = Root) \in BOOLEAN
    BY <2>2 DEF ChangeSet
  <2>4. sets[e.set].available = (e.set = Root)
    BY <2>1, <2>3
  <2> QED BY <1>1, <2>4 DEF SealedAt, Placed, InPlace
<1>3. CASE e = RootEntry
  BY <1>2, <1>3 DEF RootEntry, SealedAt, Linked, AsInvoked
<1>4. CASE e # RootEntry
  <2>1. PICK p \in hierarchy : e.url \in nest[p.url] /\ e.parent = place[p.url]
    BY <1>4 DEF InPlace
  <2>2. p.url \in Templates
    BY DEF TypeOK, Entry
  <2>3. e.set # Root
    <3>1. \A t, p1 \in Templates : t \in nest[p1] => t # RootTemplate
      BY OneParent
    <3> QED BY <1>1, <2>1, <2>2, <3>1
  <2>4. sets[e.set].parent = e.parent /\ sets[e.set].root = Root
    <3>1. sets[place[e.url]].parent = place[p.url] /\ sets[place[e.url]].root = Root
      <4>1. NestedAt(place, p.url, e.url)
        BY <2>1, <2>2, PlaceIn
      <4> QED BY <4>1 DEF NestedAt
    <3> QED BY <1>1, <2>1, <3>1
  <2> QED BY <1>2, <2>3, <2>4 DEF Linked, AsInvoked
<1> QED BY <1>3, <1>4

LEMMA TakeHonest == ASSUME IInv, RInv, Take PROVE RInv'
<1>1. /\ pc = "take" /\ queue # <<>> /\ UNCHANGED <<nest, sets, stacks, changes, moved, missed>>
      /\ UNCHANGED cloud /\ pc' # "start" /\ TypeOK /\ WalkInv
  BY DEF Take, cloud, IInv, Refuse
<1> DEFINE e == Head(queue)
<1>2. ASSUME NEW place \in [Templates -> DOMAIN sets], SealedAt(place), Honest(place)
      PROVE  Honest(place)'
  <2>1. /\ e \in Entry /\ Tail(queue) \in Seq(Entry) /\ e = queue[1] /\ 1 \in DOMAIN queue
        /\ Waiting = {e} \cup {Tail(queue)[k] : k \in DOMAIN Tail(queue)}
        /\ DOMAIN queue = 1..Len(queue) /\ Len(queue) \in Nat
        /\ DOMAIN Tail(queue) = 1..(Len(queue) - 1)
        /\ \A k \in DOMAIN Tail(queue) : Tail(queue)[k] = queue[k + 1] /\ k + 1 \in DOMAIN queue
    <3>1. queue \in Seq(Entry) /\ queue # <<>>
      BY <1>1 DEF TypeOK
    <3>2. /\ e \in Entry /\ Tail(queue) \in Seq(Entry)
          /\ Waiting = {e} \cup {Tail(queue)[k] : k \in DOMAIN Tail(queue)}
      BY <3>1, TakenFirst DEF Waiting
    <3>3. /\ e = queue[1] /\ 1 \in DOMAIN queue
          /\ DOMAIN queue = 1..Len(queue) /\ Len(queue) \in Nat
          /\ DOMAIN Tail(queue) = 1..(Len(queue) - 1)
          /\ \A k \in DOMAIN Tail(queue) : Tail(queue)[k] = queue[k + 1] /\ k + 1 \in DOMAIN queue
      BY <3>1
    <3> QED BY <3>2, <3>3
  <2> HIDE DEF e
  <2>2. OnceInv /\ e \in Waiting /\ e \in Known /\ InPlace(e, place) /\ Known = hierarchy \cup Waiting
    BY <1>1, <1>2, <2>1 DEF Honest, Known
  <2>3. CASE e.depth > MaxDepth
    <3>1. e.depth = MaxDepth + 1 /\ Path(e.url, e.depth)
      BY <2>1, <2>2, <2>3, ReviewAssumption DEF InPlace, Entry
    <3>2. Deep
      <4>1. PICK chain \in [0..MaxDepth + 1 -> Templates] :
              \A k \in 0..(MaxDepth + 1) - 1 : chain[k + 1] \in nest[chain[k]]
        BY <3>1 DEF Path
      <4>2. (MaxDepth + 1) - 1 = MaxDepth
        BY ReviewAssumption
      <4> QED BY <4>1, <4>2 DEF Deep
    <3>3. pc' = "refused"
      BY <2>3 DEF Take, Refuse, e
    <3> QED BY <1>1, <3>2, <3>3, PathStays DEF Honest
  <2>4. CASE ~(e.depth > MaxDepth)
    <3>1. Linked(sets[e.set], e)
      BY <1>1, <1>2, <2>1, <2>2, LinkedInPlace
    <3>2. ~Traversed(e)
      <4>1. ASSUME NEW h \in hierarchy PROVE h.url # e.url /\ h.set # e.set /\ h.stack # e.stack
        <5>1. h.url # e.url
          BY <2>2 DEF OnceInv, Taken
        <5>2. InPlace(h, place) /\ h.url \in Templates /\ e.url \in Templates
          BY <1>1, <1>2, <2>1 DEF Honest, Known, TypeOK, Entry
        <5>3. \A t, u \in Templates :
                place[t] = place[u] \/ sets[place[t]].stack = sets[place[u]].stack => t = u
          BY <1>2 DEF SealedAt
        <5>4. /\ h.set = place[h.url] /\ h.stack = sets[place[h.url]].stack
              /\ e.set = place[e.url] /\ e.stack = sets[place[e.url]].stack
          BY <2>2, <5>2 DEF InPlace
        <5> QED BY <5>1, <5>2, <5>3, <5>4
      <4> QED BY <4>1 DEF Traversed
    <3>3. /\ current' = e /\ description' = sets[e.set] /\ queue' = Tail(queue)
          /\ pc' = "template" /\ UNCHANGED <<children, hierarchy>>
      BY <2>4, <3>1, <3>2, ZenonT(60) DEF Take, e
    <3>4. Waiting = {e} \cup Waiting' /\ Known' = Known
      BY <1>1, <2>1, <3>3, ZenonT(60) DEF Waiting, Known
    <3>5. \A f \in Waiting' : f.url # e.url
      <4>1. ASSUME NEW k \in DOMAIN Tail(queue) PROVE Tail(queue)[k].url # e.url
        <5>1. k + 1 \in DOMAIN queue /\ k + 1 # 1 /\ Tail(queue)[k] = queue[k + 1]
          BY <2>1
        <5> QED BY <2>1, <2>2, <5>1 DEF OnceInv
      <4> QED BY <3>3, <4>1 DEF Waiting
    <3>6. OnceInv'
      <4>1. ASSUME NEW k \in DOMAIN Tail(queue), NEW m \in DOMAIN Tail(queue),
                   Tail(queue)[k].url = Tail(queue)[m].url
            PROVE  k = m
        <5>1. k + 1 = m + 1
          BY <2>1, <2>2, <4>1 DEF OnceInv
        <5> QED BY <2>1, <5>1
      <4>2. \A f \in Waiting' : \A h \in hierarchy : h.url # f.url
        BY <2>2, <3>4 DEF OnceInv, Taken
      <4> QED BY <3>3, <3>5, <4>1, <4>2 DEF OnceInv, Taken
    <3>7. \A f \in Known' : InPlace(f, place)'
      BY <1>1, <1>2, <3>3, <3>4, PathStays DEF Honest, InPlace
    <3> QED BY <1>1, <3>3, <3>6, <3>7 DEF Honest
  <2> QED BY <2>3, <2>4
<1> QED BY <1>1, <1>2, StaysSealed

LEMMA ReadTemplateHonest == ASSUME IInv, RInv, ReadTemplate PROVE RInv'
<1>1. /\ pc = "template" /\ UNCHANGED <<nest, sets, stacks, changes, moved, missed>>
      /\ UNCHANGED cloud /\ pc' # "start" /\ TypeOK /\ WalkInv
      /\ current \in hierarchy \cup {current} /\ current \in Entry /\ current \in Known
  BY DEF ReadTemplate, cloud, IInv, Refuse, TypeOK, Known
<1>2. ASSUME NEW place \in [Templates -> DOMAIN sets], SealedAt(place), Honest(place)
      PROVE  Honest(place)'
  <2>1. /\ OnceInv /\ InPlace(current, place) /\ description = sets[current.set]
        /\ current.url \in Templates /\ current.set = place[current.url]
        /\ current.set \in DOMAIN sets /\ description \in ChangeSet
        /\ nest[current.url] \subseteq Templates
    <3>1. OnceInv /\ InPlace(current, place) /\ description = sets[current.set]
      BY <1>1, <1>2 DEF Honest
    <3>2. current.url \in Templates /\ description \in ChangeSet
      BY <1>1 DEF Entry, TypeOK
    <3>3. nest \in [Templates -> SUBSET Templates]
      BY <1>1, <1>2, OneParent
    <3> QED BY <3>1, <3>2, <3>3 DEF InPlace
  <2>2. Placed(place, current.url) /\ \A u \in nest[current.url] : NestedAt(place, current.url, u)
    BY <1>2, <2>1 DEF SealedAt
  <2>3. sets[current.set].body = current.url
    BY <2>1, <2>2 DEF Placed
  <2>4. Edges(description, nest[current.url])
    <3>1. description.odd \in {"none", "conditional"}
      BY <2>1, <2>2 DEF Placed, ChangeSet
    <3>2. \A u \in nest[current.url] :
            description.child[u] = place[u] /\ place[u] \in DOMAIN sets /\ place[u] # Nothing
      BY <1>1, <2>1, <2>2, IdsAre DEF NestedAt, TypeOK
    <3>3. \A u \in Templates \ nest[current.url] : description.child[u] = Nothing
      BY <2>1, <2>2 DEF Placed
    <3>4. \A u, v \in nest[current.url] : place[u] = place[v] => u = v
      BY <1>2, <2>1 DEF SealedAt
    <3> QED BY <2>1, <3>1, <3>2, <3>3, <3>4 DEF Edges
  <2>5. /\ hierarchy' = hierarchy \cup {current} /\ children' = nest[current.url]
        /\ pc' = (IF children' = {} THEN "take" ELSE "edge")
        /\ UNCHANGED <<queue, current, description>>
    BY <2>3, <2>4 DEF ReadTemplate, NestedUrls
  <2>6. Known' = Known /\ Waiting' = Waiting /\ Taken' = Taken
    BY <1>1, <2>5 DEF Known, Waiting, Taken
  <2>7. ASSUME NEW t \in nest[current.url], NEW f \in Known, f.url = t
        PROVE  FALSE
    <3>1. t # RootTemplate /\ t \in Templates
      BY <1>1, <1>2, <2>1, OneParent
    <3>2. PICK p \in hierarchy : t \in nest[p.url]
      BY <1>2, <1>1, <2>7, <3>1 DEF Honest, InPlace, RootEntry
    <3>3. p.url \in Templates
      BY <1>1 DEF TypeOK, Entry
    <3>4. p.url = current.url
      BY <1>1, <1>2, <2>1, <3>1, <3>2, <3>3, OneParent
    <3> QED BY <1>1, <3>2, <3>4 DEF WalkInv, Traversed
  <2>8. OnceInv'
    BY <2>1, <2>5, <2>6, <2>7 DEF OnceInv, Met
  <2>9. \A f \in Known' : InPlace(f, place)'
    BY <1>1, <1>2, <2>5, <2>6, PathStays DEF Honest, InPlace
  <2> QED BY <1>1, <2>1, <2>5, <2>8, <2>9 DEF Honest
<1> QED BY <1>1, <1>2, StaysSealed

LEMMA DescribeChildHonest == ASSUME IInv, RInv, DescribeChild PROVE RInv'
<1>1. /\ pc = "edge" /\ UNCHANGED <<nest, sets, stacks, changes, moved, missed>>
      /\ UNCHANGED cloud /\ pc' # "start" /\ TypeOK /\ WalkInv
      /\ current \in hierarchy /\ current \in Known /\ current \in Entry
  BY DEF DescribeChild, cloud, IInv, Refuse, TypeOK, Known, WalkInv
<1> DEFINE child == description.child[NextChild]
           physical == description.physical[NextChild]
           n == [set |-> child, stack |-> sets[child].stack, url |-> NextChild,
                 parent |-> current.set, depth |-> current.depth + 1]
<1>2. ASSUME NEW place \in [Templates -> DOMAIN sets], SealedAt(place), Honest(place)
      PROVE  Honest(place)'
  <2>1. /\ NextChild \in children /\ NextChild \in nest[current.url] /\ NextChild \in Templates
        /\ current.url \in Templates /\ current.depth \in Nat
    BY <1>1 DEF WalkInv, NextChild, TypeOK, Entry
  <2>2. /\ OnceInv /\ InPlace(current, place) /\ description = sets[current.set]
        /\ current.set = place[current.url] /\ current.depth <= MaxDepth
    BY <1>1, <1>2 DEF Honest, InPlace, TypeOK
  <2>3. NestedAt(place, current.url, NextChild)
    BY <1>2, <2>1, PlaceIn
  <2>4. /\ child = place[NextChild] /\ child \in DOMAIN sets
        /\ physical \in {Nothing, sets[child].stack}
    BY <2>1, <2>2, <2>3 DEF NestedAt
  <2>5. /\ queue' = Append(queue, n) /\ pc' = "stack"
        /\ UNCHANGED <<current, description, children, hierarchy>>
    BY <2>4 DEF DescribeChild
  <2>6. n.url = NextChild /\ n.set = place[NextChild] /\ n.stack = sets[n.set].stack
        /\ n.parent = place[current.url] /\ n.depth = current.depth + 1
    BY <2>2, <2>4
  <2>7. queue \in Seq(Entry) /\ n \in Entry
    BY <1>1, <2>1, <2>4 DEF TypeOK, Entry, ChangeSet
  <2> HIDE DEF n, child, physical
  <2>8. /\ Newest' = n /\ Waiting' = Waiting \cup {n}
        /\ DOMAIN queue' = DOMAIN queue \cup {Len(queue) + 1} /\ Len(queue) + 1 \notin DOMAIN queue
        /\ queue'[Len(queue) + 1] = n
        /\ \A k \in DOMAIN queue : queue'[k] = queue[k] /\ queue[k] \in Waiting
    <3>1. /\ Append(queue, n)[Len(Append(queue, n))] = n
          /\ {Append(queue, n)[k] : k \in DOMAIN Append(queue, n)}
               = {queue[k] : k \in DOMAIN queue} \cup {n}
      BY <2>7, Appended
    <3>2. /\ DOMAIN Append(queue, n) = DOMAIN queue \cup {Len(queue) + 1}
          /\ Len(queue) + 1 \notin DOMAIN queue
          /\ Append(queue, n)[Len(queue) + 1] = n
          /\ \A k \in DOMAIN queue : Append(queue, n)[k] = queue[k]
      BY <2>7
    <3> QED BY <2>5, <3>1, <3>2 DEF Newest, Waiting
  <2>9. Known' = Known \cup {n} /\ Taken' = Taken /\ Taken \subseteq Known /\ Waiting \subseteq Known
    BY <1>1, <2>5, <2>8 DEF Known, Taken
  <2>10. \A f \in Known : f.url # NextChild
    BY <1>1, <2>1, <2>2 DEF OnceInv, Met
  <2>11. OnceInv'
    <3>1. \A k, m \in DOMAIN queue' : queue'[k].url = queue'[m].url => k = m
      BY <2>2, <2>6, <2>8, <2>9, <2>10 DEF OnceInv
    <3>2. \A f \in Waiting' : \A h \in Taken' : h.url # f.url
      BY <2>2, <2>6, <2>8, <2>9, <2>10 DEF OnceInv
    <3>3. NextChild' = NextChild
      BY <2>5 DEF NextChild
    <3>4. \A t \in children \ {NextChild} : ~Met(t)'
      BY <1>1, <2>2, <2>6, <2>9 DEF OnceInv, Met
    <3> QED BY <2>5, <2>6, <2>8, <3>1, <3>2, <3>3, <3>4 DEF OnceInv
  <2>12. ASSUME NEW m, m = n PROVE InPlace(m, place)'
    <3>1. Path(NextChild, current.depth + 1)
      <4>1. PICK chain \in [0..current.depth -> Templates] :
              /\ chain[current.depth] = current.url
              /\ \A k \in 0..current.depth - 1 : chain[k + 1] \in nest[chain[k]]
        BY <2>2 DEF InPlace, Path
      <4> DEFINE d == current.depth
                 longer == [k \in 0..d + 1 |-> IF k = d + 1 THEN NextChild ELSE chain[k]]
      <4>2. longer \in [0..d + 1 -> Templates] /\ longer[d + 1] = NextChild
        BY <2>1
      <4>3. ASSUME NEW k \in 0..d PROVE longer[k + 1] \in nest[longer[k]]
        <5>1. CASE k = d
          BY <2>1, <4>1, <5>1
        <5>2. CASE k # d
          <6>1. k \in 0..d - 1 /\ k # d + 1 /\ k + 1 # d + 1 /\ k + 1 \in 0..d + 1 /\ k \in 0..d + 1
            BY <2>1, <5>2
          <6>2. longer[k + 1] = chain[k + 1] /\ longer[k] = chain[k]
            BY <6>1
          <6>3. chain[k + 1] \in nest[chain[k]]
            BY <4>1, <6>1
          <6> QED BY <6>2, <6>3
        <5> QED BY <5>1, <5>2
      <4>4. (d + 1) - 1 = d
        BY <2>1
      <4> HIDE DEF longer
      <4> QED BY <4>2, <4>3, <4>4 DEF Path
    <3>2. Path(m.url, m.depth)'
      BY <1>1, <2>6, <2>12, <3>1, PathStays
    <3>3. m.depth <= MaxDepth + 1
      BY <2>1, <2>2, <2>6, <2>12, ReviewAssumption
    <3>4. current \in hierarchy' /\ m.url \in nest'[current.url] /\ m.parent = place[current.url]
      BY <1>1, <2>1, <2>5, <2>6, <2>12
    <3>5. m.set = place[m.url] /\ m.stack = sets'[m.set].stack
      BY <1>1, <2>6, <2>12
    <3> QED BY <3>2, <3>3, <3>4, <3>5 DEF InPlace
  <2>13. ASSUME NEW f \in Known PROVE InPlace(f, place)'
    <3>1. InPlace(f, place)
      BY <1>1, <1>2 DEF Honest
    <3> QED BY <1>1, <2>5, <3>1, PathStays DEF InPlace
  <2>14. \A f \in Known' : InPlace(f, place)'
    BY <2>9, <2>12, <2>13
  <2> QED BY <1>1, <2>2, <2>5, <2>11, <2>14 DEF Honest
<1> QED BY <1>1, <1>2, StaysSealed

LEMMA DescribeChildStackHonest == ASSUME IInv, RInv, DescribeChildStack PROVE RInv'
<1>1. /\ pc = "stack" /\ UNCHANGED <<nest, sets, stacks, changes, moved, missed>>
      /\ UNCHANGED cloud /\ pc' # "start" /\ TypeOK /\ WalkInv
      /\ current \in hierarchy /\ current \in Known /\ current \in Entry
      /\ queue \in Seq(Entry) /\ queue # <<>>
  BY DEF DescribeChildStack, cloud, IInv, Refuse, TypeOK, Known, WalkInv
<1>2. ASSUME NEW place \in [Templates -> DOMAIN sets], SealedAt(place), Honest(place)
      PROVE  Honest(place)'
  <2>1. /\ NextChild \in children /\ NextChild \in nest[current.url] /\ NextChild \in Templates
        /\ current.url \in Templates
    BY <1>1 DEF WalkInv, NextChild, TypeOK, Entry
  <2>2. OnceInv /\ InPlace(current, place) /\ description = sets[current.set] /\ Newest.url = NextChild
    BY <1>1, <1>2 DEF Honest, OnceInv
  <2>3. Newest \in Known /\ InPlace(Newest, place)
    <3>1. Len(queue) \in DOMAIN queue
      BY <1>1
    <3> QED BY <1>1, <1>2, <3>1 DEF Newest, Waiting, Known, Honest
  <2>4. NestedAt(place, current.url, NextChild)
    BY <1>2, <2>1, PlaceIn
  <2>5. Newest.stack = sets[place[NextChild]].stack /\ current.stack = sets[place[current.url]].stack
        /\ place[NextChild] \in DOMAIN sets
    BY <2>1, <2>2, <2>3 DEF InPlace
  <2>6. Newest.stack \in DOMAIN stacks
    BY <1>1, <2>5 DEF RInv, TypeOK
  <2>7. InReview(Newest.stack, current.stack, Root)
    BY <2>4, <2>5, <2>6 DEF NestedAt, InReview
  <2>8. /\ children' = children \ {NextChild}
        /\ pc' = (IF children' = {} THEN "take" ELSE "edge")
        /\ UNCHANGED <<queue, current, description, hierarchy>>
    BY <2>7 DEF DescribeChildStack, Newest
  <2>9. Known' = Known /\ Waiting' = Waiting /\ Taken' = Taken
    BY <1>1, <2>8 DEF Known, Waiting, Taken
  <2>10. OnceInv'
    BY <1>1, <2>2, <2>8, <2>9 DEF OnceInv, Met
  <2>11. \A f \in Known' : InPlace(f, place)'
    BY <1>1, <1>2, <2>8, <2>9, PathStays DEF Honest, InPlace
  <2> QED BY <1>1, <2>2, <2>8, <2>10, <2>11 DEF Honest
<1> QED BY <1>1, <1>2, StaysSealed

\* What the walk has met when nothing is left to take is all there is, or there are circles.
LEMMA FinishHonest == ASSUME IInv, RInv, Finish PROVE RInv'
<1>1. /\ pc = "take" /\ queue = <<>> /\ UNCHANGED <<nest, sets, stacks, changes, moved, missed>>
      /\ UNCHANGED cloud /\ pc' # "start" /\ TypeOK /\ WalkInv /\ SoundInv
      /\ UNCHANGED <<queue, current, description, children, hierarchy>>
      /\ pc' = IF Complete(hierarchy) THEN "passed" ELSE "refused"
  BY DEF Finish, cloud, IInv
<1>2. Waiting = {} /\ Known = hierarchy
  BY <1>1 DEF Waiting, Known
<1>3. ASSUME NEW place \in [Templates -> DOMAIN sets], SealedAt(place), ~moved, Honest(place)
      PROVE  Honest(place)'
  <2>1. CASE Complete(hierarchy)
    <3>1. Known' = Known /\ Waiting' = Waiting /\ Taken' = Taken /\ pc' = "passed"
      BY <1>1, <2>1 DEF Known, Waiting, Taken
    <3>2. OnceInv /\ \A f \in Known : InPlace(f, place)
      BY <1>1, <1>3 DEF Honest
    <3>3. \A f \in Known' : InPlace(f, place)'
      BY <1>1, <3>1, <3>2, PathStays DEF InPlace
    <3> QED BY <1>1, <3>1, <3>2, <3>3 DEF Honest, OnceInv
  <2>2. CASE ~Complete(hierarchy)
    <3> DEFINE H == {e.url : e \in hierarchy}
    <3>1. H \in SUBSET Templates /\ RootTemplate \in H
      BY <1>1, <1>2 DEF TypeOK, Entry, WalkInv, RootEntry
    <3>2. ASSUME NEW t \in H, NEW u \in nest[t] PROVE u \in H
      <4>1. PICK e \in hierarchy : e.url = t
        OBVIOUS
      <4>2. ~missed /\ u \in nest[e.url] \ Pending(e)
        BY <1>1, <1>3, <4>1 DEF RInv, Pending
      <4>3. Followed(e, u)
        BY <1>1, <4>2 DEF SoundInv
      <4> QED BY <1>2, <4>3 DEF Followed, ChildOf
    <3>3. H # Templates
      BY <2>2 DEF Complete
    <3>4. /\ nest \in [Templates -> SUBSET Templates]
          /\ \A t \in Templates \ {RootTemplate} : \E p \in Templates : t \in nest[p]
      BY <1>1, <1>3, OneParent
    <3>5. Deep
      <4> HIDE DEF H
      <4> QED BY <3>1, <3>2, <3>3, <3>4, Unreached
    <3> QED BY <1>1, <2>2, <3>5, PathStays DEF Honest
  <2> QED BY <2>1, <2>2
<1> QED BY <1>1, <1>3, StaysSealed

LEMMA ChangeHonest == ASSUME IInv, RInv, Change PROVE RInv'
<1>1. /\ UNCHANGED <<nest, pc, queue, current, description, children, hierarchy>>
      /\ moved' = (pc # "start") /\ TypeOK /\ DOMAIN sets' = DOMAIN sets
  BY ChangeTyped DEF Change, IInv
<1>2. PICK i \in DOMAIN sets :
        \/ ChangeLinks(i) /\ missed' = (missed \/ SetRead(i)) /\ UNCHANGED stacks
        \/ ChangeBody(i) /\ missed' = (missed \/ BodyRead(i)) /\ UNCHANGED stacks
        \/ ChangeStack(i) /\ missed' = (missed \/ StackRead(i)) /\ UNCHANGED sets
  BY DEF Change
<1>3. \A j \in DOMAIN sets' : sets'[j].stack \in DOMAIN sets'
  <2>1. \A j \in DOMAIN sets : sets[j] \in ChangeSet /\ sets[j].stack \in DOMAIN sets
    BY <1>1 DEF RInv, TypeOK
  <2>2. sets[i] \in ChangeSet /\ sets[i].stack \in DOMAIN sets
    BY <2>1
  <2> DEFINE Within(s) == s.stack \in DOMAIN sets
  <2>3. ASSUME ChangeLinks(i)
        PROVE  \E s : sets' = [sets EXCEPT ![i] = s] /\ Within(s)
    <3>1. \A x \in Others(sets[i].stack) \ {Nothing} : Within([sets[i] EXCEPT !.stack = x])
      BY <2>2 DEF ChangeSet, Others
    <3>2. \A x : /\ Within([sets[i] EXCEPT !.parent = x])
                 /\ Within([sets[i] EXCEPT !.root = x])
                 /\ Within([sets[i] EXCEPT !.odd = x])
      BY <2>2 DEF ChangeSet
    <3>3. /\ Within([sets[i] EXCEPT !.complete = ~@])
          /\ Within([sets[i] EXCEPT !.available = ~@])
          /\ Within([sets[i] EXCEPT !.invoked = ~@])
      BY <2>2 DEF ChangeSet
    <3>4. \A t, x : /\ Within([sets[i] EXCEPT !.child[t] = x])
                    /\ Within([sets[i] EXCEPT !.physical[t] = x])
      BY <2>2 DEF ChangeSet
    <3> HIDE DEF Within
    <3> QED BY <2>3, <3>1, <3>2, <3>3, <3>4 DEF ChangeLinks
  <2>4. ASSUME ChangeBody(i)
        PROVE  \E s : sets' = [sets EXCEPT ![i] = s] /\ Within(s)
    <3>1. \A x : Within([sets[i] EXCEPT !.body = x])
      BY <2>2 DEF ChangeSet
    <3> HIDE DEF Within
    <3> QED BY <2>4, <3>1 DEF ChangeBody
  <2>5. CASE UNCHANGED sets
    BY <2>1, <2>5
  <2>6. CASE \E s : sets' = [sets EXCEPT ![i] = s] /\ s.stack \in DOMAIN sets
    BY <1>1, <2>1, <2>6
  <2> QED BY <1>2, <2>3, <2>4, <2>5, <2>6
<1>4. pc = "start" => ~missed'
  <2> SUFFICES ASSUME pc = "start" PROVE ~missed'
    OBVIOUS
  <2>1. hierarchy = {} /\ queue = <<>> /\ ~missed
    BY DEF IInv, RInv
  <2>2. ~SetRead(i) /\ ~BodyRead(i) /\ ~StackRead(i)
    BY <2>1 DEF SetRead, BodyRead, StackRead
  <2> QED BY <1>2, <2>1, <2>2
<1> QED BY <1>1, <1>3, <1>4 DEF RInv

LEMMA StutterHonest == ASSUME IInv, RInv, UNCHANGED vars PROVE RInv'
<1>1. /\ UNCHANGED <<nest, sets, stacks, changes, moved, missed>>
      /\ UNCHANGED <<pc, queue, current, description, children, hierarchy>>
  BY DEF vars
<1>2. \A place : /\ SealedAt(place)' <=> SealedAt(place)
                 /\ Honest(place)' <=> Honest(place)
  <2>1. Known' = Known /\ Waiting' = Waiting /\ Taken' = Taken /\ NextChild' = NextChild /\ Newest' = Newest
    BY <1>1 DEF Known, Waiting, Taken, NextChild, Newest
  <2>2. \A f, place : InPlace(f, place)' <=> InPlace(f, place)
    BY <1>1, PathStays DEF InPlace
  <2>3. OnceInv' <=> OnceInv
    BY <1>1, <2>1 DEF OnceInv, Met
  <2>4. \A place : SealedAt(place)' <=> SealedAt(place)
    BY <1>1 DEF SealedAt, Placed, NestedAt
  <2>5. \A place : Honest(place)' <=> Honest(place)
    BY <1>1, <2>1, <2>2, <2>3, PathStays DEF Honest
  <2> QED BY <2>4, <2>5
<1> QED BY <1>1, <1>2 DEF RInv

-----------------------------------------------------------------------------
(* The theorems *)

LEMMA StutterKeeps ==
  ASSUME IInv, UNCHANGED vars
  PROVE  IInv'
<1>1. /\ UNCHANGED <<nest, sets, stacks, changes, moved, missed>>
      /\ UNCHANGED <<pc, queue, current, description, children, hierarchy>>
  BY DEF vars
<1>2. TypeOK' <=> TypeOK
  BY <1>1 DEF TypeOK
<1>3. WalkInv' <=> WalkInv
  BY <1>1 DEF WalkInv, Known, Waiting, Traversed, Complete
<1>4. Known' = Known /\ Newest' = Newest /\ NextChild' = NextChild
  BY <1>1 DEF Known, Waiting, Newest, NextChild
<1>5. SoundInv' <=> SoundInv
  <2>1. \A e, t : Followed(e, t)' <=> Followed(e, t)
    BY <1>1, <1>4, StaysHeld DEF Followed
  <2>2. \A e : Pending(e)' = Pending(e)
    BY <1>1 DEF Pending
  <2> QED BY <1>1, <1>4, <2>1, <2>2, StaysHeld DEF SoundInv, Agrees
<1> QED BY <1>1, <1>2, <1>3, <1>5 DEF IInv

\* Every state the review can be in has the invariant: it began at the root, what it
\* has met it has met once and through its parent, and it has been told the truth.
THEOREM Invariance == Spec => []IInv
<1>1. IInv /\ [Next]_vars => IInv'
  BY DescribeRootStackKeeps, TakeKeeps, ReadTemplateKeeps, DescribeChildKeeps,
     DescribeChildStackKeeps, FinishKeeps, ChangeKeeps, StutterKeeps
     DEF Next, Read
<1> QED BY InitHolds, <1>1, PTL DEF Spec

\* Every variable of the review keeps its type, the hierarchy of _review_create_change_set
\* its bound on the depth, and no template, change set or stack is in it twice.
THEOREM TypeCorrect == Spec => []TypeOK
<1>1. IInv => TypeOK
  BY DEF IInv
<1> QED BY Invariance, <1>1, PTL

\* What review_create_change_set returns is the sealed catalog as it is there at the end,
\* for every catalog and depth and however much changes meanwhile, as long as nothing
\* changes that it has read for the last time.
THEOREM PassedSealed == Spec => []PassedIsSealed
  BY Invariance, PassedMeansSealed, PTL

\* A walk that has stood still before its answer finds a sealed catalog to be one.
LEMMA HonestAlways == Spec => []RInv
<1>1. IInv /\ RInv /\ [Next]_vars => RInv'
  BY DescribeRootStackHonest, TakeHonest, ReadTemplateHonest, DescribeChildHonest,
     DescribeChildStackHonest, FinishHonest, ChangeHonest, StutterHonest
     DEF Next, Read
<1> QED BY InitHonest, Invariance, <1>1, PTL DEF Spec

\* What review_create_change_set refuses without anything having changed under it is not
\* the sealed catalog, or is deeper than MAX_HIERARCHY_DEPTH: for every catalog, every
\* bound on the depth, and whatever is under the ids.
THEOREM RefusedUnsealed == Spec => []RefusedIsNotSealed
<1>1. RInv => RefusedIsNotSealed
  <2> SUFFICES ASSUME RInv, pc = "refused", ~moved, SealedHierarchy(DOMAIN sets) PROVE Deep
    BY DEF RefusedIsNotSealed
  <2>1. PICK place \in [Templates -> DOMAIN sets] : SealedAt(place)
    BY DEF SealedHierarchy
  <2>2. Honest(place)
    BY <2>1 DEF RInv
  <2> QED BY <2>2 DEF Honest
<1> QED BY HonestAlways, <1>1, PTL

=============================================================================
