--------------------------- MODULE DeploymentReview ---------------------------
(***************************************************************************)
(* The review of a change set before it is executed. A release seals a     *)
(* catalog of templates, of which one is the root and each other is nested *)
(* in another. CloudFormation has made a change set for the root and, with *)
(* IncludeNestedStacks, one for every nested stack. The review walks them  *)
(* breadth first, each by two reads of its own and each nested one by two  *)
(* more from its parent, and passes only what is the sealed catalog and    *)
(* nothing else: what passes is executed, and taken apart by its ids if it *)
(* never is.                                                               *)
(*                                                                         *)
(* One step is one read. Between any two of them what is under an id may   *)
(* have become something else.                                             *)
(***************************************************************************)
EXTENDS Naturals, FiniteSets, Sequences

CONSTANTS
  Templates,     \* the sealed templates, each by its literal URL; numbers
  RootTemplate,
  Catalogs,      \* what each template nests: functions, one for a release
  MaxDepth,      \* MAX_HIERARCHY_DEPTH
  MaxChanges     \* bound: how much is not as CloudFormation made it

ASSUME ReviewAssumption ==
  /\ Templates \subseteq Nat \ {0} /\ IsFiniteSet(Templates) /\ RootTemplate \in Templates
  /\ Catalogs \subseteq [Templates -> SUBSET Templates]
  /\ \A n \in Catalogs : \A t \in Templates \ {RootTemplate} :
       n[t] # {} => \E p \in Templates : t \in n[p]
  /\ MaxDepth \in Nat /\ MaxChanges \in Nat

VARIABLES
  nest,       \* the sealed catalog
  sets,       \* what CloudFormation has under each change set id
  stacks,     \* and under each stack id
  changes,    \* how much of that was changed so far
  pc, queue, current, description, children, hierarchy,   \* the review
  moved,      \* something changed during the review,
  missed      \* and something of it after it was read for the last time

cloud == <<nest, sets, stacks, changes, moved, missed>>
review == <<pc, queue, current, description, children, hierarchy>>
vars == <<nest, sets, stacks, changes, pc, queue, current, description, children,
          hierarchy, moved, missed>>

-----------------------------------------------------------------------------
(* What there is to review *)

\* An id is named for the place it was made for: a template under another.
Nothing == <<0, 0>>
Root == <<0, RootTemplate>>
Ids == {Root} \cup {<<t, u>> : t, u \in Templates}
Foreign == 0

\* odd: what it holds besides additions: a conditional resource that may be added, an
\* action that could change or remove something, or a nested stack of no template.
ChangeSet == [body : Templates \cup {Foreign}, stack : Ids, parent : Ids \cup {Nothing},
              root : Ids \cup {Nothing}, complete : BOOLEAN, available : BOOLEAN,
              invoked : BOOLEAN, odd : {"none", "conditional", "unsafe", "orphan"},
              child : [Templates -> Ids \cup {Nothing}],
              physical : [Templates -> Ids \cup {Nothing}]]
Stack == [review : BOOLEAN, parent : Ids \cup {Nothing}, root : Ids \cup {Nothing}]
Entry == [set : Ids, stack : Ids, url : Templates, parent : Ids \cup {Nothing}, depth : Nat]

\* What CloudFormation makes of a sealed catalog.
Made(n) == {Root} \cup {i \in Ids \ {Root} : i[2] \in n[i[1]]}
ParentOf(n, id) == IF id = Root THEN Nothing ELSE CHOOSE i \in Made(n) : i[2] = id[1]
MadeSet(n, id) ==
  [body |-> id[2], stack |-> id, parent |-> ParentOf(n, id),
   root |-> IF id = Root THEN Nothing ELSE Root,
   complete |-> TRUE, available |-> id = Root, invoked |-> TRUE, odd |-> "none",
   child |-> [t \in Templates |-> IF t \in n[id[2]] THEN <<id[2], t>> ELSE Nothing],
   physical |-> [t \in Templates |-> Nothing]]
MadeStack(n, id) ==
  [review |-> TRUE, parent |-> ParentOf(n, id), root |-> IF id = Root THEN Nothing ELSE Root]

TypeOK ==
  /\ nest \in Catalogs
  /\ DOMAIN sets \subseteq Ids /\ \A i \in DOMAIN sets : sets[i] \in ChangeSet
  /\ DOMAIN stacks = DOMAIN sets /\ \A i \in DOMAIN stacks : stacks[i] \in Stack
  /\ changes \in 0..MaxChanges
  /\ pc \in {"start", "take", "template", "edge", "stack", "passed", "refused"}
  /\ queue \in Seq(Entry)
  /\ \A e \in hierarchy : e \in Entry /\ e.depth <= MaxDepth
  /\ \A e, f \in hierarchy : e.url = f.url \/ e.set = f.set \/ e.stack = f.stack => e = f
  /\ pc \in {"template", "edge", "stack"} => current \in Entry /\ description \in ChangeSet
  /\ children \subseteq Templates

Init ==
  /\ nest \in Catalogs
  /\ sets = [i \in Made(nest) |-> MadeSet(nest, i)]
  /\ stacks = [i \in Made(nest) |-> MadeStack(nest, i)]
  /\ changes = 0
  /\ pc = "start" /\ queue = <<>> /\ hierarchy = {} /\ children = {}
  /\ current = [set |-> Root, stack |-> Root, url |-> RootTemplate, parent |-> Nothing, depth |-> 0]
  /\ description = MadeSet(nest, Root)
  /\ moved = FALSE /\ missed = FALSE

-----------------------------------------------------------------------------
(* review_create_change_set *)

Refuse == pc' = "refused" /\ UNCHANGED <<queue, current, description, children, hierarchy>>

\* _describe_review_stack
InReview(stack, parent, root) ==
  /\ stack \in DOMAIN stacks
  /\ stacks[stack] = [review |-> TRUE, parent |-> parent, root |-> root]

DescribeRootStack ==
  /\ pc = "start"
  /\ IF InReview(Root, Nothing, Nothing)
     THEN /\ queue' = <<[set |-> Root, stack |-> Root, url |-> RootTemplate,
                         parent |-> Nothing, depth |-> 0]>>
          /\ pc' = "take"
          /\ UNCHANGED <<current, description, children, hierarchy>>
     ELSE Refuse
  /\ UNCHANGED cloud

\* Mutant: a template may be nested twice.
TraversedSet(e) == \E h \in hierarchy : h.set = e.set \/ h.stack = e.stack

Traversed(e) == \E h \in hierarchy : h.url = e.url \/ h.set = e.set \/ h.stack = e.stack

\* The name, parameters, role, capabilities, tags and options are those of the request.
AsInvoked(d, e) == e.set = Root => d.invoked

\* Mutant: every change set must be available, as the root's.
LinkedAvailable(d, e) ==
  /\ d.stack = e.stack /\ d.complete /\ d.parent = e.parent
  /\ d.root = (IF e.set = Root THEN Nothing ELSE Root)
  /\ d.available /\ AsInvoked(d, e)

\* Mutant: the parent is believed as to the stack.
LinkedByParent(d, e) ==
  /\ d.complete /\ d.parent = e.parent
  /\ d.root = (IF e.set = Root THEN Nothing ELSE Root)
  /\ d.available = (e.set = Root)
  /\ AsInvoked(d, e)

\* Only the root can be executed, and it must be what was asked for.
Linked(d, e) ==
  /\ d.stack = e.stack /\ d.complete
  /\ d.parent = e.parent
  /\ d.root = (IF e.set = Root THEN Nothing ELSE Root)
  /\ d.available = (e.set = Root)
  /\ AsInvoked(d, e)

\* Mutant: what is met again is not taken.
TakeNew ==
  /\ pc = "take" /\ queue # <<>>
  /\ LET e == Head(queue) IN
     /\ ~Traversed(e)
     /\ IF e.depth > MaxDepth \/ ~Linked(sets[e.set], e)
        THEN Refuse
        ELSE /\ current' = e /\ description' = sets[e.set]
             /\ queue' = Tail(queue)
             /\ pc' = "template"
             /\ UNCHANGED <<children, hierarchy>>
  /\ UNCHANGED cloud

Take ==
  /\ pc = "take" /\ queue # <<>>
  /\ LET e == Head(queue) IN
     IF e.depth > MaxDepth \/ Traversed(e) \/ ~Linked(sets[e.set], e)
     THEN Refuse
     ELSE /\ current' = e /\ description' = sets[e.set]
          /\ queue' = Tail(queue)
          /\ pc' = "template"
          /\ UNCHANGED <<children, hierarchy>>
  /\ UNCHANGED cloud

\* _nested_change_sets: every nested stack of the template has a child of its own, and
\* nothing else has one; besides there are only additions.
Edges(d, nested) ==
  /\ d.odd \in {"none", "conditional"}
  /\ \A t \in Templates : d.child[t] # Nothing <=> t \in nested
  /\ \A t, u \in nested : d.child[t] = d.child[u] => t = u

\* _nested_template_urls, of a template that is the sealed one
NestedUrls(url) == nest[url]

\* The template is asked for on its own, after the description.
ReadTemplate ==
  /\ pc = "template"
  /\ IF sets[current.set].body = current.url /\ Edges(description, NestedUrls(current.url))
     THEN /\ hierarchy' = hierarchy \cup {current}
          /\ children' = NestedUrls(current.url)
          /\ pc' = IF children' = {} THEN "take" ELSE "edge"
          /\ UNCHANGED <<queue, current, description>>
     ELSE Refuse
  /\ UNCHANGED cloud

\* The nested stacks one by one, in some order.
NextChild == CHOOSE t \in children : TRUE

\* The child tells its stack, which the parent may have told too. It is described
\* again when it is taken from the queue.
DescribeChild ==
  /\ pc = "edge"
  /\ LET child == description.child[NextChild]
         physical == description.physical[NextChild]
     IN IF child \in DOMAIN sets /\ physical \in {Nothing, sets[child].stack}
        THEN /\ queue' = Append(queue, [set |-> child, stack |-> sets[child].stack, url |-> NextChild,
                                        parent |-> current.set, depth |-> current.depth + 1])
             /\ pc' = "stack"
             /\ UNCHANGED <<current, description, children, hierarchy>>
        ELSE Refuse
  /\ UNCHANGED cloud

DescribeChildStack ==
  /\ pc = "stack"
  /\ IF InReview(queue[Len(queue)].stack, current.stack, Root)
     THEN /\ children' = children \ {NextChild}
          /\ pc' = IF children' = {} THEN "take" ELSE "edge"
          /\ UNCHANGED <<queue, current, description, hierarchy>>
     ELSE Refuse
  /\ UNCHANGED cloud

\* Every sealed template was met, and each but once.
Complete(h) == {e.url : e \in h} = Templates

Finish ==
  /\ pc = "take" /\ queue = <<>>
  /\ pc' = IF Complete(hierarchy) THEN "passed" ELSE "refused"
  /\ UNCHANGED <<queue, current, description, children, hierarchy>>
  /\ UNCHANGED cloud

-----------------------------------------------------------------------------
(* What is under an id may not be, or not stay, what CloudFormation made. *)

\* Has the review read all it reads of this: a description, a template, a stack?
BodyRead(i) == \E e \in hierarchy : e.set = i
SetRead(i) == BodyRead(i) \/ (pc = "template" /\ current.set = i)
StackRead(i) ==
  \/ i = Root /\ pc # "start"
  \/ \E k \in DOMAIN queue : queue[k].stack = i /\ (pc = "stack" => k # Len(queue))
  \/ \E e \in hierarchy : e.stack = i
  \/ pc = "template" /\ current.stack = i

Others(x) == (DOMAIN sets \cup {Nothing}) \ {x}

ChangeLinks(i) ==
  LET s == sets[i] IN
  \/ \E x \in Others(s.stack) \ {Nothing} : sets' = [sets EXCEPT ![i].stack = x]
  \/ \E x \in Others(s.parent) : sets' = [sets EXCEPT ![i].parent = x]
  \/ \E x \in Others(s.root) : sets' = [sets EXCEPT ![i].root = x]
  \/ sets' = [sets EXCEPT ![i].complete = ~@]
  \/ sets' = [sets EXCEPT ![i].available = ~@]
  \/ i = Root /\ sets' = [sets EXCEPT ![i].invoked = ~@]
  \/ \E o \in {"conditional", "unsafe", "orphan"} : sets' = [sets EXCEPT ![i].odd = o]
  \/ \E t \in Templates, x \in DOMAIN sets \cup {Nothing} :
       sets' = [sets EXCEPT ![i].child[t] = x] \/ sets' = [sets EXCEPT ![i].physical[t] = x]

ChangeBody(i) ==
  \E b \in (Templates \cup {Foreign}) \ {sets[i].body} : sets' = [sets EXCEPT ![i].body = b]

ChangeStack(i) ==
  \/ stacks' = [stacks EXCEPT ![i].review = ~@]
  \/ \E x \in Others(stacks[i].parent) : stacks' = [stacks EXCEPT ![i].parent = x]
  \/ \E x \in Others(stacks[i].root) : stacks' = [stacks EXCEPT ![i].root = x]

Change ==
  /\ changes < MaxChanges /\ changes' = changes + 1
  /\ pc \notin {"passed", "refused"}
  /\ moved' = (pc # "start")
  /\ \E i \in DOMAIN sets :
       \/ ChangeLinks(i) /\ missed' = (missed \/ SetRead(i)) /\ UNCHANGED stacks
       \/ ChangeBody(i) /\ missed' = (missed \/ BodyRead(i)) /\ UNCHANGED stacks
       \/ ChangeStack(i) /\ missed' = (missed \/ StackRead(i)) /\ UNCHANGED sets
  /\ UNCHANGED <<nest, pc, queue, current, description, children, hierarchy>>

Read == DescribeRootStack \/ Take \/ ReadTemplate \/ DescribeChild \/ DescribeChildStack \/ Finish

Next == Read \/ Change

Spec == Init /\ [][Next]_vars

\* The review goes on until it has an answer.
FairSpec == Spec /\ WF_vars(Read)

-----------------------------------------------------------------------------
(* Properties *)

\* A template in its place, and one that is nested in it, linked both ways.
Placed(place, t) ==
  LET s == sets[place[t]] IN
  /\ s.body = t /\ s.complete /\ s.odd \notin {"unsafe", "orphan"}
  /\ s.available <=> t = RootTemplate
  /\ \A u \in Templates \ nest[t] : s.child[u] = Nothing
NestedAt(place, t, u) ==
  LET s == sets[place[t]]
      v == sets[place[u]]
  IN /\ s.child[u] = place[u] /\ s.physical[u] \in {Nothing, v.stack}
     /\ v.parent = place[t] /\ v.root = Root
     /\ stacks[v.stack] = [review |-> TRUE, parent |-> s.stack, root |-> Root]

\* What is under the root id is the sealed catalog: every template in one place, and
\* in each place the template, linked to its parent's place both ways.
SealedAt(place) ==
  /\ place[RootTemplate] = Root
  /\ \A t, u \in Templates : (place[t] = place[u] \/ sets[place[t]].stack = sets[place[u]].stack) => t = u
  /\ \A t \in Templates : Cardinality({p \in Templates : t \in nest[p]}) = IF t = RootTemplate THEN 0 ELSE 1
  /\ sets[Root].stack = Root /\ sets[Root].parent = Nothing /\ sets[Root].root = Nothing
  /\ sets[Root].invoked
  /\ stacks[Root] = [review |-> TRUE, parent |-> Nothing, root |-> Nothing]
  /\ \A t \in Templates : Placed(place, t) /\ \A u \in nest[t] : NestedAt(place, t, u)
SealedHierarchy(places) == \E place \in [Templates -> places] : SealedAt(place)

\* A review passes what is the sealed catalog, though it is read piece by piece while
\* it may be changing: with no change after the last read of a piece, what is there at
\* the end is the catalog, under the ids the review tells.
PassedIsSealed ==
  pc = "passed" /\ ~missed =>
    /\ SealedHierarchy({e.set : e \in hierarchy})
    /\ \A e \in hierarchy : sets[e.set].stack = e.stack

\* And nothing is refused that was the sealed catalog all along, unless that is deeper
\* than the bound.
Deep == \E chain \in [0..MaxDepth + 1 -> Templates] : \A k \in 0..MaxDepth : chain[k + 1] \in nest[chain[k]]
RefusedIsNotSealed == pc = "refused" /\ ~moved => ~SealedHierarchy(DOMAIN sets) \/ Deep

\* Whatever the hierarchy is, the walk over it comes to an end.
ReviewEnds == <>(pc \in {"passed", "refused"})

=============================================================================
