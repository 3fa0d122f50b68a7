-------------------------- MODULE TransientsProofs --------------------------
(***************************************************************************)
(* Proofs about module Transients, for one smoke or two, any number of     *)
(* phones tried, and a reaper interrupted and run again any number of      *)
(* times.                                                                  *)
(*                                                                         *)
(* The argument: while the controller runs, it is aware of whatever may    *)
(* exist in Vapi, by its id or as a POST in doubt, and the cleanup takes   *)
(* the phone, the binding, the assistant and the tool in an order in which *)
(* each is known to be gone before the next is touched. That needs no      *)
(* assumption about Vapi. For what the journal and the reaper do, a        *)
(* deleted object has to stay deleted: the entries of each object are then *)
(* complete as long as it may exist, and the reaper, which knows only what *)
(* it finds there, has sealed whatever was requested before it deletes     *)
(* anything.                                                               *)
(***************************************************************************)
EXTENDS Transients, TLAPS

-----------------------------------------------------------------------------
(* The inductive invariant: what the controller knows *)

Alive == ctl.pc \notin Over
Posting == {"intent", "request", "post"}
Clearing == {"rm_owner", "rm_request", "rm_intent"}

\* An object of kind k is being created, or was and is about to be sealed.
Making(k) == ctl.kind = k /\ ctl.pc \in Posting \cup {"seal"}

\* The controller has its id, or knows a POST of it to be in doubt.
Aware(k) == k \in mem.known \cup mem.doubtful
Unaware(k) == k \notin mem.known \cup mem.doubtful \cup mem.wanted

Awareness ==
  /\ Alive => \A k \in Kinds : vapi[k] # "none" => Aware(k)
  /\ \A k \in Kinds : Aware(k) => k \in mem.wanted
  /\ ctl.pc = "delete_phone" => "phone" \in mem.known

\* What comes later has not begun.
Unbegun ==
  /\ ctl.pc = "intent" => Unaware(ctl.kind)
  /\ ctl.pc = "request" => ~Aware(ctl.kind) /\ ctl.kind \in mem.wanted
  /\ Making("tool") => Unaware("assistant") /\ Unaware("phone")
  /\ Making("assistant") => Unaware("phone")
  /\ ctl.pc = "bind" => Unaware("phone")

Posted ==
  /\ ctl.pc = "post" => vapi[ctl.kind] = "none" /\ ctl.kind \in mem.doubtful
  /\ ctl.pc = "seal" => vapi[ctl.kind] = "there" /\ ctl.kind \in mem.known

\* The journal of the phone, and then the direct objects, are touched only when
\* there is no phone.
Cleared ==
  /\ ctl.pc \in Clearing => ~Aware("phone")
  /\ ctl.pc \in {"drop_assistant", "drop_tool", "prove_absent"} => Unaware("phone")
  /\ ctl.pc = "decide" /\ ctl.smoke = "web" /\ ~ctl.failed => Unaware("phone")

Bound ==
  /\ Alive /\ binding = "direct" => mem.installed
  /\ Making("tool") \/ Making("assistant") \/ ctl.pc = "bind" => ~mem.installed

Ended ==
  /\ ctl.pc \in {"purge", "clean", "retained"} =>
       binding = "unbound" /\ \A k \in Kinds : vapi[k] = "none"
  /\ ctl.pc \in {"purge", "clean"} => ~stack
  /\ ctl.pc = "clean" => \A k \in Kinds : journal[k] = {}
  /\ reaper # "off" => ctl.pc \in Over \ {"retained"}

ControllerInv == Awareness /\ Unbegun /\ Posted /\ Cleared /\ Bound /\ Ended

-----------------------------------------------------------------------------
(* The inductive invariant: what the journal tells, where deleted is deleted *)

Announced ==
  /\ ctl.pc = "request" => "intent" \in journal[ctl.kind]
  /\ ctl.pc \in {"post", "seal"} => {"intent", "request"} \subseteq journal[ctl.kind]

\* The controller knows of the phone's ownership entry until it has removed it:
\* no request is removed, and no phone posted, next to the ownership of another.
OwnerFiled ==
  /\ Alive /\ "owner" \in journal["phone"] => "owner" \in mem.filed["phone"]
  /\ "owner" \in mem.filed["phone"] => "phone" \in mem.wanted
  /\ ctl.pc \in {"rm_request", "rm_intent"} => "owner" \notin mem.filed["phone"]
  /\ ctl.pc \in Posting /\ ctl.kind = "phone" => "owner" \notin mem.filed["phone"]

\* Ownership is journaled only of what has been seen.
Unowned ==
  /\ \A k \in Kinds : "owner" \in journal[k] => vapi[k] # "pending"
  /\ ctl.pc \in Posting => "owner" \notin journal[ctl.kind]
  /\ Making("tool") => "owner" \notin journal["assistant"]

\* What the reaper has behind it, place by place.
Sealed(k) == "request" \in journal[k] => "owner" \in journal[k]
AfterPhoneDeleted == {"unbind", "drop_assistant", "drop_tool", "stack", "purge"}
AfterPhoneSealed == AfterPhoneDeleted \cup {"drop_phone"}
AfterAssistantSealed == AfterPhoneSealed \cup {"seal_phone"}
AfterToolSealed == AfterAssistantSealed \cup {"seal_assistant"}

Reaped ==
  /\ reaper \in AfterToolSealed => Sealed("tool")
  /\ reaper \in AfterAssistantSealed => Sealed("assistant")
  /\ reaper \in AfterPhoneSealed => Sealed("phone")
  /\ reaper \in AfterPhoneDeleted => vapi["phone"] = "none"
  /\ reaper = "drop_assistant" /\ "owner" \in journal["assistant"] => binding = "unbound"
  /\ reaper \in {"drop_tool", "stack", "purge"} => vapi["assistant"] = "none"
  /\ reaper \in {"stack", "purge"} => vapi["tool"] = "none"

\* A phone may be there, or about to be, that answers with the direct assistant.
Answering ==
  /\ ctl.smoke = "web"
  /\ \/ Making("phone") \/ ctl.pc = "probe"
     \/ ctl.pass = "retry" /\ ctl.pc \in {"find_phone", "delete_phone"} \cup Clearing

Supported ==
  /\ \A k \in Kinds : vapi[k] # "hidden"
  /\ Making("assistant") \/ ctl.pc = "bind" => vapi["tool"] = "there"
  /\ ctl.pc = "bind" \/ Answering => vapi["assistant"] = "there"
  /\ Alive /\ ctl.pc # "purge" => stack
  /\ ctl.kind = "phone" /\ ctl.pc \in {"request", "post"} =>
       (callee = "direct" <=> ctl.smoke = "web")

RecoveryInv ==
  /\ Announced /\ OwnerFiled /\ Unowned /\ Reaped /\ Supported
  /\ WriteAhead /\ NothingDangles

IInv == TypeOK /\ ControllerInv /\ (~flickers => RecoveryInv)

USE DEF Kinds, Direct, Over, Alive, Posting, Clearing, Making, Aware, Unaware

-----------------------------------------------------------------------------
(* What the operators return *)

\* The controller goes on elsewhere, and changes nothing else of its state.
LEMMA GotoIs ==
  ASSUME ctl \in Control, NEW p \in PC
  PROVE  /\ Goto(p) \in Control
         /\ Goto(p).pc = p /\ Goto(p).kind = ctl.kind /\ Goto(p).smoke = ctl.smoke
         /\ Goto(p).pass = ctl.pass /\ Goto(p).failed = ctl.failed
  BY DEF Goto, Control

\* An exception takes the controller to the cleanup of its smoke.
LEMMA FailingIs ==
  ASSUME ctl \in Control
  PROVE  /\ Failing \in Control
         /\ Failing.pc = "find_phone" /\ Failing.kind = ctl.kind /\ Failing.smoke = ctl.smoke
         /\ Failing.pass = "smoke" /\ Failing.failed
  BY DEF Failing, Control, PC

\* The controller begins to create an object.
LEMMA ProvisionIs ==
  ASSUME ctl \in Control, NEW k \in Kinds
  PROVE  /\ Provision(k) \in Control
         /\ Provision(k).pc = "intent" /\ Provision(k).kind = k
         /\ Provision(k).smoke = ctl.smoke /\ Provision(k).pass = ctl.pass
         /\ Provision(k).failed = ctl.failed
  BY DEF Provision, Control, PC

\* From a cleaned up phone the controller goes on to another phone, to the cleanup
\* of its smoke, to the decision what is next, or to the direct objects.
LEMMA AfterPhoneIs ==
  ASSUME ctl \in Control, NEW err \in BOOLEAN
  PROVE  /\ AfterPhone(err) \in Control
         /\ AfterPhone(err).smoke = ctl.smoke
         /\ \/ /\ ~err /\ ctl.pass = "retry" /\ AfterPhone(err).pass = "retry"
               /\ AfterPhone(err).pc = "intent" /\ AfterPhone(err).kind = "phone"
            \/ /\ AfterPhone(err).pc = "find_phone" /\ AfterPhone(err).pass = "smoke"
               /\ AfterPhone(err).kind = ctl.kind
            \/ /\ ctl.smoke = "sip" /\ AfterPhone(err).pc = "decide"
               /\ AfterPhone(err).pass = ctl.pass /\ AfterPhone(err).kind = ctl.kind
            \/ /\ AfterPhone(err).pc = "unbind" /\ ctl.pass # "retry"
               /\ AfterPhone(err).pass = ctl.pass /\ AfterPhone(err).kind = ctl.kind
<1>1. CASE ctl.pass = "retry" /\ (err \/ ctl.attempt = MaxAttempts)
  <2>1. AfterPhone(err) = Failing
    BY <1>1 DEF AfterPhone
  <2> QED BY <2>1, FailingIs
<1>2. CASE ctl.pass = "retry" /\ ~err /\ ctl.attempt # MaxAttempts
  <2>1. AfterPhone(err) = [Provision("phone") EXCEPT !.attempt = @ + 1]
    BY <1>2 DEF AfterPhone
  <2>2. ctl.attempt \in 1..MaxAttempts /\ MaxAttempts \in Nat \ {0}
    BY TransientsAssumption DEF Control
  <2>3. ctl.attempt + 1 \in 1..MaxAttempts
    BY <1>2, <2>2
  <2>4. Provision("phone") \in Control /\ Provision("phone").attempt = ctl.attempt
    BY DEF Provision, Control, PC
  <2> QED BY <1>2, <2>1, <2>3, <2>4, ProvisionIs DEF Control
<1>3. CASE ctl.pass = "smoke" /\ ctl.smoke = "sip"
  <2>1. AfterPhone(err) = [ctl EXCEPT !.pc = "decide", !.failed = @ \/ err, !.errors = FALSE]
    BY <1>3 DEF AfterPhone
  <2> QED BY <1>3, <2>1 DEF Control, PC
<1>4. CASE ctl.pass # "retry" /\ ~(ctl.pass = "smoke" /\ ctl.smoke = "sip")
  <2>1. AfterPhone(err) = [ctl EXCEPT !.pc = "unbind", !.errors = err]
    BY <1>4 DEF AfterPhone
  <2> QED BY <1>4, <2>1 DEF Control, PC
<1> QED BY <1>1, <1>2, <1>3, <1>4

\* From the direct objects the controller goes on to the decision what is next, or
\* in the final cleanup to the stack.
LEMMA AfterDirectIs ==
  ASSUME ctl \in Control, NEW err \in BOOLEAN
  PROVE  /\ AfterDirect(err) \in Control
         /\ AfterDirect(err).pc \in {"stack", "decide"}
         /\ AfterDirect(err).kind = ctl.kind /\ AfterDirect(err).smoke = ctl.smoke
         /\ AfterDirect(err).pass = ctl.pass
         /\ err => AfterDirect(err).failed
  BY ZenonT(60) DEF AfterDirect, Control, PC

\* A put adds its entry, or may have if it failed, and touches no other.
LEMMA PutIs ==
  ASSUME journal \in [Kinds -> SUBSET Entries],
         NEW k \in Kinds, NEW e \in Entries, NEW ok \in BOOLEAN, Put(k, e, ok)
  PROVE  /\ journal' \in [Kinds -> SUBSET Entries]
         /\ flickers' = flickers
         /\ \A x \in Kinds : /\ journal[x] \subseteq journal'[x]
                             /\ journal'[x] \subseteq journal[x] \cup {e}
         /\ \A x \in Kinds \ {k} : journal'[x] = journal[x]
         /\ ok => e \in journal'[k]
  BY DEF Put

\* A removed entry is gone, or may be if the call failed, and no other is touched.
LEMMA RemoveEntryIs ==
  ASSUME journal \in [Kinds -> SUBSET Entries],
         NEW k \in Kinds, NEW e \in Entries, NEW ok \in BOOLEAN, RemoveEntry(k, e, ok)
  PROVE  /\ journal' \in [Kinds -> SUBSET Entries]
         /\ \A x \in Kinds : journal'[x] \subseteq journal[x]
         /\ \A x \in Kinds \ {k} : journal'[x] = journal[x]
         /\ \A x \in Entries \ {e} : x \in journal[k] => x \in journal'[k]
         /\ ok => e \notin journal'[k]
  BY DEF RemoveEntry

\* A deletion makes an object absent, or hides it; one that failed may have.
LEMMA DeleteOwnedIs ==
  ASSUME vapi \in [Kinds -> Presence], NEW k \in Kinds, NEW ok \in BOOLEAN, DeleteOwned(k, ok)
  PROVE  /\ vapi' \in [Kinds -> Presence]
         /\ \A x \in Kinds \ {k} : vapi'[x] = vapi[x]
         /\ ok => vapi'[k] = "none"
         /\ ~flickers => vapi'[k] \in {vapi[k], "none"}
<1>1. Deleted \in {"hidden", "none"} /\ (~flickers => Deleted = "none")
  BY DEF Deleted
<1>2. \/ vapi' = vapi /\ ~ok
      \/ vapi' = [vapi EXCEPT ![k] = "none"]
      \/ vapi' = [vapi EXCEPT ![k] = Deleted] /\ ~ok
  BY DEF DeleteOwned, Absent
<1> QED BY <1>1, <1>2 DEF Presence

-----------------------------------------------------------------------------
(* No reaper starts before the controller is over *)

\* While the controller runs, there is no reaper.
LEMMA NoReaperYet ==
  ASSUME IInv, Alive
  PROVE  reaper = "off"
BY DEF IInv, ControllerInv, Ended

\* As long as there is none, it has not done anything.
LEMMA NothingReaped ==
  ASSUME reaper' = "off"
  PROVE  Reaped'
BY DEF Reaped, AfterToolSealed, AfterAssistantSealed, AfterPhoneSealed, AfterPhoneDeleted

-----------------------------------------------------------------------------
(* The controller provisions *)

\* The intent is written before anything of its kind exists, and wanted from then on.
LEMMA WriteIntentKeeps ==
  ASSUME IInv, WriteIntent
  PROVE  IInv'
<1> DEFINE k == ctl.kind
<1>1. PICK ok \in BOOLEAN :
        /\ Put(k, "intent", ok)
        /\ mem' = [mem EXCEPT !.wanted = @ \cup {k},
                              !.filed[k] = IF ok THEN @ \cup {"intent"} ELSE @,
                              !.required = @ \/ (ok /\ k = "tool")]
        /\ Proceed(ok, "request")
  BY DEF WriteIntent
<1>2. /\ mem' \in Memory
      /\ mem'.known = mem.known /\ mem'.doubtful = mem.doubtful
      /\ mem'.installed = mem.installed /\ mem'.wanted = mem.wanted \cup {k}
      /\ "owner" \in mem'.filed["phone"] <=> "owner" \in mem.filed["phone"]
  BY <1>1 DEF IInv, TypeOK, Memory, Control, Entries
<1>3. /\ ctl' \in Control
      /\ ctl'.kind = k /\ ctl'.smoke = ctl.smoke
      /\ \/ ok /\ ctl'.pc = "request" /\ ctl'.pass = ctl.pass
         \/ ~ok /\ ctl'.pc = "find_phone" /\ ctl'.pass = "smoke"
  BY <1>1, GotoIs, FailingIs DEF IInv, TypeOK, Proceed, PC
<1>4. /\ journal' \in [Kinds -> SUBSET Entries]
      /\ flickers' = flickers
      /\ \A x \in Kinds : /\ journal[x] \subseteq journal'[x]
                          /\ journal'[x] \subseteq journal[x] \cup {"intent"}
      /\ ok => "intent" \in journal'[k]
  BY <1>1, PutIs DEF IInv, TypeOK, Control, Entries
<1>5. /\ ctl.pc = "intent" /\ UNCHANGED <<vapi, binding, stack, reaper, reruns>>
      /\ callee' = IF k = "phone" /\ ctl.smoke = "sip" THEN "product" ELSE "direct"
  BY DEF WriteIntent, At
<1>6. TypeOK'
  BY <1>2, <1>3, <1>4, <1>5 DEF IInv, TypeOK
<1>7. ControllerInv'
  BY <1>2, <1>3, <1>5
  DEF IInv, TypeOK, Control, ControllerInv, Awareness, Unbegun, Posted, Cleared, Bound, Ended
<1>8. ASSUME ~flickers PROVE RecoveryInv'
  BY <1>2, <1>3, <1>4, <1>5, <1>8, NoReaperYet, NothingReaped
  DEF IInv, TypeOK, Control, ControllerInv, Awareness, Unbegun, Ended, RecoveryInv, Announced,
      OwnerFiled, Unowned, Answering, Supported, WriteAhead, NothingDangles
<1> QED BY <1>4, <1>6, <1>7, <1>8 DEF IInv

\* The request is written, and the POST in doubt, before it is sent.
LEMMA WriteRequestKeeps ==
  ASSUME IInv, WriteRequest
  PROVE  IInv'
<1> DEFINE k == ctl.kind
<1>1. PICK ok \in BOOLEAN :
        /\ Put(k, "request", ok)
        /\ mem' = IF ok THEN [mem EXCEPT !.filed[k] = @ \cup {"request"},
                                         !.doubtful = @ \cup {k}]
                  ELSE mem
        /\ Proceed(ok, "post")
  BY DEF WriteRequest
<1>2. /\ mem' \in Memory
      /\ mem'.known = mem.known /\ mem'.wanted = mem.wanted
      /\ mem'.doubtful = IF ok THEN mem.doubtful \cup {k} ELSE mem.doubtful
      /\ mem'.installed = mem.installed
      /\ "owner" \in mem'.filed["phone"] <=> "owner" \in mem.filed["phone"]
  BY <1>1 DEF IInv, TypeOK, Memory, Control, Entries
<1>3. /\ ctl' \in Control
      /\ ctl'.kind = k /\ ctl'.smoke = ctl.smoke
      /\ \/ ok /\ ctl'.pc = "post" /\ ctl'.pass = ctl.pass
         \/ ~ok /\ ctl'.pc = "find_phone" /\ ctl'.pass = "smoke"
  BY <1>1, GotoIs, FailingIs DEF IInv, TypeOK, Proceed, PC
<1>4. /\ journal' \in [Kinds -> SUBSET Entries]
      /\ flickers' = flickers
      /\ \A x \in Kinds : /\ journal[x] \subseteq journal'[x]
                          /\ journal'[x] \subseteq journal[x] \cup {"request"}
      /\ ok => "request" \in journal'[k]
  BY <1>1, PutIs DEF IInv, TypeOK, Control, Entries
<1>5. ctl.pc = "request" /\ UNCHANGED <<vapi, callee, binding, stack, reaper, reruns>>
  BY DEF WriteRequest, At
<1>6. TypeOK'
  BY <1>2, <1>3, <1>4, <1>5 DEF IInv, TypeOK
<1>7. ControllerInv'
  BY <1>2, <1>3, <1>5
  DEF IInv, TypeOK, Control, ControllerInv, Awareness, Unbegun, Posted, Cleared, Bound, Ended
<1>8. ASSUME ~flickers PROVE RecoveryInv'
  BY <1>2, <1>3, <1>4, <1>5, <1>8, NoReaperYet, NothingReaped
  DEF IInv, TypeOK, Control, ControllerInv, Awareness, Unbegun, Ended, RecoveryInv, Announced,
      OwnerFiled, Unowned, Answering, Supported, WriteAhead, NothingDangles
<1> QED BY <1>4, <1>6, <1>7, <1>8 DEF IInv

\* What is posted has been announced, and what it refers to is there.
LEMMA PostKeeps ==
  ASSUME IInv, Post
  PROVE  IInv'
<1> DEFINE k == ctl.kind
<1>1. /\ ctl.pc = "post" /\ k \in Kinds
      /\ vapi' = [vapi EXCEPT ![k] = "there"]
      /\ UNCHANGED <<callee, binding, stack, journal, reaper, reruns, flickers>>
  BY DEF Post, At, IInv, TypeOK, Control
<1>2. /\ mem' \in Memory
      /\ mem'.known = mem.known \cup {k} /\ mem'.doubtful = mem.doubtful
      /\ mem'.wanted = mem.wanted /\ mem'.installed = mem.installed
      /\ mem'.filed = mem.filed
  BY <1>1 DEF Post, IInv, TypeOK, Memory
<1>3. /\ ctl' \in Control /\ ctl'.pc = "seal"
      /\ ctl'.kind = k /\ ctl'.smoke = ctl.smoke /\ ctl'.pass = ctl.pass
  BY GotoIs DEF Post, IInv, TypeOK, PC
<1>4. /\ vapi' \in [Kinds -> Presence]
      /\ vapi'[k] = "there" /\ \A x \in Kinds \ {k} : vapi'[x] = vapi[x]
  BY <1>1 DEF IInv, TypeOK, Presence
<1>5. TypeOK'
  BY <1>1, <1>2, <1>3, <1>4 DEF IInv, TypeOK
<1>6. ControllerInv'
  BY <1>1, <1>2, <1>3, <1>4
  DEF IInv, TypeOK, Control, ControllerInv, Awareness, Unbegun, Posted, Cleared, Bound, Ended
<1>7. ASSUME ~flickers PROVE RecoveryInv'
  BY <1>1, <1>2, <1>3, <1>4, <1>7, NoReaperYet, NothingReaped
  DEF IInv, TypeOK, Control, ControllerInv, Awareness, Unbegun, Posted, Ended, RecoveryInv,
      Announced, OwnerFiled, Unowned, Answering, Supported, WriteAhead, NothingDangles
<1> QED BY <1>1, <1>5, <1>6, <1>7 DEF IInv

\* A POST without an answer leaves the controller in doubt.
LEMMA PostFailedKeeps ==
  ASSUME IInv, PostFailed
  PROVE  IInv'
<1> DEFINE k == ctl.kind
<1>1. /\ ctl.pc = "post" /\ k \in Kinds
      /\ UNCHANGED <<callee, binding, stack, journal, mem, reaper, reruns, flickers>>
  BY DEF PostFailed, At, IInv, TypeOK, Control
<1>2. PICK p \in {"none", "pending", "there"} : vapi' = [vapi EXCEPT ![k] = p]
  BY DEF PostFailed
<1>3. /\ ctl' \in Control /\ ctl'.pc = "find_phone"
      /\ ctl'.kind = k /\ ctl'.smoke = ctl.smoke /\ ctl'.pass = "smoke"
  BY FailingIs DEF PostFailed, IInv, TypeOK
<1>4. /\ vapi' \in [Kinds -> Presence]
      /\ vapi'[k] = p /\ \A x \in Kinds \ {k} : vapi'[x] = vapi[x]
  BY <1>1, <1>2 DEF IInv, TypeOK, Presence
<1>5. TypeOK'
  BY <1>1, <1>3, <1>4 DEF IInv, TypeOK
<1>6. ControllerInv'
  BY <1>1, <1>3, <1>4
  DEF IInv, TypeOK, Control, ControllerInv, Awareness, Unbegun, Posted, Cleared, Bound, Ended
<1>7. ASSUME ~flickers PROVE RecoveryInv'
  BY <1>1, <1>2, <1>3, <1>4, <1>7, NoReaperYet, NothingReaped
  DEF IInv, TypeOK, Control, ControllerInv, Awareness, Unbegun, Posted, Ended, RecoveryInv,
      Announced, OwnerFiled, Unowned, Answering, Supported, WriteAhead, NothingDangles
<1> QED BY <1>1, <1>5, <1>6, <1>7 DEF IInv

\* Ownership is journaled of an object whose id is known: no doubt is left.
LEMMA SealKeeps ==
  ASSUME IInv, Seal
  PROVE  IInv'
<1> DEFINE k == ctl.kind
<1>1. PICK ok \in BOOLEAN :
        /\ Put(k, "owner", ok)
        /\ mem' = [mem EXCEPT !.filed[k] = IF ok \/ k = "phone" THEN @ \cup {"owner"} ELSE @,
                              !.doubtful = IF ok THEN @ \ {k} ELSE @]
        /\ ctl' = IF ~ok THEN Failing
                  ELSE CASE k = "tool" -> Provision("assistant")
                         [] k = "assistant" -> Goto("bind")
                         [] k = "phone" -> Goto("probe")
  BY DEF Seal
<1>2. /\ mem' \in Memory
      /\ mem'.known = mem.known /\ mem'.wanted = mem.wanted
      /\ mem'.doubtful = IF ok THEN mem.doubtful \ {k} ELSE mem.doubtful
      /\ mem'.installed = mem.installed
      /\ "owner" \in mem'.filed["phone"] <=> k = "phone" \/ "owner" \in mem.filed["phone"]
  BY <1>1 DEF IInv, TypeOK, Memory, Control, Entries
<1>3. /\ ctl' \in Control /\ ctl'.smoke = ctl.smoke
      /\ \/ ~ok /\ ctl'.pc = "find_phone" /\ ctl'.kind = k /\ ctl'.pass = "smoke"
         \/ ok /\ k = "tool" /\ ctl'.pc = "intent" /\ ctl'.kind = "assistant"
         \/ ok /\ k = "assistant" /\ ctl'.pc = "bind" /\ ctl'.kind = k
         \/ ok /\ k = "phone" /\ ctl'.pc = "probe" /\ ctl'.kind = k
      /\ ok => ctl'.pass = ctl.pass
  <2>1. k \in Kinds /\ ctl \in Control
    BY DEF IInv, TypeOK, Control
  <2>2. CASE ~ok
    BY <1>1, <2>1, <2>2, FailingIs
  <2>3. CASE ok /\ k = "tool"
    BY <1>1, <2>1, <2>3, ProvisionIs
  <2>4. CASE ok /\ k = "assistant"
    BY <1>1, <2>1, <2>4, GotoIs DEF PC
  <2>5. CASE ok /\ k = "phone"
    BY <1>1, <2>1, <2>5, GotoIs DEF PC
  <2> QED BY <2>1, <2>2, <2>3, <2>4, <2>5
<1>4. /\ journal' \in [Kinds -> SUBSET Entries]
      /\ flickers' = flickers
      /\ \A x \in Kinds : /\ journal[x] \subseteq journal'[x]
                          /\ journal'[x] \subseteq journal[x] \cup {"owner"}
      /\ \A x \in Kinds \ {k} : journal'[x] = journal[x]
  BY <1>1, PutIs DEF IInv, TypeOK, Control, Entries
<1>5. ctl.pc = "seal" /\ UNCHANGED <<vapi, callee, binding, stack, reaper, reruns>>
  BY DEF Seal, At
<1>6. TypeOK'
  BY <1>2, <1>3, <1>4, <1>5 DEF IInv, TypeOK
<1>7. ControllerInv'
  BY <1>2, <1>3, <1>5
  DEF IInv, TypeOK, Control, ControllerInv, Awareness, Unbegun, Posted, Cleared, Bound, Ended
<1>8. ASSUME ~flickers PROVE RecoveryInv'
  BY <1>2, <1>3, <1>4, <1>5, <1>8, NoReaperYet, NothingReaped
  DEF IInv, TypeOK, Control, ControllerInv, Awareness, Unbegun, Posted, Ended, RecoveryInv,
      Announced, OwnerFiled, Unowned, Answering, Supported, WriteAhead, NothingDangles
<1> QED BY <1>4, <1>6, <1>7, <1>8 DEF IInv

\* The binding counts as installed, whether or not it was written.
LEMMA BindKeeps ==
  ASSUME IInv, Bind
  PROVE  IInv'
<1>1. /\ ctl.pc = "bind" /\ UNCHANGED <<vapi, callee, stack, journal, reaper, reruns, flickers>>
      /\ mem' = [mem EXCEPT !.installed = TRUE]
  BY DEF Bind, At
<1>2. /\ mem' \in Memory
      /\ mem'.known = mem.known /\ mem'.doubtful = mem.doubtful /\ mem'.wanted = mem.wanted
      /\ mem'.filed = mem.filed /\ mem'.installed
  BY <1>1 DEF IInv, TypeOK, Memory
<1>3. /\ ctl' \in Control /\ ctl'.smoke = ctl.smoke
      /\ \/ ctl'.pc = "intent" /\ ctl'.kind = "phone"
         \/ ctl'.pc = "find_phone" /\ ctl'.kind = ctl.kind /\ ctl'.pass = "smoke"
  BY ProvisionIs, FailingIs DEF Bind, IInv, TypeOK
<1>4. binding' \in {binding, "direct"}
  BY DEF Bind
<1>5. TypeOK'
  BY <1>1, <1>2, <1>3, <1>4 DEF IInv, TypeOK
<1>6. ControllerInv'
  BY <1>1, <1>2, <1>3, <1>4
  DEF IInv, TypeOK, Control, ControllerInv, Awareness, Unbegun, Posted, Cleared, Bound, Ended
<1>7. ASSUME ~flickers PROVE RecoveryInv'
  BY <1>1, <1>2, <1>3, <1>4, <1>7, NoReaperYet, NothingReaped
  DEF IInv, TypeOK, Control, ControllerInv, Awareness, Unbegun, Posted, Ended, RecoveryInv,
      Announced, OwnerFiled, Unowned, Answering, Supported, WriteAhead, NothingDangles
<1> QED BY <1>1, <1>5, <1>6, <1>7 DEF IInv

\* A phone that does not answer is cleaned up, or the whole smoke is.
LEMMA ProbeKeeps ==
  ASSUME IInv, Probe
  PROVE  IInv'
<1>1. /\ ctl.pc = "probe"
      /\ UNCHANGED <<vapi, callee, binding, stack, journal, mem, reaper, reruns, flickers>>
  BY DEF Probe, At
<1>2. /\ ctl' \in Control /\ ctl'.kind = ctl.kind /\ ctl'.smoke = ctl.smoke
      /\ \/ ctl'.pc = "use"
         \/ ctl'.pc = "find_phone" /\ ctl'.pass \in {"smoke", "retry"}
  BY GotoIs, FailingIs DEF Probe, IInv, TypeOK, PC, Control
<1>3. TypeOK'
  BY <1>1, <1>2 DEF IInv, TypeOK
<1>4. ControllerInv'
  BY <1>1, <1>2
  DEF IInv, TypeOK, Control, ControllerInv, Awareness, Unbegun, Posted, Cleared, Bound, Ended
<1>5. ASSUME ~flickers PROVE RecoveryInv'
  BY <1>1, <1>2, <1>5, NoReaperYet, NothingReaped
  DEF IInv, TypeOK, Control, ControllerInv, Awareness, Unbegun, Posted, Ended, RecoveryInv,
      Announced, OwnerFiled, Unowned, Answering, Supported, WriteAhead, NothingDangles
<1> QED BY <1>1, <1>3, <1>4, <1>5 DEF IInv

\* A smoke ends in its cleanup.
LEMMA UseKeeps ==
  ASSUME IInv, Use
  PROVE  IInv'
<1>1. /\ ctl.pc = "use"
      /\ UNCHANGED <<vapi, callee, binding, stack, journal, mem, reaper, reruns, flickers>>
  BY DEF Use, At
<1>2. /\ ctl' \in Control /\ ctl'.kind = ctl.kind /\ ctl'.smoke = ctl.smoke
      /\ ctl'.pc = "find_phone" /\ ctl'.pass = "smoke"
  BY DEF Use, IInv, TypeOK, PC, Control
<1>3. TypeOK'
  BY <1>1, <1>2 DEF IInv, TypeOK
<1>4. ControllerInv'
  BY <1>1, <1>2
  DEF IInv, TypeOK, Control, ControllerInv, Awareness, Unbegun, Posted, Cleared, Bound, Ended
<1>5. ASSUME ~flickers PROVE RecoveryInv'
  BY <1>1, <1>2, <1>5, NoReaperYet, NothingReaped
  DEF IInv, TypeOK, Control, ControllerInv, Awareness, Unbegun, Posted, Ended, RecoveryInv,
      Announced, OwnerFiled, Unowned, Answering, Supported, WriteAhead, NothingDangles
<1> QED BY <1>1, <1>3, <1>4, <1>5 DEF IInv

-----------------------------------------------------------------------------
(* cleanup_sip_transients *)

\* Looking for a phone changes nothing, but for the ownership of one it finds.
LEMMA FindPhoneDoes ==
  ASSUME TypeOK, FindPhone
  PROVE  /\ mem' \in Memory
         /\ journal' \in [Kinds -> SUBSET Entries]
         /\ flickers' = flickers
         /\ \/ UNCHANGED <<mem, journal>>
            \/ /\ "phone" \in mem.wanted /\ vapi["phone"] = "there"
               /\ mem'.doubtful = mem.doubtful /\ mem'.wanted = mem.wanted
               /\ mem'.installed = mem.installed
               /\ mem'.known = mem.known \cup {"phone"} /\ "owner" \in mem'.filed["phone"]
               /\ \A x \in Kinds \ {"phone"} : journal'[x] = journal[x]
               /\ journal["phone"] \subseteq journal'["phone"]
               /\ journal'["phone"] \subseteq journal["phone"] \cup {"owner"}
<1>1. CASE UNCHANGED <<journal, mem, flickers>>
  BY <1>1 DEF TypeOK
<1>2. ASSUME "phone" \in mem.wanted, vapi["phone"] = "there",
             NEW ok \in BOOLEAN, Put("phone", "owner", ok),
             mem' = [mem EXCEPT !.known = @ \cup {"phone"},
                                !.filed["phone"] = @ \cup {"owner"}]
      PROVE  /\ mem' \in Memory
             /\ mem'.doubtful = mem.doubtful /\ mem'.wanted = mem.wanted
             /\ mem'.installed = mem.installed
             /\ mem'.known = mem.known \cup {"phone"} /\ "owner" \in mem'.filed["phone"]
             /\ journal' \in [Kinds -> SUBSET Entries]
             /\ flickers' = flickers
             /\ \A x \in Kinds \ {"phone"} : journal'[x] = journal[x]
             /\ journal["phone"] \subseteq journal'["phone"]
             /\ journal'["phone"] \subseteq journal["phone"] \cup {"owner"}
  <2>1. /\ mem' \in Memory
        /\ mem'.doubtful = mem.doubtful /\ mem'.wanted = mem.wanted
        /\ mem'.installed = mem.installed
        /\ mem'.known = mem.known \cup {"phone"} /\ "owner" \in mem'.filed["phone"]
    BY <1>2 DEF TypeOK, Memory, Entries
  <2>2. "owner" \in Entries /\ "phone" \in Kinds
    BY DEF Entries
  <2> QED BY <1>2, <2>1, <2>2, PutIs DEF TypeOK
<1>3. \/ UNCHANGED <<journal, mem, flickers>>
      \/ /\ "phone" \in mem.wanted /\ vapi["phone"] = "there"
         /\ \E ok \in BOOLEAN :
              /\ Put("phone", "owner", ok)
              /\ mem' = [mem EXCEPT !.known = @ \cup {"phone"},
                                    !.filed["phone"] = @ \cup {"owner"}]
  BY DEF FindPhone
<1> QED BY <1>1, <1>2, <1>3

\* From there the controller goes on to the phone, if it knows its id by now; to its
\* journal, if there is none; or past it.
LEMMA FindPhoneGoes ==
  ASSUME TypeOK, FindPhone
  PROVE  /\ ctl' \in Control /\ ctl'.smoke = ctl.smoke
         /\ \/ /\ ctl'.pc = "delete_phone" /\ ctl'.kind = ctl.kind /\ ctl'.pass = ctl.pass
               /\ "phone" \in mem'.known
            \/ /\ ctl'.pc = "rm_owner" /\ ctl'.kind = ctl.kind /\ ctl'.pass = ctl.pass
               /\ vapi["phone"] # "there" /\ "phone" \notin mem'.known \cup mem'.doubtful
            \/ /\ "phone" \notin mem'.wanted /\ ctl.pass = "retry" /\ ctl'.pass = "retry"
               /\ ctl'.pc = "intent" /\ ctl'.kind = "phone"
            \/ ctl'.pc = "find_phone" /\ ctl'.pass = "smoke"
            \/ ctl.smoke = "sip" /\ ctl'.pc = "decide"
            \/ ctl'.pc = "unbind"
<1>1. \/ ctl' = Goto("delete_phone") /\ "phone" \in mem'.known
      \/ ctl' = AfterPhone(FALSE) /\ "phone" \notin mem'.wanted
      \/ ctl' = AfterPhone(TRUE)
      \/ /\ ctl' = Goto("rm_owner") /\ vapi["phone"] # "there"
         /\ "phone" \notin mem'.known \cup mem'.doubtful
  <2>1. mem' = [mem EXCEPT !.known = @ \cup {"phone"}, !.filed["phone"] = @ \cup {"owner"}]
        => "phone" \in mem'.known
    BY DEF TypeOK, Memory
  <2> QED BY <2>1 DEF FindPhone
<1>2. CASE ctl' = Goto("delete_phone") /\ "phone" \in mem'.known
  BY <1>2, GotoIs DEF TypeOK, PC
<1>3. CASE ctl' = AfterPhone(FALSE) /\ "phone" \notin mem'.wanted
  BY <1>3, AfterPhoneIs DEF TypeOK
<1>4. CASE ctl' = AfterPhone(TRUE)
  BY <1>4, AfterPhoneIs DEF TypeOK
<1>5. CASE /\ ctl' = Goto("rm_owner") /\ vapi["phone"] # "there"
           /\ "phone" \notin mem'.known \cup mem'.doubtful
  BY <1>5, GotoIs DEF TypeOK, PC
<1> QED BY <1>1, <1>2, <1>3, <1>4, <1>5

\* The journal of the phone is cleared only if there is no phone.
LEMMA FindPhoneKeeps ==
  ASSUME IInv, FindPhone
  PROVE  IInv'
<1>1. ctl.pc = "find_phone" /\ UNCHANGED <<vapi, callee, binding, stack, reaper, reruns>>
  BY DEF FindPhone, At
<1>2. TypeOK'
  BY <1>1, FindPhoneDoes, FindPhoneGoes DEF IInv, TypeOK
<1>3. ControllerInv'
  BY <1>1, FindPhoneDoes, FindPhoneGoes
  DEF IInv, TypeOK, Control, ControllerInv, Awareness, Unbegun, Posted, Cleared, Bound, Ended
<1>4. ASSUME ~flickers PROVE RecoveryInv'
  BY <1>1, <1>4, FindPhoneDoes, FindPhoneGoes, NoReaperYet, NothingReaped
  DEF IInv, TypeOK, Control, ControllerInv, Awareness, Unbegun, Ended, RecoveryInv,
      Announced, OwnerFiled, Unowned, Answering, Supported, WriteAhead, NothingDangles
<1> QED BY <1>2, <1>3, <1>4, FindPhoneDoes DEF IInv

\* The controller forgets the phone only when it has stayed away.
LEMMA DeletePhoneKeeps ==
  ASSUME IInv, DeletePhone
  PROVE  IInv'
<1>1. PICK ok \in BOOLEAN :
        /\ DeleteOwned("phone", ok)
        /\ mem' = IF ok THEN [mem EXCEPT !.known = @ \ {"phone"}, !.doubtful = @ \ {"phone"}]
                  ELSE mem
        /\ ctl' = IF ok THEN Goto("rm_owner") ELSE AfterPhone(TRUE)
  BY DEF DeletePhone
<1>2. /\ ctl.pc = "delete_phone"
      /\ UNCHANGED <<callee, binding, stack, journal, reaper, reruns, flickers>>
  BY DEF DeletePhone, At
<1>3. /\ mem' \in Memory
      /\ mem'.known = (IF ok THEN mem.known \ {"phone"} ELSE mem.known)
      /\ mem'.doubtful = (IF ok THEN mem.doubtful \ {"phone"} ELSE mem.doubtful)
      /\ mem'.wanted = mem.wanted /\ mem'.installed = mem.installed
      /\ mem'.filed = mem.filed
  BY <1>1 DEF IInv, TypeOK, Memory
<1>4. /\ ctl' \in Control /\ ctl'.smoke = ctl.smoke
      /\ \/ /\ ok /\ ctl'.pc = "rm_owner" /\ ctl'.kind = ctl.kind /\ ctl'.pass = ctl.pass
         \/ ~ok /\ ctl'.pc = "find_phone" /\ ctl'.pass = "smoke"
         \/ ~ok /\ ctl.smoke = "sip" /\ ctl'.pc = "decide"
         \/ ~ok /\ ctl'.pc = "unbind"
  BY <1>1, GotoIs, AfterPhoneIs DEF IInv, TypeOK, PC
<1>5. /\ vapi' \in [Kinds -> Presence]
      /\ \A x \in Kinds \ {"phone"} : vapi'[x] = vapi[x]
      /\ ok => vapi'["phone"] = "none"
      /\ ~flickers => vapi'["phone"] \in {vapi["phone"], "none"}
  BY <1>1, DeleteOwnedIs DEF IInv, TypeOK
<1>6. TypeOK'
  BY <1>2, <1>3, <1>4, <1>5 DEF IInv, TypeOK
<1>7. ControllerInv'
  BY <1>2, <1>3, <1>4, <1>5
  DEF IInv, TypeOK, Control, ControllerInv, Awareness, Unbegun, Posted, Cleared, Bound, Ended
<1>8. ASSUME ~flickers PROVE RecoveryInv'
  BY <1>2, <1>3, <1>4, <1>5, <1>8, NoReaperYet, NothingReaped
  DEF IInv, TypeOK, Control, ControllerInv, Awareness, Unbegun, Ended, RecoveryInv,
      Announced, OwnerFiled, Unowned, Answering, Supported, WriteAhead, NothingDangles
<1> QED BY <1>2, <1>6, <1>7, <1>8 DEF IInv

\* The controller goes on when an entry is removed, or none was there as far as it
\* knows; it leaves the rest as it is when a removal fails.
LEMMA UnfileIs ==
  ASSUME TypeOK, NEW e \in Entries, NEW p \in PC, Unfile(e, Goto(p))
  PROVE  /\ mem' \in Memory
         /\ mem'.known = mem.known /\ mem'.doubtful = mem.doubtful
         /\ mem'.wanted = mem.wanted /\ mem'.installed = mem.installed
         /\ mem'.filed["phone"] \in {mem.filed["phone"], mem.filed["phone"] \ {e}}
         /\ journal' \in [Kinds -> SUBSET Entries]
         /\ \A x \in Kinds : journal'[x] \subseteq journal[x]
         /\ \A x \in Kinds \ {"phone"} : journal'[x] = journal[x]
         /\ journal["phone"] \ {e} \subseteq journal'["phone"]
         /\ ctl' \in Control /\ ctl'.smoke = ctl.smoke
         /\ \/ /\ ctl'.pc = p /\ ctl'.kind = ctl.kind /\ ctl'.pass = ctl.pass
               /\ e \notin mem'.filed["phone"]
               /\ e \in mem.filed["phone"] => e \notin journal'["phone"]
            \/ /\ mem' = mem
               /\ \/ ctl'.pc = "find_phone" /\ ctl'.pass = "smoke"
                  \/ ctl.smoke = "sip" /\ ctl'.pc = "decide"
                  \/ ctl'.pc = "unbind"
<1>1. CASE e \notin mem.filed["phone"]
  BY <1>1, GotoIs, ZenonT(60) DEF Unfile, TypeOK
<1>2. CASE e \in mem.filed["phone"]
  <2>1. PICK ok \in BOOLEAN :
          /\ RemoveEntry("phone", e, ok)
          /\ mem' = IF ok THEN [mem EXCEPT !.filed["phone"] = @ \ {e}] ELSE mem
          /\ ctl' = IF ok THEN Goto(p) ELSE AfterPhone(TRUE)
    BY <1>2 DEF Unfile
  <2>2. /\ mem' \in Memory
        /\ mem'.known = mem.known /\ mem'.doubtful = mem.doubtful
        /\ mem'.wanted = mem.wanted /\ mem'.installed = mem.installed
        /\ mem'.filed["phone"] = IF ok THEN mem.filed["phone"] \ {e} ELSE mem.filed["phone"]
    BY <2>1 DEF TypeOK, Memory
  <2>3. /\ journal' \in [Kinds -> SUBSET Entries]
        /\ \A x \in Kinds : journal'[x] \subseteq journal[x]
        /\ \A x \in Kinds \ {"phone"} : journal'[x] = journal[x]
        /\ journal["phone"] \ {e} \subseteq journal'["phone"]
        /\ ok => e \notin journal'["phone"]
    BY <2>1, RemoveEntryIs DEF TypeOK
  <2>4. CASE ok
    BY <2>1, <2>2, <2>3, <2>4, GotoIs DEF TypeOK
  <2>5. CASE ~ok
    BY <2>1, <2>2, <2>3, <2>5, AfterPhoneIs DEF TypeOK
  <2> QED BY <2>4, <2>5
<1> QED BY <1>1, <1>2

\* The ownership goes first, ...
LEMMA RemoveOwnerKeeps ==
  ASSUME IInv, RemoveOwner
  PROVE  IInv'
<1>1. /\ ctl.pc = "rm_owner" /\ Unfile("owner", Goto("rm_request"))
      /\ UNCHANGED <<vapi, callee, binding, stack, reaper, reruns, flickers>>
      /\ "owner" \in Entries /\ "rm_request" \in PC
  BY DEF RemoveOwner, At, Entries, PC
<1>2. TypeOK'
  BY <1>1, UnfileIs DEF IInv, TypeOK
<1>3. ControllerInv'
  BY <1>1, UnfileIs
  DEF IInv, TypeOK, Control, ControllerInv, Awareness, Unbegun, Posted, Cleared, Bound, Ended
<1>4. ASSUME ~flickers PROVE RecoveryInv'
  BY <1>1, <1>4, UnfileIs, NoReaperYet, NothingReaped
  DEF IInv, TypeOK, Control, ControllerInv, Awareness, Cleared, Ended, RecoveryInv,
      Announced, OwnerFiled, Unowned, Answering, Supported, WriteAhead, NothingDangles
<1> QED BY <1>1, <1>2, <1>3, <1>4 DEF IInv

\* ... then the request, of a phone that is gone, ...
LEMMA RemoveRequestKeeps ==
  ASSUME IInv, RemoveRequest
  PROVE  IInv'
<1>1. /\ ctl.pc = "rm_request" /\ Unfile("request", Goto("rm_intent"))
      /\ UNCHANGED <<vapi, callee, binding, stack, reaper, reruns, flickers>>
      /\ "request" \in Entries /\ "rm_intent" \in PC
  BY DEF RemoveRequest, At, Entries, PC
<1>2. TypeOK'
  BY <1>1, UnfileIs DEF IInv, TypeOK
<1>3. ControllerInv'
  BY <1>1, UnfileIs
  DEF IInv, TypeOK, Control, ControllerInv, Awareness, Unbegun, Posted, Cleared, Bound, Ended
<1>4. ASSUME ~flickers PROVE RecoveryInv'
  BY <1>1, <1>4, UnfileIs, NoReaperYet, NothingReaped
  DEF IInv, TypeOK, Control, ControllerInv, Awareness, Cleared, Ended, RecoveryInv,
      Announced, OwnerFiled, Unowned, Answering, Supported, WriteAhead, NothingDangles
<1> QED BY <1>1, <1>2, <1>3, <1>4 DEF IInv

\* ... and with the intent the phone is no longer wanted.
LEMMA RemoveIntentKeeps ==
  ASSUME IInv, RemoveIntent
  PROVE  IInv'
<1>1. /\ ctl.pc = "rm_intent"
      /\ UNCHANGED <<vapi, callee, binding, stack, reaper, reruns, flickers>>
  BY DEF RemoveIntent, At
<1>2. PICK ok \in BOOLEAN :
        /\ UNCHANGED journal \/ RemoveEntry("phone", "intent", ok)
        /\ \/ mem' = [mem EXCEPT !.wanted = @ \ {"phone"}]
           \/ mem' = [mem EXCEPT !.filed["phone"] = {}, !.wanted = @ \ {"phone"}]
           \/ ~ok /\ mem' = mem
        /\ ctl' = AfterPhone(~ok)
  <2>1. CASE "intent" \in mem.filed["phone"]
    BY <2>1 DEF RemoveIntent
  <2>2. CASE "intent" \notin mem.filed["phone"]
    <3>1. ctl' = AfterPhone(~TRUE) /\ UNCHANGED journal
          /\ mem' = [mem EXCEPT !.wanted = @ \ {"phone"}]
      BY <2>2 DEF RemoveIntent
    <3> QED BY <3>1
  <2> QED BY <2>1, <2>2
<1>3. /\ mem' \in Memory
      /\ mem'.known = mem.known /\ mem'.doubtful = mem.doubtful
      /\ mem'.installed = mem.installed
      /\ mem'.filed["phone"] \subseteq mem.filed["phone"]
      /\ \/ mem'.wanted = mem.wanted \ {"phone"}
         \/ ~ok /\ mem' = mem
  <2>1. CASE mem' = [mem EXCEPT !.wanted = @ \ {"phone"}]
    BY <2>1 DEF IInv, TypeOK, Memory
  <2>2. CASE mem' = [mem EXCEPT !.filed["phone"] = {}, !.wanted = @ \ {"phone"}]
    BY <2>2 DEF IInv, TypeOK, Memory
  <2>3. CASE ~ok /\ mem' = mem
    BY <2>3 DEF IInv, TypeOK
  <2> QED BY <1>2, <2>1, <2>2, <2>3
<1>4. /\ journal' \in [Kinds -> SUBSET Entries]
      /\ \A x \in Kinds : journal'[x] \subseteq journal[x]
      /\ \A x \in Kinds \ {"phone"} : journal'[x] = journal[x]
  BY <1>2, RemoveEntryIs DEF IInv, TypeOK, Entries
<1>5. /\ ctl' \in Control /\ ctl'.smoke = ctl.smoke
      /\ \/ ok /\ ctl'.pc = "intent" /\ ctl'.kind = "phone"
               /\ ctl.pass = "retry" /\ ctl'.pass = "retry"
         \/ ctl'.pc = "find_phone" /\ ctl'.pass = "smoke"
         \/ ctl.smoke = "sip" /\ ctl'.pc = "decide"
         \/ ctl'.pc = "unbind"
  BY <1>2, AfterPhoneIs DEF IInv, TypeOK
<1>6. TypeOK'
  BY <1>1, <1>3, <1>4, <1>5 DEF IInv, TypeOK
<1>7. ControllerInv'
  BY <1>1, <1>3, <1>4, <1>5
  DEF IInv, TypeOK, Control, ControllerInv, Awareness, Unbegun, Posted, Cleared, Bound, Ended
<1>8. ASSUME ~flickers PROVE RecoveryInv'
  BY <1>1, <1>3, <1>4, <1>5, <1>8, NoReaperYet, NothingReaped
  DEF IInv, TypeOK, Control, ControllerInv, Awareness, Cleared, Ended, RecoveryInv,
      Announced, OwnerFiled, Unowned, Answering, Supported, WriteAhead, NothingDangles
<1> QED BY <1>1, <1>6, <1>7, <1>8 DEF IInv

-----------------------------------------------------------------------------
(* cleanup_direct_assistant *)

\* The identity is unbound only when there is no phone.
LEMMA UnbindKeeps ==
  ASSUME IInv, Unbind
  PROVE  IInv'
<1>1. /\ ctl.pc = "unbind"
      /\ UNCHANGED <<vapi, callee, stack, journal, reaper, reruns, flickers>>
  BY DEF Unbind, At
<1>2. CASE ~Unaware("phone")
  <2>1. /\ UNCHANGED <<binding, mem>> /\ ctl' = AfterDirect(TRUE)
    BY <1>2 DEF Unbind
  <2>2. /\ ctl' \in Control /\ ctl'.pc \in {"stack", "decide"} /\ ctl'.failed
        /\ ctl'.kind = ctl.kind /\ ctl'.smoke = ctl.smoke
    BY <2>1, AfterDirectIs DEF IInv, TypeOK
  <2>3. TypeOK'
    BY <1>1, <2>1, <2>2 DEF IInv, TypeOK
  <2>4. ControllerInv'
    BY <1>1, <2>1, <2>2
    DEF IInv, TypeOK, Control, ControllerInv, Awareness, Unbegun, Posted, Cleared, Bound, Ended
  <2>5. ASSUME ~flickers PROVE RecoveryInv'
    BY <1>1, <2>1, <2>2, <2>5, NoReaperYet, NothingReaped, ZenonT(60)
    DEF IInv, TypeOK, Control, RecoveryInv, Announced, OwnerFiled, Unowned, Answering,
        Supported, WriteAhead, NothingDangles
  <2> QED BY <1>1, <2>3, <2>4, <2>5 DEF IInv
<1>3. CASE Unaware("phone")
  <2>1. /\ mem' \in Memory
        /\ mem'.known = mem.known /\ mem'.doubtful = mem.doubtful
        /\ mem'.wanted = mem.wanted /\ mem'.filed = mem.filed
        /\ binding' \in {"unbound", "direct"}
        /\ \/ UNCHANGED <<binding, mem>>
           \/ binding' = "unbound" /\ mem.installed
           \/ binding' = binding /\ mem'.installed /\ mem.installed
    BY <1>3 DEF Unbind, IInv, TypeOK, Memory
  <2>2. /\ ctl' \in Control /\ ctl'.pc = "drop_assistant"
        /\ ctl'.kind = ctl.kind /\ ctl'.smoke = ctl.smoke
    <3> DEFINE begun == [Goto("drop_assistant") EXCEPT !.tool = "tool" \in mem.known]
    <3>1. /\ begun \in Control /\ begun.pc = "drop_assistant"
          /\ begun.kind = ctl.kind /\ begun.smoke = ctl.smoke
      <4>1. /\ Goto("drop_assistant") \in Control
            /\ Goto("drop_assistant").pc = "drop_assistant"
            /\ Goto("drop_assistant").kind = ctl.kind
            /\ Goto("drop_assistant").smoke = ctl.smoke
        BY GotoIs DEF IInv, TypeOK, PC
      <4>2. ("tool" \in mem.known) \in BOOLEAN
        OBVIOUS
      <4> QED BY <4>1, <4>2 DEF Control
    <3> HIDE DEF begun
    <3>2. ctl' = begun \/ \E ok \in BOOLEAN : ctl' = [begun EXCEPT !.errors = @ \/ ~ok]
      BY <1>3 DEF Unbind, begun
    <3> QED BY <3>1, <3>2 DEF Control
  <2>3. TypeOK'
    BY <1>1, <2>1, <2>2 DEF IInv, TypeOK
  <2>4. ControllerInv'
    BY <1>1, <1>3, <2>1, <2>2
    DEF IInv, TypeOK, Control, ControllerInv, Awareness, Unbegun, Posted, Cleared, Bound, Ended
  <2>5. ASSUME ~flickers PROVE RecoveryInv'
    BY <1>1, <2>1, <2>2, <2>5, NoReaperYet, NothingReaped
    DEF IInv, TypeOK, Control, RecoveryInv, Announced, OwnerFiled, Unowned, Answering,
        Supported, WriteAhead, NothingDangles
  <2> QED BY <1>1, <2>3, <2>4, <2>5 DEF IInv
<1> QED BY <1>2, <1>3

\* What is deleted, or found and not deleted, is as before or gone; the controller is
\* aware of it as long as it may be there, and was before.
LEMMA DropIs ==
  ASSUME TypeOK, NEW k \in Direct, NEW p \in PC, Drop(k, Goto(p)),
         vapi[k] # "none" => Aware(k)
  PROVE  /\ vapi' \in [Kinds -> Presence]
         /\ \A x \in Kinds \ {k} : vapi'[x] = vapi[x]
         /\ ~flickers => vapi'[k] \in {vapi[k], "none"}
         /\ mem' \in Memory
         /\ mem'.wanted = mem.wanted /\ mem'.installed = mem.installed
         /\ mem'.filed = mem.filed
         /\ \A x \in Kinds : Aware(x)' => Aware(x)
         /\ \A x \in Kinds \ {k} : Aware(x) => Aware(x)'
         /\ vapi'[k] # "none" => Aware(k)'
         /\ ctl' \in Control /\ ctl'.pc = p
         /\ ctl'.kind = ctl.kind /\ ctl'.smoke = ctl.smoke
<1>1. ctl' \in Control /\ ctl'.pc = p /\ ctl'.kind = ctl.kind /\ ctl'.smoke = ctl.smoke
  <2>1. \/ ctl' = Goto(p)
        \/ \E ok \in BOOLEAN :
             ctl' = [Goto(p) EXCEPT !.errors = @ \/ ~ok, !.tool = @ \/ k = "tool"]
        \/ ctl' = [Goto(p) EXCEPT !.errors = TRUE]
    BY DEF Drop
  <2>2. /\ Goto(p) \in Control
        /\ Goto(p).pc = p /\ Goto(p).kind = ctl.kind /\ Goto(p).smoke = ctl.smoke
    BY GotoIs DEF TypeOK
  <2> QED BY <2>1, <2>2 DEF Control
<1>2. CASE UNCHANGED <<vapi, mem>>
  BY <1>1, <1>2 DEF TypeOK
<1>3. CASE ~UNCHANGED <<vapi, mem>>
  <2>1. PICK ok \in BOOLEAN : DeleteOwned(k, ok) /\ mem' = Dropped(k, ok)
    BY <1>3 DEF Drop
  <2>2. Aware(k)
    BY <1>3 DEF Drop, Find
  <2>3. /\ mem' \in Memory
        /\ mem'.wanted = mem.wanted /\ mem'.installed = mem.installed
        /\ mem'.filed = mem.filed
        /\ mem'.known = (IF ok THEN mem.known \ {k} ELSE mem.known \cup {k})
        /\ mem'.doubtful = (IF k \in mem.known THEN mem.doubtful ELSE mem.doubtful \ {k})
    BY <2>1 DEF Dropped, TypeOK, Memory
  <2>4. /\ vapi' \in [Kinds -> Presence]
        /\ \A x \in Kinds \ {k} : vapi'[x] = vapi[x]
        /\ ok => vapi'[k] = "none"
        /\ ~flickers => vapi'[k] \in {vapi[k], "none"}
    BY <2>1, DeleteOwnedIs DEF TypeOK
  <2> QED BY <1>1, <2>2, <2>3, <2>4
<1> QED BY <1>2, <1>3

\* The assistant goes only when no identity is bound.
LEMMA DropAssistantKeeps ==
  ASSUME IInv, DropAssistant
  PROVE  IInv'
<1>1. /\ ctl.pc = "drop_assistant"
      /\ UNCHANGED <<callee, binding, stack, journal, reaper, reruns, flickers>>
  BY DEF DropAssistant, At
<1>2. CASE UNCHANGED <<vapi, mem>>
  <2>1. ctl' \in Control /\ ctl'.pc = "drop_tool" /\ ctl'.kind = ctl.kind
        /\ ctl'.smoke = ctl.smoke
    <3>1. CASE Drop("assistant", Goto("drop_tool"))
      BY <1>1, <3>1, DropIs DEF IInv, TypeOK, ControllerInv, Awareness, PC
    <3>2. CASE ~Drop("assistant", Goto("drop_tool"))
      <4>1. \E err \in BOOLEAN : ctl' = [Goto("drop_tool") EXCEPT !.errors = @ \/ err]
        BY <3>2 DEF DropAssistant
      <4>2. "drop_tool" \in PC /\ ctl \in Control
        BY DEF PC, IInv, TypeOK
      <4> QED BY <4>1, <4>2, GotoIs DEF Control
    <3> QED BY <3>1, <3>2
  <2>2. TypeOK'
    BY <1>1, <1>2, <2>1 DEF IInv, TypeOK
  <2>3. ControllerInv'
    BY <1>1, <1>2, <2>1
    DEF IInv, TypeOK, Control, ControllerInv, Awareness, Unbegun, Posted, Cleared, Bound, Ended
  <2>4. ASSUME ~flickers PROVE RecoveryInv'
    BY <1>1, <1>2, <2>1, <2>4, NoReaperYet, NothingReaped
    DEF IInv, TypeOK, Control, RecoveryInv, Announced, OwnerFiled, Unowned, Answering,
        Supported, WriteAhead, NothingDangles
  <2> QED BY <1>1, <2>2, <2>3, <2>4 DEF IInv
<1>3. CASE ~UNCHANGED <<vapi, mem>>
  <2>1. ~mem.installed /\ Drop("assistant", Goto("drop_tool"))
    BY <1>3 DEF DropAssistant
  <2>2. "drop_tool" \in PC /\ (vapi["assistant"] # "none" => Aware("assistant"))
    BY <1>1 DEF PC, IInv, ControllerInv, Awareness
  <2>3. TypeOK'
    BY <1>1, <2>1, <2>2, DropIs DEF IInv, TypeOK
  <2>4. ControllerInv'
    BY <1>1, <2>1, <2>2, DropIs
    DEF IInv, TypeOK, Control, ControllerInv, Awareness, Unbegun, Posted, Cleared, Bound, Ended
  <2>5. ASSUME ~flickers PROVE RecoveryInv'
    BY <1>1, <2>1, <2>2, <2>5, DropIs, NoReaperYet, NothingReaped
    DEF IInv, TypeOK, Control, ControllerInv, Awareness, Cleared, Bound, RecoveryInv, Announced,
        OwnerFiled, Unowned, Answering, Supported, WriteAhead, NothingDangles
  <2> QED BY <1>1, <2>3, <2>4, <2>5 DEF IInv
<1> QED BY <1>2, <1>3

\* The tool goes only when the controller is aware of no assistant.
LEMMA DropToolKeeps ==
  ASSUME IInv, DropTool
  PROVE  IInv'
<1>1. /\ ctl.pc = "drop_tool"
      /\ UNCHANGED <<callee, binding, stack, journal, reaper, reruns, flickers>>
  BY DEF DropTool, At
<1>2. /\ "prove_absent" \in PC /\ ctl \in Control
      /\ \A k \in Kinds : vapi[k] # "none" => Aware(k)
  BY <1>1 DEF PC, IInv, TypeOK, ControllerInv, Awareness
<1>3. CASE Aware("assistant")
  <2>1. UNCHANGED <<vapi, mem>> /\ ctl' = Goto("prove_absent")
    BY <1>3 DEF DropTool
  <2>2. TypeOK'
    BY <1>1, <1>2, <2>1, GotoIs DEF IInv, TypeOK
  <2>3. ControllerInv'
    BY <1>1, <1>2, <2>1, GotoIs
    DEF IInv, TypeOK, Control, ControllerInv, Awareness, Unbegun, Posted, Cleared, Bound, Ended
  <2>4. ASSUME ~flickers PROVE RecoveryInv'
    BY <1>1, <1>2, <2>1, <2>4, GotoIs, NoReaperYet, NothingReaped
    DEF IInv, TypeOK, Control, RecoveryInv, Announced, OwnerFiled, Unowned, Answering,
        Supported, WriteAhead, NothingDangles
  <2> QED BY <1>1, <2>2, <2>3, <2>4 DEF IInv
<1>4. CASE ~Aware("assistant")
  <2>1. Drop("tool", Goto("prove_absent"))
    BY <1>4 DEF DropTool
  <2>2. TypeOK'
    BY <1>1, <1>2, <2>1, DropIs DEF IInv, TypeOK
  <2>3. ControllerInv'
    BY <1>1, <1>2, <2>1, DropIs
    DEF IInv, TypeOK, Control, ControllerInv, Awareness, Unbegun, Posted, Cleared, Bound, Ended
  <2>4. vapi["assistant"] = "none"
    BY <1>2, <1>4
  <2>5. ASSUME ~flickers PROVE RecoveryInv'
    BY <1>1, <1>2, <2>1, <2>4, <2>5, DropIs, NoReaperYet, NothingReaped
    DEF IInv, TypeOK, Control, RecoveryInv, Announced,
        OwnerFiled, Unowned, Answering, Supported, WriteAhead, NothingDangles
  <2> QED BY <1>1, <2>2, <2>3, <2>5 DEF IInv
<1> QED BY <1>3, <1>4

\* The direct objects are no longer wanted when the controller is aware of none.
LEMMA ProveAbsentKeeps ==
  ASSUME IInv, ProveAbsent
  PROVE  IInv'
<1>1. /\ ctl.pc = "prove_absent"
      /\ UNCHANGED <<vapi, callee, binding, stack, journal, reaper, reruns, flickers>>
  BY DEF ProveAbsent, At
<1>2. /\ mem' \in Memory
      /\ mem'.known = mem.known /\ mem'.doubtful = mem.doubtful
      /\ mem'.installed = mem.installed
      /\ mem'.filed["phone"] = mem.filed["phone"]
      /\ \/ mem'.wanted = mem.wanted
         \/ /\ mem'.wanted = mem.wanted \ Direct
            /\ \A k \in Direct : ~Aware(k)
  <2>1. CASE UNCHANGED mem
    BY <2>1 DEF IInv, TypeOK
  <2>2. CASE mem' = Proved /\ \A k \in Direct : ~Aware(k)
    <3>1. /\ mem' \in Memory
          /\ mem'.known = mem.known /\ mem'.doubtful = mem.doubtful
          /\ mem'.installed = mem.installed /\ mem'.wanted = mem.wanted \ Direct
          /\ mem'.filed["phone"] = mem.filed["phone"]
      BY <2>2 DEF Proved, IInv, TypeOK, Memory
    <3> QED BY <2>2, <3>1
  <2> QED BY <2>1, <2>2 DEF ProveAbsent
<1>3. /\ ctl' \in Control /\ ctl'.pc \in {"stack", "decide"}
      /\ ctl'.kind = ctl.kind /\ ctl'.smoke = ctl.smoke
  BY AfterDirectIs DEF ProveAbsent, IInv, TypeOK
<1>4. TypeOK'
  BY <1>1, <1>2, <1>3 DEF IInv, TypeOK
<1>5. ControllerInv'
  BY <1>1, <1>2, <1>3
  DEF IInv, TypeOK, Control, ControllerInv, Awareness, Unbegun, Posted, Cleared, Bound, Ended
<1>6. ASSUME ~flickers PROVE RecoveryInv'
  BY <1>1, <1>2, <1>3, <1>6, NoReaperYet, NothingReaped
  DEF IInv, TypeOK, Control, RecoveryInv, Announced, OwnerFiled, Unowned, Answering,
      Supported, WriteAhead, NothingDangles
<1> QED BY <1>1, <1>4, <1>5, <1>6 DEF IInv

-----------------------------------------------------------------------------
(* The end of a run *)

\* The next smoke begins after one whose phone is gone.
LEMMA NextSmokeKeeps ==
  ASSUME IInv, NextSmoke
  PROVE  IInv'
<1>1. /\ ctl.pc = "decide" /\ ctl.smoke = "web" /\ ~ctl.failed
      /\ UNCHANGED <<vapi, callee, binding, stack, journal, mem, reaper, reruns, flickers>>
  BY DEF NextSmoke, At
<1>2. ctl' \in Control /\ ctl'.pc = "intent" /\ ctl'.kind = "phone" /\ ctl'.smoke = "sip"
  <2>1. 1 \in 1..MaxAttempts
    BY TransientsAssumption
  <2> QED BY <2>1, ProvisionIs, ZenonT(60) DEF NextSmoke, IInv, TypeOK, Control
<1>3. TypeOK'
  BY <1>1, <1>2 DEF IInv, TypeOK
<1>4. ControllerInv'
  BY <1>1, <1>2
  DEF IInv, TypeOK, Control, ControllerInv, Awareness, Unbegun, Posted, Cleared, Bound, Ended
<1>5. ASSUME ~flickers PROVE RecoveryInv'
  BY <1>1, <1>2, <1>5, NoReaperYet, NothingReaped
  DEF IInv, TypeOK, Control, ControllerInv, Awareness, Cleared, RecoveryInv,
      Announced, OwnerFiled, Unowned, Answering, Supported, WriteAhead, NothingDangles
<1> QED BY <1>1, <1>3, <1>4, <1>5 DEF IInv

\* A stack is retained only when there is nothing left to recover.
LEMMA RetainKeeps ==
  ASSUME IInv, Retain
  PROVE  IInv'
<1>1. /\ ctl.pc = "decide" /\ ~PhoneRecovery /\ ~DirectRecovery
      /\ UNCHANGED <<vapi, callee, binding, stack, journal, mem, reaper, reruns, flickers>>
  BY DEF Retain, At
<1>2. ctl' \in Control /\ ctl'.pc = "retained"
  BY GotoIs DEF Retain, IInv, TypeOK, PC
<1>3. ~mem.installed /\ \A k \in Kinds : ~Aware(k)
  BY <1>1 DEF PhoneRecovery, DirectRecovery
<1>4. TypeOK'
  BY <1>1, <1>2 DEF IInv, TypeOK
<1>5. ControllerInv'
  BY <1>1, <1>2, <1>3
  DEF IInv, TypeOK, Control, ControllerInv, Awareness, Unbegun, Posted, Cleared, Bound, Ended
<1>6. ASSUME ~flickers PROVE RecoveryInv'
  BY <1>1, <1>2, <1>6, NoReaperYet, NothingReaped
  DEF IInv, TypeOK, Control, RecoveryInv,
      Announced, OwnerFiled, Unowned, Answering, Supported, WriteAhead, NothingDangles
<1> QED BY <1>1, <1>4, <1>5, <1>6 DEF IInv

\* The final cleanup starts with the phone again.
LEMMA BeginCleanupKeeps ==
  ASSUME IInv, BeginCleanup
  PROVE  IInv'
<1>1. /\ ctl.pc = "decide"
      /\ UNCHANGED <<vapi, callee, binding, stack, journal, mem, reaper, reruns, flickers>>
  BY DEF BeginCleanup, At
<1>2. ctl' \in Control /\ ctl'.pc = "find_phone" /\ ctl'.pass = "final"
  BY GotoIs DEF BeginCleanup, IInv, TypeOK, PC, Control
<1>3. TypeOK'
  BY <1>1, <1>2 DEF IInv, TypeOK
<1>4. ControllerInv'
  BY <1>1, <1>2
  DEF IInv, TypeOK, Control, ControllerInv, Awareness, Unbegun, Posted, Cleared, Bound, Ended
<1>5. ASSUME ~flickers PROVE RecoveryInv'
  BY <1>1, <1>2, <1>5, NoReaperYet, NothingReaped
  DEF IInv, TypeOK, Control, RecoveryInv, Announced, OwnerFiled, Unowned, Answering,
      Supported, WriteAhead, NothingDangles
<1> QED BY <1>1, <1>3, <1>4, <1>5 DEF IInv

\* The stack goes only when the controller is aware of nothing that may exist.
LEMMA DeleteStackKeeps ==
  ASSUME IInv, DeleteStack
  PROVE  IInv'
<1>1. /\ ctl.pc = "stack"
      /\ UNCHANGED <<vapi, callee, journal, mem, reaper, reruns, flickers>>
  BY DEF DeleteStack, At
<1>2. /\ ctl' \in Control /\ ctl'.pc \in {"blocked", "purge"}
      /\ \/ UNCHANGED <<stack, binding>> /\ ctl'.pc = "blocked"
         \/ /\ stack' = FALSE /\ binding' = "unbound"
            /\ \A k \in Kinds : ~Aware(k)
  <2>1. \/ ctl' = Goto("blocked") \/ ctl' = Goto("purge")
    BY DEF DeleteStack
  <2>2. /\ ctl' = Goto("blocked") => ctl' \in Control /\ ctl'.pc = "blocked"
        /\ ctl' = Goto("purge") => ctl' \in Control /\ ctl'.pc = "purge"
    BY GotoIs DEF IInv, TypeOK, PC
  <2>3. \/ UNCHANGED <<stack, binding>> /\ ctl' = Goto("blocked")
        \/ StackGone /\ ~PhoneRecovery /\ ~DirectRecovery
    BY DEF DeleteStack
  <2> QED BY <2>1, <2>2, <2>3 DEF StackGone, PhoneRecovery, DirectRecovery
<1>3. TypeOK'
  BY <1>1, <1>2 DEF IInv, TypeOK
<1>4. ControllerInv'
  BY <1>1, <1>2
  DEF IInv, TypeOK, Control, ControllerInv, Awareness, Unbegun, Posted, Cleared, Bound, Ended
<1>5. \A k \in Kinds : ~Aware(k) => vapi[k] = "none"
  BY <1>1 DEF IInv, ControllerInv, Awareness
<1>6. ASSUME ~flickers PROVE RecoveryInv'
  <2>1. CASE UNCHANGED <<stack, binding>> /\ ctl'.pc = "blocked"
    BY <1>1, <2>1, <1>6, NoReaperYet, NothingReaped
    DEF IInv, TypeOK, Control, RecoveryInv, Announced, OwnerFiled, Unowned, Answering,
        Supported, WriteAhead, NothingDangles
  <2>2. CASE binding' = "unbound" /\ \A k \in Kinds : ~Aware(k)
    BY <1>1, <1>2, <1>5, <2>2, <1>6, NoReaperYet, NothingReaped
    DEF IInv, TypeOK, Control, RecoveryInv, Announced, OwnerFiled, Unowned, Answering,
        Supported, WriteAhead, NothingDangles
  <2> QED BY <1>2, <2>1, <2>2
<1> QED BY <1>1, <1>3, <1>4, <1>6 DEF IInv

\* The journal goes only when nothing exists that it could tell of.
LEMMA PurgeKeeps ==
  ASSUME IInv, Purge
  PROVE  IInv'
<1>1. /\ ctl.pc = "purge"
      /\ UNCHANGED <<vapi, callee, binding, stack, mem, reaper, reruns, flickers>>
  BY DEF Purge, At
<1>2. /\ journal' \in [Kinds -> SUBSET Entries]
      /\ \A k \in Kinds : journal'[k] \subseteq journal[k]
  BY DEF Purge, IInv, TypeOK
<1>3. /\ ctl' \in Control
      /\ \/ ctl'.pc = "clean" /\ \A k \in Kinds : journal'[k] = {}
         \/ ctl'.pc = "blocked"
  BY GotoIs DEF Purge, IInv, TypeOK, PC
<1>4. \A k \in Kinds : vapi[k] = "none"
  BY <1>1 DEF IInv, ControllerInv, Ended
<1>5. TypeOK'
  BY <1>1, <1>2, <1>3 DEF IInv, TypeOK
<1>6. ControllerInv'
  BY <1>1, <1>2, <1>3
  DEF IInv, TypeOK, Control, ControllerInv, Awareness, Unbegun, Posted, Cleared, Bound, Ended
<1>7. ASSUME ~flickers PROVE RecoveryInv'
  BY <1>1, <1>2, <1>3, <1>4, <1>7, NoReaperYet, NothingReaped
  DEF IInv, TypeOK, Control, RecoveryInv, Announced, OwnerFiled, Unowned, Answering,
      Supported, WriteAhead, NothingDangles
<1> QED BY <1>1, <1>5, <1>6, <1>7 DEF IInv

\* A controller that is killed is aware of nothing; the journal is all there is.
LEMMA CrashKeeps ==
  ASSUME IInv, Crash
  PROVE  IInv'
<1>1. /\ Alive
      /\ UNCHANGED <<vapi, callee, binding, stack, journal, reaper, reruns, flickers>>
  BY DEF Crash
<1>2. ctl' \in Control /\ ctl'.pc = "dead"
  BY GotoIs DEF Crash, IInv, TypeOK, PC
<1>3. /\ mem' \in Memory
      /\ mem'.known = {} /\ mem'.doubtful = {} /\ mem'.filed["phone"] = {}
  BY DEF Crash, Forgotten, Memory
<1>4. TypeOK'
  BY <1>1, <1>2, <1>3 DEF IInv, TypeOK
<1>5. ControllerInv'
  BY <1>1, <1>2, <1>3
  DEF IInv, TypeOK, Control, ControllerInv, Awareness, Unbegun, Posted, Cleared, Bound, Ended
<1>6. ASSUME ~flickers PROVE RecoveryInv'
  BY <1>1, <1>2, <1>3, <1>6, NoReaperYet, NothingReaped
  DEF IInv, TypeOK, Control, RecoveryInv, Announced, OwnerFiled, Unowned, Answering,
      Supported, WriteAhead, NothingDangles
<1> QED BY <1>1, <1>4, <1>5, <1>6 DEF IInv

-----------------------------------------------------------------------------
(* The reaper *)

\* What the controller was aware of is no matter once it is over; of its end it is
\* enough that nothing comes back.
LEMMA OverStays ==
  ASSUME IInv, ctl.pc \in Over \ {"retained"}, UNCHANGED <<mem, ctl>>,
         binding' \in {binding, "unbound"}, ~stack => ~stack',
         \A k \in Kinds : vapi[k] = "none" => vapi'[k] = "none",
         \A k \in Kinds : journal[k] = {} => journal'[k] = {}
  PROVE  ControllerInv'
<1>1. mem' = mem /\ ctl' = ctl /\ ctl.pc \in Over /\ ctl.pc # "retained"
  OBVIOUS
<1>2. Awareness'
  BY <1>1 DEF IInv, ControllerInv, Awareness
<1>3. Unbegun' /\ Posted' /\ Cleared' /\ Bound'
  BY <1>1 DEF Unbegun, Posted, Cleared, Bound
<1>4. Ended'
  BY <1>1 DEF IInv, TypeOK, ControllerInv, Ended
<1> QED BY <1>2, <1>3, <1>4 DEF ControllerInv

\* A reaper works only when the controller is over.
LEMMA ReapingIsOver ==
  ASSUME IInv, reaper # "off"
  PROVE  ctl.pc \in Over \ {"retained"}
BY DEF IInv, ControllerInv, Ended

\* A reaper begins with nothing behind it.
LEMMA ReadJournalKeeps ==
  ASSUME IInv, ReadJournal
  PROVE  IInv'
<1>1. /\ ctl.pc \in Over \ {"retained"}
      /\ UNCHANGED <<vapi, callee, binding, stack, journal, mem, ctl, reruns, flickers>>
      /\ reaper' \in {"seal_tool", "refused"}
  BY DEF ReadJournal
<1>2. TypeOK'
  BY <1>1 DEF IInv, TypeOK, ReaperPC
<1>3. ControllerInv'
  BY <1>1, OverStays
<1>4. ASSUME ~flickers PROVE RecoveryInv'
  BY <1>1, <1>4
  DEF IInv, RecoveryInv, Announced, OwnerFiled, Unowned, Reaped, AfterToolSealed,
      AfterAssistantSealed, AfterPhoneSealed, AfterPhoneDeleted, Answering, Supported,
      WriteAhead, NothingDangles
<1> QED BY <1>1, <1>2, <1>3, <1>4 DEF IInv

\* What is sealed was there; if it could not be sealed, the reaper gives up.
LEMMA SealFoundIs ==
  ASSUME TypeOK, NEW k \in Kinds, NEW next \in ReaperPC, SealFound(k, next)
  PROVE  /\ journal' \in [Kinds -> SUBSET Entries] /\ flickers' = flickers
         /\ \A x \in Kinds \ {k} : journal'[x] = journal[x]
         /\ journal[k] = {} => journal'[k] = {}
         /\ journal[k] \subseteq journal'[k]
         /\ "owner" \in journal'[k] => "owner" \in journal[k] \/ vapi[k] = "there"
         /\ "request" \in journal'[k] => "request" \in journal[k]
         /\ \/ reaper' = "refused"
            \/ reaper' = next /\ ("request" \in journal'[k] => "owner" \in journal'[k])
<1>1. CASE "request" \notin journal[k] \/ "owner" \in journal[k]
  BY <1>1 DEF SealFound, TypeOK
<1>2. CASE "request" \in journal[k] /\ "owner" \notin journal[k] /\ vapi[k] = "there"
  <2>1. /\ journal' = [journal EXCEPT ![k] = @ \cup {"owner"}]
        /\ UNCHANGED flickers /\ reaper' = next
    BY <1>2 DEF SealFound
  <2>2. journal' \in [Kinds -> SUBSET Entries] /\ journal'[k] = journal[k] \cup {"owner"}
        /\ \A x \in Kinds \ {k} : journal'[x] = journal[x]
    BY <2>1 DEF TypeOK, Entries
  <2>3. flickers' = flickers
    BY <2>1 DEF TypeOK
  <2> QED BY <1>2, <2>1, <2>2, <2>3
<1>3. CASE "request" \in journal[k] /\ "owner" \notin journal[k] /\ vapi[k] # "there"
  BY <1>3 DEF SealFound, TypeOK
<1> QED BY <1>1, <1>2, <1>3

\* The tool is sealed before the assistant, ...
LEMMA ReapToolKeeps ==
  ASSUME IInv, ReapTool
  PROVE  IInv'
<1>1. /\ reaper = "seal_tool" /\ SealFound("tool", "seal_assistant")
      /\ UNCHANGED <<vapi, callee, binding, stack, mem, ctl, reruns>>
      /\ "seal_assistant" \in ReaperPC /\ "refused" \in ReaperPC
  BY DEF ReapTool, Reaping, ReaperPC
<1>2. ctl.pc \in Over \ {"retained"}
  BY <1>1, ReapingIsOver
<1>3. TypeOK'
  BY <1>1, SealFoundIs DEF IInv, TypeOK
<1>4. ControllerInv'
  BY <1>1, <1>2, SealFoundIs, OverStays DEF IInv
<1>5. ASSUME ~flickers PROVE RecoveryInv'
  BY <1>1, <1>2, <1>5, SealFoundIs
  DEF IInv, RecoveryInv, Announced, OwnerFiled, Unowned, Reaped, AfterToolSealed,
      AfterAssistantSealed, AfterPhoneSealed, AfterPhoneDeleted, Sealed, Answering, Supported,
      WriteAhead, NothingDangles
<1> QED BY <1>1, SealFoundIs, <1>3, <1>4, <1>5 DEF IInv

\* ... the assistant before the phone, ...
LEMMA ReapAssistantKeeps ==
  ASSUME IInv, ReapAssistant
  PROVE  IInv'
<1>1. /\ reaper = "seal_assistant" /\ SealFound("assistant", "seal_phone")
      /\ UNCHANGED <<vapi, callee, binding, stack, mem, ctl, reruns>>
      /\ "seal_phone" \in ReaperPC /\ "refused" \in ReaperPC
  BY DEF ReapAssistant, Reaping, ReaperPC
<1>2. ctl.pc \in Over \ {"retained"}
  BY <1>1, ReapingIsOver
<1>3. TypeOK'
  BY <1>1, SealFoundIs DEF IInv, TypeOK
<1>4. ControllerInv'
  BY <1>1, <1>2, SealFoundIs, OverStays DEF IInv
<1>5. ASSUME ~flickers PROVE RecoveryInv'
  BY <1>1, <1>2, <1>5, SealFoundIs
  DEF IInv, RecoveryInv, Announced, OwnerFiled, Unowned, Reaped, AfterToolSealed,
      AfterAssistantSealed, AfterPhoneSealed, AfterPhoneDeleted, Sealed, Answering, Supported,
      WriteAhead, NothingDangles
<1> QED BY <1>1, SealFoundIs, <1>3, <1>4, <1>5 DEF IInv

\* ... and the phone before anything is deleted.
LEMMA ReapPhoneKeeps ==
  ASSUME IInv, ReapPhone
  PROVE  IInv'
<1>1. /\ reaper = "seal_phone"
      /\ UNCHANGED <<vapi, callee, binding, stack, mem, ctl, reruns>>
      /\ "drop_phone" \in ReaperPC /\ "refused" \in ReaperPC
  BY DEF ReapPhone, Reaping, ReaperPC
<1>2. ctl.pc \in Over \ {"retained"}
  BY <1>1, ReapingIsOver
<1>3. CASE SealFound("phone", "drop_phone")
  <2>1. TypeOK'
    BY <1>1, <1>3, SealFoundIs DEF IInv, TypeOK
  <2>2. ControllerInv'
    BY <1>1, <1>2, <1>3, SealFoundIs, OverStays DEF IInv
  <2>3. ASSUME ~flickers PROVE RecoveryInv'
    BY <1>1, <1>2, <1>3, <2>3, SealFoundIs
    DEF IInv, RecoveryInv, Announced, OwnerFiled, Unowned, Reaped, AfterToolSealed,
        AfterAssistantSealed, AfterPhoneSealed, AfterPhoneDeleted, Sealed, Answering, Supported,
        WriteAhead, NothingDangles
  <2> QED BY <1>1, <1>3, SealFoundIs, <2>1, <2>2, <2>3 DEF IInv
<1>4. CASE reaper' = "refused" /\ UNCHANGED <<journal, flickers>>
  <2>1. TypeOK'
    BY <1>1, <1>4 DEF IInv, TypeOK
  <2>2. ControllerInv'
    BY <1>1, <1>2, <1>4, OverStays
  <2>3. ASSUME ~flickers PROVE RecoveryInv'
    BY <1>1, <1>2, <1>4, <2>3
    DEF IInv, RecoveryInv, Announced, OwnerFiled, Unowned, Reaped, AfterToolSealed,
        AfterAssistantSealed, AfterPhoneSealed, AfterPhoneDeleted, Answering, Supported,
        WriteAhead, NothingDangles
  <2> QED BY <1>4, <2>1, <2>2, <2>3 DEF IInv
<1> QED BY <1>3, <1>4 DEF ReapPhone

\* What was sealed so far, if it is to be deleted, is gone afterwards.
LEMMA ReapDeleteIs ==
  ASSUME IInv, NEW k \in Kinds, NEW next \in ReaperPC, ReapDelete(k, next)
  PROVE  /\ vapi' \in [Kinds -> Presence]
         /\ \A x \in Kinds \ {k} : vapi'[x] = vapi[x]
         /\ vapi[k] = "none" => vapi'[k] = "none"
         /\ reaper' = next
         /\ UNCHANGED <<callee, stack, journal, mem, ctl, reruns, flickers>>
         /\ ~flickers /\ Sealed(k) => vapi'[k] = "none"
<1>1. /\ reaper' = next
      /\ UNCHANGED <<callee, stack, journal, mem, ctl, reruns, flickers>>
      /\ \/ vapi' = vapi /\ ~("owner" \in journal[k] /\ vapi[k] = "there")
         \/ vapi' = [vapi EXCEPT ![k] = Deleted] /\ vapi[k] = "there"
  BY DEF ReapDelete, Recovered
<1>2. Deleted \in {"hidden", "none"} /\ (~flickers => Deleted = "none")
  BY DEF Deleted
<1>3. ~flickers /\ Sealed(k) /\ vapi[k] # "there" => vapi[k] = "none"
  BY DEF IInv, TypeOK, Presence, RecoveryInv, Unowned, Supported, WriteAhead, Sealed
<1>4. ~flickers /\ Sealed(k) /\ vapi[k] # "none" => "owner" \in journal[k]
  BY DEF IInv, RecoveryInv, WriteAhead, Sealed
<1> QED BY <1>1, <1>2, <1>3, <1>4 DEF IInv, TypeOK, Presence

\* A phone that may be there was requested, hence sealed, hence deleted.
LEMMA ReapDropPhoneKeeps ==
  ASSUME IInv, ReapDropPhone
  PROVE  IInv'
<1>1. /\ reaper = "drop_phone" /\ ReapDelete("phone", "unbind") /\ UNCHANGED binding
      /\ "unbind" \in ReaperPC
  BY DEF ReapDropPhone, Reaping, ReaperPC
<1>2. ctl.pc \in Over \ {"retained"}
  BY <1>1, ReapingIsOver
<1>3. TypeOK'
  BY <1>1, ReapDeleteIs DEF IInv, TypeOK
<1>4. ControllerInv'
  BY <1>1, <1>2, ReapDeleteIs, OverStays
<1>5. ASSUME ~flickers PROVE RecoveryInv'
  BY <1>1, <1>2, <1>5, ReapDeleteIs
  DEF IInv, RecoveryInv, Announced, OwnerFiled, Unowned, Reaped, AfterToolSealed,
      AfterAssistantSealed, AfterPhoneSealed, AfterPhoneDeleted, Sealed, Answering, Supported,
      WriteAhead, NothingDangles
<1> QED BY <1>1, ReapDeleteIs, <1>3, <1>4, <1>5 DEF IInv

\* No phone is left when the identity is unbound.
LEMMA ReapUnbindKeeps ==
  ASSUME IInv, ReapUnbind
  PROVE  IInv'
<1>1. /\ reaper = "unbind" /\ reaper' = "drop_assistant" /\ "drop_assistant" \in ReaperPC
      /\ UNCHANGED <<vapi, callee, stack, journal, mem, ctl, reruns, flickers>>
      /\ binding' = IF "owner" \in journal["assistant"] THEN "unbound" ELSE binding
  BY DEF ReapUnbind, Reaping, Recovered, ReaperPC
<1>2. ctl.pc \in Over \ {"retained"}
  BY <1>1, ReapingIsOver
<1>3. TypeOK'
  BY <1>1 DEF IInv, TypeOK
<1>4. ControllerInv'
  BY <1>1, <1>2, OverStays
<1>5. ASSUME ~flickers PROVE RecoveryInv'
  BY <1>1, <1>2, <1>5
  DEF IInv, RecoveryInv, Announced, OwnerFiled, Unowned, Reaped, AfterToolSealed,
      AfterAssistantSealed, AfterPhoneSealed, AfterPhoneDeleted, Sealed, Answering, Supported,
      WriteAhead, NothingDangles
<1> QED BY <1>1, <1>3, <1>4, <1>5 DEF IInv

\* If there may be an assistant, it is sealed, and its identity unbound.
LEMMA ReapDropAssistantKeeps ==
  ASSUME IInv, ReapDropAssistant
  PROVE  IInv'
<1>1. /\ reaper = "drop_assistant" /\ ReapDelete("assistant", "drop_tool")
      /\ UNCHANGED binding /\ "drop_tool" \in ReaperPC
  BY DEF ReapDropAssistant, Reaping, ReaperPC
<1>2. ctl.pc \in Over \ {"retained"}
  BY <1>1, ReapingIsOver
<1>3. TypeOK'
  BY <1>1, ReapDeleteIs DEF IInv, TypeOK
<1>4. ControllerInv'
  BY <1>1, <1>2, ReapDeleteIs, OverStays
<1>5. ASSUME ~flickers PROVE RecoveryInv'
  BY <1>1, <1>2, <1>5, ReapDeleteIs
  DEF IInv, RecoveryInv, Announced, OwnerFiled, Unowned, Reaped, AfterToolSealed,
      AfterAssistantSealed, AfterPhoneSealed, AfterPhoneDeleted, Sealed, Answering, Supported,
      WriteAhead, NothingDangles
<1> QED BY <1>1, ReapDeleteIs, <1>3, <1>4, <1>5 DEF IInv

\* No assistant is left when the tool is deleted.
LEMMA ReapDropToolKeeps ==
  ASSUME IInv, ReapDropTool
  PROVE  IInv'
<1>1. /\ reaper = "drop_tool" /\ ReapDelete("tool", "stack")
      /\ UNCHANGED binding /\ "stack" \in ReaperPC
  BY DEF ReapDropTool, Reaping, ReaperPC
<1>2. ctl.pc \in Over \ {"retained"}
  BY <1>1, ReapingIsOver
<1>3. TypeOK'
  BY <1>1, ReapDeleteIs DEF IInv, TypeOK
<1>4. ControllerInv'
  BY <1>1, <1>2, ReapDeleteIs, OverStays
<1>5. ASSUME ~flickers PROVE RecoveryInv'
  BY <1>1, <1>2, <1>5, ReapDeleteIs
  DEF IInv, RecoveryInv, Announced, OwnerFiled, Unowned, Reaped, AfterToolSealed,
      AfterAssistantSealed, AfterPhoneSealed, AfterPhoneDeleted, Sealed, Answering, Supported,
      WriteAhead, NothingDangles
<1> QED BY <1>1, ReapDeleteIs, <1>3, <1>4, <1>5 DEF IInv

\* No transient is left when the stack is deleted, ...
LEMMA ReapStackKeeps ==
  ASSUME IInv, ReapStack
  PROVE  IInv'
<1>1. /\ reaper = "stack" /\ reaper' = "purge" /\ "purge" \in ReaperPC
      /\ stack' = FALSE /\ binding' = "unbound"
      /\ UNCHANGED <<vapi, callee, journal, mem, ctl, reruns, flickers>>
  BY DEF ReapStack, Reaping, StackGone, ReaperPC
<1>2. ctl.pc \in Over \ {"retained"}
  BY <1>1, ReapingIsOver
<1>3. TypeOK'
  BY <1>1 DEF IInv, TypeOK
<1>4. ControllerInv'
  BY <1>1, <1>2, OverStays
<1>5. ASSUME ~flickers PROVE RecoveryInv'
  BY <1>1, <1>2, <1>5
  DEF IInv, RecoveryInv, Announced, OwnerFiled, Unowned, Reaped, AfterToolSealed,
      AfterAssistantSealed, AfterPhoneSealed, AfterPhoneDeleted, Sealed, Answering, Supported,
      WriteAhead, NothingDangles
<1> QED BY <1>1, <1>3, <1>4, <1>5 DEF IInv

\* ... nor when the journal is.
LEMMA ReapPurgeKeeps ==
  ASSUME IInv, ReapPurge
  PROVE  IInv'
<1>1. /\ reaper = "purge" /\ reaper' = "recovered" /\ "recovered" \in ReaperPC
      /\ journal' = [k \in Kinds |-> {}]
      /\ UNCHANGED <<vapi, callee, binding, stack, mem, ctl, reruns, flickers>>
  BY DEF ReapPurge, Reaping, ReaperPC
<1>2. ctl.pc \in Over \ {"retained"}
  BY <1>1, ReapingIsOver
<1>3. TypeOK'
  BY <1>1 DEF IInv, TypeOK
<1>4. ControllerInv'
  BY <1>1, <1>2, OverStays
<1>5. ASSUME ~flickers PROVE RecoveryInv'
  BY <1>1, <1>2, <1>5
  DEF IInv, RecoveryInv, Announced, OwnerFiled, Unowned, Reaped, AfterToolSealed,
      AfterAssistantSealed, AfterPhoneSealed, AfterPhoneDeleted, Sealed, Answering, Supported,
      WriteAhead, NothingDangles
<1> QED BY <1>1, <1>3, <1>4, <1>5 DEF IInv

\* A reaper that is run again begins anew.
LEMMA InterruptKeeps ==
  ASSUME IInv, Interrupt
  PROVE  IInv'
<1>1. /\ reaper # "off" /\ reaper' = "off"
      /\ UNCHANGED <<vapi, callee, binding, stack, journal, mem, ctl, flickers>>
  BY DEF Interrupt
<1>2. ctl.pc \in Over \ {"retained"}
  BY <1>1, ReapingIsOver
<1>3. reruns' \in 0..MaxReruns
  BY TransientsAssumption DEF Interrupt, IInv, TypeOK
<1>4. TypeOK'
  BY <1>1, <1>3 DEF IInv, TypeOK, ReaperPC
<1>5. ControllerInv'
  BY <1>1, <1>2, OverStays
<1>6. ASSUME ~flickers PROVE RecoveryInv'
  BY <1>1, <1>2, <1>6, NothingReaped
  DEF IInv, RecoveryInv, Announced, OwnerFiled, Unowned, Answering, Supported,
      WriteAhead, NothingDangles
<1> QED BY <1>1, <1>4, <1>5, <1>6 DEF IInv

-----------------------------------------------------------------------------
(* Vapi *)

\* What settles was in doubt, and is not what anything else refers to.
LEMMA SettleKeeps ==
  ASSUME IInv, Settle
  PROVE  IInv'
<1>1. UNCHANGED <<callee, binding, stack, journal, mem, ctl, reaper, reruns, flickers>>
  BY DEF Settle
<1>2. PICK k \in Kinds, p \in {"there", "none"} :
        vapi[k] = "pending" /\ vapi' = [vapi EXCEPT ![k] = p]
  BY DEF Settle
<1>3. /\ vapi' \in [Kinds -> Presence]
      /\ vapi'[k] = p /\ \A x \in Kinds \ {k} : vapi'[x] = vapi[x]
  BY <1>2 DEF IInv, TypeOK, Presence
<1>4. TypeOK'
  BY <1>1, <1>3 DEF IInv, TypeOK
<1>5. ControllerInv'
  BY <1>1, <1>2, <1>3
  DEF IInv, TypeOK, Control, ControllerInv, Awareness, Unbegun, Posted, Cleared, Bound, Ended
<1>6. ASSUME ~flickers PROVE RecoveryInv'
  BY <1>1, <1>2, <1>3, <1>6
  DEF IInv, TypeOK, Control, RecoveryInv, Announced, OwnerFiled, Unowned, Reaped, Sealed,
      Answering, Supported, WriteAhead, NothingDangles
<1> QED BY <1>1, <1>4, <1>5, <1>6 DEF IInv

\* What reappears is what the controller is still aware of; it needs a flickering Vapi.
LEMMA ReappearKeeps ==
  ASSUME IInv, Reappear
  PROVE  IInv'
<1>1. UNCHANGED <<callee, binding, stack, journal, mem, ctl, reaper, reruns, flickers>>
  BY DEF Reappear
<1>2. PICK k \in Kinds, p \in {"there", "none"} :
        vapi[k] = "hidden" /\ vapi' = [vapi EXCEPT ![k] = p]
  BY DEF Reappear
<1>3. /\ vapi' \in [Kinds -> Presence]
      /\ vapi'[k] = p /\ \A x \in Kinds \ {k} : vapi'[x] = vapi[x]
  BY <1>2 DEF IInv, TypeOK, Presence
<1>4. TypeOK'
  BY <1>1, <1>3 DEF IInv, TypeOK
<1>5. ControllerInv'
  BY <1>1, <1>2, <1>3
  DEF IInv, TypeOK, Control, ControllerInv, Awareness, Unbegun, Posted, Cleared, Bound, Ended
<1>6. flickers \in BOOLEAN /\ (~flickers => FALSE)
  BY <1>2, TransientsAssumption DEF IInv, RecoveryInv, Supported
<1> QED BY <1>1, <1>4, <1>5, <1>6 DEF IInv

\* Nothing changes.
LEMMA StutterKeeps ==
  ASSUME IInv, UNCHANGED vars
  PROVE  IInv'
BY DEF vars, IInv, TypeOK, ControllerInv, Awareness, Unbegun, Posted, Cleared, Bound, Ended,
       RecoveryInv, Announced, OwnerFiled, Unowned, Reaped, Sealed, Answering, Supported,
       WriteAhead, NothingDangles

-----------------------------------------------------------------------------
(* Theorems *)

\* The invariant holds before the run has done anything.
LEMMA InitHolds == Init => IInv
<1> SUFFICES ASSUME Init PROVE IInv
  OBVIOUS
<1>1. 1 \in 1..MaxAttempts /\ 0 \in 0..MaxReruns
  BY TransientsAssumption
<1>2. /\ mem \in Memory /\ mem.known = {} /\ mem.doubtful = {} /\ mem.wanted = {}
      /\ mem.filed["phone"] = {} /\ ~mem.installed
  BY DEF Init, Forgotten, Memory
<1>3. /\ ctl \in Control /\ ctl.pc = "intent" /\ ctl.kind = "tool" /\ ctl.smoke = "web"
      /\ ctl.pass = "smoke"
  BY <1>1 DEF Init, Control, PC
<1>4. TypeOK
  BY <1>1, <1>2, <1>3, TransientsAssumption DEF Init, TypeOK, Presence, ReaperPC
<1>5. ControllerInv
  BY <1>2, <1>3
  DEF Init, ControllerInv, Awareness, Unbegun, Posted, Cleared, Bound, Ended
<1>6. RecoveryInv
  BY <1>2, <1>3
  DEF Init, RecoveryInv, Announced, OwnerFiled, Unowned, Reaped, AfterToolSealed,
      AfterAssistantSealed, AfterPhoneSealed, AfterPhoneDeleted, Answering, Supported,
      WriteAhead, NothingDangles
<1> QED BY <1>4, <1>5, <1>6 DEF IInv

\* Every step keeps the invariant.
LEMMA NextKeeps == IInv /\ [Next]_vars => IInv'
<1> SUFFICES ASSUME IInv, [Next]_vars PROVE IInv'
  OBVIOUS
<1>1. CASE Provisioning
  BY <1>1, WriteIntentKeeps, WriteRequestKeeps, PostKeeps, PostFailedKeeps, SealKeeps,
     BindKeeps, ProbeKeeps, UseKeeps DEF Provisioning
<1>2. CASE CleaningPhone
  BY <1>2, FindPhoneKeeps, DeletePhoneKeeps, RemoveOwnerKeeps, RemoveRequestKeeps,
     RemoveIntentKeeps DEF CleaningPhone
<1>3. CASE CleaningDirect
  BY <1>3, UnbindKeeps, DropAssistantKeeps, DropToolKeeps, ProveAbsentKeeps
  DEF CleaningDirect
<1>4. CASE Ending
  BY <1>4, NextSmokeKeeps, RetainKeeps, BeginCleanupKeeps, DeleteStackKeeps, PurgeKeeps,
     CrashKeeps DEF Ending
<1>5. CASE Reap
  BY <1>5, ReadJournalKeeps, ReapToolKeeps, ReapAssistantKeeps, ReapPhoneKeeps,
     ReapDropPhoneKeeps, ReapUnbindKeeps, ReapDropAssistantKeeps, ReapDropToolKeeps,
     ReapStackKeeps, ReapPurgeKeeps DEF Reap
<1>6. CASE Interrupt \/ Settle \/ Reappear
  BY <1>6, InterruptKeeps, SettleKeeps, ReappearKeeps
<1>7. CASE UNCHANGED vars
  BY <1>7, StutterKeeps
<1> QED BY <1>1, <1>2, <1>3, <1>4, <1>5, <1>6, <1>7 DEF Next

\* The controller and the reaper keep the inductive invariant, whatever fails and
\* wherever either is stopped.
THEOREM Invariance == Spec => []IInv
<1>1. Init => IInv
  BY InitHolds
<1>2. IInv /\ [Next]_vars => IInv'
  BY NextKeeps
<1> QED BY <1>1, <1>2, PTL DEF Spec

\* What the controller remembers, what the journal holds, and where controller and
\* reaper are, is always of the declared kind.
THEOREM TypeCorrect == Spec => []TypeOK
<1>1. IInv => TypeOK
  BY DEF IInv
<1> QED BY <1>1, Invariance, PTL

\* A run that ends with a proof of zero state, or leaves its stack for debugging,
\* has left no transient and no bound identity behind: whatever failed before, and
\* even if Vapi may show deleted objects again or create late what it was asked for.
THEOREM CleanRuns == Spec => []CleanIsClean
<1>1. IInv => CleanIsClean
  BY DEF IInv, ControllerInv, Ended, CleanIsClean
<1> QED BY <1>1, Invariance, PTL

\* No POST is sent while an earlier object of its kind may exist, however many
\* phones are tried, and in both smokes.
THEOREM PostsAlone == Spec => []PostsOntoNothing
<1>1. IInv => PostsOntoNothing
  BY DEF IInv, ControllerInv, Posted, PostsOntoNothing, At
<1> QED BY <1>1, Invariance, PTL

\* Where a deleted object stays deleted, whatever exists in Vapi has its intent and
\* its request in the journal, through every cleanup, retry, crash and recovery.
THEOREM WritesAhead == Spec => []WriteAhead
<1>1. IInv => WriteAhead
  BY DEF IInv, RecoveryInv, WriteAhead
<1> QED BY <1>1, Invariance, PTL

\* Where a deleted object stays deleted, the controller and the reaper take down the
\* phone, the binding, the assistant, the tool and the stack in an order in which
\* nothing is left that refers to what is gone.
THEOREM LeavesNoneDangling == Spec => []NothingDangles
<1>1. IInv => NothingDangles
  BY DEF IInv, RecoveryInv, NothingDangles
<1> QED BY <1>1, Invariance, PTL

=============================================================================
