------------------------------- MODULE Handoff -------------------------------
(***************************************************************************)
(* The handoff service of the recipe: the prepare, transfer-destination    *)
(* and Connect-lookup Lambdas, the DynamoDB table they share and Bridgefu's *)
(* reservation endpoint.                                                   *)
(*                                                                         *)
(* A Vapi assistant prepares a handoff (the screen-pop values of one call) *)
(* and then asks for the SIP destination of the transfer; Amazon Connect,  *)
(* given the correlation id the SIP INVITE carried, looks the values up.   *)
(* Every request is one Lambda invocation; invocations of any kind run     *)
(* concurrently, are retried and duplicated by their callers, and may be   *)
(* killed between any two of their calls to DynamoDB or Bridgefu.          *)
(*                                                                         *)
(* An invocation is a record with a program counter. One step is one call  *)
(* to a service outside the Lambda, or the reading of the clock with the   *)
(* checks that follow it.                                                  *)
(***************************************************************************)
EXTENDS Naturals

CONSTANTS
  Calls,           \* Vapi call identities (organisation, call)
  Correlations,    \* correlation ids: the keys of the table
  CorrelationOf,   \* derive_correlation_id, keyed by the deployment's secret
  Contents,        \* screen-pop values the configured fields accept, by hash
  Invocations,     \* slots for concurrently running Lambda invocations
  Ttl,             \* CONTEXT_TTL_SECONDS
  AttachmentTtl,   \* how long Bridgefu keeps a reserved SIP attachment
  MaxTime,         \* bound: the clock stops here
  None             \* no row, no value

ASSUME ConstantsAssumption ==
  /\ CorrelationOf \in [Calls -> Correlations]
  /\ Ttl \in Nat \ {0}
  /\ AttachmentTtl \in Nat \ {0}
  /\ MaxTime \in Nat
  /\ None \notin Calls \cup Contents

VARIABLES
  now,         \* the wall clock the Lambdas read
  row,         \* row[k]: the item DynamoDB holds under correlation id k
  bridgefu,    \* the SIP attachments Bridgefu has reserved
  invocation,  \* invocation[i]: the Lambda invocation running in slot i
  promise,     \* history: promise[k] is the last handoff acknowledged to Vapi
  dialed       \* history: dialed[k] is the last destination handed to Vapi

vars == <<now, row, bridgefu, invocation, promise, dialed>>

-----------------------------------------------------------------------------
(* Types *)

Row == [vapi_call_fingerprint : Calls, content_hash : Contents,
        expires_at : Nat, handoff_status : {"PREPARED", "RESERVED"}]

\* The attachment record of Bridgefu: the correlation id of the call context,
\* the idempotency key it was created under, and its expiry.
Reservation == [correlation : Correlations, key : Correlations, expires_at : Nat]

Op == {"prepare", "transfer_tool", "transfer", "lookup"}

PC == {"put", "compare", "get", "check", "reserve", "mark", "respond"}

\* A running invocation: the request (op, call, correlation, content), where
\* it is (pc), its own reading of the clock, the item it read last (seen),
\* and (history) the item a lookup found on arrival. The reservation a transfer
\* obtained is passed on whole and looked at no more, so it is left out.
Running == [op : Op, pc : PC, call : Calls \cup {None}, correlation : Correlations,
            content : Contents \cup {None}, clock : Nat, seen : Row \cup {None},
            arrived : Row \cup {None}]

Promise == [call : Calls, content : Contents, until : Nat]

\* None stands for "absent" and is told apart from every value it replaces.
ASSUME NoneAssumption ==
  /\ None \notin Calls
  /\ None \notin Contents
  /\ None \notin Row
  /\ None \notin Running
  /\ None \notin Promise

TypeOK ==
  /\ now \in Nat
  /\ row \in [Correlations -> Row \cup {None}]
  /\ bridgefu \subseteq Reservation
  /\ invocation \in [Invocations -> Running \cup {None}]
  /\ promise \in [Correlations -> Promise \cup {None}]
  /\ dialed \in [Correlations -> Promise \cup {None}]

Init ==
  /\ now = 0
  /\ row = [k \in Correlations |-> None]
  /\ bridgefu = {}
  /\ invocation = [i \in Invocations |-> None]
  /\ promise = [k \in Correlations |-> None]
  /\ dialed = [k \in Correlations |-> None]

-----------------------------------------------------------------------------
(* Requests arrive *)

\* The slot of an invocation that has just been given a request.
Begin(i, request) ==
  /\ invocation[i] = None
  /\ invocation' = [invocation EXCEPT ![i] = request]
  /\ UNCHANGED <<now, row, bridgefu, promise, dialed>>

PrepareRequest(op, call, c) ==
  [op |-> op, pc |-> "put", call |-> call, correlation |-> CorrelationOf[call],
   content |-> c, clock |-> now, seen |-> None, arrived |-> None]

TransferRequest(call, k) ==
  [op |-> "transfer", pc |-> "get", call |-> call, correlation |-> k,
   content |-> None, clock |-> 0, seen |-> None, arrived |-> None]

LookupRequest(k) ==
  [op |-> "lookup", pc |-> "get", call |-> None, correlation |-> k,
   content |-> None, clock |-> 0, seen |-> None, arrived |-> row[k]]

\* Vapi calls the prepare tool, or the live-control tool that also transfers.
\* The whole record, times included, is computed before DynamoDB is called.
BeginPrepare(i) ==
  \E op \in {"prepare", "transfer_tool"}, call \in Calls, c \in Contents :
    Begin(i, PrepareRequest(op, call, c))

\* Vapi asks for the destination of a transfer, prepared or not.
BeginTransfer(i) ==
  \E call \in Calls : Begin(i, TransferRequest(call, CorrelationOf[call]))

\* The contact flow runs the lookup with the correlation id of the contact.
BeginLookup(i) ==
  \E k \in Correlations : Begin(i, LookupRequest(k))

-----------------------------------------------------------------------------
(* One step of a running invocation *)

At(i, pc) == invocation[i] # None /\ invocation[i].pc = pc

\* The invocation goes on at pc; it is over, and its slot is free again.
Goto(i, pc) == invocation' = [invocation EXCEPT ![i].pc = pc]
End(i) == invocation' = [invocation EXCEPT ![i] = None]

\* After the put: the prepare tool answers; the live-control tool invokes the
\* transfer-destination Lambda for the same call and waits for its result.
Prepared(i, item) ==
  IF invocation[i].op = "prepare"
    THEN invocation' = [invocation EXCEPT ![i].pc = "respond", ![i].seen = item]
    ELSE invocation' = [invocation EXCEPT ![i] = TransferRequest(@.call, @.correlation)]

\* Mutant of PreparedItem: the status the direct handoff starts from.
ItemMapped(i) ==
  [vapi_call_fingerprint |-> invocation[i].call,
   content_hash |-> invocation[i].content,
   expires_at |-> invocation[i].clock + Ttl,
   handoff_status |-> "MAPPED"]

\* The item a prepare writes.
PreparedItem(i) ==
  [vapi_call_fingerprint |-> invocation[i].call,
   content_hash |-> invocation[i].content,
   expires_at |-> invocation[i].clock + Ttl,
   handoff_status |-> "PREPARED"]

\* Mutant of PutPrepared: the put has lost its condition expression.
PutUnconditionally(i) ==
  /\ At(i, "put")
  /\ row' = [row EXCEPT ![invocation[i].correlation] = PreparedItem(i)]
  /\ Prepared(i, PreparedItem(i))
  /\ UNCHANGED <<now, bridgefu, promise, dialed>>

\* The conditional put: attribute_not_exists(correlation_id).
PutPrepared(i) ==
  LET k == invocation[i].correlation IN
  /\ At(i, "put")
  /\ IF row[k] = None
       THEN /\ row' = [row EXCEPT ![k] = PreparedItem(i)]
            /\ Prepared(i, PreparedItem(i))
       ELSE /\ Goto(i, "compare")
            /\ UNCHANGED row
  /\ UNCHANGED <<now, bridgefu, promise, dialed>>

\* Mutant of IsReplay: any content of the call.
IsReplayOfCall(item, i) ==
  item # None /\ item.vapi_call_fingerprint = invocation[i].call

\* An item that repeats what a prepare wants to write. Its expiry is not
\* looked at, and is not renewed.
IsReplay(item, i) ==
  /\ item # None
  /\ item.vapi_call_fingerprint = invocation[i].call
  /\ item.content_hash = invocation[i].content
  /\ item.handoff_status \in {"PREPARED", "RESERVED"}

\* The put met an item: read it back, and accept an exact replay only.
CompareExisting(i) ==
  LET item == row[invocation[i].correlation] IN
  /\ At(i, "compare")
  /\ IF IsReplay(item, i) THEN Prepared(i, item) ELSE End(i)
  /\ UNCHANGED <<now, row, bridgefu, promise, dialed>>

\* The consistent read with which a transfer and a lookup begin.
GetRecord(i) ==
  /\ At(i, "get")
  /\ invocation' = [invocation EXCEPT ![i].pc = "check",
                                      ![i].seen = row[invocation[i].correlation]]
  /\ UNCHANGED <<now, row, bridgefu, promise, dialed>>

\* Mutant of MayTransfer: the fingerprint is not compared.
MayTransferAny(item, call, t) ==
  item # None /\ item.expires_at > t

\* What a transfer requires of the item it read, at time t.
MayTransfer(item, call, t) ==
  /\ item # None
  /\ item.vapi_call_fingerprint = call
  /\ item.expires_at > t
  /\ item.handoff_status \in {"PREPARED", "RESERVED"}

CheckTransfer(i) ==
  /\ At(i, "check")
  /\ invocation[i].op # "lookup"
  /\ IF MayTransfer(invocation[i].seen, invocation[i].call, now)
       THEN invocation' = [invocation EXCEPT ![i].pc = "reserve", ![i].clock = now]
       ELSE End(i)
  /\ UNCHANGED <<now, row, bridgefu, promise, dialed>>

\* What a lookup returns of the item it read, at time t: the item, or nothing.
Available(item, t) ==
  /\ item # None
  /\ item.expires_at > t
  /\ item.handoff_status \in {"PREPARED", "RESERVED"}

CheckLookup(i) ==
  /\ At(i, "check")
  /\ invocation[i].op = "lookup"
  /\ invocation' = [invocation EXCEPT
       ![i].pc = "respond",
       ![i].seen = IF Available(@, now) THEN @ ELSE None]
  /\ UNCHANGED <<now, row, bridgefu, promise, dialed>>

\* Mutant of IdempotencyKey: a key per attempt.
KeyPerAttempt(i) == <<invocation[i].correlation, invocation[i].clock>>

\* A digest of the correlation id, the same in every attempt.
IdempotencyKey(i) == invocation[i].correlation

\* Bridgefu, external: the attachments a reservation can be answered with. The
\* idempotency key returns the live attachment it named before; once that has
\* expired Bridgefu may repeat it or reserve anew.
Reserved(key) == {r \in bridgefu : r.key = key}
Live(reservations) == {r \in reservations : r.expires_at > now}

Reservable(i) ==
  LET key == IdempotencyKey(i)
      fresh == [correlation |-> invocation[i].correlation, key |-> key,
                expires_at |-> now + AttachmentTtl]
  IN IF Live(Reserved(key)) # {} THEN Live(Reserved(key))
                                 ELSE Reserved(key) \cup {fresh}

\* The reservation call. Its answer is compared with the clock read before it;
\* after that the clock is used as a time stamp only, and is dropped here.
Reserve(i) ==
  /\ At(i, "reserve")
  /\ \E r \in Reservable(i) :
       /\ bridgefu' = bridgefu \cup {r}
       /\ IF r.expires_at > invocation[i].clock
            THEN invocation' = [invocation EXCEPT ![i].pc = "mark", ![i].clock = 0]
            ELSE End(i)
  /\ UNCHANGED <<now, row, promise, dialed>>

\* Bridgefu reserved, and the Lambda never made use of it: the response timed
\* out, or did not parse, or named a destination of the wrong scheme.
ReserveLost(i) ==
  /\ At(i, "reserve")
  /\ \E r \in Reservable(i) : bridgefu' = bridgefu \cup {r}
  /\ End(i)
  /\ UNCHANGED <<now, row, promise, dialed>>

\* The conditional update that records the reservation. It requires a status,
\* and with it an item, and neither the item that was read nor an expiry.
MarkReserved(i) ==
  LET k == invocation[i].correlation IN
  /\ At(i, "mark")
  /\ IF row[k] # None /\ row[k].handoff_status \in {"PREPARED", "RESERVED"}
       THEN /\ row' = [row EXCEPT ![k].handoff_status = "RESERVED"]
            /\ Goto(i, "respond")
       ELSE /\ End(i)
            /\ UNCHANGED row
  /\ UNCHANGED <<now, bridgefu, promise, dialed>>

\* Vapi receives the answer of a prepare: the handoff is prepared.
RespondPrepared(i) ==
  LET inv == invocation[i] IN
  /\ At(i, "respond")
  /\ inv.op = "prepare"
  /\ promise' = [promise EXCEPT ![inv.correlation] =
       [call |-> inv.call, content |-> inv.content, until |-> inv.seen.expires_at]]
  /\ End(i)
  /\ UNCHANGED <<now, row, bridgefu, dialed>>

\* Vapi receives a destination: the answer of a transfer request, or the
\* transfer command the live-control tool posts to the call's control URL.
RespondDestination(i) ==
  LET inv == invocation[i] IN
  /\ At(i, "respond")
  /\ inv.op = "transfer"
  /\ dialed' = [dialed EXCEPT ![inv.correlation] =
       [call |-> inv.call, content |-> inv.seen.content_hash,
        until |-> inv.seen.expires_at]]
  /\ End(i)
  /\ UNCHANGED <<now, row, bridgefu, promise>>

\* Connect receives the answer of a lookup.
RespondLookup(i) ==
  /\ At(i, "respond")
  /\ invocation[i].op = "lookup"
  /\ End(i)
  /\ UNCHANGED <<now, row, bridgefu, promise, dialed>>

\* A Lambda is killed, a service refuses its call or does not answer, or the
\* answer is lost on its way: the invocation ends and its caller knows nothing.
Abort(i) ==
  /\ invocation[i] # None
  /\ End(i)
  /\ UNCHANGED <<now, row, bridgefu, promise, dialed>>

-----------------------------------------------------------------------------
(* The environment *)

\* A history is kept for as long as it binds the service.
Binding(history) ==
  [k \in Correlations |->
     IF history[k] # None /\ now' < history[k].until THEN history[k] ELSE None]

Tick ==
  /\ now < MaxTime
  /\ now' = now + 1
  /\ promise' = Binding(promise)
  /\ dialed' = Binding(dialed)
  /\ UNCHANGED <<row, bridgefu, invocation>>

\* DynamoDB deletes an expired item at some later time, or never.
DeleteExpired(k) ==
  /\ row[k] # None
  /\ row[k].expires_at <= now
  /\ row' = [row EXCEPT ![k] = None]
  /\ UNCHANGED <<now, bridgefu, invocation, promise, dialed>>

Step(i) ==
  \/ BeginPrepare(i) \/ BeginTransfer(i) \/ BeginLookup(i)
  \/ PutPrepared(i) \/ CompareExisting(i)
  \/ GetRecord(i) \/ CheckTransfer(i) \/ CheckLookup(i)
  \/ Reserve(i) \/ ReserveLost(i) \/ MarkReserved(i)
  \/ RespondPrepared(i) \/ RespondDestination(i) \/ RespondLookup(i)
  \/ Abort(i)

Next ==
  \/ Tick
  \/ \E k \in Correlations : DeleteExpired(k)
  \/ \E i \in Invocations : Step(i)

Spec == Init /\ [][Next]_vars

-----------------------------------------------------------------------------
(* Properties *)

\* What Vapi was told is prepared is what the table holds, for that call and
\* with exactly that content, until it expires: a later prepare, a transfer or
\* the table's own clean-up never changes or removes it before.
PreparedIsKept ==
  \A k \in Correlations :
    promise[k] # None /\ now < promise[k].until =>
      /\ row[k] # None
      /\ row[k].vapi_call_fingerprint = promise[k].call
      /\ row[k].content_hash = promise[k].content
      /\ row[k].expires_at = promise[k].until

\* A caller who is being transferred finds the context of that very call: once
\* a destination has been handed out, and until the handoff expires, the table
\* holds the item the transfer was granted for, marked RESERVED, though the
\* item was read before the reservation and written after it.
DialedHasContext ==
  \A k \in Correlations :
    dialed[k] # None /\ now < dialed[k].until =>
      /\ row[k] # None
      /\ row[k].handoff_status = "RESERVED"
      /\ row[k].vapi_call_fingerprint = dialed[k].call
      /\ row[k].content_hash = dialed[k].content
      /\ row[k].expires_at = dialed[k].until

\* Duplicated and concurrent transfer requests of one call share one Bridgefu
\* attachment: no two live attachments carry the same correlation id.
OneLiveReservation ==
  \A r1, r2 \in Live(bridgefu) : r1.correlation = r2.correlation => r1 = r2

\* A prepare that answers "prepared" leaves a handoff that had not expired when
\* the prepare read its clock. The code breaks this: an expired item that the
\* table has not removed yet is accepted as a replay and not renewed.
AckedIsUnexpired ==
  \A i \in Invocations :
    At(i, "respond") /\ invocation[i].op = "prepare" =>
      invocation[i].seen.expires_at > invocation[i].clock

\* The service implements its contract: the table is the book, a lookup is a
\* reader, answered in the step in which the lookup reads its clock.
EntryOf(item) ==
  IF item = None THEN None
  ELSE [owner |-> item.vapi_call_fingerprint, content |-> item.content_hash,
        until |-> item.expires_at]

QuestionOf(inv) ==
  IF inv = None THEN None
  ELSE IF inv.op # "lookup" THEN None
  ELSE [about |-> inv.correlation, arrived |-> EntryOf(inv.arrived),
        answer |-> IF inv.pc # "respond" THEN "pending"
                   ELSE IF inv.seen = None THEN "unavailable"
                   ELSE inv.seen.content_hash]

Connect == INSTANCE HandoffContract WITH
  Readers <- Invocations,
  book <- [k \in Correlations |-> EntryOf(row[k])],
  reader <- [i \in Invocations |-> QuestionOf(invocation[i])]

\* The contract's own records are told apart from None too.
ASSUME ContractNoneAssumption == None \notin Connect!Entry \cup Connect!Question

Contract == Connect!Spec
=============================================================================
