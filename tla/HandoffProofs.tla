---------------------------- MODULE HandoffProofs ----------------------------
(***************************************************************************)
(* Proofs about module Handoff, for any number of calls, correlation ids,  *)
(* contents and concurrent invocations, any lifetimes, and whatever        *)
(* function derives correlation ids from calls.                            *)
(*                                                                         *)
(* The inductive invariant speaks of the table and of one invocation at a  *)
(* time. Its parts are written over an explicit table and clock, so that   *)
(* one lemma (Evolution) carries every invocation that does not move, and  *)
(* every promise already made, across any step: whatever the step does,    *)
(* the table only evolves.                                                 *)
(***************************************************************************)
EXTENDS Handoff, TLAPS

-----------------------------------------------------------------------------
(* The inductive invariant *)

\* Table rows holds, under k, the handoff that item was read from; only the
\* status may have moved on.
Holds(rows, k, item) ==
  /\ rows[k] # None
  /\ rows[k].vapi_call_fingerprint = item.vapi_call_fingerprint
  /\ rows[k].content_hash = item.content_hash
  /\ rows[k].expires_at = item.expires_at

\* Which requests pass through which program points, and with which fields.
Shape(inv) ==
  /\ inv.op \in {"prepare", "transfer_tool"} =>
       /\ inv.pc \in {"put", "compare", "respond"}
       /\ inv.content \in Contents
  /\ inv.op = "lookup" => inv.pc \in {"get", "check", "respond"}
  /\ inv.op = "transfer" => inv.pc \in {"get", "check", "reserve", "mark", "respond"}
  /\ inv.op # "lookup" => inv.call \in Calls

\* An answer about to be given to Vapi is about an item of the caller's own.
OwnItem(inv) ==
  /\ inv.op = "prepare" /\ inv.pc = "respond" =>
       /\ inv.seen # None
       /\ inv.seen.vapi_call_fingerprint = inv.call
       /\ inv.seen.content_hash = inv.content
  /\ inv.op = "transfer" /\ inv.pc \in {"reserve", "mark", "respond"} =>
       /\ inv.seen # None
       /\ inv.seen.vapi_call_fingerprint = inv.call

\* What an invocation has read stays true until it expires, however long ago
\* it was read; and a destination is handed out for a RESERVED item only.
ReadStays(inv, rows, t) ==
  inv.seen # None /\ t < inv.seen.expires_at =>
    /\ Holds(rows, inv.correlation, inv.seen)
    /\ inv.op = "transfer" /\ inv.pc = "respond" =>
         rows[inv.correlation].handoff_status = "RESERVED"

\* What a lookup could have read on arrival it can still read, and once it has
\* read, it has read that.
ArrivedStays(inv, rows, t) ==
  /\ inv.op = "lookup" /\ inv.pc \in {"get", "check"}
  /\ inv.arrived # None /\ t < inv.arrived.expires_at
  => /\ Holds(rows, inv.correlation, inv.arrived)
     /\ inv.pc = "check" =>
          inv.seen # None /\ inv.seen.expires_at = inv.arrived.expires_at

Good(inv, rows, t) ==
  inv # None => /\ Shape(inv)
                /\ OwnItem(inv)
                /\ ReadStays(inv, rows, t)
                /\ ArrivedStays(inv, rows, t)

IInv ==
  /\ TypeOK
  /\ \A i \in Invocations : Good(invocation[i], row, now)
  /\ PreparedIsKept
  /\ DialedHasContext

-----------------------------------------------------------------------------
(* The table only evolves *)

\* From table r to table s: an item that has not expired at time t is still
\* there, the same but for a status that never goes back.
Evolves(r, s, t) ==
  \A k \in Correlations :
    r[k] # None /\ t < r[k].expires_at =>
      /\ Holds(s, k, r[k])
      /\ r[k].handoff_status = "RESERVED" => s[k].handoff_status = "RESERVED"

\* An invocation that does not move stays good while the table evolves and
\* the clock advances.
LEMMA Evolution ==
  ASSUME NEW inv \in Running \cup {None},
         NEW r \in [Correlations -> Row \cup {None}],
         NEW s \in [Correlations -> Row \cup {None}],
         NEW t \in Nat, NEW u \in Nat, t <= u,
         Evolves(r, s, u), Good(inv, r, t)
  PROVE  Good(inv, s, u)
<1> SUFFICES ASSUME inv # None
             PROVE  /\ Shape(inv) /\ OwnItem(inv)
                    /\ ReadStays(inv, s, u) /\ ArrivedStays(inv, s, u)
  BY DEF Good
<1>1. /\ Shape(inv) /\ OwnItem(inv)
      /\ ReadStays(inv, r, t) /\ ArrivedStays(inv, r, t)
  BY DEF Good
<1>2. ReadStays(inv, s, u)
  <2> SUFFICES ASSUME inv.seen # None, u < inv.seen.expires_at
               PROVE  /\ Holds(s, inv.correlation, inv.seen)
                      /\ inv.op = "transfer" /\ inv.pc = "respond" =>
                           s[inv.correlation].handoff_status = "RESERVED"
    BY DEF ReadStays
  <2>1. inv.correlation \in Correlations /\ inv.seen \in Row
    BY DEF Running
  <2>2. t < inv.seen.expires_at
    BY <2>1 DEF Row
  <2>3. /\ Holds(r, inv.correlation, inv.seen)
        /\ inv.op = "transfer" /\ inv.pc = "respond" =>
             r[inv.correlation].handoff_status = "RESERVED"
    BY <1>1, <2>2 DEF ReadStays
  <2> QED
    BY <2>1, <2>3 DEF Evolves, Holds
<1>3. ArrivedStays(inv, s, u)
  <2> SUFFICES ASSUME inv.op = "lookup", inv.pc \in {"get", "check"},
                      inv.arrived # None, u < inv.arrived.expires_at
               PROVE  /\ Holds(s, inv.correlation, inv.arrived)
                      /\ inv.pc = "check" =>
                           /\ inv.seen # None
                           /\ inv.seen.expires_at = inv.arrived.expires_at
    BY DEF ArrivedStays
  <2>1. inv.correlation \in Correlations /\ inv.arrived \in Row
    BY DEF Running
  <2>2. t < inv.arrived.expires_at
    BY <2>1 DEF Row
  <2> QED
    BY <1>1, <2>1, <2>2 DEF ArrivedStays, Evolves, Holds
<1> QED
  BY <1>1, <1>2, <1>3

\* The histories are carried across a step that leaves them alone or, as the
\* clock does, drops what no longer binds.
LEMMA PromisesCarried ==
  ASSUME IInv, now' \in Nat, now <= now', Evolves(row, row', now'),
         \A k \in Correlations : promise'[k] \in {promise[k], None},
         \A k \in Correlations : dialed'[k] \in {dialed[k], None}
  PROVE  PreparedIsKept' /\ DialedHasContext'
<1>1. PreparedIsKept'
  <2> SUFFICES ASSUME NEW k \in Correlations,
                      promise'[k] # None, now' < promise'[k].until
               PROVE  /\ row'[k] # None
                      /\ row'[k].vapi_call_fingerprint = promise'[k].call
                      /\ row'[k].content_hash = promise'[k].content
                      /\ row'[k].expires_at = promise'[k].until
    BY DEF PreparedIsKept
  <2>1. promise'[k] = promise[k] /\ promise[k] \in Promise
    BY DEF IInv, TypeOK
  <2>2. now < promise[k].until
    BY <2>1 DEF IInv, TypeOK, Promise
  <2> QED
    BY <2>1, <2>2 DEF IInv, PreparedIsKept, Evolves, Holds
<1>2. DialedHasContext'
  <2> SUFFICES ASSUME NEW k \in Correlations,
                      dialed'[k] # None, now' < dialed'[k].until
               PROVE  /\ row'[k] # None
                      /\ row'[k].handoff_status = "RESERVED"
                      /\ row'[k].vapi_call_fingerprint = dialed'[k].call
                      /\ row'[k].content_hash = dialed'[k].content
                      /\ row'[k].expires_at = dialed'[k].until
    BY DEF DialedHasContext
  <2>1. dialed'[k] = dialed[k] /\ dialed[k] \in Promise
    BY DEF IInv, TypeOK
  <2>2. now < dialed[k].until
    BY <2>1 DEF IInv, TypeOK, Promise
  <2> QED
    BY <2>1, <2>2 DEF IInv, DialedHasContext, Evolves, Holds
<1> QED
  BY <1>1, <1>2

\* A table that does not change evolves.
LEMMA SameTable ==
  ASSUME TypeOK, UNCHANGED <<now, row>>
  PROVE  /\ row' \in [Correlations -> Row \cup {None}]
         /\ Evolves(row, row', now')
BY DEF TypeOK, Evolves, Holds

\* A step of invocation i that is about nothing but that invocation, the table
\* and Bridgefu keeps the invariant when it leaves i well typed and good.
LEMMA OneMoves ==
  ASSUME IInv, UNCHANGED <<now, promise, dialed>>,
         NEW i \in Invocations, NEW v \in Running \cup {None},
         invocation' = [invocation EXCEPT ![i] = v],
         row' \in [Correlations -> Row \cup {None}],
         Evolves(row, row', now'),
         bridgefu' \subseteq Reservation,
         Good(v, row', now')
  PROVE  IInv'
<1>1. TypeOK'
  BY DEF IInv, TypeOK
<1>2. \A j \in Invocations : Good(invocation'[j], row', now')
  <2> SUFFICES ASSUME NEW j \in Invocations
               PROVE  Good(invocation'[j], row', now')
    OBVIOUS
  <2>1. CASE j = i
    BY <2>1 DEF IInv, TypeOK
  <2>2. CASE j # i
    <3>1. invocation'[j] = invocation[j] /\ invocation[j] \in Running \cup {None}
      BY <2>2 DEF IInv, TypeOK
    <3>2. Good(invocation[j], row, now) /\ now \in Nat /\ now' = now
          /\ row \in [Correlations -> Row \cup {None}]
      BY DEF IInv, TypeOK
    <3> QED
      BY <3>1, <3>2, Evolution
  <2> QED
    BY <2>1, <2>2
<1>3. PreparedIsKept' /\ DialedHasContext'
  BY PromisesCarried DEF IInv, TypeOK
<1> QED
  BY <1>1, <1>2, <1>3 DEF IInv

-----------------------------------------------------------------------------
(* One lemma for each group of actions *)

\* Nothing is required of an invocation that is over.
LEMMA EndKeeps ==
  ASSUME IInv, NEW i \in Invocations, End(i),
         UNCHANGED <<now, row, promise, dialed>>, bridgefu' \subseteq Reservation
  PROVE  IInv'
<1>1. Good(None, row', now')
  BY DEF Good
<1> QED
  BY <1>1, SameTable, OneMoves DEF End, IInv

LEMMA BeginKeeps ==
  ASSUME IInv, NEW i \in Invocations,
         BeginPrepare(i) \/ BeginTransfer(i) \/ BeginLookup(i)
  PROVE  IInv'
<1> USE ConstantsAssumption DEF IInv, TypeOK
<1> SUFFICES ASSUME NEW v \in Running, v.seen = None, Shape(v),
                    v.pc \in {"put", "get"}, ArrivedStays(v, row, now), Begin(i, v)
             PROVE  IInv'
  <2>1. ASSUME NEW op \in {"prepare", "transfer_tool"}, NEW call \in Calls,
               NEW c \in Contents
        PROVE  LET v == PrepareRequest(op, call, c)
               IN v \in Running /\ v.seen = None /\ v.pc = "put" /\ Shape(v)
                  /\ ArrivedStays(v, row, now)
    BY DEF PrepareRequest, Running, Op, PC, Shape, ArrivedStays
  <2>2. ASSUME NEW call \in Calls, NEW k \in Correlations
        PROVE  LET v == TransferRequest(call, k)
               IN v \in Running /\ v.seen = None /\ v.pc = "get" /\ Shape(v)
                  /\ ArrivedStays(v, row, now)
    BY DEF TransferRequest, Running, Op, PC, Shape, ArrivedStays
  <2>3. ASSUME NEW k \in Correlations
        PROVE  LET v == LookupRequest(k)
               IN v \in Running /\ v.seen = None /\ v.pc = "get" /\ Shape(v)
                  /\ ArrivedStays(v, row, now)
    BY DEF LookupRequest, Running, Op, PC, Shape, ArrivedStays, Holds
  <2> QED
    BY <2>1, <2>2, <2>3 DEF BeginPrepare, BeginTransfer, BeginLookup
<1>1. Good(v, row', now')
  <2>1. OwnItem(v) /\ ReadStays(v, row, now)
    BY DEF OwnItem, ReadStays
  <2> QED
    BY <2>1 DEF Good, Begin
<1> QED
  BY <1>1, SameTable, OneMoves DEF Begin

\* Going on with an item: where the tool goes next, the item is its own.
LEMMA PreparedIsGood ==
  ASSUME TypeOK, NEW i \in Invocations, invocation[i] # None,
         Shape(invocation[i]), invocation[i].op \in {"prepare", "transfer_tool"},
         NEW item \in Row,
         item.vapi_call_fingerprint = invocation[i].call,
         item.content_hash = invocation[i].content,
         Prepared(i, item),
         NEW rows, NEW t, Holds(rows, invocation[i].correlation, item)
  PROVE  \E v \in Running : /\ invocation' = [invocation EXCEPT ![i] = v]
                            /\ Good(v, rows, t)
<1> DEFINE inv == invocation[i]
<1>0. inv \in Running
  BY DEF TypeOK
<1>1. CASE inv.op = "prepare"
  <2> DEFINE v == [inv EXCEPT !.pc = "respond", !.seen = item]
  <2>1. invocation' = [invocation EXCEPT ![i] = v]
    BY <1>1 DEF Prepared, TypeOK
  <2>2. v \in Running
    BY <1>0 DEF Running, PC
  <2>3. Good(v, rows, t)
    BY <1>0, <1>1, NoneAssumption DEF Good, Shape, OwnItem, ReadStays, ArrivedStays, Running
  <2> QED
    BY <2>1, <2>2, <2>3
<1>2. CASE inv.op = "transfer_tool"
  <2> DEFINE v == TransferRequest(inv.call, inv.correlation)
  <2>1. invocation' = [invocation EXCEPT ![i] = v]
    BY <1>2 DEF Prepared
  <2>2. v \in Running
    BY <1>0, <1>2 DEF TransferRequest, Running, Op, PC
  <2>3. Good(v, rows, t)
    BY <1>2 DEF TransferRequest, Good, Shape, OwnItem, ReadStays, ArrivedStays
  <2> QED
    BY <2>1, <2>2, <2>3
<1> QED
  BY <1>1, <1>2

LEMMA PutKeeps ==
  ASSUME IInv, NEW i \in Invocations, PutPrepared(i)
  PROVE  IInv'
<1> DEFINE inv == invocation[i]
           k == inv.correlation
<1>1. /\ inv # None /\ inv \in Running /\ Shape(inv) /\ inv.pc = "put"
      /\ inv.op \in {"prepare", "transfer_tool"}
  BY DEF IInv, TypeOK, PutPrepared, At, Good, Shape, Running, Op
<1>2. CASE row[k] = None
  <2> DEFINE item == PreparedItem(i)
  <2>1. item \in Row
    BY <1>1, ConstantsAssumption DEF PreparedItem, Row, Running, Shape
  <2>2. row' = [row EXCEPT ![k] = item] /\ Prepared(i, item)
    BY <1>2 DEF PutPrepared
  <2>3. row' \in [Correlations -> Row \cup {None}]
    BY <1>1, <2>1, <2>2 DEF IInv, TypeOK, Running
  <2>4. Evolves(row, row', now')
    BY <1>2, <2>2 DEF Evolves, Holds, IInv, TypeOK
  <2>5. Holds(row', k, item)
    BY <1>1, <2>1, <2>2, NoneAssumption DEF Holds, IInv, TypeOK, Running
  <2>6. item.vapi_call_fingerprint = inv.call /\ item.content_hash = inv.content
    BY DEF PreparedItem
  <2>7. PICK v \in Running : /\ invocation' = [invocation EXCEPT ![i] = v]
                             /\ Good(v, row', now')
    BY <1>1, <2>1, <2>2, <2>5, <2>6, PreparedIsGood DEF IInv
  <2> QED
    BY <2>3, <2>4, <2>7, OneMoves DEF PutPrepared, IInv, TypeOK
<1>3. CASE row[k] # None
  <2> DEFINE v == [inv EXCEPT !.pc = "compare"]
  <2>1. invocation' = [invocation EXCEPT ![i] = v] /\ UNCHANGED row
    BY <1>3 DEF PutPrepared, Goto
  <2>2. v \in Running
    BY <1>1 DEF Running, PC
  <2>3. Good(v, row', now')
    BY <1>1, <2>1 DEF Good, Shape, OwnItem, ReadStays, ArrivedStays, Running, IInv, PutPrepared
  <2> QED
    BY <2>1, <2>2, <2>3, SameTable, OneMoves DEF PutPrepared, IInv, TypeOK
<1> QED
  BY <1>2, <1>3

LEMMA CompareKeeps ==
  ASSUME IInv, NEW i \in Invocations, CompareExisting(i)
  PROVE  IInv'
<1> DEFINE inv == invocation[i]
           item == row[inv.correlation]
<1>1. /\ inv # None /\ inv \in Running /\ Shape(inv)
      /\ inv.op \in {"prepare", "transfer_tool"}
  BY DEF IInv, TypeOK, CompareExisting, At, Good, Shape, Running, Op
<1>2. CASE IsReplay(item, i)
  <2>1. item \in Row
    BY <1>1, <1>2 DEF IsReplay, IInv, TypeOK, Running
  <2>2. /\ item.vapi_call_fingerprint = inv.call /\ item.content_hash = inv.content
        /\ Prepared(i, item) /\ UNCHANGED <<now, row>>
    BY <1>2 DEF IsReplay, CompareExisting
  <2>3. Holds(row', inv.correlation, item)
    BY <1>2, <2>2 DEF Holds, IsReplay
  <2>4. PICK v \in Running : /\ invocation' = [invocation EXCEPT ![i] = v]
                             /\ Good(v, row', now')
    BY <1>1, <2>1, <2>2, <2>3, PreparedIsGood DEF IInv
  <2> QED
    BY <2>2, <2>4, SameTable, OneMoves DEF CompareExisting, IInv, TypeOK
<1>3. CASE ~IsReplay(item, i)
  BY <1>3, EndKeeps DEF CompareExisting, IInv, TypeOK
<1> QED
  BY <1>2, <1>3

LEMMA GetKeeps ==
  ASSUME IInv, NEW i \in Invocations, GetRecord(i)
  PROVE  IInv'
<1> DEFINE inv == invocation[i]
           item == row[inv.correlation]
           v == [inv EXCEPT !.pc = "check", !.seen = item]
<1>1. /\ inv # None /\ inv \in Running /\ Shape(inv)
      /\ ArrivedStays(inv, row, now) /\ inv.pc = "get"
  BY DEF IInv, TypeOK, GetRecord, At, Good
<1>2. item \in Row \cup {None}
  BY <1>1 DEF IInv, TypeOK, Running
<1>3. v \in Running
  BY <1>1, <1>2 DEF Running, PC
<1>4. invocation' = [invocation EXCEPT ![i] = v] /\ UNCHANGED <<now, row>>
  BY DEF GetRecord, IInv, TypeOK
<1>5. Good(v, row', now')
  <2>1. Shape(v) /\ OwnItem(v) /\ ReadStays(v, row, now)
    BY <1>1, <1>2 DEF Shape, OwnItem, ReadStays, Holds, Running
  <2>2. ArrivedStays(v, row, now)
    BY <1>1, <1>2 DEF ArrivedStays, Holds, Running
  <2> QED
    BY <1>4, <2>1, <2>2 DEF Good
<1> QED
  BY <1>3, <1>4, <1>5, SameTable, OneMoves DEF GetRecord, IInv, TypeOK

LEMMA CheckTransferKeeps ==
  ASSUME IInv, NEW i \in Invocations, CheckTransfer(i)
  PROVE  IInv'
<1> DEFINE inv == invocation[i]
           v == [inv EXCEPT !.pc = "reserve", !.clock = now]
<1>1. /\ inv # None /\ inv \in Running /\ Shape(inv) /\ OwnItem(inv)
      /\ ReadStays(inv, row, now) /\ inv.pc = "check" /\ inv.op = "transfer"
  BY DEF IInv, TypeOK, CheckTransfer, At, Good, Shape, Running, Op
<1>2. CASE MayTransfer(inv.seen, inv.call, now)
  <2>1. invocation' = [invocation EXCEPT ![i] = v] /\ UNCHANGED <<now, row>>
    BY <1>2 DEF CheckTransfer, IInv, TypeOK
  <2>2. v \in Running
    BY <1>1 DEF Running, PC, IInv, TypeOK
  <2>3. Good(v, row', now')
    BY <1>1, <1>2, <2>1
    DEF Good, Shape, OwnItem, ReadStays, ArrivedStays, Holds, Running, MayTransfer
  <2> QED
    BY <2>1, <2>2, <2>3, SameTable, OneMoves DEF CheckTransfer, IInv, TypeOK
<1>3. CASE ~MayTransfer(inv.seen, inv.call, now)
  BY <1>3, EndKeeps DEF CheckTransfer, IInv, TypeOK
<1> QED
  BY <1>2, <1>3

LEMMA CheckLookupKeeps ==
  ASSUME IInv, NEW i \in Invocations, CheckLookup(i)
  PROVE  IInv'
<1> DEFINE inv == invocation[i]
           item == IF Available(inv.seen, now) THEN inv.seen ELSE None
           v == [inv EXCEPT !.pc = "respond", !.seen = item]
<1>1. /\ inv # None /\ inv \in Running /\ Shape(inv)
      /\ ReadStays(inv, row, now) /\ inv.op = "lookup"
  BY DEF IInv, TypeOK, CheckLookup, At, Good
<1>2. invocation' = [invocation EXCEPT ![i] = v] /\ UNCHANGED <<now, row>>
  BY DEF CheckLookup, IInv, TypeOK
<1>3. item \in {inv.seen, None}
  OBVIOUS
<1>4. v \in Running
  BY <1>1, <1>3 DEF Running, PC
<1>5. Good(v, row', now')
  BY <1>1, <1>2, <1>3 DEF Good, Shape, OwnItem, ReadStays, ArrivedStays, Holds, Running
<1> QED
  BY <1>2, <1>4, <1>5, SameTable, OneMoves DEF CheckLookup, IInv, TypeOK

\* Whatever Bridgefu answers is a reservation.
LEMMA ReservableTyped ==
  ASSUME TypeOK, NEW i \in Invocations, invocation[i] # None,
         NEW r \in Reservable(i)
  PROVE  bridgefu \cup {r} \subseteq Reservation
<1>1. invocation[i] \in Running
  BY DEF TypeOK
<1>2. now + AttachmentTtl \in Nat
  BY ConstantsAssumption DEF TypeOK
<1>3. [correlation |-> invocation[i].correlation, key |-> IdempotencyKey(i),
       expires_at |-> now + AttachmentTtl] \in Reservation
  BY <1>1, <1>2 DEF IdempotencyKey, Running, Reservation
<1> QED
  BY <1>3 DEF TypeOK, Reservable, Live, Reserved

LEMMA ReserveKeeps ==
  ASSUME IInv, NEW i \in Invocations, Reserve(i) \/ ReserveLost(i)
  PROVE  IInv'
<1> DEFINE inv == invocation[i]
           v == [inv EXCEPT !.pc = "mark", !.clock = 0]
<1>1. /\ inv # None /\ inv \in Running /\ Shape(inv) /\ OwnItem(inv)
      /\ ReadStays(inv, row, now) /\ inv.pc = "reserve"
  BY DEF IInv, TypeOK, Reserve, ReserveLost, At, Good
<1>2. inv.op = "transfer"
  BY <1>1 DEF Shape, Running, Op
<1>3. bridgefu' \subseteq Reservation /\ UNCHANGED <<now, row, promise, dialed>>
  BY <1>1, ReservableTyped DEF Reserve, ReserveLost, IInv
<1>4. CASE End(i)
  BY <1>3, <1>4, EndKeeps
<1>5. CASE invocation' = [invocation EXCEPT ![i].pc = "mark", ![i].clock = 0]
  <2>1. invocation' = [invocation EXCEPT ![i] = v]
    BY <1>5 DEF IInv, TypeOK
  <2>2. v \in Running
    BY <1>1 DEF Running, PC
  <2>3. Good(v, row', now')
    BY <1>1, <1>2, <1>3 DEF Good, Shape, OwnItem, ReadStays, ArrivedStays, Holds, Running
  <2> QED
    BY <1>3, <2>1, <2>2, <2>3, SameTable, OneMoves DEF IInv
<1> QED
  BY <1>4, <1>5 DEF Reserve, ReserveLost

LEMMA MarkKeeps ==
  ASSUME IInv, NEW i \in Invocations, MarkReserved(i)
  PROVE  IInv'
<1> DEFINE inv == invocation[i]
           k == inv.correlation
           v == [inv EXCEPT !.pc = "respond"]
<1>1. /\ inv # None /\ inv \in Running /\ Shape(inv) /\ OwnItem(inv)
      /\ ReadStays(inv, row, now) /\ inv.pc = "mark"
  BY DEF IInv, TypeOK, MarkReserved, At, Good
<1>2. inv.op = "transfer"
  BY <1>1 DEF Shape, Running, Op
<1>3. CASE row[k] # None /\ row[k].handoff_status \in {"PREPARED", "RESERVED"}
  <2> DEFINE item == [row[k] EXCEPT !.handoff_status = "RESERVED"]
  <2>1. row[k] \in Row /\ k \in Correlations
    BY <1>1, <1>3 DEF IInv, TypeOK, Running
  <2>2. row' = [row EXCEPT ![k] = item] /\ now' = now
    BY <1>3 DEF MarkReserved, IInv, TypeOK
  <2>3. /\ item \in Row
        /\ item.vapi_call_fingerprint = row[k].vapi_call_fingerprint
        /\ item.content_hash = row[k].content_hash
        /\ item.expires_at = row[k].expires_at
        /\ item.handoff_status = "RESERVED"
    BY <2>1 DEF Row
  <2>4. item # None
    BY <2>3, NoneAssumption
  <2> HIDE DEF item
  <2>5. row' \in [Correlations -> Row \cup {None}]
    BY <2>1, <2>2, <2>3 DEF IInv, TypeOK
  <2>6. Evolves(row, row', now')
    BY <2>2, <2>3, <2>4 DEF Evolves, Holds, IInv, TypeOK
  <2>7. invocation' = [invocation EXCEPT ![i] = v]
    BY <1>3 DEF MarkReserved, Goto, IInv, TypeOK
  <2>8. v \in Running
    BY <1>1 DEF Running, PC
  <2>9. Good(v, row', now')
    <3>1. row'[k] = item
      BY <2>1, <2>2 DEF IInv, TypeOK
    <3> QED
      BY <1>1, <1>2, <2>2, <2>3, <2>4, <3>1
      DEF Good, Shape, OwnItem, ReadStays, ArrivedStays, Holds, Running
  <2> QED
    BY <2>5, <2>6, <2>7, <2>8, <2>9, OneMoves DEF MarkReserved, IInv, TypeOK
<1>4. CASE ~(row[k] # None /\ row[k].handoff_status \in {"PREPARED", "RESERVED"})
  BY <1>4, EndKeeps DEF MarkReserved, IInv, TypeOK
<1> QED
  BY <1>3, <1>4

\* The answer of a prepare makes a promise, and the table already keeps it.
LEMMA RespondPreparedKeeps ==
  ASSUME IInv, NEW i \in Invocations, RespondPrepared(i)
  PROVE  IInv'
<1> DEFINE inv == invocation[i]
           k == inv.correlation
           p == [call |-> inv.call, content |-> inv.content,
                 until |-> inv.seen.expires_at]
<1>1. /\ inv # None /\ inv \in Running /\ Shape(inv) /\ OwnItem(inv)
      /\ ReadStays(inv, row, now) /\ inv.pc = "respond" /\ inv.op = "prepare"
  BY DEF IInv, TypeOK, RespondPrepared, At, Good
<1>2. p \in Promise /\ k \in Correlations
  BY <1>1 DEF Shape, OwnItem, Running, Row, Promise
<1>3. promise' = [promise EXCEPT ![k] = p]
  BY DEF RespondPrepared
<1>4. TypeOK'
  BY <1>2, <1>3 DEF RespondPrepared, End, IInv, TypeOK
<1>5. \A j \in Invocations : Good(invocation'[j], row', now')
  BY DEF RespondPrepared, End, IInv, TypeOK, Good
<1>6. PreparedIsKept'
  <2> SUFFICES ASSUME NEW l \in Correlations,
                      promise'[l] # None, now' < promise'[l].until
               PROVE  /\ row'[l] # None
                      /\ row'[l].vapi_call_fingerprint = promise'[l].call
                      /\ row'[l].content_hash = promise'[l].content
                      /\ row'[l].expires_at = promise'[l].until
    BY DEF PreparedIsKept
  <2>1. row' = row /\ now' = now
    BY DEF RespondPrepared
  <2>2. CASE l = k
    <3>1. promise'[l] = p
      BY <1>2, <1>3, <2>2 DEF IInv, TypeOK
    <3> QED
      BY <1>1, <2>1, <2>2, <3>1 DEF OwnItem, ReadStays, Holds
  <2>3. CASE l # k
    BY <1>3, <2>1, <2>3 DEF IInv, TypeOK, PreparedIsKept
  <2> QED
    BY <2>2, <2>3
<1>7. DialedHasContext'
  BY DEF RespondPrepared, IInv, DialedHasContext
<1> QED
  BY <1>4, <1>5, <1>6, <1>7 DEF IInv

\* A destination is handed out for an item that is there and RESERVED.
LEMMA RespondDestinationKeeps ==
  ASSUME IInv, NEW i \in Invocations, RespondDestination(i)
  PROVE  IInv'
<1> DEFINE inv == invocation[i]
           k == inv.correlation
           d == [call |-> inv.call, content |-> inv.seen.content_hash,
                 until |-> inv.seen.expires_at]
<1>1. /\ inv # None /\ inv \in Running /\ Shape(inv) /\ OwnItem(inv)
      /\ ReadStays(inv, row, now) /\ inv.pc = "respond" /\ inv.op = "transfer"
  BY DEF IInv, TypeOK, RespondDestination, At, Good
<1>2. d \in Promise /\ k \in Correlations
  BY <1>1 DEF Shape, OwnItem, Running, Row, Promise
<1>3. dialed' = [dialed EXCEPT ![k] = d]
  BY DEF RespondDestination
<1>4. TypeOK'
  BY <1>2, <1>3 DEF RespondDestination, End, IInv, TypeOK
<1>5. \A j \in Invocations : Good(invocation'[j], row', now')
  BY DEF RespondDestination, End, IInv, TypeOK, Good
<1>6. DialedHasContext'
  <2> SUFFICES ASSUME NEW l \in Correlations,
                      dialed'[l] # None, now' < dialed'[l].until
               PROVE  /\ row'[l] # None
                      /\ row'[l].handoff_status = "RESERVED"
                      /\ row'[l].vapi_call_fingerprint = dialed'[l].call
                      /\ row'[l].content_hash = dialed'[l].content
                      /\ row'[l].expires_at = dialed'[l].until
    BY DEF DialedHasContext
  <2>1. row' = row /\ now' = now
    BY DEF RespondDestination
  <2>2. CASE l = k
    <3>1. dialed'[l] = d
      BY <1>2, <1>3, <2>2 DEF IInv, TypeOK
    <3> QED
      BY <1>1, <2>1, <2>2, <3>1 DEF OwnItem, ReadStays, Holds
  <2>3. CASE l # k
    BY <1>3, <2>1, <2>3 DEF IInv, TypeOK, DialedHasContext
  <2> QED
    BY <2>2, <2>3
<1>7. PreparedIsKept'
  BY DEF RespondDestination, IInv, PreparedIsKept
<1> QED
  BY <1>4, <1>5, <1>6, <1>7 DEF IInv

\* The environment moves no invocation.
LEMMA EnvironmentKeeps ==
  ASSUME IInv, Tick \/ \E k \in Correlations : DeleteExpired(k)
  PROVE  IInv'
<1>1. /\ now \in Nat /\ now' \in Nat /\ now <= now'
      /\ row \in [Correlations -> Row \cup {None}]
      /\ row' \in [Correlations -> Row \cup {None}]
      /\ UNCHANGED <<bridgefu, invocation>>
  BY DEF Tick, DeleteExpired, IInv, TypeOK
<1>2. Evolves(row, row', now')
  <2> SUFFICES ASSUME NEW k \in Correlations, row[k] # None, now' < row[k].expires_at
               PROVE  row'[k] = row[k]
    BY DEF Evolves, Holds
  <2>1. row[k].expires_at \in Nat
    BY <1>1 DEF Row
  <2> QED
    BY <1>1, <2>1 DEF Tick, DeleteExpired, IInv, TypeOK
<1>3. /\ \A k \in Correlations : promise'[k] \in {promise[k], None}
      /\ \A k \in Correlations : dialed'[k] \in {dialed[k], None}
      /\ promise' \in [Correlations -> Promise \cup {None}]
      /\ dialed' \in [Correlations -> Promise \cup {None}]
  BY DEF Tick, DeleteExpired, Binding, IInv, TypeOK
<1>4. TypeOK'
  BY <1>1, <1>3 DEF IInv, TypeOK
<1>5. \A j \in Invocations : Good(invocation'[j], row', now')
  <2> SUFFICES ASSUME NEW j \in Invocations
               PROVE  Good(invocation[j], row', now')
    BY <1>1
  <2>1. Good(invocation[j], row, now) /\ invocation[j] \in Running \cup {None}
    BY DEF IInv, TypeOK
  <2> QED
    BY <1>1, <1>2, <2>1, Evolution
<1>6. PreparedIsKept' /\ DialedHasContext'
  BY <1>1, <1>2, <1>3, PromisesCarried
<1> QED
  BY <1>4, <1>5, <1>6 DEF IInv

LEMMA InitKeeps == Init => IInv
BY DEF Init, IInv, TypeOK, Good, PreparedIsKept, DialedHasContext

LEMMA StutterKeeps == IInv /\ UNCHANGED vars => IInv'
BY DEF vars, IInv, TypeOK, Good, ReadStays, ArrivedStays, Holds,
       PreparedIsKept, DialedHasContext

LEMMA NextKeeps == IInv /\ [Next]_vars => IInv'
<1> SUFFICES ASSUME IInv, [Next]_vars
             PROVE  IInv'
  OBVIOUS
<1>1. ASSUME NEW i \in Invocations, Step(i)
      PROVE  IInv'
  <2>1. CASE BeginPrepare(i) \/ BeginTransfer(i) \/ BeginLookup(i)
    BY <2>1, BeginKeeps
  <2>2. CASE PutPrepared(i)
    BY <2>2, PutKeeps
  <2>3. CASE CompareExisting(i)
    BY <2>3, CompareKeeps
  <2>4. CASE GetRecord(i)
    BY <2>4, GetKeeps
  <2>5. CASE CheckTransfer(i)
    BY <2>5, CheckTransferKeeps
  <2>6. CASE CheckLookup(i)
    BY <2>6, CheckLookupKeeps
  <2>7. CASE Reserve(i) \/ ReserveLost(i)
    BY <2>7, ReserveKeeps
  <2>8. CASE MarkReserved(i)
    BY <2>8, MarkKeeps
  <2>9. CASE RespondPrepared(i)
    BY <2>9, RespondPreparedKeeps
  <2>10. CASE RespondDestination(i)
    BY <2>10, RespondDestinationKeeps
  <2>11. CASE RespondLookup(i) \/ Abort(i)
    BY <2>11, EndKeeps DEF RespondLookup, Abort, IInv, TypeOK
  <2> QED
    BY <1>1, <2>1, <2>2, <2>3, <2>4, <2>5, <2>6, <2>7, <2>8, <2>9, <2>10, <2>11
    DEF Step
<1>2. CASE Tick \/ \E k \in Correlations : DeleteExpired(k)
  BY <1>2, EnvironmentKeeps
<1>3. CASE UNCHANGED vars
  BY <1>3, StutterKeeps
<1> QED
  BY <1>1, <1>2, <1>3 DEF Next

THEOREM Invariance == Spec => []IInv
BY InitKeeps, NextKeeps, PTL DEF Spec

-----------------------------------------------------------------------------
(* What the service guarantees *)

\* Every variable of the service keeps its type.
THEOREM TypeCorrect == Spec => []TypeOK
<1>1. IInv => TypeOK
  BY DEF IInv
<1> QED
  BY <1>1, Invariance, PTL

\* What prepare_handoff acknowledged stays in the table, unchanged and for the
\* same call, until it expires.
THEOREM PreparedStays == Spec => []PreparedIsKept
<1>1. IInv => PreparedIsKept
  BY DEF IInv
<1> QED
  BY <1>1, Invariance, PTL

\* Whoever received a destination from transfer_destination finds the context
\* of that call in the table, RESERVED, until it expires.
THEOREM DialedFindsContext == Spec => []DialedHasContext
<1>1. IInv => DialedHasContext
  BY DEF IInv
<1> QED
  BY <1>1, Invariance, PTL

-----------------------------------------------------------------------------
(* One live reservation *)

\* Every attachment was reserved under the key of its own correlation id, so
\* that the two attachments of one id answer to one key.
KeyIsCorrelation == \A r \in bridgefu : r.key = r.correlation

ReservationInv == TypeOK /\ KeyIsCorrelation /\ OneLiveReservation

\* A reservation is the live one of its key, or there is no live one.
LEMMA ReserveOne ==
  ASSUME TypeOK, ReservationInv, NEW i \in Invocations, invocation[i] # None,
         NEW r \in Reservable(i), bridgefu' = bridgefu \cup {r}, now' = now
  PROVE  KeyIsCorrelation' /\ OneLiveReservation'
<1> DEFINE key == IdempotencyKey(i)
           fresh == [correlation |-> invocation[i].correlation, key |-> key,
                     expires_at |-> now + AttachmentTtl]
<1>1. r \in bridgefu \/ (r = fresh /\ Live(Reserved(key)) = {})
  BY DEF Reservable, Live, Reserved
<1>2. CASE r \in bridgefu
  <2>1. bridgefu' = bridgefu
    BY <1>2
  <2> QED
    BY <2>1 DEF ReservationInv, KeyIsCorrelation, OneLiveReservation, Live
<1>3. CASE r = fresh /\ Live(Reserved(key)) = {}
  <2>1. r.key = key /\ r.correlation = key
    BY <1>3 DEF IdempotencyKey
  <2>2. KeyIsCorrelation'
    BY <2>1 DEF ReservationInv, KeyIsCorrelation
  <2>3. \A q \in bridgefu : q.correlation = key => ~(q.expires_at > now)
    BY <1>3 DEF Live, Reserved, ReservationInv, KeyIsCorrelation
  <2>4. OneLiveReservation'
    BY <2>1, <2>3 DEF ReservationInv, OneLiveReservation, Live
  <2> QED
    BY <2>2, <2>4
<1> QED
  BY <1>1, <1>2, <1>3

\* Concurrent and repeated transfers never hold two live attachments for one
\* correlation id.
THEOREM ReservedOnce == Spec => []OneLiveReservation
<1>1. Init => KeyIsCorrelation /\ OneLiveReservation
  BY DEF Init, KeyIsCorrelation, OneLiveReservation, Live
<1>2. TypeOK /\ TypeOK' /\ KeyIsCorrelation /\ OneLiveReservation /\ [Next]_vars
        => KeyIsCorrelation' /\ OneLiveReservation'
  <2> SUFFICES ASSUME TypeOK, TypeOK', KeyIsCorrelation, OneLiveReservation, [Next]_vars
               PROVE  KeyIsCorrelation' /\ OneLiveReservation'
    OBVIOUS
  <2>1. CASE UNCHANGED <<now, bridgefu>>
    BY <2>1 DEF KeyIsCorrelation, OneLiveReservation, Live
  <2>2. CASE Tick
    <3>1. bridgefu' = bridgefu /\ now \in Nat /\ now' = now + 1
      BY <2>2 DEF Tick, TypeOK
    <3>2. \A r \in bridgefu : r.expires_at > now' => r.expires_at > now
      BY <3>1 DEF TypeOK, Reservation
    <3> QED
      BY <3>1, <3>2 DEF KeyIsCorrelation, OneLiveReservation, Live
  <2>3. ASSUME NEW i \in Invocations, Reserve(i) \/ ReserveLost(i)
        PROVE  KeyIsCorrelation' /\ OneLiveReservation'
    <3>1. /\ invocation[i] # None /\ now' = now
          /\ \E r \in Reservable(i) : bridgefu' = bridgefu \cup {r}
      BY <2>3 DEF Reserve, ReserveLost, At
    <3> QED
      BY <3>1, ReserveOne DEF ReservationInv
  <2>4. ASSUME NEW i \in Invocations, Step(i), ~(Reserve(i) \/ ReserveLost(i))
        PROVE  UNCHANGED <<now, bridgefu>>
    BY <2>4
    DEF Step, BeginPrepare, BeginTransfer, BeginLookup, Begin, PutPrepared,
        CompareExisting, GetRecord, CheckTransfer, CheckLookup, MarkReserved,
        RespondPrepared, RespondDestination, RespondLookup, Abort
  <2> QED
    BY <2>1, <2>2, <2>3, <2>4 DEF Next, vars, DeleteExpired
<1> QED
  BY <1>1, <1>2, TypeCorrect, PTL DEF Spec

-----------------------------------------------------------------------------
(* The service implements its contract *)

\* The book and the readers of the contract, as functions of the state.
Book == [k \in Correlations |-> EntryOf(row[k])]
Readers == [i \in Invocations |-> QuestionOf(invocation[i])]

\* A step of the table alone, from one item of row[k] to another.
LEMMA BookUpdate ==
  ASSUME TypeOK, NEW k \in Correlations, NEW item, row' = [row EXCEPT ![k] = item]
  PROVE  Book' = [Book EXCEPT ![k] = EntryOf(item)]
BY DEF TypeOK, Book, EntryOf

LEMMA ReadersUpdate ==
  ASSUME TypeOK, NEW i \in Invocations, NEW v,
         invocation' = [invocation EXCEPT ![i] = v]
  PROVE  Readers' = [Readers EXCEPT ![i] = QuestionOf(v)]
BY ZenonT(60) DEF TypeOK, Readers, QuestionOf, EntryOf

\* The entry of an item is an entry, and no item has no entry.
LEMMA EntryTyped ==
  ASSUME NEW item \in Row \cup {None}
  PROVE  /\ item = None => EntryOf(item) = None
         /\ item # None => /\ EntryOf(item) \in Connect!Entry
                           /\ EntryOf(item).content = item.content_hash
                           /\ EntryOf(item).until = item.expires_at
BY DEF EntryOf, Connect!Entry, Row

\* Requests other than lookups ask nothing.
LEMMA NoQuestion ==
  ASSUME NEW inv \in Running \cup {None}, inv = None \/ inv.op # "lookup"
  PROVE  QuestionOf(inv) = None
BY DEF QuestionOf

\* The steps of the contract, over Book and Readers.
LEMMA ContractOpens ==
  ASSUME NEW k \in Correlations, NEW e \in Connect!Entry, Book[k] = None,
         Book' = [Book EXCEPT ![k] = e], UNCHANGED <<now, Readers>>
  PROVE  Connect!Next
<1>1. Book'[k] = e
  BY DEF Book
<1>2. Connect!Open(k)
  BY <1>1 DEF Connect!Open, Book, Readers
<1> QED
  BY <1>2 DEF Connect!Next

LEMMA ContractCloses ==
  ASSUME NEW k \in Correlations, Book[k] # None, Book[k].until <= now,
         Book' = [Book EXCEPT ![k] = None], UNCHANGED <<now, Readers>>
  PROVE  Connect!Next
<1>1. Connect!Close(k)
  BY DEF Connect!Close, Book, Readers
<1> QED
  BY <1>1 DEF Connect!Next

LEMMA ContractAsked ==
  ASSUME NEW i \in Invocations, NEW k \in Correlations, Readers[i] = None,
         Readers' = [Readers EXCEPT ![i] = [about |-> k, arrived |-> Book[k],
                                            answer |-> "pending"]],
         UNCHANGED <<now, Book>>
  PROVE  Connect!Next
<1>1. Connect!Ask(i, k)
  BY DEF Connect!Ask, Book, Readers
<1> QED
  BY <1>1 DEF Connect!Next

LEMMA ContractAnswered ==
  ASSUME NEW i \in Invocations, Readers[i] # None, Readers[i].answer = "pending",
         NEW a,
         \/ /\ Book[Readers[i].about] # None
            /\ now < Book[Readers[i].about].until
            /\ a = Book[Readers[i].about].content
         \/ /\ Readers[i].arrived = None \/ Readers[i].arrived.until <= now
            /\ a = "unavailable",
         Readers' = [Readers EXCEPT ![i].answer = a],
         UNCHANGED <<now, Book>>
  PROVE  Connect!Next
<1>1. Connect!AnswerAvailable(i) \/ Connect!AnswerUnavailable(i)
  BY DEF Connect!AnswerAvailable, Connect!AnswerUnavailable, Book, Readers
<1> QED
  BY <1>1 DEF Connect!Next

LEMMA ContractLeft ==
  ASSUME NEW i \in Invocations, Readers[i] # None,
         Readers' = [Readers EXCEPT ![i] = None], UNCHANGED <<now, Book>>
  PROVE  Connect!Next
<1>1. Connect!Leave(i)
  BY DEF Connect!Leave, Book, Readers
<1> QED
  BY <1>1 DEF Connect!Next

LEMMA ContractStutters ==
  ASSUME UNCHANGED <<now, Book, Readers>>
  PROVE  [Connect!Next]_Connect!vars
BY DEF Connect!vars, Book, Readers

LEMMA QuestionTyped ==
  ASSUME NEW inv \in Running, inv.op = "lookup"
  PROVE  /\ QuestionOf(inv) \in Connect!Question
         /\ QuestionOf(inv) # None
         /\ QuestionOf(inv) =
              [about |-> inv.correlation, arrived |-> EntryOf(inv.arrived),
               answer |-> IF inv.pc # "respond" THEN "pending"
                          ELSE IF inv.seen = None THEN "unavailable"
                          ELSE inv.seen.content_hash]
<1>1. inv # None
  BY NoneAssumption
<1>2. EntryOf(inv.arrived) \in Connect!Entry \cup {None}
  BY EntryTyped DEF Running
<1>3. QuestionOf(inv) =
        [about |-> inv.correlation, arrived |-> EntryOf(inv.arrived),
         answer |-> IF inv.pc # "respond" THEN "pending"
                    ELSE IF inv.seen = None THEN "unavailable"
                    ELSE inv.seen.content_hash]
  BY <1>1 DEF QuestionOf
<1>4. (IF inv.pc # "respond" THEN "pending"
       ELSE IF inv.seen = None THEN "unavailable" ELSE inv.seen.content_hash)
        \in {"pending", "unavailable"} \cup Contents
  BY DEF Running, Row
<1>5. QuestionOf(inv) \in Connect!Question
  BY <1>2, <1>3, <1>4 DEF Connect!Question, Running
<1> QED
  BY <1>3, <1>5, ContractNoneAssumption

LEMMA EndRefines ==
  ASSUME TypeOK, NEW i \in Invocations, invocation[i] # None, End(i),
         UNCHANGED <<now, row>>
  PROVE  [Connect!Next]_Connect!vars
<1>1. Readers' = [Readers EXCEPT ![i] = None] /\ UNCHANGED <<now, Book>>
  BY ReadersUpdate DEF End, QuestionOf, Book
<1>2. invocation[i] \in Running /\ Readers[i] = QuestionOf(invocation[i])
  BY DEF TypeOK, Readers
<1>3. CASE invocation[i].op = "lookup"
  BY <1>1, <1>2, <1>3, QuestionTyped, ContractLeft
<1>4. CASE invocation[i].op # "lookup"
  <2>1. Readers[i] = None
    BY <1>2, <1>4, NoQuestion
  <2>2. Readers' = Readers
    BY <1>1, <2>1 DEF Readers
  <2> QED
    BY <1>1, <2>2, ContractStutters
<1> QED
  BY <1>3, <1>4

\* An invocation that is not a lookup moves and stays none: the contract sees
\* at most what happens to the table.
LEMMA OthersAskNothing ==
  ASSUME TypeOK, TypeOK', NEW i \in Invocations,
         invocation[i] = None \/ invocation[i].op # "lookup",
         invocation'[i] = None \/ invocation'[i].op # "lookup",
         invocation' = [invocation EXCEPT ![i] = invocation'[i]]
  PROVE  UNCHANGED Readers
<1>1. Readers[i] = None
  BY NoQuestion DEF TypeOK, Readers
<1>2. QuestionOf(invocation'[i]) = None
  BY NoQuestion DEF TypeOK
<1>3. Readers' = [Readers EXCEPT ![i] = None]
  BY <1>2, ReadersUpdate
<1> QED
  BY <1>1, <1>3 DEF Readers

\* A put that finds no item opens an entry of the book.
LEMMA PutRefines ==
  ASSUME IInv, IInv', NEW i \in Invocations, PutPrepared(i)
  PROVE  [Connect!Next]_Connect!vars
<1> DEFINE inv == invocation[i]
           k == inv.correlation
<1>1. /\ inv # None /\ inv \in Running /\ Shape(inv) /\ inv.pc = "put"
      /\ inv.op \in {"prepare", "transfer_tool"}
  BY DEF IInv, TypeOK, PutPrepared, At, Good, Shape, Running, Op
<1>2. invocation' = [invocation EXCEPT ![i] = invocation'[i]]
      /\ invocation'[i].op # "lookup"
  BY <1>1 DEF PutPrepared, Prepared, Goto, TransferRequest, IInv, TypeOK, Running
<1>3. UNCHANGED <<now, Readers>>
  BY <1>1, <1>2, OthersAskNothing DEF IInv, PutPrepared
<1>4. CASE row[k] = None
  <2> DEFINE item == PreparedItem(i)
  <2>1. item \in Row /\ item # None /\ k \in Correlations
    BY <1>1, ConstantsAssumption, NoneAssumption
    DEF PreparedItem, Row, Running, Shape
  <2>2. row' = [row EXCEPT ![k] = item]
    BY <1>4 DEF PutPrepared
  <2>3. Book' = [Book EXCEPT ![k] = EntryOf(item)]
    BY <2>1, <2>2, BookUpdate DEF IInv
  <2>4. Book[k] = None
    BY <1>4, <2>1 DEF Book, EntryOf
  <2>5. EntryOf(item) \in Connect!Entry
    BY <2>1, EntryTyped
  <2> QED
    BY <1>3, <2>1, <2>3, <2>4, <2>5, ContractOpens
<1>5. CASE row[k] # None
  BY <1>3, <1>5, ContractStutters DEF PutPrepared, Book
<1> QED
  BY <1>4, <1>5

\* Marking an item RESERVED says nothing new to a reader.
LEMMA MarkRefines ==
  ASSUME IInv, IInv', NEW i \in Invocations, MarkReserved(i)
  PROVE  [Connect!Next]_Connect!vars
<1> DEFINE inv == invocation[i]
           k == inv.correlation
<1>1. /\ inv # None /\ inv \in Running /\ Shape(inv) /\ inv.pc = "mark"
      /\ inv.op = "transfer"
  BY DEF IInv, TypeOK, MarkReserved, At, Good, Shape, Running, Op
<1>2. CASE row[k] # None /\ row[k].handoff_status \in {"PREPARED", "RESERVED"}
  <2> DEFINE item == [row[k] EXCEPT !.handoff_status = "RESERVED"]
  <2>1. row[k] \in Row /\ k \in Correlations
    BY <1>1, <1>2 DEF IInv, TypeOK, Running
  <2>2. row' = [row EXCEPT ![k] = item]
    BY <1>2 DEF MarkReserved, IInv, TypeOK
  <2>3. /\ item \in Row
        /\ item.vapi_call_fingerprint = row[k].vapi_call_fingerprint
        /\ item.content_hash = row[k].content_hash
        /\ item.expires_at = row[k].expires_at
    BY <2>1 DEF Row
  <2>4. item # None
    BY <2>3, NoneAssumption
  <2> HIDE DEF item
  <2>5. EntryOf(item) = Book[k]
    BY <1>2, <2>1, <2>3, <2>4 DEF EntryOf, Book
  <2>6. Book' = Book
    BY <2>1, <2>2, <2>5, BookUpdate DEF IInv, Book
  <2>7. invocation' = [invocation EXCEPT ![i] = invocation'[i]]
        /\ invocation'[i].op # "lookup"
    BY <1>1, <1>2 DEF MarkReserved, Goto, IInv, TypeOK, Running
  <2> QED
    BY <1>1, <2>6, <2>7, OthersAskNothing, ContractStutters DEF IInv, MarkReserved
<1>3. CASE ~(row[k] # None /\ row[k].handoff_status \in {"PREPARED", "RESERVED"})
  BY <1>1, <1>3, EndRefines DEF MarkReserved, IInv
<1> QED
  BY <1>2, <1>3

LEMMA LookupBeginRefines ==
  ASSUME IInv, NEW i \in Invocations, BeginLookup(i)
  PROVE  [Connect!Next]_Connect!vars
<1>1. PICK k \in Correlations : Begin(i, LookupRequest(k))
  BY DEF BeginLookup
<1> DEFINE v == LookupRequest(k)
<1>2. v \in Running /\ v.op = "lookup" /\ v.pc = "get"
      /\ v.correlation = k /\ v.arrived = row[k]
  BY <1>1 DEF LookupRequest, Running, Op, PC, IInv, TypeOK
<1>3. invocation[i] = None /\ UNCHANGED <<now, row>>
      /\ invocation' = [invocation EXCEPT ![i] = v]
  BY <1>1 DEF Begin
<1>4. QuestionOf(v) = [about |-> k, arrived |-> EntryOf(row[k]), answer |-> "pending"]
  BY <1>2, QuestionTyped
<1>5. Readers' = [Readers EXCEPT ![i] = [about |-> k, arrived |-> Book[k],
                                         answer |-> "pending"]]
  BY <1>3, <1>4, ReadersUpdate DEF IInv, Book
<1>6. Readers[i] = None
  BY <1>3 DEF Readers, QuestionOf
<1> QED
  BY <1>3, <1>5, <1>6, ContractAsked DEF Book

\* The step in which a lookup reads its clock is the step that answers: what
\* it has read is still in the book, or could not be relied on at arrival.
LEMMA LookupAnswerRefines ==
  ASSUME IInv, NEW i \in Invocations, CheckLookup(i)
  PROVE  [Connect!Next]_Connect!vars
<1> DEFINE inv == invocation[i]
           item == IF Available(inv.seen, now) THEN inv.seen ELSE None
           v == [inv EXCEPT !.pc = "respond", !.seen = item]
           a == IF item = None THEN "unavailable" ELSE item.content_hash
<1>1. /\ inv # None /\ inv \in Running /\ Shape(inv) /\ ReadStays(inv, row, now)
      /\ ArrivedStays(inv, row, now) /\ inv.op = "lookup" /\ inv.pc = "check"
  BY DEF IInv, TypeOK, CheckLookup, At, Good
<1>2. invocation' = [invocation EXCEPT ![i] = v] /\ UNCHANGED <<now, row>>
  BY DEF CheckLookup, IInv, TypeOK
<1>3. item \in {inv.seen, None} /\ inv.seen \in Row \cup {None}
      /\ inv.correlation \in Correlations /\ inv.arrived \in Row \cup {None}
  BY <1>1 DEF Running
<1>4. v \in Running /\ v.op = "lookup" /\ v.pc = "respond" /\ v.seen = item
      /\ v.correlation = inv.correlation /\ v.arrived = inv.arrived
  BY <1>1, <1>3 DEF Running, PC
<1>5. /\ Readers[i] = [about |-> inv.correlation, arrived |-> EntryOf(inv.arrived),
                       answer |-> "pending"]
      /\ Readers[i] # None
  BY <1>1, QuestionTyped DEF Readers
<1>6. QuestionOf(v) = [about |-> inv.correlation, arrived |-> EntryOf(inv.arrived),
                       answer |-> a]
  <2> HIDE DEF v, item
  <2> QED
    BY <1>4, QuestionTyped
<1>7. Readers' = [Readers EXCEPT ![i].answer = a]
  <2>1. Readers' = [Readers EXCEPT ![i] = QuestionOf(v)]
    BY <1>2, ReadersUpdate DEF IInv
  <2>2. [Readers[i] EXCEPT !.answer = a] = QuestionOf(v)
    BY <1>5, <1>6
  <2> QED
    BY <2>1, <2>2 DEF Readers
<1> DEFINE about == Readers[i].about
           arrived == Readers[i].arrived
<1>8. /\ about = inv.correlation /\ arrived = EntryOf(inv.arrived)
      /\ Readers[i].answer = "pending" /\ Readers[i] # None
      /\ UNCHANGED <<now, Book>>
  BY <1>2, <1>5 DEF Book
<1>9. CASE Available(inv.seen, now)
  <2>1. inv.seen # None /\ now < inv.seen.expires_at /\ item = inv.seen
    BY <1>3, <1>9 DEF Available, Row, IInv, TypeOK
  <2>2. Holds(row, inv.correlation, inv.seen)
    BY <1>1, <2>1 DEF ReadStays
  <2>3. row[inv.correlation] \in Row
    BY <1>3, <2>2 DEF Holds, IInv, TypeOK
  <2>4. EntryOf(row[inv.correlation]) # None
    BY <2>2, <2>3, EntryTyped, ContractNoneAssumption DEF Holds
  <2>5. Book[inv.correlation] # None /\ now < Book[inv.correlation].until
        /\ a = Book[inv.correlation].content
    BY <1>3, <2>1, <2>2, <2>3, <2>4, EntryTyped DEF Book, Holds
  <2>6. /\ Book[about] # None /\ now < Book[about].until
        /\ a = Book[about].content
    BY <1>8, <2>5
  <2> HIDE DEF a, about
  <2> QED
    BY <1>7, <1>8, <2>6, ContractAnswered DEF about
<1>10. CASE ~Available(inv.seen, now)
  <2>1. a = "unavailable"
    BY <1>10
  <2>2. inv.arrived = None \/ inv.arrived.expires_at <= now
    <3> SUFFICES ASSUME inv.arrived # None, ~(inv.arrived.expires_at <= now)
                 PROVE  FALSE
      OBVIOUS
    <3>1. now < inv.arrived.expires_at
      BY <1>3 DEF Row, IInv, TypeOK
    <3>2. inv.seen # None /\ inv.seen.expires_at = inv.arrived.expires_at
      BY <1>1, <3>1 DEF ArrivedStays
    <3> QED
      BY <1>3, <1>10, <3>1, <3>2 DEF Available, Row, IInv, TypeOK
  <2>3. arrived = None \/ arrived.until <= now
    BY <1>3, <1>8, <2>2, EntryTyped
  <2> HIDE DEF a, arrived
  <2> QED
    BY <1>7, <1>8, <2>1, <2>3, ContractAnswered DEF arrived
<1> QED
  BY <1>9, <1>10

\* The steps of an invocation that change neither the table nor a question.
LEMMA QuietRefines ==
  ASSUME IInv, IInv', NEW i \in Invocations,
         \/ BeginPrepare(i) \/ BeginTransfer(i) \/ CompareExisting(i)
         \/ GetRecord(i) \/ CheckTransfer(i) \/ Reserve(i)
  PROVE  [Connect!Next]_Connect!vars
<1>1. UNCHANGED <<now, row>>
  BY DEF BeginPrepare, BeginTransfer, Begin, CompareExisting, GetRecord,
         CheckTransfer, Reserve
<1>2. CASE invocation[i] # None /\ End(i)
  BY <1>1, <1>2, EndRefines DEF IInv
<1>3. ASSUME ~(invocation[i] # None /\ End(i)),
             invocation[i] = None \/ invocation[i].op # "lookup"
      PROVE  [Connect!Next]_Connect!vars
  <2>1. invocation' = [invocation EXCEPT ![i] = invocation'[i]]
    BY DEF BeginPrepare, BeginTransfer, Begin, CompareExisting, Prepared, GetRecord,
           CheckTransfer, Reserve, End, IInv, TypeOK
  <2>2. invocation'[i] = None \/ invocation'[i].op # "lookup"
    <3>1. CASE BeginPrepare(i) \/ BeginTransfer(i)
      BY <3>1 DEF BeginPrepare, BeginTransfer, Begin, PrepareRequest,
                  TransferRequest, IInv, TypeOK
    <3>2. CASE CompareExisting(i)
      BY <1>3, <3>2 DEF CompareExisting, At, Prepared, End, TransferRequest, IInv,
                        TypeOK, Running
    <3>3. CASE GetRecord(i) \/ CheckTransfer(i) \/ Reserve(i)
      BY <1>3, <3>3 DEF GetRecord, CheckTransfer, Reserve, At, Goto, End, IInv,
                        TypeOK, Running
    <3> QED
      BY <3>1, <3>2, <3>3
  <2> QED
    BY <1>1, <1>3, <2>1, <2>2, OthersAskNothing, ContractStutters DEF IInv, Book
<1>4. CASE invocation[i] # None /\ invocation[i].op = "lookup"
  <2> DEFINE inv == invocation[i]
             v == [inv EXCEPT !.pc = "check", !.seen = row[inv.correlation]]
  <2>1. inv \in Running /\ inv.pc \in {"get", "check"}
        /\ GetRecord(i)
    BY <1>4 DEF IInv, TypeOK, Good, Shape, BeginPrepare, BeginTransfer, Begin,
                CompareExisting, GetRecord, CheckTransfer, Reserve, At
  <2>2. invocation' = [invocation EXCEPT ![i] = v]
    BY <2>1 DEF GetRecord, IInv, TypeOK
  <2>3. /\ v \in Running /\ v.op = "lookup" /\ v.pc = "check"
        /\ v.correlation = inv.correlation /\ v.arrived = inv.arrived
    BY <1>4, <2>1 DEF Running, PC, IInv, TypeOK
  <2>4. QuestionOf(v) = QuestionOf(inv)
    <3> HIDE DEF v
    <3> QED
      BY <1>4, <2>1, <2>3, QuestionTyped
  <2>5. Readers' = Readers
    BY <2>2, <2>4, ReadersUpdate DEF IInv, Readers
  <2> QED
    BY <1>1, <2>5, ContractStutters DEF Book
<1> QED
  BY <1>2, <1>3, <1>4

\* The steps with which an invocation ends, whatever else they change.
LEMMA EndingRefines ==
  ASSUME IInv, NEW i \in Invocations,
         \/ ReserveLost(i) \/ RespondPrepared(i) \/ RespondDestination(i)
         \/ RespondLookup(i) \/ Abort(i)
  PROVE  [Connect!Next]_Connect!vars
<1>1. invocation[i] # None /\ End(i) /\ UNCHANGED <<now, row>>
  BY DEF ReserveLost, RespondPrepared, RespondDestination, RespondLookup, Abort, At
<1> QED
  BY <1>1, EndRefines DEF IInv

\* The clock ticks in the contract too, and the table's clean-up closes an
\* entry that has run out.
LEMMA EnvironmentRefines ==
  ASSUME IInv, Tick \/ \E k \in Correlations : DeleteExpired(k)
  PROVE  [Connect!Next]_Connect!vars
<1>1. CASE Tick
  <2>1. Connect!Tick
    BY <1>1 DEF Tick, Connect!Tick
  <2> QED
    BY <2>1 DEF Connect!Next
<1>2. ASSUME NEW k \in Correlations, DeleteExpired(k)
      PROVE  [Connect!Next]_Connect!vars
  <2>1. row[k] \in Row /\ row[k].expires_at <= now
    BY <1>2 DEF DeleteExpired, IInv, TypeOK
  <2>2. Book[k] # None /\ Book[k].until <= now
    BY <1>2, <2>1, EntryTyped, ContractNoneAssumption DEF DeleteExpired, Book
  <2>3. Book' = [Book EXCEPT ![k] = None] /\ UNCHANGED <<now, Readers>>
    BY <1>2, BookUpdate DEF DeleteExpired, IInv, EntryOf, Readers
  <2> QED
    BY <2>2, <2>3, ContractCloses
<1> QED
  BY <1>1, <1>2

LEMMA InitRefines == Init => Connect!Init
BY DEF Init, Connect!Init, EntryOf, QuestionOf

LEMMA StepRefines ==
  ASSUME IInv, IInv', [Next]_vars
  PROVE  [Connect!Next]_Connect!vars
<1>1. CASE UNCHANGED vars
  BY <1>1, ContractStutters DEF vars, Book, Readers
<1>2. CASE Tick \/ \E k \in Correlations : DeleteExpired(k)
  BY <1>2, EnvironmentRefines
<1>3. ASSUME NEW i \in Invocations, Step(i)
      PROVE  [Connect!Next]_Connect!vars
  <2>1. CASE \/ BeginPrepare(i) \/ BeginTransfer(i) \/ CompareExisting(i)
             \/ GetRecord(i) \/ CheckTransfer(i) \/ Reserve(i)
    BY <2>1, QuietRefines
  <2>2. CASE BeginLookup(i)
    BY <2>2, LookupBeginRefines
  <2>3. CASE PutPrepared(i)
    BY <2>3, PutRefines
  <2>4. CASE CheckLookup(i)
    BY <2>4, LookupAnswerRefines
  <2>5. CASE MarkReserved(i)
    BY <2>5, MarkRefines
  <2>6. CASE \/ ReserveLost(i) \/ RespondPrepared(i) \/ RespondDestination(i)
             \/ RespondLookup(i) \/ Abort(i)
    BY <2>6, EndingRefines
  <2> QED
    BY <1>3, <2>1, <2>2, <2>3, <2>4, <2>5, <2>6 DEF Step
<1> QED
  BY <1>1, <1>2, <1>3 DEF Next

\* The handoff service implements its contract with Amazon Connect: an entry is
\* opened once, never edited and closed only when it has run out, and a lookup
\* is answered with the open entry or, rightly, with "unavailable".
THEOREM ImplementsContract == Spec => Contract
<1>1. Init => Connect!Init
  BY InitRefines
<1>2. IInv /\ IInv' /\ [Next]_vars => [Connect!Next]_Connect!vars
  BY StepRefines
<1> QED
  BY <1>1, <1>2, Invariance, PTL DEF Spec, Contract, Connect!Spec
=============================================================================
