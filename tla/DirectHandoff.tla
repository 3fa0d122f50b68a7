---------------------------- MODULE DirectHandoff ----------------------------
(***************************************************************************)
(* The direct handoff: a browser talks to a Vapi assistant over one leg of *)
(* a Bridgefu call, and the assistant's tool has that leg replaced by one  *)
(* to Amazon Connect.                                                      *)
(*                                                                         *)
(* The qualification controller issues a token for a session, creates the  *)
(* Bridgefu call, puts the session's row (status MAPPED: which call, which *)
(* leg, which token) into the handoff table and removes it afterwards. The *)
(* transfer-destination Lambda, given the token, stores the screen-pop     *)
(* values in the row, asks Bridgefu to replace the leg and marks the row.  *)
(* Vapi repeats a tool call it had no answer to, so several invocations    *)
(* with one token may run at once, each killed or cut off anywhere.        *)
(*                                                                         *)
(* One step is one call of the Lambda or of the controller to DynamoDB or  *)
(* Bridgefu. One token names one session, so sessions stand for tokens,    *)
(* for rows and for the leg each row names.                                *)
(***************************************************************************)
EXTENDS Naturals

CONSTANTS
  Sessions,     \* direct sessions: correlation id, token and leg of each
  Calls,        \* Vapi call identities that may present a token
  Contents,     \* screen-pop values the configured fields accept
  Invocations,  \* slots for concurrently running Lambda invocations
  Ttl,          \* life of a token and of its row
  Skew,         \* what the token check allows clocks to differ by
  MaxAttempts,  \* how often one invocation asks Bridgefu, conflicts included
  MaxTime,      \* bound: the clock stops here
  None          \* no row, no value, no invocation

ASSUME ConstantsAssumption ==
  /\ Ttl \in Nat \ {0}
  /\ Skew \in Nat
  /\ MaxAttempts \in Nat \ {0}
  /\ MaxTime \in Nat

VARIABLES
  now,         \* the wall clock
  control,     \* control[s]: where the controller is with session s
  until,       \* until[s]: when the token of s, and its row, expire
  row,         \* row[s]: the item DynamoDB holds for s
  leg,         \* leg[s]: the Bridgefu leg the row of s names
  invocation,  \* invocation[i]: the Lambda invocation running in slot i
  moved,       \* history: moved[s] is the handover that had the leg replaced
  accepted     \* history: accepted[s] is the last handover Vapi was answered

vars == <<now, control, until, row, leg, invocation, moved, accepted>>

-----------------------------------------------------------------------------
(* Types *)

Control == {"idle", "route", "stage", "running", "mismatch", "delete", "verify",
            "clean", "over"}

Leg == {"none", "routed", "assistant", "connect", "ended"}

\* content_hash and vapi_call_fingerprint are absent until values are stored.
Row == [status : {"MAPPED", "PREPARED", "RESERVED"}, identity : Calls \cup {None},
        values : Contents \cup {None}, expires_at : Nat]

Handover == [identity : Calls, values : Contents]

Running == [pc : {"prepare", "replace", "mark", "respond"}, session : Sessions,
            request : Handover, clock : Nat, attempt : Nat]

\* None is told apart from every value it stands in for.
ASSUME NoneAssumption ==
  None \notin Calls \cup Contents \cup Row \cup Handover \cup Running

TypeOK ==
  /\ now \in Nat
  /\ control \in [Sessions -> Control]
  /\ until \in [Sessions -> Nat]
  /\ row \in [Sessions -> Row \cup {None}]
  /\ leg \in [Sessions -> Leg]
  /\ invocation \in [Invocations -> Running \cup {None}]
  /\ moved \in [Sessions -> Handover \cup {None}]
  /\ accepted \in [Sessions -> Handover \cup {None}]

Init ==
  /\ now = 0
  /\ control = [s \in Sessions |-> "idle"]
  /\ until = [s \in Sessions |-> 0]
  /\ row = [s \in Sessions |-> None]
  /\ leg = [s \in Sessions |-> "none"]
  /\ invocation = [i \in Invocations |-> None]
  /\ moved = [s \in Sessions |-> None]
  /\ accepted = [s \in Sessions |-> None]

-----------------------------------------------------------------------------
(* The controller, session by session *)

In(s, place) == control[s] = place
To(s, place) == control' = [control EXCEPT ![s] = place]

IssueToken(s) ==
  /\ In(s, "idle")
  /\ To(s, "route")
  /\ until' = [until EXCEPT ![s] = now + Ttl]
  /\ UNCHANGED <<now, row, leg, invocation, moved, accepted>>

\* The Bridgefu call, created with the token in its metadata; without an answer
\* the session is given up.
CreateRoute(s) ==
  /\ In(s, "route")
  /\ leg' = [leg EXCEPT ![s] = "routed"]
  /\ To(s, "stage") \/ To(s, "over")
  /\ UNCHANGED <<now, until, row, invocation, moved, accepted>>

\* Mutant of MappedRow: no time to live.
MappedForGood(s) ==
  [status |-> "MAPPED", identity |-> None, values |-> None, expires_at |-> None]

MappedRow(s) ==
  [status |-> "MAPPED", identity |-> None, values |-> None, expires_at |-> until[s]]

\* The row, if there is none. Without an answer the controller does not know of
\* it, and neither starts the browser nor cleans up.
StageContext(s) ==
  /\ In(s, "stage")
  /\ \/ /\ row[s] = None
        /\ row' = [row EXCEPT ![s] = MappedRow(s)]
        /\ To(s, "running") \/ To(s, "over")
     \/ /\ To(s, "over")
        /\ UNCHANGED row
  /\ UNCHANGED <<now, until, leg, invocation, moved, accepted>>

\* The browser takes the call, and Bridgefu dials the assistant.
AttachBrowser(s) ==
  /\ In(s, "running")
  /\ leg[s] = "routed"
  /\ leg' = [leg EXCEPT ![s] = "assistant"]
  /\ UNCHANGED <<now, control, until, row, invocation, moved, accepted>>

\* Once the call has ended and Vapi shows the tool's result, the row has to be
\* RESERVED with the values the call was to carry.
VerifyContext(s) ==
  /\ In(s, "running")
  /\ leg[s] = "ended"
  /\ accepted[s] # None
  /\ IF row[s] # None /\ row[s].status = "RESERVED" /\ row[s].values = accepted[s].values
       THEN To(s, "delete") ELSE To(s, "mismatch")
  /\ UNCHANGED <<now, until, row, leg, invocation, moved, accepted>>

\* The smoke is over, however it ended: the browser is stopped.
StopSmoke(s) ==
  /\ control[s] \in {"running", "mismatch"}
  /\ To(s, "delete")
  /\ leg' = [leg EXCEPT ![s] = IF @ = "none" THEN @ ELSE "ended"]
  /\ UNCHANGED <<now, until, row, invocation, moved, accepted>>

\* The row is deleted; without an answer the final cleanup tries once more.
DeleteContext(s) ==
  /\ In(s, "delete")
  /\ \/ /\ row' = [row EXCEPT ![s] = None]
        /\ To(s, "verify") \/ UNCHANGED control
     \/ UNCHANGED <<row, control>>
  /\ UNCHANGED <<now, until, leg, invocation, moved, accepted>>

\* A consistent read proves that it is gone.
ProveAbsent(s) ==
  /\ In(s, "verify")
  /\ IF row[s] = None THEN To(s, "clean") ELSE To(s, "delete")
  /\ UNCHANGED <<now, until, row, leg, invocation, moved, accepted>>

-----------------------------------------------------------------------------
(* The Lambda *)

At(i, pc) == invocation[i] # None /\ invocation[i].pc = pc
Goto(i, pc) == invocation' = [invocation EXCEPT ![i].pc = pc]
End(i) == invocation' = [invocation EXCEPT ![i] = None]

\* A tool call with the token of s arrives, first or repeated. Identity binding
\* and token have been verified, and the clock been read, before the table.
BeginDirect(i) ==
  \E s \in Sessions, h \in Handover :
    /\ invocation[i] = None
    /\ leg[s] \notin {"none", "routed"}
    /\ now <= until[s] + Skew
    /\ invocation' = [invocation EXCEPT ![i] =
         [pc |-> "prepare", session |-> s, request |-> h, clock |-> now, attempt |-> 1]]
    /\ UNCHANGED <<now, control, until, row, leg, moved, accepted>>

\* Mutant of MayPrepare: what is stored may be replaced.
MayPrepareAgain(item, request, t) ==
  item # None /\ item.expires_at > t /\ item.identity \in {None, request.identity}

\* The condition of the update: an unexpired row that holds nothing yet, or
\* the same values of the same Vapi call.
MayPrepare(item, request, t) ==
  /\ item # None
  /\ item.expires_at > t
  /\ item.status \in {"MAPPED", "PREPARED", "RESERVED"}
  /\ item.values \in {None, request.values}
  /\ item.identity \in {None, request.identity}

\* The values are stored, under the clock read before; RESERVED goes back to
\* PREPARED. Without an answer the invocation is over (see Abort) all the same.
PrepareDirect(i) ==
  LET s == invocation[i].session
      h == invocation[i].request
  IN
  /\ At(i, "prepare")
  /\ IF MayPrepare(row[s], h, invocation[i].clock)
       THEN /\ row' = [row EXCEPT ![s] =
                 [status |-> "PREPARED", identity |-> h.identity, values |-> h.values,
                  expires_at |-> row[s].expires_at]]
            /\ Goto(i, "replace")
       ELSE End(i) /\ UNCHANGED row
  /\ UNCHANGED <<now, control, until, leg, moved, accepted>>

\* Bridgefu, external: the leg is replaced, or, under the same idempotency key,
\* has been.
ReplaceLeg(i) ==
  LET s == invocation[i].session IN
  /\ leg[s] \in {"assistant", "connect"}
  /\ leg' = [leg EXCEPT ![s] = "connect"]
  /\ moved' = [moved EXCEPT ![s] = IF leg[s] = "assistant" THEN invocation[i].request ELSE @]

\* Mutant of Replace: a refusal is taken for an answer.
ReplaceUnchecked(i) ==
  /\ At(i, "replace")
  /\ \/ ReplaceLeg(i)
     \/ UNCHANGED <<leg, moved>>
  /\ Goto(i, "mark")
  /\ UNCHANGED <<now, control, until, row, accepted>>

Replace(i) ==
  /\ At(i, "replace")
  /\ ReplaceLeg(i)
  /\ Goto(i, "mark")
  /\ UNCHANGED <<now, control, until, row, accepted>>

\* Another change of the call is under way: asked again after a while, or not.
ReplaceConflict(i) ==
  /\ At(i, "replace")
  /\ IF invocation[i].attempt < MaxAttempts
       THEN invocation' = [invocation EXCEPT ![i].attempt = @ + 1]
       ELSE End(i)
  /\ UNCHANGED <<now, control, until, row, leg, moved, accepted>>

\* Replaced, and the Lambda was not told.
ReplaceLost(i) ==
  /\ At(i, "replace")
  /\ ReplaceLeg(i)
  /\ End(i)
  /\ UNCHANGED <<now, control, until, row, accepted>>

Marked(item) == [item EXCEPT !.status = "RESERVED"]

\* Mutant of MarkStarted: the update has lost its condition, and makes the item.
MarkUnconditionally(i) ==
  LET s == invocation[i].session IN
  /\ At(i, "mark")
  /\ row' = [row EXCEPT ![s] =
       IF @ = None THEN Marked(MappedRow(s)) ELSE Marked(@)]
  /\ Goto(i, "respond")
  /\ UNCHANGED <<now, control, until, leg, moved, accepted>>

MarkStarted(i) ==
  LET s == invocation[i].session IN
  /\ At(i, "mark")
  /\ IF row[s] # None /\ row[s].status \in {"PREPARED", "RESERVED"}
       THEN /\ row' = [row EXCEPT ![s].status = "RESERVED"]
            /\ Goto(i, "respond")
       ELSE End(i) /\ UNCHANGED row
  /\ UNCHANGED <<now, control, until, leg, moved, accepted>>

\* The tool call is answered: accepted.
RespondAccepted(i) ==
  /\ At(i, "respond")
  /\ accepted' = [accepted EXCEPT ![invocation[i].session] = invocation[i].request]
  /\ End(i)
  /\ UNCHANGED <<now, control, until, row, leg, moved>>

\* Killed, refused, cut off before or after a call took effect, or unanswered.
Abort(i) ==
  /\ invocation[i] # None
  /\ End(i)
  /\ UNCHANGED <<now, control, until, row, leg, moved, accepted>>

-----------------------------------------------------------------------------
(* The environment *)

Tick ==
  /\ now < MaxTime
  /\ now' = now + 1
  /\ UNCHANGED <<control, until, row, leg, invocation, moved, accepted>>

\* DynamoDB deletes an expired item at some later time, or never.
DeleteExpired(s) ==
  /\ row[s] # None
  /\ row[s].expires_at <= now
  /\ row' = [row EXCEPT ![s] = None]
  /\ UNCHANGED <<now, control, until, leg, invocation, moved, accepted>>

HangUp(s) ==
  /\ leg[s] \in {"assistant", "connect"}
  /\ leg' = [leg EXCEPT ![s] = "ended"]
  /\ UNCHANGED <<now, control, until, row, invocation, moved, accepted>>

SessionStep(s) ==
  \/ IssueToken(s) \/ CreateRoute(s) \/ StageContext(s) \/ AttachBrowser(s)
  \/ VerifyContext(s) \/ StopSmoke(s) \/ DeleteContext(s) \/ ProveAbsent(s)
  \/ DeleteExpired(s) \/ HangUp(s)

Step(i) ==
  \/ BeginDirect(i) \/ PrepareDirect(i)
  \/ Replace(i) \/ ReplaceConflict(i) \/ ReplaceLost(i)
  \/ MarkStarted(i) \/ RespondAccepted(i) \/ Abort(i)

Next ==
  \/ Tick
  \/ \E s \in Sessions : SessionStep(s)
  \/ \E i \in Invocations : Step(i)

Spec == Init /\ [][Next]_vars

-----------------------------------------------------------------------------
(* Properties *)

\* The row of s is to be found: it has not expired, nor has the controller
\* begun to remove it.
Open(s) == now < until[s] /\ control[s] \in {"running", "mismatch"}

Holds(s, handover) ==
  /\ row[s] # None
  /\ row[s].status \in {"PREPARED", "RESERVED"}
  /\ row[s].identity = handover.identity
  /\ row[s].values = handover.values

\* The agent who takes over finds the context of the very handover that moved
\* the caller: stored before the leg was replaced, and never changed by other
\* invocations that hold the same token, before, meanwhile or afterwards.
MovedHasContext ==
  \A s \in Sessions : moved[s] # None /\ Open(s) => Holds(s, moved[s])

\* Vapi is answered "accepted" only when the caller has been moved, and only for
\* the handover that moved him: repeated or competing tool calls with the same
\* token are answered alike or refused.
AcceptedWasMoved ==
  \A s \in Sessions : accepted[s] # None => accepted[s] = moved[s]

\* A row the controller has proved absent stays absent: no late invocation
\* brings the session back.
CleanStaysGone ==
  \A s \in Sessions : control[s] = "clean" => row[s] = None
=============================================================================
