------------------------- MODULE DirectHandoffProofs -------------------------
(***************************************************************************)
(* Proofs about module DirectHandoff, for any sessions, Vapi calls,        *)
(* contents and concurrent invocations, any lifetime of a token and any    *)
(* number of attempts.                                                     *)
(*                                                                         *)
(* The argument: all the handovers of a session that have passed the       *)
(* conditional update are one and the same. Whoever passes it later finds  *)
(* the values of the earlier in the row, and has to repeat them; and once  *)
(* the row is gone nobody passes it any more. So whoever has the leg       *)
(* replaced, whoever is answered, and what the row holds all agree.        *)
(***************************************************************************)
EXTENDS DirectHandoff, TLAPS

-----------------------------------------------------------------------------
(* The inductive invariant, over explicit rows, handovers and invocations *)

\* The controller, at place p, has not put the row yet.
Early(p) == p \in {"idle", "route", "stage"}

\* The row holds handover h.
Keeps(item, h) ==
  /\ item.status \in {"PREPARED", "RESERVED"}
  /\ item.identity = h.identity
  /\ item.values = h.values

\* h is the one handover of its session, as far as row and history tell.
Fits(item, mv, h) ==
  /\ item # None => Keeps(item, h)
  /\ mv # None => mv = h

\* What holds of each session by itself.
Placed(p, u, item, l, mv, t) ==
  /\ Early(p) => item = None /\ l \in {"none", "routed"} /\ mv = None
  /\ item # None => item.expires_at = u
  /\ t < u /\ p \in {"running", "mismatch"} => item # None
  /\ l = "connect" => mv # None
  /\ p = "clean" => item = None
  /\ mv # None => Fits(item, mv, mv)

\* The invocation has passed the conditional update.
OnTheWay(inv) == inv # None /\ inv.pc # "prepare"

Sound(inv, places, rows, mvs) ==
  inv # None =>
    /\ ~Early(places[inv.session])
    /\ OnTheWay(inv) => Fits(rows[inv.session], mvs[inv.session], inv.request)
    /\ inv.pc \in {"mark", "respond"} => mvs[inv.session] = inv.request

\* Two invocations on the way for one session are about one handover.
Agree(inv, other) ==
  OnTheWay(inv) /\ OnTheWay(other) /\ inv.session = other.session
    => inv.request = other.request

IInv ==
  /\ TypeOK
  /\ \A s \in Sessions : Placed(control[s], until[s], row[s], leg[s], moved[s], now)
  /\ \A i \in Invocations : Sound(invocation[i], control, row, moved)
  /\ \A i, j \in Invocations : Agree(invocation[i], invocation[j])
  /\ AcceptedWasMoved

-----------------------------------------------------------------------------
(* What a step leaves alone *)

\* The row is as it was, or gone, or has another status.
RowStays(item, next) ==
  next # None =>
    /\ item # None
    /\ next.identity = item.identity
    /\ next.values = item.values
    /\ item.status \in {"PREPARED", "RESERVED"} => next.status \in {"PREPARED", "RESERVED"}

\* Places, rows and histories, before and after, disturb no invocation of any
\* session: a history that begins is the handover of all who are on the way.
Undisturbed(s) ==
  /\ Early(control'[s]) => Early(control[s])
  /\ RowStays(row[s], row'[s])
  /\ moved'[s] = moved[s]

LEMMA SoundStays ==
  ASSUME NEW inv \in Running \cup {None}, Sound(inv, control, row, moved),
         inv # None => Undisturbed(inv.session)
  PROVE  Sound(inv, control', row', moved')
BY DEF Sound, Undisturbed, RowStays, Fits, Keeps

\* A step of the controller or of the environment: no invocation moves.
LEMMA NobodyMoves ==
  ASSUME IInv, TypeOK', UNCHANGED <<invocation, moved, accepted>>,
         \A s \in Sessions : Undisturbed(s),
         \A s \in Sessions :
           Placed(control'[s], until'[s], row'[s], leg'[s], moved'[s], now')
  PROVE  IInv'
<1>1. \A i \in Invocations : Sound(invocation'[i], control', row', moved')
  <2> SUFFICES ASSUME NEW i \in Invocations
               PROVE  Sound(invocation[i], control', row', moved')
    OBVIOUS
  <2>1. invocation[i] \in Running \cup {None}
    BY DEF IInv, TypeOK
  <2>2. invocation[i] # None => invocation[i].session \in Sessions
    BY <2>1 DEF Running
  <2>3. Sound(invocation[i], control, row, moved)
    BY DEF IInv
  <2> QED
    BY <2>1, <2>2, <2>3, SoundStays
<1>2. \A i, j \in Invocations : Agree(invocation'[i], invocation'[j])
  BY DEF IInv
<1>3. AcceptedWasMoved'
  BY DEF IInv, AcceptedWasMoved
<1> QED
  BY <1>1, <1>2, <1>3 DEF IInv

\* A step of invocation i, after which it is v.
LEMMA OneMoves ==
  ASSUME IInv, TypeOK', NEW i \in Invocations, NEW v \in Running \cup {None},
         invocation' = [invocation EXCEPT ![i] = v],
         \A j \in Invocations \ {i} : Sound(invocation[j], control', row', moved'),
         Sound(v, control', row', moved'),
         \A j \in Invocations \ {i} : Agree(v, invocation[j]),
         \A s \in Sessions :
           Placed(control'[s], until'[s], row'[s], leg'[s], moved'[s], now'),
         AcceptedWasMoved'
  PROVE  IInv'
<1>1. invocation'[i] = v
  BY DEF IInv, TypeOK
<1>2. \A j \in Invocations \ {i} : invocation'[j] = invocation[j]
  BY DEF IInv, TypeOK
<1>3. \A j \in Invocations : Sound(invocation'[j], control', row', moved')
  BY <1>1, <1>2
<1>4. \A j, k \in Invocations : Agree(invocation'[j], invocation'[k])
  <2> SUFFICES ASSUME NEW j \in Invocations, NEW k \in Invocations
               PROVE  Agree(invocation'[j], invocation'[k])
    OBVIOUS
  <2>1. CASE j = i /\ k = i
    BY <2>1, <1>1 DEF Agree
  <2>2. CASE j = i /\ k # i
    BY <2>2, <1>1, <1>2
  <2>3. CASE j # i /\ k = i
    <3>1. Agree(v, invocation[j])
      BY <2>3
    <3> QED
      BY <3>1, <2>3, <1>1, <1>2 DEF Agree
  <2>4. CASE j # i /\ k # i
    BY <2>4, <1>2 DEF IInv
  <2> QED
    BY <2>1, <2>2, <2>3, <2>4
<1> QED
  BY <1>3, <1>4 DEF IInv

\* Others are not disturbed by a step that leaves their sessions alone.
LEMMA OthersSound ==
  ASSUME IInv, NEW i \in Invocations, \A s \in Sessions : Undisturbed(s)
  PROVE  \A j \in Invocations \ {i} : Sound(invocation[j], control', row', moved')
<1> SUFFICES ASSUME NEW j \in Invocations \ {i}
             PROVE  Sound(invocation[j], control', row', moved')
  OBVIOUS
<1>1. invocation[j] \in Running \cup {None}
  BY DEF IInv, TypeOK
<1>2. invocation[j] # None => invocation[j].session \in Sessions
  BY <1>1 DEF Running
<1>3. Sound(invocation[j], control, row, moved)
  BY DEF IInv
<1> QED
  BY <1>1, <1>2, <1>3, SoundStays

\* A step that is about invocation i alone: it gives up, or goes on with the
\* same handover, or arrives.
LEMMA OnlyOneMoves ==
  ASSUME IInv, UNCHANGED <<now, control, until, row, leg, moved>>,
         NEW i \in Invocations, NEW v \in Running \cup {None},
         invocation' = [invocation EXCEPT ![i] = v],
         Sound(v, control, row, moved),
         OnTheWay(v) => /\ OnTheWay(invocation[i])
                        /\ v.session = invocation[i].session
                        /\ v.request = invocation[i].request,
         accepted' \in [Sessions -> Handover \cup {None}],
         AcceptedWasMoved'
  PROVE  IInv'
<1>1. TypeOK'
  BY DEF IInv, TypeOK
<1>2. \A s \in Sessions : Undisturbed(s)
  BY DEF Undisturbed, RowStays
<1>3. \A j \in Invocations \ {i} : Sound(invocation[j], control', row', moved')
  BY <1>2, OthersSound
<1>4. \A j \in Invocations \ {i} : Agree(v, invocation[j])
  BY DEF IInv, Agree
<1>5. \A s \in Sessions :
        Placed(control'[s], until'[s], row'[s], leg'[s], moved'[s], now')
  BY DEF IInv
<1> QED
  BY <1>1, <1>3, <1>4, <1>5, OneMoves

-----------------------------------------------------------------------------
(* Each step keeps the invariant: controller and environment *)

LEMMA SessionStepKeeps ==
  ASSUME IInv, NEW s \in Sessions, SessionStep(s)
  PROVE  IInv'
<1> USE DEF In, To
<1>0. control \in [Sessions -> Control] /\ until \in [Sessions -> Nat]
      /\ row \in [Sessions -> Row \cup {None}] /\ leg \in [Sessions -> Leg]
      /\ moved \in [Sessions -> Handover \cup {None}] /\ now \in Nat
  BY DEF IInv, TypeOK
<1>p. \A z \in Sessions : Placed(control[z], until[z], row[z], leg[z], moved[z], now)
  BY DEF IInv
<1>1. CASE IssueToken(s)
  <2>1. TypeOK'
    BY <1>1, <1>0, ConstantsAssumption DEF IssueToken, IInv, TypeOK, Control
  <2>2. \A z \in Sessions : Undisturbed(z)
    BY <1>1, <1>0 DEF IssueToken, Undisturbed, RowStays, Early, Control
  <2>3. \A z \in Sessions :
          Placed(control'[z], until'[z], row'[z], leg'[z], moved'[z], now')
    BY <1>1, <1>0, <1>p DEF IssueToken, Placed, Early, Fits
  <2> QED
    BY <1>1, <2>1, <2>2, <2>3, NobodyMoves DEF IssueToken
<1>2. CASE CreateRoute(s)
  <2>1. TypeOK'
    BY <1>2, <1>0 DEF CreateRoute, IInv, TypeOK, Control, Leg
  <2>2. \A z \in Sessions : Undisturbed(z)
    BY <1>2, <1>0 DEF CreateRoute, Undisturbed, RowStays, Early
  <2>3. \A z \in Sessions :
          Placed(control'[z], until'[z], row'[z], leg'[z], moved'[z], now')
    BY <1>2, <1>0, <1>p DEF CreateRoute, Placed, Early, Fits
  <2> QED
    BY <1>2, <2>1, <2>2, <2>3, NobodyMoves DEF CreateRoute
<1>3. CASE StageContext(s)
  <2>1. MappedRow(s) \in Row /\ MappedRow(s).expires_at = until[s]
    BY <1>0 DEF MappedRow, Row
  <2>2. MappedRow(s) # None
    BY <2>1, NoneAssumption
  <2>3. TypeOK'
    BY <1>3, <1>0, <2>1 DEF StageContext, IInv, TypeOK, Control
  <2>4. CASE UNCHANGED row
    <3>1. \A z \in Sessions : Undisturbed(z)
      BY <1>3, <1>0, <2>4 DEF StageContext, Undisturbed, RowStays, Early
    <3>2. \A z \in Sessions :
            Placed(control'[z], until'[z], row'[z], leg'[z], moved'[z], now')
      BY <1>3, <1>0, <1>p, <2>4, <2>2 DEF StageContext, Placed, Early, Fits
    <3> QED
      BY <1>3, <2>3, <3>1, <3>2, NobodyMoves DEF StageContext
  <2>5. CASE row' = [row EXCEPT ![s] = MappedRow(s)] /\ (To(s, "running") \/ To(s, "over"))
    \* The row is new, but nobody is on the way for a session this early.
    <3>1. \A z \in Sessions :
            Placed(control'[z], until'[z], row'[z], leg'[z], moved'[z], now')
      BY <1>3, <1>0, <1>p, <2>5, <2>1, <2>2 DEF StageContext, Placed, Early, Fits
    <3>2. \A i \in Invocations : Sound(invocation[i], control', row', moved')
      <4> SUFFICES ASSUME NEW i \in Invocations, invocation[i] # None
                   PROVE  Sound(invocation[i], control', row', moved')
        BY DEF Sound
      <4>1. invocation[i].session \in Sessions /\ Sound(invocation[i], control, row, moved)
        BY DEF IInv, TypeOK, Running
      <4>2. invocation[i].session # s
        BY <4>1, <1>3 DEF Sound, StageContext, Early
      <4> QED
        BY <4>1, <4>2, <1>0, <1>3, <2>5 DEF Sound, StageContext
    <3>3. invocation' = invocation /\ moved' = moved /\ accepted' = accepted
      BY <1>3 DEF StageContext
    <3> QED
      BY <2>3, <3>1, <3>2, <3>3 DEF IInv, AcceptedWasMoved
  <2> QED
    BY <1>3, <2>4, <2>5 DEF StageContext
<1>4. CASE AttachBrowser(s)
  <2>1. TypeOK'
    BY <1>4, <1>0 DEF AttachBrowser, IInv, TypeOK, Leg
  <2>2. \A z \in Sessions : Undisturbed(z)
    BY <1>4, <1>0 DEF AttachBrowser, Undisturbed, RowStays
  <2>3. \A z \in Sessions :
          Placed(control'[z], until'[z], row'[z], leg'[z], moved'[z], now')
    BY <1>4, <1>0, <1>p DEF AttachBrowser, Placed, Early, Fits
  <2> QED
    BY <1>4, <2>1, <2>2, <2>3, NobodyMoves DEF AttachBrowser
<1>5. CASE VerifyContext(s)
  <2>1. TypeOK'
    BY <1>5, <1>0 DEF VerifyContext, IInv, TypeOK, Control
  <2>2. \A z \in Sessions : Undisturbed(z)
    BY <1>5, <1>0 DEF VerifyContext, Undisturbed, RowStays, Early
  <2>3. \A z \in Sessions :
          Placed(control'[z], until'[z], row'[z], leg'[z], moved'[z], now')
    BY <1>5, <1>0, <1>p DEF VerifyContext, Placed, Early, Fits
  <2> QED
    BY <1>5, <2>1, <2>2, <2>3, NobodyMoves DEF VerifyContext
<1>6. CASE StopSmoke(s)
  <2>1. TypeOK'
    BY <1>6, <1>0 DEF StopSmoke, IInv, TypeOK, Control, Leg
  <2>2. \A z \in Sessions : Undisturbed(z)
    BY <1>6, <1>0 DEF StopSmoke, Undisturbed, RowStays, Early
  <2>3. \A z \in Sessions :
          Placed(control'[z], until'[z], row'[z], leg'[z], moved'[z], now')
    BY <1>6, <1>0, <1>p DEF StopSmoke, Placed, Early, Fits
  <2> QED
    BY <1>6, <2>1, <2>2, <2>3, NobodyMoves DEF StopSmoke
<1>7. CASE DeleteContext(s)
  <2>1. TypeOK'
    BY <1>7, <1>0 DEF DeleteContext, IInv, TypeOK, Control
  <2>2. \A z \in Sessions : Undisturbed(z)
    BY <1>7, <1>0 DEF DeleteContext, Undisturbed, RowStays, Early
  <2>3. \A z \in Sessions :
          Placed(control'[z], until'[z], row'[z], leg'[z], moved'[z], now')
    BY <1>7, <1>0, <1>p DEF DeleteContext, Placed, Early, Fits
  <2> QED
    BY <1>7, <2>1, <2>2, <2>3, NobodyMoves DEF DeleteContext
<1>8. CASE ProveAbsent(s)
  <2>1. TypeOK'
    BY <1>8, <1>0 DEF ProveAbsent, IInv, TypeOK, Control
  <2>2. \A z \in Sessions : Undisturbed(z)
    BY <1>8, <1>0 DEF ProveAbsent, Undisturbed, RowStays, Early
  <2>3. \A z \in Sessions :
          Placed(control'[z], until'[z], row'[z], leg'[z], moved'[z], now')
    BY <1>8, <1>0, <1>p DEF ProveAbsent, Placed, Early, Fits
  <2> QED
    BY <1>8, <2>1, <2>2, <2>3, NobodyMoves DEF ProveAbsent
<1>9. CASE DeleteExpired(s)
  <2>1. TypeOK'
    BY <1>9, <1>0 DEF DeleteExpired, IInv, TypeOK
  <2>2. \A z \in Sessions : Undisturbed(z)
    BY <1>9, <1>0 DEF DeleteExpired, Undisturbed, RowStays
  \* An expired row carries the expiry of its token, so it is past its time.
  <2>3. \A z \in Sessions :
          Placed(control'[z], until'[z], row'[z], leg'[z], moved'[z], now')
    BY <1>9, <1>0, <1>p DEF DeleteExpired, Placed, Early, Fits
  <2> QED
    BY <1>9, <2>1, <2>2, <2>3, NobodyMoves DEF DeleteExpired
<1>10. CASE HangUp(s)
  <2>1. TypeOK'
    BY <1>10, <1>0 DEF HangUp, IInv, TypeOK, Leg
  <2>2. \A z \in Sessions : Undisturbed(z)
    BY <1>10, <1>0 DEF HangUp, Undisturbed, RowStays
  <2>3. \A z \in Sessions :
          Placed(control'[z], until'[z], row'[z], leg'[z], moved'[z], now')
    BY <1>10, <1>0, <1>p DEF HangUp, Placed, Early, Fits
  <2> QED
    BY <1>10, <2>1, <2>2, <2>3, NobodyMoves DEF HangUp
<1> QED
  BY <1>1, <1>2, <1>3, <1>4, <1>5, <1>6, <1>7, <1>8, <1>9, <1>10 DEF SessionStep

LEMMA TickKeeps ==
  ASSUME IInv, Tick
  PROVE  IInv'
<1>1. TypeOK'
  BY DEF Tick, IInv, TypeOK
<1>2. \A z \in Sessions : Undisturbed(z)
  BY DEF Tick, Undisturbed, RowStays
<1>3. \A z \in Sessions :
        Placed(control'[z], until'[z], row'[z], leg'[z], moved'[z], now')
  BY DEF Tick, IInv, TypeOK, Placed
<1> QED
  BY <1>1, <1>2, <1>3, NobodyMoves DEF Tick

-----------------------------------------------------------------------------
(* Each step keeps the invariant: the Lambda *)

LEMMA BeginKeeps ==
  ASSUME IInv, NEW i \in Invocations, BeginDirect(i)
  PROVE  IInv'
<1>1. PICK s \in Sessions, h \in Handover :
        /\ leg[s] \notin {"none", "routed"}
        /\ invocation' = [invocation EXCEPT ![i] =
             [pc |-> "prepare", session |-> s, request |-> h, clock |-> now,
              attempt |-> 1]]
  BY DEF BeginDirect
<1> DEFINE v == [pc |-> "prepare", session |-> s, request |-> h, clock |-> now,
                 attempt |-> 1]
<1>2. v \in Running
  BY DEF Running, IInv, TypeOK
<1>3. ~Early(control[s])
  BY <1>1 DEF IInv, Placed
<1>4. Sound(v, control, row, moved) /\ ~OnTheWay(v)
  BY <1>3 DEF Sound, OnTheWay
<1>5. accepted' \in [Sessions -> Handover \cup {None}] /\ AcceptedWasMoved'
  BY DEF BeginDirect, IInv, TypeOK, AcceptedWasMoved
<1> QED
  BY <1>1, <1>2, <1>4, <1>5, OnlyOneMoves DEF BeginDirect

LEMMA AbortKeeps ==
  ASSUME IInv, NEW i \in Invocations, Abort(i)
  PROVE  IInv'
<1>1. Sound(None, control, row, moved) /\ ~OnTheWay(None)
  BY DEF Sound, OnTheWay
<1>2. accepted' \in [Sessions -> Handover \cup {None}] /\ AcceptedWasMoved'
  BY DEF Abort, IInv, TypeOK, AcceptedWasMoved
<1> QED
  BY <1>1, <1>2, OnlyOneMoves DEF Abort, End

LEMMA ConflictKeeps ==
  ASSUME IInv, NEW i \in Invocations, ReplaceConflict(i)
  PROVE  IInv'
<1>1. accepted' \in [Sessions -> Handover \cup {None}] /\ AcceptedWasMoved'
  BY DEF ReplaceConflict, IInv, TypeOK, AcceptedWasMoved
<1>2. CASE End(i)
  <2>1. Sound(None, control, row, moved) /\ ~OnTheWay(None)
    BY DEF Sound, OnTheWay
  <2> QED
    BY <1>1, <1>2, <2>1, OnlyOneMoves DEF ReplaceConflict, End
<1>3. CASE invocation' = [invocation EXCEPT ![i].attempt = @ + 1]
  <2> DEFINE v == [invocation[i] EXCEPT !.attempt = @ + 1]
  <2>1. invocation[i] \in Running /\ invocation[i].pc = "replace"
    BY DEF ReplaceConflict, At, IInv, TypeOK
  <2>2. /\ v \in Running /\ v.pc = "replace" /\ v.session = invocation[i].session
        /\ v.request = invocation[i].request
    BY <2>1 DEF Running
  <2>3. invocation[i] # None /\ v # None
    BY <2>1, <2>2, NoneAssumption
  <2>4. OnTheWay(invocation[i])
    BY <2>1, <2>3 DEF OnTheWay
  <2>5. Sound(invocation[i], control, row, moved)
    BY DEF IInv
  <2>6. Sound(v, control, row, moved)
    BY <2>1, <2>2, <2>3, <2>4, <2>5 DEF Sound
  <2>7. invocation' = [invocation EXCEPT ![i] = v]
    BY <1>3
  <2> HIDE DEF v
  <2> QED
    BY <1>1, <2>2, <2>4, <2>6, <2>7, OnlyOneMoves DEF ReplaceConflict
<1> QED
  BY <1>2, <1>3 DEF ReplaceConflict

LEMMA RespondKeeps ==
  ASSUME IInv, NEW i \in Invocations, RespondAccepted(i)
  PROVE  IInv'
<1>1. invocation[i] \in Running /\ invocation[i].pc = "respond"
  BY DEF RespondAccepted, At, IInv, TypeOK
<1>2. invocation[i].session \in Sessions /\ invocation[i].request \in Handover
  BY <1>1 DEF Running
<1>3. moved[invocation[i].session] = invocation[i].request
  BY <1>1, NoneAssumption DEF IInv, Sound
<1>4. accepted' \in [Sessions -> Handover \cup {None}]
  BY <1>2 DEF RespondAccepted, IInv, TypeOK
<1>5. AcceptedWasMoved'
  BY <1>2, <1>3 DEF RespondAccepted, IInv, TypeOK, AcceptedWasMoved
<1>6. Sound(None, control, row, moved) /\ ~OnTheWay(None)
  BY DEF Sound, OnTheWay
<1> QED
  BY <1>4, <1>5, <1>6, OnlyOneMoves DEF RespondAccepted, End

\* The conditional update. What the row holds already, and what anybody else on
\* the way for this session is about, is what i asks for.
LEMMA PrepareKeeps ==
  ASSUME IInv, NEW i \in Invocations, PrepareDirect(i)
  PROVE  IInv'
<1> DEFINE s == invocation[i].session
           h == invocation[i].request
<1>1. CASE End(i) /\ UNCHANGED row
  <2>1. Sound(None, control, row, moved) /\ ~OnTheWay(None)
    BY DEF Sound, OnTheWay
  <2>2. accepted' \in [Sessions -> Handover \cup {None}] /\ AcceptedWasMoved'
    BY DEF PrepareDirect, IInv, TypeOK, AcceptedWasMoved
  <2> QED
    BY <1>1, <2>1, <2>2, OnlyOneMoves DEF PrepareDirect, End
<1>2. CASE MayPrepare(row[s], h, invocation[i].clock)
  <2> DEFINE v == [invocation[i] EXCEPT !.pc = "replace"]
             new == [status |-> "PREPARED", identity |-> h.identity,
                     values |-> h.values, expires_at |-> row[s].expires_at]
  <2>1. invocation[i] \in Running /\ invocation[i] # None
    BY NoneAssumption DEF PrepareDirect, At, IInv, TypeOK
  <2>2. s \in Sessions /\ h \in Handover
    BY <2>1 DEF Running
  <2>3. row[s] \in Row /\ row[s] # None
    BY <1>2, <2>2 DEF MayPrepare, IInv, TypeOK
  <2>4. /\ v \in Running /\ v.pc = "replace" /\ v.session = s /\ v.request = h
    BY <2>1 DEF Running
  <2>5. new \in Row /\ new # None
    <3>1. new \in Row
      BY <2>2, <2>3 DEF Row, Handover
    <3> QED
      BY <3>1, NoneAssumption
  <2>6. /\ row' = [row EXCEPT ![s] = new]
        /\ invocation' = [invocation EXCEPT ![i] = v]
        /\ UNCHANGED <<now, control, until, leg, moved, accepted>>
    BY <1>2 DEF PrepareDirect, Goto
  \* Any handover of this session the row agrees with is h.
  <2>7. ASSUME NEW g \in Handover, Keeps(row[s], g)
        PROVE  g = h
    <3>1. g.values # None /\ g.identity # None
      BY NoneAssumption DEF Handover
    <3>2. g.values = h.values /\ g.identity = h.identity
      BY <1>2, <2>7, <3>1 DEF MayPrepare, Keeps
    <3> QED
      BY <2>2, <3>2 DEF Handover
  <2>8. ~Early(control[s])
    BY <2>1 DEF IInv, Sound
  <2>9. moved[s] # None => moved[s] = h
    <3> SUFFICES ASSUME moved[s] # None
                 PROVE  moved[s] = h
      OBVIOUS
    <3>1. moved[s] \in Handover
      BY <2>2 DEF IInv, TypeOK
    <3>2. Keeps(row[s], moved[s])
      BY <2>2, <2>3 DEF IInv, Placed, Fits
    <3> QED
      BY <2>7, <3>1, <3>2
  <2>10. \A j \in Invocations :
           OnTheWay(invocation[j]) /\ invocation[j].session = s
             => invocation[j].request = h
    <3> SUFFICES ASSUME NEW j \in Invocations, OnTheWay(invocation[j]),
                        invocation[j].session = s
                 PROVE  invocation[j].request = h
      OBVIOUS
    <3>1. invocation[j] \in Running
      BY DEF IInv, TypeOK, OnTheWay
    <3>2. invocation[j].request \in Handover
      BY <3>1 DEF Running
    <3>3. Keeps(row[s], invocation[j].request)
      BY <2>3 DEF IInv, Sound, OnTheWay, Fits
    <3> QED
      BY <2>7, <3>2, <3>3
  <2> HIDE DEF v, new
  <2>11. row'[s] = new /\ \A z \in Sessions \ {s} : row'[z] = row[z]
    BY <2>2, <2>6 DEF IInv, TypeOK
  <2>12. Keeps(new, h) /\ new.expires_at = row[s].expires_at
    BY DEF Keeps, new
  <2>13. TypeOK'
    BY <2>2, <2>4, <2>5, <2>6 DEF IInv, TypeOK
  <2>14. Sound(v, control', row', moved')
    BY <2>4, <2>6, <2>8, <2>9, <2>11, <2>12 DEF Sound, Fits
  <2>15. \A j \in Invocations \ {i} : Agree(v, invocation[j])
    BY <2>4, <2>10 DEF Agree
  <2>16. \A j \in Invocations \ {i} : Sound(invocation[j], control', row', moved')
    <3> SUFFICES ASSUME NEW j \in Invocations \ {i}, invocation[j] # None
                 PROVE  Sound(invocation[j], control', row', moved')
      BY DEF Sound
    <3>1. invocation[j].session \in Sessions /\ Sound(invocation[j], control, row, moved)
      BY DEF IInv, TypeOK, Running
    <3>2. CASE invocation[j].session # s
      BY <2>6, <2>11, <3>1, <3>2 DEF Sound
    <3>3. CASE invocation[j].session = s
      BY <2>6, <2>9, <2>10, <2>11, <2>12, <3>1, <3>3 DEF Sound, Fits
    <3> QED
      BY <3>2, <3>3
  <2>17. \A z \in Sessions :
           Placed(control'[z], until'[z], row'[z], leg'[z], moved'[z], now')
    <3> SUFFICES ASSUME NEW z \in Sessions
                 PROVE  Placed(control'[z], until'[z], row'[z], leg'[z], moved'[z], now')
      OBVIOUS
    <3>1. Placed(control[z], until[z], row[z], leg[z], moved[z], now)
      BY DEF IInv
    <3>2. CASE z # s
      BY <2>6, <2>11, <3>1, <3>2
    <3>3. CASE z = s
      BY <2>3, <2>5, <2>6, <2>8, <2>9, <2>11, <2>12, <3>1, <3>3 DEF Placed, Fits
    <3> QED
      BY <3>2, <3>3
  <2>18. AcceptedWasMoved'
    BY <2>6 DEF IInv, AcceptedWasMoved
  <2> QED
    BY <2>4, <2>6, <2>13, <2>14, <2>15, <2>16, <2>17, <2>18, OneMoves
<1> QED
  BY <1>1, <1>2 DEF PrepareDirect

LEMMA MarkKeeps ==
  ASSUME IInv, NEW i \in Invocations, MarkStarted(i)
  PROVE  IInv'
<1> DEFINE s == invocation[i].session
<1>1. CASE End(i) /\ UNCHANGED row
  <2>1. Sound(None, control, row, moved) /\ ~OnTheWay(None)
    BY DEF Sound, OnTheWay
  <2>2. accepted' \in [Sessions -> Handover \cup {None}] /\ AcceptedWasMoved'
    BY DEF MarkStarted, IInv, TypeOK, AcceptedWasMoved
  <2> QED
    BY <1>1, <2>1, <2>2, OnlyOneMoves DEF MarkStarted, End
<1>2. CASE /\ row[s] # None /\ row[s].status \in {"PREPARED", "RESERVED"}
           /\ row' = [row EXCEPT ![s].status = "RESERVED"]
           /\ Goto(i, "respond")
  <2> DEFINE v == [invocation[i] EXCEPT !.pc = "respond"]
             new == [row[s] EXCEPT !.status = "RESERVED"]
  <2>1. invocation[i] \in Running /\ invocation[i] # None /\ invocation[i].pc = "mark"
    BY NoneAssumption DEF MarkStarted, At, IInv, TypeOK
  <2>2. s \in Sessions
    BY <2>1 DEF Running
  <2>3. row[s] \in Row
    BY <1>2, <2>2 DEF IInv, TypeOK
  <2>4. /\ v \in Running /\ v.pc = "respond" /\ v.session = s
        /\ v.request = invocation[i].request
    BY <2>1 DEF Running
  <2>5. /\ new \in Row /\ new.identity = row[s].identity /\ new.values = row[s].values
        /\ new.expires_at = row[s].expires_at /\ new.status = "RESERVED"
    BY <2>3 DEF Row
  <2>6. /\ row' = [row EXCEPT ![s] = new]
        /\ invocation' = [invocation EXCEPT ![i] = v]
        /\ UNCHANGED <<now, control, until, leg, moved, accepted>>
    BY <1>2 DEF MarkStarted, Goto
  <2> HIDE DEF v, new
  <2>7. row'[s] = new /\ \A z \in Sessions \ {s} : row'[z] = row[z]
    BY <2>2, <2>6 DEF IInv, TypeOK
  <2>8. TypeOK'
    BY <2>2, <2>4, <2>5, <2>6 DEF IInv, TypeOK
  <2>9. \A z \in Sessions : Undisturbed(z)
    BY <1>2, <2>5, <2>6, <2>7 DEF Undisturbed, RowStays
  <2>10. \A j \in Invocations \ {i} : Sound(invocation[j], control', row', moved')
    BY <2>9, OthersSound
  <2>11. Sound(invocation[i], control', row', moved')
    BY <2>1, <2>2, <2>9, SoundStays DEF IInv
  <2>12. Sound(v, control', row', moved')
    BY <2>1, <2>4, <2>11 DEF Sound, OnTheWay
  <2>13. \A j \in Invocations \ {i} : Agree(v, invocation[j])
    BY <2>1, <2>4 DEF IInv, Agree, OnTheWay
  <2>14. \A z \in Sessions :
           Placed(control'[z], until'[z], row'[z], leg'[z], moved'[z], now')
    <3> SUFFICES ASSUME NEW z \in Sessions
                 PROVE  Placed(control'[z], until'[z], row'[z], leg'[z], moved'[z], now')
      OBVIOUS
    <3>1. Placed(control[z], until[z], row[z], leg[z], moved[z], now)
      BY DEF IInv
    <3>2. CASE z # s
      BY <2>6, <2>7, <3>1, <3>2
    <3>3. CASE z = s
      BY <1>2, <2>5, <2>6, <2>7, <3>1, <3>3, NoneAssumption DEF Placed, Fits, Keeps
    <3> QED
      BY <3>2, <3>3
  <2>15. AcceptedWasMoved'
    BY <2>6 DEF IInv, AcceptedWasMoved
  <2> QED
    BY <2>4, <2>6, <2>8, <2>10, <2>12, <2>13, <2>14, <2>15, OneMoves
<1> QED
  BY <1>1, <1>2 DEF MarkStarted

\* The leg is replaced, or has been: in both cases for the handover of i, and
\* everybody else on the way for this session is about the same.
LEMMA ReplaceKeeps ==
  ASSUME IInv, NEW i \in Invocations, Replace(i) \/ ReplaceLost(i)
  PROVE  IInv'
<1> DEFINE s == invocation[i].session
           h == invocation[i].request
           v == IF Replace(i) THEN [invocation[i] EXCEPT !.pc = "mark"] ELSE None
<1>1. invocation[i] \in Running /\ invocation[i] # None /\ invocation[i].pc = "replace"
  BY NoneAssumption DEF Replace, ReplaceLost, At, IInv, TypeOK
<1>2. s \in Sessions /\ h \in Handover
  BY <1>1 DEF Running
<1>3. /\ leg[s] \in {"assistant", "connect"}
      /\ leg' = [leg EXCEPT ![s] = "connect"]
      /\ moved' = [moved EXCEPT ![s] = IF leg[s] = "assistant" THEN h ELSE @]
      /\ UNCHANGED <<now, control, until, row, accepted>>
  BY DEF Replace, ReplaceLost, ReplaceLeg
<1>4. v \in Running \cup {None}
  BY <1>1 DEF Running
<1>5. v # None => v.pc = "mark" /\ v.session = s /\ v.request = h
  BY <1>1 DEF Running
<1>6. invocation' = [invocation EXCEPT ![i] = v]
  <2>1. CASE Replace(i)
    BY <2>1 DEF Replace, Goto
  <2>2. CASE ~Replace(i)
    BY <2>2 DEF ReplaceLost, End
  <2> QED
    BY <2>1, <2>2
<1> HIDE DEF v
<1>7. ~Early(control[s]) /\ Fits(row[s], moved[s], h)
  BY <1>1 DEF IInv, Sound, OnTheWay
<1>8. moved'[s] = h
  BY <1>2, <1>3, <1>7 DEF IInv, TypeOK, Placed, Fits
<1>9. \A z \in Sessions \ {s} : moved'[z] = moved[z] /\ leg'[z] = leg[z]
  BY <1>2, <1>3 DEF IInv, TypeOK
<1>10. h # None
  BY <1>2, NoneAssumption
<1>11. TypeOK'
  BY <1>2, <1>3, <1>4, <1>6 DEF IInv, TypeOK, Leg
<1>12. Sound(v, control', row', moved')
  BY <1>3, <1>5, <1>7, <1>8 DEF Sound, Fits
<1>13. \A j \in Invocations \ {i} : Agree(v, invocation[j])
  BY <1>1, <1>5 DEF IInv, Agree, OnTheWay
<1>14. \A j \in Invocations \ {i} : Sound(invocation[j], control', row', moved')
  <2> SUFFICES ASSUME NEW j \in Invocations \ {i}, invocation[j] # None
               PROVE  Sound(invocation[j], control', row', moved')
    BY DEF Sound
  <2>1. invocation[j].session \in Sessions /\ Sound(invocation[j], control, row, moved)
    BY DEF IInv, TypeOK, Running
  <2>2. CASE invocation[j].session # s
    BY <1>3, <1>9, <2>1, <2>2 DEF Sound
  <2>3. CASE invocation[j].session = s
    <3>1. OnTheWay(invocation[j]) => invocation[j].request = h
      BY <1>1, <2>3 DEF IInv, Agree, OnTheWay
    <3>2. invocation[j].pc \in {"mark", "respond"} => OnTheWay(invocation[j])
      BY DEF OnTheWay
    <3> QED
      BY <1>3, <1>7, <1>8, <2>1, <2>3, <3>1, <3>2 DEF Sound, Fits
  <2> QED
    BY <2>2, <2>3
<1>15. \A z \in Sessions :
         Placed(control'[z], until'[z], row'[z], leg'[z], moved'[z], now')
  <2> SUFFICES ASSUME NEW z \in Sessions
               PROVE  Placed(control'[z], until'[z], row'[z], leg'[z], moved'[z], now')
    OBVIOUS
  <2>1. Placed(control[z], until[z], row[z], leg[z], moved[z], now)
    BY DEF IInv
  <2>2. CASE z # s
    BY <1>3, <1>9, <2>1, <2>2
  <2>3. CASE z = s
    BY <1>3, <1>7, <1>8, <1>10, <2>1, <2>3 DEF Placed, Fits
  <2> QED
    BY <2>2, <2>3
\* Who has been answered was answered about h already.
<1>16. AcceptedWasMoved'
  <2> SUFFICES ASSUME NEW z \in Sessions, accepted[z] # None
               PROVE  accepted[z] = moved'[z]
    BY <1>3 DEF AcceptedWasMoved
  <2>1. accepted[z] = moved[z]
    BY DEF IInv, AcceptedWasMoved
  <2>2. CASE z = s
    BY <1>7, <1>8, <2>1, <2>2 DEF Fits
  <2>3. CASE z # s
    BY <1>9, <2>1, <2>3
  <2> QED
    BY <2>2, <2>3
<1> QED
  BY <1>4, <1>6, <1>11, <1>12, <1>13, <1>14, <1>15, <1>16, OneMoves

-----------------------------------------------------------------------------
(* The theorems *)

LEMMA Initially ==
  Init => IInv
<1> SUFFICES ASSUME Init
             PROVE  IInv
  OBVIOUS
<1>1. TypeOK
  BY DEF Init, TypeOK, Control, Leg
<1>2. \A s \in Sessions : Placed(control[s], until[s], row[s], leg[s], moved[s], now)
  BY DEF Init, Placed, Early
<1>3. \A i \in Invocations : Sound(invocation[i], control, row, moved)
  BY DEF Init, Sound
<1>4. \A i, j \in Invocations : Agree(invocation[i], invocation[j])
  BY DEF Init, Agree, OnTheWay
<1>5. AcceptedWasMoved
  BY DEF Init, AcceptedWasMoved
<1> QED
  BY <1>1, <1>2, <1>3, <1>4, <1>5 DEF IInv

LEMMA Stepwise ==
  IInv /\ [Next]_vars => IInv'
<1> SUFFICES ASSUME IInv, [Next]_vars
             PROVE  IInv'
  OBVIOUS
<1>1. CASE Tick
  BY <1>1, TickKeeps
<1>2. ASSUME NEW s \in Sessions, SessionStep(s)
      PROVE  IInv'
  BY <1>2, SessionStepKeeps
<1>3. ASSUME NEW i \in Invocations, Step(i)
      PROVE  IInv'
  BY <1>3, BeginKeeps, PrepareKeeps, ReplaceKeeps, ConflictKeeps, MarkKeeps,
     RespondKeeps, AbortKeeps DEF Step
<1>4. CASE UNCHANGED vars
  <2>1. TypeOK' /\ AcceptedWasMoved'
    BY <1>4 DEF vars, IInv, TypeOK, AcceptedWasMoved
  <2> QED
    BY <1>4, <2>1 DEF vars, IInv
<1> QED
  BY <1>1, <1>2, <1>3, <1>4 DEF Next

\* The handovers of a session that have passed the conditional update are one
\* and the same, in every state the Lambdas, the controller, expiry and cleanup
\* can reach.
THEOREM Invariance == Spec => []IInv
<1>1. Init => IInv
  BY Initially
<1>2. IInv /\ [Next]_vars => IInv'
  BY Stepwise
<1> QED
  BY <1>1, <1>2, PTL DEF Spec

\* Every variable keeps its type.
THEOREM TypeCorrect == Spec => []TypeOK
<1>1. IInv => TypeOK
  BY DEF IInv
<1> QED
  BY <1>1, Invariance, PTL

\* Whoever had the caller moved (replace), the row holds the context of exactly
\* that handover until it expires or the controller removes it.
THEOREM MovedFindsContext == Spec => []MovedHasContext
<1>1. IInv => MovedHasContext
  <2> SUFFICES ASSUME IInv, NEW s \in Sessions, moved[s] # None, Open(s)
               PROVE  Holds(s, moved[s])
    BY DEF MovedHasContext
  <2> QED
    BY DEF IInv, Placed, Open, Fits, Keeps, Holds
<1> QED
  BY <1>1, Invariance, PTL

\* Vapi is answered "accepted" about the one handover that moved the caller.
THEOREM AcceptedMoved == Spec => []AcceptedWasMoved
<1>1. IInv => AcceptedWasMoved
  BY DEF IInv
<1> QED
  BY <1>1, Invariance, PTL

\* No invocation brings a row back that the controller has proved absent.
THEOREM CleanStays == Spec => []CleanStaysGone
<1>1. IInv => CleanStaysGone
  BY DEF IInv, Placed, CleanStaysGone
<1> QED
  BY <1>1, Invariance, PTL
=============================================================================
