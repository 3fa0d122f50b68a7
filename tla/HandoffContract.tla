--------------------------- MODULE HandoffContract ---------------------------
(***************************************************************************)
(* What the handoff service promises to Amazon Connect, without Lambdas,   *)
(* DynamoDB or Bridgefu: a book that holds at most one live entry for a    *)
(* correlation id, and readers that ask the book for the entry of one id.  *)
(*                                                                         *)
(*   - an entry is opened once, never edited, and closed only after its    *)
(*     time has run out;                                                   *)
(*   - a reader is answered with the entry that is open and unexpired at   *)
(*     the moment of the answer, whole, or with "unavailable"; and         *)
(*     "unavailable" is an answer only when the entry the reader could     *)
(*     have seen on arrival was missing or has run out.                    *)
(*                                                                         *)
(* Module Handoff implements this contract (Handoff!Contract).             *)
(***************************************************************************)
EXTENDS Naturals

CONSTANTS
  Calls,         \* Vapi call identities
  Correlations,  \* correlation ids
  Contents,      \* what an entry can say
  Readers,       \* concurrent lookups
  None           \* no entry, no reader, no answer yet

VARIABLES
  now,     \* the clock
  book,    \* book[k]: the entry of correlation k, or None
  reader   \* reader[r]: the question r has open, or None

vars == <<now, book, reader>>

Entry == [owner : Calls, content : Contents, until : Nat]

\* A question: whose entry, the entry on arrival, and the answer so far.
Question == [about : Correlations, arrived : Entry \cup {None},
             answer : {"pending", "unavailable"} \cup Contents]

Init ==
  /\ now = 0
  /\ book = [k \in Correlations |-> None]
  /\ reader = [r \in Readers |-> None]

Tick ==
  /\ now' = now + 1
  /\ UNCHANGED <<book, reader>>

Open(k) ==
  /\ book[k] = None
  /\ book'[k] \in Entry
  /\ book' = [book EXCEPT ![k] = book'[k]]
  /\ UNCHANGED <<now, reader>>

Close(k) ==
  /\ book[k] # None
  /\ book[k].until <= now
  /\ book' = [book EXCEPT ![k] = None]
  /\ UNCHANGED <<now, reader>>

Ask(r, k) ==
  /\ reader[r] = None
  /\ reader' = [reader EXCEPT ![r] = [about |-> k, arrived |-> book[k],
                                      answer |-> "pending"]]
  /\ UNCHANGED <<now, book>>

AnswerAvailable(r) ==
  /\ reader[r] # None
  /\ reader[r].answer = "pending"
  /\ LET e == book[reader[r].about] IN
       /\ e # None
       /\ now < e.until
       /\ reader' = [reader EXCEPT ![r].answer = e.content]
  /\ UNCHANGED <<now, book>>

AnswerUnavailable(r) ==
  /\ reader[r] # None
  /\ reader[r].answer = "pending"
  /\ \/ reader[r].arrived = None
     \/ reader[r].arrived.until <= now
  /\ reader' = [reader EXCEPT ![r].answer = "unavailable"]
  /\ UNCHANGED <<now, book>>

Leave(r) ==
  /\ reader[r] # None
  /\ reader' = [reader EXCEPT ![r] = None]
  /\ UNCHANGED <<now, book>>

Next ==
  \/ Tick
  \/ \E k \in Correlations : Open(k) \/ Close(k) \/ \E r \in Readers : Ask(r, k)
  \/ \E r \in Readers : AnswerAvailable(r) \/ AnswerUnavailable(r) \/ Leave(r)

Spec == Init /\ [][Next]_vars
=============================================================================
