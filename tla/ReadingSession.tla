----------------------------- MODULE ReadingSession -----------------------------
(***************************************************************************)
(* A reader and an adapter.  The reader puts a question that the runtime has *)
(* admitted; the adapter answers; the runtime takes the answer or not, and   *)
(* records what became of it; and the reader goes on with a cursor out of an *)
(* answer that was taken, until a cursor leads nowhere.                      *)
(*                                                                         *)
(* An adapter answers what it likes: Answers(q) is a finite set of answers,  *)
(* good ones and ones with defects.                                          *)
(***************************************************************************)
EXTENDS RecordedResults

CONSTANTS
  FirstCursors(_),   \* cursors that a reader may begin with, of an operation
  Answers(_),        \* answers that an adapter may give to a question
  MaxPages           \* questions in a session

VARIABLES
  ask,      \* the question
  answer,   \* the adapter's answer to it
  outcome,  \* what became of it: [reply, record, kept]; kept says that a batch publishes it
  thread,   \* the thread of comments that the reader is in
  pages     \* questions put so far

session == <<ask, answer, outcome, thread, pages>>

SessionInit == ask = None /\ answer = None /\ outcome = None /\ thread = None /\ pages = 0

\* The first question is an admitted request with a cursor of the kind it was admitted with.
Dispatch(request, leased) ==
  /\ ask = None
  /\ \E cursor \in FirstCursors(request.operation) :
       LET question == [operation |-> request.operation, adapter |-> request.adapter, ref |-> request.value,
                        cursor |-> cursor, leased |-> leased]
       IN /\ CursorKind(question) = request.cursor
          /\ ask' = question
          /\ thread' = IF request.operation = Comments THEN ThreadOf(cursor) ELSE None
  /\ pages' = 1
  /\ UNCHANGED <<answer, outcome>>

\* What becomes of an answer, from run_adapter_attempt_with_timeout to the finished record, and
\* what a batch would make of it.
Outcome(p, q) == [reply |-> Finish(p, q).reply, record |-> Finish(p, q).record, kept |-> BatchKeeps(p, q)]

AnswerTask(a) ==
  /\ ask # None /\ answer = None /\ outcome = None
  /\ answer' = a
  /\ outcome' = Outcome(a, ask)
  /\ UNCHANGED <<ask, thread, pages>>

\* What a reader may go on with.
CursorsOf(p, q) ==
  LET next == IF p.next = None THEN {} ELSE {p.next}
  IN CASE q.operation \in Searches -> {c.token : c \in next}
       [] q.operation = Comments ->
            {[page |-> c, reply |-> None] : c \in next}
              \cup {[page |-> None, reply |-> i.reply] : i \in {j \in Items(p) : j.reply # None}}
       [] OTHER -> {}

NextQuestion(cursor) == [ask EXCEPT !.cursor = cursor]

\* A question as the TaskRequest it comes in.
RequestOf(q) ==
  [entry |-> "task", malformed |-> {}, adapter |-> q.adapter, operation |-> q.operation,
   target |-> TargetType(q.operation), mode |-> StableRow(q.operation).mode, value |-> q.ref, cursor |-> CursorKind(q)]

\* The fault of a request that differs from an admitted one in its cursor.
CursorRefused(q) ==
  LET r == RequestOf(q) IN FirstFault(<< <<NormalizeFault(r) # None, NormalizeFault(r)>>,
                                         <<CursorFault(r) # None, CursorFault(r)>> >>)

\* The reader follows a cursor, and the cursor of a comment leads into its thread.  A refused
\* request ends the session; one for comments is recorded as a success without comments.
Follow ==
  /\ IF outcome = None THEN FALSE ELSE outcome.reply = "success"
  /\ pages < MaxPages
  /\ \E cursor \in CursorsOf(answer, ask) :
       /\ ask' = NextQuestion(cursor)
       /\ outcome' = IF CursorRefused(ask') = None THEN None
                     ELSE [reply |-> CursorRefused(ask'), kept |-> FALSE,
                           record |-> IF ask.operation = Comments THEN "succeeded" ELSE "none"]
       /\ thread' = IF ask.operation \notin Searches /\ cursor.reply # None THEN ThreadOf(cursor) ELSE thread
  /\ answer' = None
  /\ pages' = pages + 1
=============================================================================
