------------------------------ MODULE S3Pause ------------------------------
(***************************************************************************)
(* How the S3 store of the modular server slows down when S3 does          *)
(* (lib/routes/S3_store_router.js).                                        *)
(*                                                                         *)
(* When S3 answers SlowDown, the handler that hears it starts a pause: it  *)
(* counts it in numS3Pauses, puts a new promise in s3PausePrms, and sets a *)
(* timer that will resolve the promise and take the pause off the count.   *)
(* Until the count is 0 again, rejectIfBusy turns new requests away.       *)
(* Requests already admitted go on: s3send awaits the promise that         *)
(* s3PausePrms holds when it is called, and then sends.  Each pause makes  *)
(* the next one longer, each success makes it shorter.                     *)
(*                                                                         *)
(* A pause is an identifier, used again once its timer has fired; a        *)
(* resolved promise is Resolved.  There is no clock: as the length of a    *)
(* pause changes from one to the next, timers may fire in any order.       *)
(* Commands that a handler sends together count as one.  What the commands *)
(* do is in S3Store; here only how they end matters.  A request may be     *)
(* turned away at any time because too many S3 requests wait for a socket; *)
(* that changes nothing here and is no action.                             *)
(***************************************************************************)
EXTENDS Naturals, FiniteSets

CONSTANTS
  Handler,      \* requests of clients: GET, PUT and DELETE, behind rejectIfBusy
  Job,          \* calls of the account and admin-blob methods, by other routes
  Pause,        \* identifiers of pauses
  Resolved,     \* a resolved promise
  INITIAL_S3_PAUSE, MAX_S3_PAUSE,  \* bounds of s3PauseMs
  MaxCommands   \* bound on the commands, one after the other, of a request

ASSUME ActorAssumption == Handler \cap Job = {} /\ IsFiniteSet(Handler)
ASSUME PauseAssumption == /\ Resolved \notin Pause /\ IsFiniteSet(Pause)
                          /\ Cardinality(Pause) >= Cardinality(Handler)
ASSUME LengthAssumption == /\ {INITIAL_S3_PAUSE, MAX_S3_PAUSE} \subseteq Nat \ {0}
                           /\ INITIAL_S3_PAUSE <= MAX_S3_PAUSE
ASSUME CommandAssumption == MaxCommands \in Nat \ {0}

VARIABLES
  numS3Pauses,  \* the count that rejectIfBusy looks at
  s3PausePrms,  \* the promise that s3send awaits
  s3PauseMs,    \* the length of the next pause
  timers,       \* the pauses whose timers have not fired
  pc,           \* where each handler and job is
  op,           \* what each does: "get", "write" (PUT and DELETE), "account", "record"
  nth,          \* which of its commands it is at
  awaits        \* the promise that its s3send awaits

pausing == <<numS3Pauses, s3PausePrms, timers>>
vars == <<pausing, s3PauseMs, pc, op, nth, awaits>>

Actor == Handler \cup Job
Promise == Pause \cup {Resolved}

Init ==
  /\ numS3Pauses = 0
  /\ s3PausePrms = Resolved
  /\ s3PauseMs = INITIAL_S3_PAUSE
  /\ timers = {}
  /\ pc = [a \in Actor |-> "idle"]
  /\ op = [a \in Actor |-> "none"]
  /\ nth = [a \in Actor |-> 0]
  /\ awaits = [a \in Actor |-> Resolved]

-----------------------------------------------------------------------------
(* The length of the next pause: half as much again, or a tenth less,      *)
(* rounded as Math.round does, and kept between its bounds.                *)

\* A mutant: the length is not kept below its maximum.
Unbounded(length) == (3 * length + 1) \div 2

Longer(length) ==
  LET l == (3 * length + 1) \div 2 IN IF l < MAX_S3_PAUSE THEN l ELSE MAX_S3_PAUSE

Shorter(length) ==
  LET l == (9 * length + 5) \div 10 IN IF l > INITIAL_S3_PAUSE THEN l ELSE INITIAL_S3_PAUSE

-----------------------------------------------------------------------------
(* The steps of a handler or job.                                          *)

\* s3send: the promise it awaits is the one in s3PausePrms now.
Command(a, n, promise) ==
  /\ pc' = [pc EXCEPT ![a] = "awaiting"]
  /\ nth' = [nth EXCEPT ![a] = n]
  /\ awaits' = [awaits EXCEPT ![a] = promise]

\* A mutant: rejectIfBusy looks only at how much it has sent.
NotOverloaded == \E a \in Actor : pc[a] # "sent"

\* rejectIfBusy lets a request through; its handler runs, without a break, to
\* its first s3send.
NotPaused == numS3Pauses = 0

Admit(h) ==
  /\ pc[h] = "idle"
  /\ NotPaused
  /\ \E o \in {"get", "write"} : op' = [op EXCEPT ![h] = o]
  /\ Command(h, 1, s3PausePrms)
  /\ UNCHANGED <<pausing, s3PauseMs>>

\* No rejectIfBusy stands before these calls.  Of the account methods,
\* createUser, listUsers and deleteUser look at the count themselves; the others,
\* and those that keep the admin blobs, send whatever it is.  (Two first
\* commands bypass s3send, but only where nothing is paused.)
Call(j) ==
  /\ pc[j] = "idle"
  /\ \E o \in {"account", "record"} :
       /\ o = "account" => NotPaused
       /\ op' = [op EXCEPT ![j] = o]
  /\ Command(j, 1, s3PausePrms)
  /\ UNCHANGED <<pausing, s3PauseMs>>

Send(a) ==
  /\ pc[a] = "awaiting"
  /\ awaits[a] = Resolved
  /\ pc' = [pc EXCEPT ![a] = "sent"]
  /\ UNCHANGED <<pausing, s3PauseMs, op, nth, awaits>>

\* S3 has answered, and the handler needs another command: the next page of a
\* listing, the PutObject or DeleteObjects after it; where GET finds no blob,
\* the listing.
NextCommand(a) ==
  /\ pc[a] = "sent"
  /\ nth[a] < MaxCommands
  /\ Command(a, nth[a] + 1, s3PausePrms)
  /\ UNCHANGED <<pausing, s3PauseMs, op>>

Ends(a) ==
  /\ pc[a] = "sent"
  /\ pc' = [pc EXCEPT ![a] = "idle"]
  /\ op' = [op EXCEPT ![a] = "none"]
  /\ nth' = [nth EXCEPT ![a] = 0]
  /\ UNCHANGED awaits

\* A handler succeeds.  GET counts as a success when it streams a blob, which
\* its first command gets, and not when it puts a listing together; PUT and
\* DELETE list keys first; of the jobs, those that look at the count succeed.
Succeed(a) ==
  /\ op[a] # "record"
  /\ op[a] = "get" => nth[a] = 1
  /\ op[a] = "write" => nth[a] > 1
  /\ Ends(a)
  /\ s3PauseMs' = Shorter(s3PauseMs)
  /\ UNCHANGED pausing

\* Any other end, which leaves the pauses alone: 304, 404, 409, 412, a listing,
\* a failure of S3 other than SlowDown; and SlowDown itself, when it answers the
\* later commands of a GET, which its inner catch deals with, or a job.
End(a) ==
  /\ Ends(a)
  /\ UNCHANGED <<pausing, s3PauseMs>>

\* A mutant: the new pause is not counted if one runs already.
CountOnce(p) ==
  /\ numS3Pauses' = 1
  /\ s3PausePrms' = p
  /\ timers' = timers \cup {p}
  /\ s3PauseMs' = Longer(s3PauseMs)

\* A pause starts: its timer, its promise, and a longer one to come.
pauseS3Requests(p) ==
  /\ numS3Pauses' = numS3Pauses + 1
  /\ s3PausePrms' = p
  /\ timers' = timers \cup {p}
  /\ s3PauseMs' = Longer(s3PauseMs)

\* A mutant: the command is sent again after the pause, however often.
SendAgain(h) ==
  /\ op[h] = "get" => nth[h] = 1
  /\ pc[h] = "sent"
  /\ \E p \in Pause \ timers : pauseS3Requests(p) /\ Command(h, nth[h], p)
  /\ UNCHANGED op

\* SlowDown: a pause, and 429.
SlowDown(h) ==
  /\ op[h] = "get" => nth[h] = 1
  /\ Ends(h)
  /\ \E p \in Pause \ timers : pauseS3Requests(p)

\* The timer of a pause fires: its promise is resolved, wherever it is held.
AfterPause(p, promise) == IF promise = p THEN Resolved ELSE promise

EndPause(p) ==
  /\ p \in timers
  /\ timers' = timers \ {p}
  /\ numS3Pauses' = numS3Pauses - 1
  /\ s3PausePrms' = AfterPause(p, s3PausePrms)
  /\ awaits' = [a \in Actor |-> AfterPause(p, awaits[a])]
  /\ UNCHANGED <<s3PauseMs, pc, op, nth>>

\* A download breaks off.  router.get returns the pipeline's promise without
\* awaiting it, so its rejection is caught by nobody and the process ends; the
\* new process knows of no pause.
StreamBreaks(h) ==
  /\ pc[h] = "sent" /\ op[h] = "get" /\ nth[h] = 1
  /\ numS3Pauses' = 0
  /\ s3PausePrms' = Resolved
  /\ s3PauseMs' = INITIAL_S3_PAUSE
  /\ timers' = {}
  /\ pc' = [a \in Actor |-> "idle"]
  /\ op' = [a \in Actor |-> "none"]
  /\ nth' = [a \in Actor |-> 0]
  /\ awaits' = [a \in Actor |-> Resolved]

Answer(a) == NextCommand(a) \/ Succeed(a) \/ End(a) \/ (a \in Handler /\ SlowDown(a))

Next ==
  \/ \E h \in Handler : Admit(h) \/ SlowDown(h) \/ StreamBreaks(h)
  \/ \E j \in Job : Call(j)
  \/ \E a \in Actor : Send(a) \/ NextCommand(a) \/ Succeed(a) \/ End(a)
  \/ \E p \in Pause : EndPause(p)

\* Timers fire, awaited promises that are resolved let their handlers go on,
\* and S3, or the client library in its place, answers.
Fairness ==
  /\ \A p \in Pause : WF_vars(EndPause(p))
  /\ \A a \in Actor : WF_vars(Send(a)) /\ WF_vars(Answer(a))

Spec == Init /\ [][Next]_vars /\ Fairness

-----------------------------------------------------------------------------
(* Properties.                                                             *)

\* The variables have the types their declarations say; in particular the
\* length of the next pause (s3PauseMs) stays between its bounds.
TypeOK ==
  /\ numS3Pauses \in Nat
  /\ s3PausePrms \in Promise
  /\ s3PauseMs \in INITIAL_S3_PAUSE .. MAX_S3_PAUSE
  /\ timers \subseteq Pause
  /\ pc \in [Actor -> {"idle", "awaiting", "sent"}]
  /\ op \in [Actor -> {"none", "get", "write", "account", "record"}]
  /\ nth \in [Actor -> 0 .. MaxCommands]
  /\ awaits \in [Actor -> Promise]

\* An admitted request is not kept waiting: rejectIfBusy admits only when
\* numS3Pauses is 0, and then s3PausePrms is resolved, although the one is a
\* count and the other only the latest promise.  So the first command of a
\* request, or of a job that looks at the count, never awaits a pause, and when the count is 0 no command does.
AdmittedAtOnce ==
  /\ numS3Pauses = 0 => s3PausePrms = Resolved
  /\ \A a \in Actor :
       awaits[a] # Resolved => numS3Pauses > 0 /\ (nth[a] > 1 \/ op[a] = "record")

\* Pauses do not pile up: each one that runs was started by a request admitted
\* before the first of them, which has ended since, so there are never more
\* than there are requests (pauseS3Requests, rejectIfBusy).
PausesBounded ==
  numS3Pauses <= Cardinality({h \in Handler : pc[h] = "idle"})

\* The store opens again: whatever the answers of S3, the pauses that overlap
\* come to an end, as no request that could prolong them is let in meanwhile.
Reopens == numS3Pauses > 0 ~> numS3Pauses = 0

\* A request that was admitted, and a job, is answered: the pause it awaits ends
\* even when others have taken its place in s3PausePrms.
Answered == \A a \in Actor : pc[a] # "idle" ~> pc[a] = "idle"

=============================================================================
