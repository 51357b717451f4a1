--------------------------- MODULE S3Pause_proofs ---------------------------
(***************************************************************************)
(* Proofs about S3Pause, for any number of handlers, jobs and pauses: the  *)
(* variables keep their types and the length of a pause its bounds, an     *)
(* admitted request's first command awaits no pause, and there are never   *)
(* more pauses than requests that have ended.                              *)
(*                                                                         *)
(* The strengthening says what ties the count, the timers and the promises *)
(* together: the count is the number of timers, and a promise that is      *)
(* held, in s3PausePrms or by a handler, is resolved unless its timer      *)
(* still runs.                                                             *)
(***************************************************************************)
EXTENDS S3Pause, FiniteSetTheorems, TLAPS

\* numS3Pauses counts the timers.
Counted == IsFiniteSet(timers) /\ numS3Pauses = Cardinality(timers)

\* Who holds a promise that is not resolved holds that of a running timer, and
\* only a handler that awaits a promise holds one.
Held ==
  /\ s3PausePrms \in timers \cup {Resolved}
  /\ \A a \in Actor :
       /\ awaits[a] \in timers \cup {Resolved}
       /\ pc[a] # "awaiting" => awaits[a] = Resolved

\* A request that is under way has sent or will send a command, and one that
\* awaits a pause is past its first, unless it did not look at the count.
PastFirst ==
  \A a \in Actor :
    /\ pc[a] # "idle" => nth[a] > 0
    /\ awaits[a] # Resolved => nth[a] > 1 \/ op[a] = "record"

Idle == {h \in Handler : pc[h] = "idle"}

IInv == TypeOK /\ Counted /\ Held /\ PastFirst /\ PausesBounded

-----------------------------------------------------------------------------
(* The next pause's length.                                                *)

\* A longer pause stays within the bounds.
LEMMA LongerLength ==
  ASSUME NEW l \in INITIAL_S3_PAUSE .. MAX_S3_PAUSE
  PROVE  Longer(l) \in INITIAL_S3_PAUSE .. MAX_S3_PAUSE
<1>1. (3 * l + 1) \div 2 \in Nat /\ (3 * l + 1) \div 2 >= l
  BY LengthAssumption
<1> QED  BY <1>1, LengthAssumption DEF Longer

\* So does a shorter one.
LEMMA ShorterLength ==
  ASSUME NEW l \in INITIAL_S3_PAUSE .. MAX_S3_PAUSE
  PROVE  Shorter(l) \in INITIAL_S3_PAUSE .. MAX_S3_PAUSE
<1>1. (9 * l + 5) \div 10 \in Nat /\ (9 * l + 5) \div 10 <= l
  BY LengthAssumption
<1> QED  BY <1>1, LengthAssumption DEF Shorter

-----------------------------------------------------------------------------
(* What the strengthening gives.                                           *)

\* When the count is 0 no timer runs.
LEMMA NoTimers == ASSUME Counted PROVE numS3Pauses = 0 <=> timers = {}
  BY FS_EmptySet DEF Counted

\* The count is 0 only while nobody holds an unresolved promise.
LEMMA Admitted == ASSUME IInv PROVE AdmittedAtOnce
<1>1. numS3Pauses = 0 => s3PausePrms = Resolved
  BY NoTimers DEF IInv, Held
<1>2. ASSUME NEW a \in Actor, awaits[a] # Resolved PROVE numS3Pauses > 0
  <2>1. numS3Pauses # 0  BY <1>2, NoTimers DEF IInv, Held
  <2> QED  BY <2>1 DEF IInv, TypeOK
<1> QED  BY <1>1, <1>2 DEF AdmittedAtOnce, IInv, PastFirst

\* The idle handlers are finitely many.
LEMMA IdleFinite == IsFiniteSet(Idle) /\ Cardinality(Idle) \in Nat
<1>1. Idle \subseteq Handler  BY DEF Idle
<1> QED  BY <1>1, FS_Subset, FS_CardinalityType, ActorAssumption

\* A handler that becomes idle is one more.
LEMMA OneMoreIdle ==
  ASSUME TypeOK, NEW a \in Actor, pc[a] # "idle", pc' = [pc EXCEPT ![a] = "idle"]
  PROVE  /\ a \in Handler => Cardinality(Idle') = Cardinality(Idle) + 1
         /\ Cardinality(Idle') >= Cardinality(Idle)
<1>1. CASE a \in Handler
  <2>1. Idle' = Idle \cup {a}  BY <1>1 DEF Idle, TypeOK, Actor
  <2>2. a \notin Idle  BY DEF Idle
  <2> QED  BY <1>1, <2>1, <2>2, IdleFinite, FS_AddElement
<1>2. CASE a \notin Handler
  <2>1. Idle' = Idle  BY <1>2 DEF Idle, TypeOK, Actor
  <2> QED  BY <1>2, <2>1, IdleFinite
<1> QED  BY <1>1, <1>2

\* Handlers that are idle stay so when another goes on.
LEMMA SameIdle ==
  ASSUME TypeOK, NEW a \in Actor, NEW l \in {"awaiting", "sent"}, pc' = [pc EXCEPT ![a] = l],
         pc[a] # "idle" \/ a \in Job
  PROVE  Idle' = Idle
  BY ActorAssumption DEF Idle, TypeOK, Actor

-----------------------------------------------------------------------------
(* The initial state and the steps.                                        *)

LEMMA Initially == Init => IInv
<1> SUFFICES ASSUME Init PROVE IInv  OBVIOUS
<1>1. TypeOK  BY LengthAssumption, CommandAssumption DEF Init, TypeOK, Promise
<1>2. Counted  BY FS_EmptySet DEF Init, Counted
<1>3. Held /\ PastFirst  BY DEF Init, Held, PastFirst
<1>4. PausesBounded  BY IdleFinite DEF Init, PausesBounded, Idle
<1> QED  BY <1>1, <1>2, <1>3, <1>4 DEF IInv

\* A step that sends a command, of an actor that may do so.
LEMMA CommandStep ==
  ASSUME IInv, NEW a \in Actor, NEW n \in 1 .. MaxCommands,
         Command(a, n, s3PausePrms), UNCHANGED <<pausing, s3PauseMs>>,
         op' \in [Actor -> {"none", "get", "write", "account", "record"}],
         \A b \in Actor \ {a} : op'[b] = op[b],
         n > 1 \/ op'[a] = "record" \/ s3PausePrms = Resolved,
         numS3Pauses = 0 \/ pc[a] # "idle" \/ a \in Job
  PROVE  IInv'
<1> USE DEF IInv
<1>1. TypeOK'
  <2>1. n \in 0 .. MaxCommands
    BY CommandAssumption DEF TypeOK, Promise
  <2> QED  BY <2>1 DEF TypeOK, Command, pausing
<1>2. Counted'  BY DEF Counted, pausing
<1>3. Held'  BY DEF Held, TypeOK, Command, pausing
<1>4. PastFirst'  BY DEF PastFirst, TypeOK, Command
<1>5. PausesBounded'
  <2>1. CASE numS3Pauses = 0
    <3>1. IsFiniteSet(Idle') /\ Cardinality(Idle') \in Nat
      <4>1. Idle' \subseteq Handler  BY DEF Idle
      <4> QED  BY <4>1, FS_Subset, FS_CardinalityType, ActorAssumption
    <3> QED  BY <2>1, <3>1 DEF PausesBounded, Idle, pausing
  <2>2. CASE pc[a] # "idle" \/ a \in Job
    <3>1. Idle' = Idle  BY <2>2, SameIdle DEF Command
    <3> QED  BY <3>1 DEF PausesBounded, Idle, pausing
  <2> QED  BY <2>1, <2>2
<1> QED  BY <1>1, <1>2, <1>3, <1>4, <1>5

\* A step that ends a request or a call and leaves the pauses as they are.
LEMMA EndStep ==
  ASSUME IInv, NEW a \in Actor, Ends(a), UNCHANGED pausing,
         s3PauseMs' \in INITIAL_S3_PAUSE .. MAX_S3_PAUSE
  PROVE  IInv'
<1> USE DEF IInv
<1>1. TypeOK'  BY CommandAssumption DEF TypeOK, Ends, pausing
<1>2. Counted'  BY DEF Counted, pausing
<1>3. Held'  BY DEF Held, TypeOK, Ends, pausing
<1>4. PastFirst'  BY DEF PastFirst, Held, TypeOK, Ends
<1>5. PausesBounded'
  <2>1. Cardinality(Idle') >= Cardinality(Idle)  BY OneMoreIdle DEF Ends
  <2>2. Cardinality(Idle') \in Nat
    <3>1. Idle' \subseteq Handler  BY DEF Idle
    <3> QED  BY <3>1, FS_Subset, FS_CardinalityType, ActorAssumption
  <2> QED  BY <2>1, <2>2, IdleFinite DEF PausesBounded, Idle, TypeOK, pausing
<1> QED  BY <1>1, <1>2, <1>3, <1>4, <1>5

LEMMA SendStep == ASSUME IInv, NEW a \in Actor, Send(a) PROVE IInv'
<1> USE DEF IInv
<1>1. TypeOK'  BY DEF TypeOK, Send, pausing
<1>2. Counted'  BY DEF Counted, Send, pausing
<1>3. Held'  BY DEF Held, TypeOK, Send, pausing
<1>4. PastFirst'  BY DEF PastFirst, Send
<1>5. PausesBounded'
  <2>1. Idle' = Idle  BY SameIdle DEF Send
  <2> QED  BY <2>1 DEF PausesBounded, Idle, Send, pausing
<1> QED  BY <1>1, <1>2, <1>3, <1>4, <1>5

LEMMA SlowDownStep == ASSUME IInv, NEW h \in Handler, SlowDown(h) PROVE IInv'
<1> USE DEF IInv
<1> PICK p \in Pause \ timers : pauseS3Requests(p)  BY DEF SlowDown
<1>0. h \in Actor  BY DEF Actor
<1>1. TypeOK'
  <2>1. s3PauseMs' \in INITIAL_S3_PAUSE .. MAX_S3_PAUSE
    BY LongerLength DEF TypeOK, pauseS3Requests
  <2> QED  BY <1>0, <2>1, CommandAssumption DEF TypeOK, SlowDown, Ends, pauseS3Requests, Promise
<1>2. Counted'
  <2>1. IsFiniteSet(timers \cup {p}) /\ Cardinality(timers \cup {p}) = Cardinality(timers) + 1
    BY FS_AddElement DEF Counted
  <2> QED  BY <2>1 DEF Counted, pauseS3Requests
<1>3. Held'  BY DEF Held, TypeOK, SlowDown, Ends, pauseS3Requests
<1>4. PastFirst'  BY <1>0 DEF PastFirst, Held, TypeOK, SlowDown, Ends
<1>5. PausesBounded'
  <2>1. Cardinality(Idle') = Cardinality(Idle) + 1
    BY <1>0, OneMoreIdle DEF SlowDown, Ends
  <2> QED  BY <2>1, IdleFinite DEF PausesBounded, Idle, TypeOK, pauseS3Requests
<1> QED  BY <1>1, <1>2, <1>3, <1>4, <1>5

LEMMA EndPauseStep == ASSUME IInv, NEW p \in Pause, EndPause(p) PROVE IInv'
<1> USE DEF IInv
<1>1. /\ IsFiniteSet(timers \ {p})
      /\ Cardinality(timers \ {p}) = Cardinality(timers) - 1
      /\ numS3Pauses \in Nat \ {0}
  BY NoTimers, FS_RemoveElement DEF Counted, EndPause, TypeOK
<1>2. TypeOK'  BY <1>1 DEF TypeOK, EndPause, AfterPause, Promise
<1>3. Counted'  BY <1>1 DEF Counted, EndPause
<1>4. Held'  BY DEF Held, TypeOK, EndPause, AfterPause
<1>5. PastFirst'  BY DEF PastFirst, TypeOK, EndPause, AfterPause
<1>6. PausesBounded'  BY <1>1, IdleFinite DEF PausesBounded, Idle, EndPause
<1> QED  BY <1>2, <1>3, <1>4, <1>5, <1>6

\* Every step preserves the strengthening.
LEMMA Step == IInv /\ [Next]_vars => IInv'
<1> SUFFICES ASSUME IInv, [Next]_vars PROVE IInv'  OBVIOUS
<1>1. ASSUME NEW h \in Handler, Admit(h) PROVE IInv'
  <2>1. numS3Pauses = 0 /\ s3PausePrms = Resolved
    BY <1>1, NoTimers DEF Admit, NotPaused, IInv, Held
  <2>2. op' \in [Actor -> {"none", "get", "write", "account", "record"}]
    BY <1>1 DEF Admit, IInv, TypeOK
  <2>3. \A b \in Actor \ {h} : op'[b] = op[b]  BY <1>1 DEF Admit, IInv, TypeOK
  <2> QED  BY <1>1, <2>1, <2>2, <2>3, CommandStep, CommandAssumption DEF Admit, Actor
<1>2. ASSUME NEW j \in Job, Call(j) PROVE IInv'
  <2>1. op' \in [Actor -> {"none", "get", "write", "account", "record"}]
    BY <1>2 DEF Call, IInv, TypeOK
  <2>2. op'[j] = "record" \/ s3PausePrms = Resolved
    <3>1. CASE op'[j] = "record"  BY <3>1
    <3>2. CASE op'[j] = "account"
      <4>1. numS3Pauses = 0  BY <1>2, <3>2 DEF Call, NotPaused, IInv, TypeOK, Actor
      <4> QED  BY <4>1, NoTimers DEF IInv, Held
    <3> QED  BY <1>2, <3>1, <3>2 DEF Call, IInv, TypeOK, Actor
  <2>3. \A b \in Actor \ {j} : op'[b] = op[b]  BY <1>2 DEF Call, IInv, TypeOK
  <2> QED  BY <1>2, <2>1, <2>2, <2>3, CommandStep, CommandAssumption DEF Call, Actor
<1>3. ASSUME NEW a \in Actor, NextCommand(a) PROVE IInv'
  <2>1. nth[a] + 1 \in 1 .. MaxCommands /\ (nth[a] + 1 > 1 \/ s3PausePrms = Resolved)
    <3>1. nth[a] \in 0 .. MaxCommands /\ nth[a] > 0 /\ nth[a] < MaxCommands
      BY <1>3 DEF NextCommand, IInv, TypeOK, PastFirst
    <3> QED  BY <3>1, CommandAssumption
  <2> QED  BY <1>3, <2>1, CommandStep DEF NextCommand, IInv, TypeOK
<1>4. ASSUME NEW a \in Actor, Succeed(a) PROVE IInv'
  BY <1>4, EndStep, ShorterLength DEF Succeed, IInv, TypeOK
<1>5. ASSUME NEW a \in Actor, End(a) PROVE IInv'
  BY <1>5, EndStep DEF End, IInv, TypeOK
<1>6. ASSUME NEW h \in Handler, StreamBreaks(h) PROVE IInv'
  <2>1. Init' => IInv'  BY Initially, PTL
  <2> QED  BY <1>6, <2>1 DEF StreamBreaks, Init
<1>7. CASE UNCHANGED vars
  BY <1>7 DEF vars, pausing, IInv, TypeOK, Counted, Held, PastFirst, PausesBounded
<1> QED
  BY <1>1, <1>2, <1>3, <1>4, <1>5, <1>6, <1>7, SendStep, SlowDownStep, EndPauseStep DEF Next

-----------------------------------------------------------------------------
(* The theorems.                                                           *)

\* The strengthening always holds.
LEMMA Invariance == Spec => []IInv
  BY Initially, Step, PTL DEF Spec

\* The variables keep their types, and the length of the next pause (s3PauseMs)
\* stays between INITIAL_S3_PAUSE and MAX_S3_PAUSE.
THEOREM TypeCorrect == Spec => []TypeOK
<1>1. IInv => TypeOK  BY DEF IInv
<1> QED  BY <1>1, Invariance, PTL

\* A request that rejectIfBusy admits finds s3PausePrms resolved: its first
\* command awaits no pause.
THEOREM AdmittedCorrect == Spec => []AdmittedAtOnce
<1>1. IInv => AdmittedAtOnce  BY Admitted
<1> QED  BY <1>1, Invariance, PTL

\* There are never more pauses than handlers whose requests have ended
\* (pauseS3Requests, rejectIfBusy).
THEOREM PausesCorrect == Spec => []PausesBounded
<1>1. IInv => PausesBounded  BY DEF IInv
<1> QED  BY <1>1, Invariance, PTL
=============================================================================
