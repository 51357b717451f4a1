------------------------ MODULE FileTreeStore_proofs ------------------------
(***************************************************************************)
(* FileTree implements DocumentStore, for every set of clients, documents  *)
(* and contents: FileTreeStore!Store is DocumentStore over AbsVersion,     *)
(* file, AbsPhase, AbsReq and AbsAns.                                      *)
(*                                                                         *)
(* A change is committed by OpenOwn; CommitOK says what it will commit.    *)
(* A reader holds the content it read beside the ETag it had read before;  *)
(* ReaderOK says that the content is the document's as long as the         *)
(* folder's ETag is the same, unless the document is being written.        *)
(***************************************************************************)
EXTENDS FileTreeIndex_proofs, FileTreeStore

\* No crash, no I/O error, and a clock that advances between stamps.
Faultless == ~IOErrors /\ MaxCrashes = 0 /\ 0 \notin ClockSteps

\* What a handler that has stamped its write will commit.
CommitOK(c) ==
  /\ pc[c] = "fill" => NamesTheVersion(c)
  /\ pc[c] = "own" =>
       LET p == req[c].path
           old == meta[Own(c)]
           new == buf[c][Own(c)]
       IN  /\ \A q \in Doc : Front(q) = Own(c) /\ q # p => Item(new, q) = Item(old, q)
           /\ ans[c].val = NoFile
           /\ req[c].op = "put" =>
                /\ NamesTheVersion(c)
                /\ ans[c].status = IF Item(old, p) = None THEN 201 ELSE 200
                /\ ans[c].tag <= now
                /\ \A q \in Doc : CommittedVersion(q) < ans[c].tag
           /\ req[c].op = "delete" =>
                /\ req[c].version \in {None, Item(old, p)} /\ Item(old, p) # None
                /\ Item(new, p) = None
                /\ ans[c].status = 200 /\ ans[c].tag = Item(old, p)

CommitInv == /\ crashes = 0
             /\ \A p \in Doc : CommittedVersion(p) <= now
             /\ \A c \in Client : CommitOK(c)

\* Where the committed metadata of a document's folder is, in this state and in
\* the next.
LEMMA Committed ==
  ASSUME NEW c \in Client, \A d \in Client : d # c => Rewriting(d) = {}, NEW p
  PROVE  CommittedVersion(p)
           = Item(IF Front(p) \in Rewriting(c) THEN buf[c][Front(p)] ELSE meta[Front(p)], p)
<1> DEFINE W == {d \in Client : Front(p) \in Rewriting(d)}
<1>1. CASE Front(p) \in Rewriting(c)
  <2>1. W = {c}
    BY <1>1
  <2>2. (CHOOSE d \in {c} : TRUE) = c
    OBVIOUS
  <2> QED
    BY <1>1, <2>1, <2>2 DEF CommittedVersion
<1>2. CASE Front(p) \notin Rewriting(c)
  <2>1. W = {}
    BY <1>2
  <2> QED
    BY <1>2, <2>1 DEF CommittedVersion
<1> QED
  BY <1>1, <1>2

LEMMA CommittedNext ==
  ASSUME NEW c \in Client, \A d \in Client : d # c => Rewriting(d)' = {}, NEW p
  PROVE  CommittedVersion(p)'
           = Item(IF Front(p) \in Rewriting(c)' THEN buf'[c][Front(p)] ELSE meta'[Front(p)], p)
<1> DEFINE W == {d \in Client : Front(p) \in Rewriting(d)}
<1>1. CASE Front(p) \in Rewriting(c)'
  <2>1. W' = {c}
    BY <1>1
  <2>2. (CHOOSE d \in {c} : TRUE) = c
    OBVIOUS
  <2> QED
    BY <1>1, <2>1, <2>2 DEF CommittedVersion, Item
<1>2. CASE Front(p) \notin Rewriting(c)'
  <2>1. W' = {}
    BY <1>2
  <2> QED
    BY <1>2, <2>1 DEF CommittedVersion, Item
<1> QED
  BY <1>1, <1>2

\* Nothing is committed by a step that leaves the files and their writers alone.
LEMMA SameVersions ==
  ASSUME MutexInv, Writers, UNCHANGED meta, Client # {},
         \A d \in Client : /\ Rewriting(d)' = Rewriting(d)
                           /\ Rewriting(d) # {} => buf'[d] = buf[d]
  PROVE  AbsVersion' = AbsVersion /\ \A p : CommittedVersion(p)' = CommittedVersion(p)
<1>1. PICK d \in Client : \A e \in Client : e # d => Rewriting(e) = {}
  <2>1. CASE \E d \in Client : pc[d] \in Critical
    <3>1. PICK d \in Client : pc[d] \in Critical
      BY <2>1
    <3> QED
      BY <3>1, OthersWait
  <2>2. CASE \A d \in Client : pc[d] \notin Critical
    BY <2>2 DEF Writers, WriterOK, Rewriting, Critical
  <2> QED
    BY <2>1, <2>2
<1>2. ASSUME NEW p
      PROVE  CommittedVersion(p)' = CommittedVersion(p)
  <2>1. CommittedVersion(p)
          = Item(IF Front(p) \in Rewriting(d) THEN buf[d][Front(p)] ELSE meta[Front(p)], p)
    BY <1>1, Committed
  <2>2. \A e \in Client : e # d => Rewriting(e)' = {}
    BY <1>1
  <2>3. CommittedVersion(p)'
          = Item(IF Front(p) \in Rewriting(d)' THEN buf'[d][Front(p)] ELSE meta'[Front(p)], p)
    BY <2>2, CommittedNext
  <2> QED
    BY <2>1, <2>3
<1> QED
  BY <1>2 DEF AbsVersion

\* A path is strictly before another exactly if it is above it.
LEMMA StrictPrefix ==
  \A p \in Doc \cup Folder, q \in Doc : IsStrictPrefix(p, q) <=> p \in traversePath(q)
<1> SUFFICES ASSUME NEW p \in Doc \cup Folder, NEW q \in Doc
             PROVE  IsStrictPrefix(p, q) <=> p \in traversePath(q)
  OBVIOUS
<1>1. p \in Seq(Name) /\ q \in Seq(Name) /\ Len(p) \in Nat /\ Len(q) \in Nat
  BY FolderPaths
<1>2. SubSeq(p, 1, Len(p)) = p /\ SubSeq(q, 1, Len(q)) = q
  BY <1>1
<1>3. IsStrictPrefix(p, q) <=> Len(p) <= Len(q) /\ p = SubSeq(q, 1, Len(p)) /\ p # q
  BY <1>1, <1>2 DEF IsStrictPrefix, IsPrefix
<1>4. p \in traversePath(q) => Len(p) < Len(q) /\ p = SubSeq(q, 1, Len(p))
  <2> SUFFICES ASSUME p \in traversePath(q)
               PROVE  Len(p) < Len(q) /\ p = SubSeq(q, 1, Len(p))
    OBVIOUS
  <2>1. Len(p) < Len(q)
    BY <1>1, Above
  <2>2. PICK k \in 0..Len(q) : p = SubSeq(q, 1, k)
    BY DEF traversePath, Prefixes
  <2>3. Len(SubSeq(q, 1, k)) = k
    BY <1>1, <2>2
  <2> QED
    BY <2>1, <2>2, <2>3
<1>5. ASSUME Len(p) <= Len(q), p = SubSeq(q, 1, Len(p)), p # q
      PROVE  p \in traversePath(q)
  <2> DEFINE k == Len(p)
  <2>1. k \in 0..Len(q) /\ p = SubSeq(q, 1, k)
    BY <1>1, <1>5
  <2> HIDE DEF k
  <2> QED
    BY <1>5, <2>1 DEF traversePath, Prefixes
<1> QED
  BY <1>3, <1>4, <1>5

\* Steps of a handler outside its writes commit nothing.
LEMMA AsideCommits ==
  ASSUME MutexInv, Writers, CommitInv, NEW c \in Client, Aside(c), UNCHANGED crashes
  PROVE  AbsVersion' = AbsVersion /\ CommitInv'
<1>1. PICK l \in Label \ {"open", "fill", "own", "ownfill", "above", "detached"} : Goto(c, l)
  BY DEF Aside
<1>2. pc'[c] = l /\ \A d \in Client : d # c => pc'[d] = pc[d]
  BY <1>1 DEF Goto, MutexInv, TypeInv, TypeOK
<1>3. /\ \A d \in Client : d # c => req'[d] = req[d] /\ buf'[d] = buf[d] /\ ans'[d] = ans[d]
      /\ UNCHANGED <<meta, open, now>>
  BY DEF Aside
<1>4. Rewriting(c) = {} /\ Rewriting(c)' = {}
  <2>1. open[c] = {} /\ pc[c] # "ownfill"
    BY DEF Aside, Writers, WriterOK
  <2> QED
    BY <1>2, <1>3, <2>1 DEF Rewriting
<1>5. \A d \in Client : d # c => Rewriting(d)' = Rewriting(d)
  BY <1>2, <1>3 DEF Rewriting, Own
<1>6. AbsVersion' = AbsVersion /\ \A p : CommittedVersion(p)' = CommittedVersion(p)
  BY <1>3, <1>4, <1>5, SameVersions
<1>7. ASSUME NEW d \in Client
      PROVE  CommitOK(d)'
  <2>1. CASE d = c
    BY <1>2, <2>1 DEF CommitOK
  <2>2. CASE d # c
    <3>1. CommitOK(d)
      BY DEF CommitInv
    <3>2. /\ pc'[d] = pc[d] /\ req'[d] = req[d] /\ buf'[d] = buf[d] /\ ans'[d] = ans[d]
          /\ meta' = meta /\ now' = now
      BY <1>2, <1>3, <2>2
    <3> QED
      BY SMTT(30), <1>6, <3>1, <3>2 DEF CommitOK, NamesTheVersion, Own, Item
  <2> QED
    BY <2>1, <2>2
<1> QED
  BY <1>3, <1>6, <1>7 DEF CommitInv

\* In a step of the handler in the critical section, what it will commit is all
\* that there is to know.
LEMMA CommitStep ==
  ASSUME MutexInv, Writers, NEW c \in Client, pc[c] \in Critical, crashes' = 0,
         \A d \in Client : d # c => pc'[d] = pc[d],
         \A p \in Doc : CommittedVersion(p)' <= now', CommitOK(c)'
  PROVE  CommitInv'
<1>1. ASSUME NEW d \in Client, d # c
      PROVE  CommitOK(d)'
  BY <1>1, OthersWait DEF CommitOK, Critical
<1> QED
  BY <1>1 DEF CommitInv

\* Nor do the steps of a put or delete before it writes metadata.
LEMMA BeforeCommits ==
  ASSUME MutexInv, Writers, CommitInv, 0 \notin ClockSteps, NEW c \in Client,
         PutStart(c) \/ PutOpen(c) \/ PutFill(c) \/ DeleteUnlink(c)
  PROVE  /\ AbsVersion' = AbsVersion /\ CommitInv'
         /\ pc[c] \in Critical
         /\ UNCHANGED req /\ \A d \in Client : d # c => ans'[d] = ans[d]
<1> DEFINE p == req[c].path
<1>1. /\ pc[c] \in {"check", "open", "fill"}
      /\ \E l \in {"open", "fill", "own"} : Goto(c, l)
      /\ UNCHANGED <<meta, req, open, todo, crashes>>
      /\ now' >= now
      /\ UNCHANGED ans \/ \E a : ans' = [ans EXCEPT ![c] = a]
  <2>1. now \in Nat /\ ClockSteps \subseteq Nat
    BY ClockAssumption DEF MutexInv, TypeInv, TypeOK
  <2>2. UNCHANGED now => now' >= now
    BY <2>1
  <2>3. Stamp => now' >= now
    BY <2>1 DEF Stamp
  <2> QED
    BY <2>2, <2>3 DEF PutStart, PutOpen, PutFill, DeleteUnlink, DeleteAllowed, Checks, bounds
<1>2. /\ pc[c] \in Critical /\ ans \in [Client -> AnswerType] /\ now \in Nat
      /\ buf \in [Client -> [Folder -> Meta]] /\ now' \in Nat
      /\ \A d \in Client : d # c => ans'[d] = ans[d]
  <2>1. now \in Nat /\ ClockSteps \subseteq Nat
    BY ClockAssumption DEF MutexInv, TypeInv, TypeOK
  <2>2. now' \in Nat
    BY <2>1 DEF PutStart, PutOpen, PutFill, DeleteUnlink, Stamp
  <2> QED
    BY <1>1, <2>1, <2>2 DEF Critical, MutexInv, TypeInv, TypeOK
<1>3. pc'[c] \in {"open", "fill", "own"} /\ \A d \in Client : d # c => pc'[d] = pc[d]
  BY <1>1 DEF Goto, MutexInv, TypeInv, TypeOK
<1>4. \A d \in Client : Rewriting(d) = {} /\ Rewriting(d)' = {}
  <2>1. \A d \in Client : open[d] = {} /\ pc[d] # "ownfill" /\ pc'[d] # "ownfill"
    BY <1>1, <1>2, <1>3, OthersWait DEF Writers, WriterOK, Critical
  <2> QED
    BY <1>1, <2>1 DEF Rewriting
<1>5. AbsVersion' = AbsVersion /\ \A q : CommittedVersion(q)' = CommittedVersion(q)
  BY <1>1, <1>4, SameVersions
<1>6. \A q \in Doc : CommittedVersion(q) = Item(meta[Front(q)], q)
  BY <1>4, Committed
<1>7. \A q \in Doc : CommittedVersion(q) \in Nat /\ CommittedVersion(q) <= now
  <2>1. \A q \in Doc : Item(meta[Front(q)], q) \in Nat
    BY FolderOfDoc DEF Item, Meta, MutexInv, TypeInv, TypeOK
  <2> QED
    BY <1>6, <2>1 DEF CommitInv
<1>8. \A q \in Doc : CommittedVersion(q)' <= now'
  BY <1>1, <1>2, <1>5, <1>7
<1>9. /\ p \in Doc /\ Own(c) \in Folder /\ meta[Own(c)] \in Meta /\ Last(p) \in Name
      /\ Own(c) = Front(p) /\ req' = req /\ meta' = meta /\ Own(c)' = Own(c)
  BY <1>1, <1>2, WriterPaths DEF MutexInv, Own
<1>10. \A m \in Meta, q \in Doc, e, t \in Nat :
         Item(WithDoc(m, Last(p), e, t), q) = IF Last(q) = Last(p) THEN e ELSE Item(m, q)
  BY <1>9, ItemValues
<1>11. \A q \in Doc : Front(q) = Own(c) /\ q # p => Last(q) # Last(p)
  BY <1>9, SameDoc
<1>12. pc[c] = "fill" => /\ req[c].op = "put" /\ buf[c][Own(c)] = meta[Own(c)]
                         /\ NamesTheVersion(c)
  BY DEF Writers, WriterOK, CommitInv, CommitOK
<1>13. NamesTheVersion(c)' <=> NamesTheVersion(c)
  BY <1>9 DEF NamesTheVersion, Own
<1>14. CASE PutStart(c)
  <2>1. pc'[c] = "open"
    BY <1>14 DEF PutStart, Goto, MutexInv, TypeInv, TypeOK
  <2> QED
    BY <1>1, <1>2, <1>3, <1>5, <1>8, <2>1, CommitStep DEF CommitOK, CommitInv
<1>15. CASE PutOpen(c)
  <2>1. pc'[c] = "fill" /\ NamesTheVersion(c)
    BY <1>15 DEF PutOpen, Goto, MutexInv, TypeInv, TypeOK, Writers, WriterOK
  <2> QED
    BY <1>1, <1>2, <1>3, <1>5, <1>8, <1>13, <2>1, CommitStep DEF CommitOK, CommitInv
<1>16. CASE PutFill(c)
  <2>1. /\ pc[c] = "fill" /\ pc'[c] = "own"
        /\ buf'[c][Own(c)] = WithDoc(meta[Own(c)], Last(p), now', now')
        /\ ans'[c] = PutAnswer(c)
    BY <1>2, <1>9, <1>12, <1>16 DEF PutFill, Goto, MutexInv, TypeInv, TypeOK
  <2>2. now' > now
    <3>1. now \in Nat /\ ClockSteps \subseteq Nat \ {0}
      BY ClockAssumption DEF MutexInv, TypeInv, TypeOK
    <3> QED
      BY <1>16, <3>1 DEF PutFill, Stamp
  <2>3. \A q \in Doc : Front(q) = Own(c) /\ q # p
          => Item(buf'[c][Own(c)], q) = Item(meta[Own(c)], q)
    BY <1>2, <1>9, <1>10, <1>11, <2>1
  <2>4. /\ ans'[c].status = IF Item(meta[Own(c)], p) = None THEN 201 ELSE 200
        /\ ans'[c].tag = now' /\ ans'[c].val = NoFile
    BY <1>12, <2>1 DEF PutAnswer
  <2>5. \A q \in Doc : CommittedVersion(q)' < now'
    BY <1>2, <1>5, <1>7, <2>2
  <2>6. CommitOK(c)'
    BY SMTT(30), <1>2, <1>9, <1>12, <1>13, <2>1, <2>3, <2>4, <2>5 DEF CommitOK, Item
  <2> QED
    BY <1>1, <1>2, <1>3, <1>5, <1>8, <2>6, CommitStep DEF CommitInv
<1>17. CASE DeleteUnlink(c)
  <2>1. /\ pc'[c] = "own" /\ DeleteAllowed(c) /\ req[c].op = "delete"
        /\ buf'[c][Own(c)] = WithDoc(meta[Own(c)], Last(p), None, now')
        /\ ans'[c].status = 200 /\ ans'[c].tag = Item(meta[Own(c)], p) /\ ans'[c].val = NoFile
    BY <1>2, <1>9, <1>17 DEF DeleteUnlink, DeleteAllowed, Checks, Goto, MutexInv, TypeInv, TypeOK
  <2>2. Item(meta[Own(c)], p) # None /\ req[c].version \in {None, Item(meta[Own(c)], p)}
    BY <2>1 DEF DeleteAllowed
  <2>3. /\ \A q \in Doc : Front(q) = Own(c) /\ q # p
             => Item(buf'[c][Own(c)], q) = Item(meta[Own(c)], q)
        /\ Item(buf'[c][Own(c)], p) = None
    <3>1. None \in Nat
      BY DEF None
    <3>2. \A q \in Doc : Item(buf'[c][Own(c)], q)
                          = IF Last(q) = Last(p) THEN None ELSE Item(meta[Own(c)], q)
      BY <1>2, <1>9, <1>10, <2>1, <3>1
    <3> QED
      BY <1>9, <1>11, <3>2
  <2>4. CommitOK(c)'
    BY SMTT(30), <1>9, <2>1, <2>2, <2>3 DEF CommitOK, Item
  <2> QED
    BY <1>1, <1>2, <1>3, <1>5, <1>8, <2>4, CommitStep DEF CommitInv
<1> QED
  BY <1>14, <1>15, <1>16, <1>17

\* Nor do the steps after it has truncated its folder's metadata file.
LEMMA AfterCommits ==
  ASSUME MutexInv, Writers, CommitInv, NEW c \in Client,
         FillOwn(c) \/ Finish(c)
           \/ \E g \in Folder : OpenAbove(c, g) \/ SkipAbove(c, g) \/ FillAbove(c, g)
  PROVE  /\ AbsVersion' = AbsVersion /\ CommitInv'
         /\ pc[c] \in {"ownfill", "above"} /\ pc'[c] \in {"above", "answered"}
         /\ \A d \in Client : d # c => pc'[d] = pc[d]
         /\ UNCHANGED <<req, ans>>
<1> DEFINE p == req[c].path
<1>1. WriterOK(c) /\ pc \in [Client -> Label] /\ ans \in [Client -> AnswerType]
  BY DEF Writers, MutexInv, TypeInv, TypeOK
<1>2. /\ pc[c] \in {"ownfill", "above"}
      /\ pc' = pc \/ Goto(c, "above") \/ Goto(c, "answered")
      /\ UNCHANGED <<req, ans, now, crashes>>
  <2>1. CASE FillOwn(c)
    BY <2>1 DEF FillOwn, bounds
  <2>2. CASE Finish(c)
    BY <1>1, <2>2 DEF Finish, UnlockAndAnswer, Answer, bounds
  <2>3. ASSUME NEW g \in Folder, OpenAbove(c, g) \/ SkipAbove(c, g) \/ FillAbove(c, g)
        PROVE  pc[c] = "above" /\ UNCHANGED <<req, ans, now, crashes, pc>>
    BY <1>1, <2>3 DEF OpenAbove, SkipAbove, FillAbove, WriterOK, disk, bounds
  <2> QED
    BY <2>1, <2>2, <2>3
<1>3. /\ pc[c] \in Critical
      /\ \A d \in Client : d # c => pc'[d] = pc[d] /\ Rewriting(d) = {} /\ open[d] = {}
  BY <1>1, <1>2, OthersWait DEF Critical, Goto
<1>4. /\ meta \in [Folder -> Meta] /\ buf \in [Client -> [Folder -> Meta]]
      /\ open \in [Client -> SUBSET Folder] /\ todo \in [Client -> SUBSET Folder]
  BY DEF MutexInv, TypeInv, TypeOK
<1> DEFINE here == [f \in Folder |-> IF f \in Rewriting(c) THEN buf[c][f] ELSE meta[f]]
           next == [f \in Folder |-> IF f \in Rewriting(c)' THEN buf'[c][f] ELSE meta'[f]]
<1>5. /\ \A f \in Folder : next[f].docs = here[f].docs
      /\ \A d \in Client : d # c => open'[d] = {}
      /\ pc'[c] \in {"above", "answered"}
  <2>1. CASE FillOwn(c)
    <3>1. /\ pc[c] = "ownfill" /\ pc'[c] = "above" /\ open[c] = {} /\ open' = open /\ buf' = buf
          /\ meta' = [meta EXCEPT ![Own(c)] = buf[c][Own(c)]]
      BY <1>1, <2>1 DEF FillOwn, Goto, WriterOK
    <3>2. Rewriting(c) = {Own(c)} /\ Rewriting(c)' = {}
      BY <3>1 DEF Rewriting
    <3> QED
      BY <1>3, <1>4, <3>1, <3>2
  <2>2. CASE Finish(c)
    <3>1. /\ pc[c] = "above" /\ pc'[c] = "answered" /\ open[c] = {} /\ open' = open /\ buf' = buf
          /\ meta' = meta
      BY <1>1, <2>2 DEF Finish, UnlockAndAnswer, Answer, Goto
    <3>2. Rewriting(c) = {} /\ Rewriting(c)' = {}
      BY <3>1 DEF Rewriting
    <3> QED
      BY <1>3, <3>1, <3>2
  <2>3. ASSUME NEW g \in Folder, OpenAbove(c, g)
        PROVE  /\ \A f \in Folder : next[f].docs = here[f].docs
               /\ \A d \in Client : d # c => open'[d] = {}
    <3>1. /\ pc[c] = "above" /\ pc' = pc /\ g \notin open[c]
          /\ meta' = [meta EXCEPT ![g] = EmptyMeta]
          /\ open' = [open EXCEPT ![c] = @ \cup {g}]
          /\ \E n, e, t : buf' = [buf EXCEPT ![c][g] = WithSub(meta[g], n, e, t)]
      BY <1>1, <1>2, <2>3 DEF OpenAbove, NextAbove, WriterOK, AboveOK
    <3>2. Rewriting(c) = open[c] /\ Rewriting(c)' = open[c] \cup {g}
      BY <1>4, <3>1 DEF Rewriting
    <3>3. buf'[c][g].docs = meta[g].docs
      BY <1>4, <3>1 DEF WithSub, Meta
    <3>4. \A f \in Folder : f # g => buf'[c][f] = buf[c][f] /\ meta'[f] = meta[f]
      BY <1>4, <3>1
    <3> QED
      BY <1>3, <1>4, <3>1, <3>2, <3>3, <3>4
  <2>4. ASSUME NEW g \in Folder, SkipAbove(c, g)
        PROVE  /\ \A f \in Folder : next[f].docs = here[f].docs
               /\ \A d \in Client : d # c => open'[d] = {}
    <3>1. /\ pc[c] = "above" /\ pc' = pc /\ open[c] = {} /\ meta' = meta /\ open' = open
      BY <1>1, <1>2, <2>4 DEF SkipAbove, NextAbove, disk
    <3>2. Rewriting(c) = {} /\ Rewriting(c)' = {}
      BY <3>1 DEF Rewriting
    <3> QED
      BY <1>3, <3>1, <3>2
  <2>5. ASSUME NEW g \in Folder, FillAbove(c, g)
        PROVE  /\ \A f \in Folder : next[f].docs = here[f].docs
               /\ \A d \in Client : d # c => open'[d] = {}
    <3>1. /\ pc[c] = "above" /\ pc' = pc /\ g \in open[c] /\ buf' = buf
          /\ meta' = [meta EXCEPT ![g] = buf[c][g]]
          /\ open' = [open EXCEPT ![c] = @ \ {g}]
      BY <1>1, <2>5 DEF FillAbove, WriterOK
    <3>2. Rewriting(c) = open[c] /\ Rewriting(c)' = open[c] \ {g}
      BY <1>4, <3>1 DEF Rewriting
    <3> QED
      BY <1>3, <1>4, <3>1, <3>2
  <2>6. \A g \in Folder : OpenAbove(c, g) \/ SkipAbove(c, g) \/ FillAbove(c, g)
          => pc[c] = "above" /\ pc' = pc
    BY <1>1, <1>2 DEF OpenAbove, SkipAbove, FillAbove, WriterOK
  <2> HIDE DEF here, next
  <2> QED
    BY <2>1, <2>2, <2>3, <2>4, <2>5, <2>6
<1>6. \A d \in Client : d # c => Rewriting(d)' = {}
  BY <1>2, <1>3, <1>5, OthersWait DEF Rewriting, Critical
<1>7. ASSUME NEW q \in Doc
      PROVE  CommittedVersion(q)' = CommittedVersion(q)
  <2>1. Front(q) \in Folder
    BY FolderOfDoc
  <2>2. CommittedVersion(q) = Item(here[Front(q)], q)
    BY <1>3, <2>1, Committed
  <2>3. CommittedVersion(q)' = Item(next[Front(q)], q)
    BY <1>6, <2>1, CommittedNext
  <2> QED
    BY <1>5, <2>1, <2>2, <2>3 DEF Item
<1>8. AbsVersion' = AbsVersion
  BY <1>7 DEF AbsVersion
<1>9. CommitInv'
  <2>1. CommitOK(c)'
    BY <1>5 DEF CommitOK
  <2> QED
    BY <1>2, <1>3, <1>7, <2>1, CommitStep DEF CommitInv
<1> QED
  BY <1>2, <1>3, <1>5, <1>8, <1>9

\* The versions that a handler which has not begun to write finds.
LEMMA CheckVersions ==
  ASSUME MutexInv, Writers, Parts, NEW c \in Client, pc[c] \in {"check", "open"}
  PROVE  \A q \in Doc : /\ CommittedVersion(q) = Item(meta[Front(q)], q)
                        /\ CommittedVersion(q) # None <=> file[q] # NoFile
<1>1. \A d \in Client : Rewriting(d) = {} /\ pc[d] \notin {"fill", "own"}
  <2>1. Rewriting(c) = {}
    BY DEF Writers, WriterOK, Rewriting
  <2>2. pc[c] \in Critical
    BY DEF Critical
  <2> QED
    BY <2>1, <2>2, OthersWait DEF Critical
<1>2. \A q \in Doc : CommittedVersion(q) = Item(meta[Front(q)], q)
  BY <1>1, Committed
<1>3. \A q \in Doc : Agrees(meta[Front(q)], q)
  BY <1>1 DEF Parts, DiskAgrees, Exempt
<1> QED
  BY <1>2, <1>3 DEF Agrees

\* A document is listed above p or below it.
Clashes(p) ==
  \E q \in Doc : CommittedVersion(q) # None /\ (IsStrictPrefix(p, q) \/ IsStrictPrefix(q, p))

\* None is where p can be written, if those listed have their files.
LEMMA NoClash ==
  ASSUME DirsOK, NEW p \in Doc, traversePath(p) \subseteq dirs, p \notin dirs,
         \A q \in Doc : q # p /\ CommittedVersion(q) # None => file[q] # NoFile
  PROVE  ~Clashes(p)
<1> SUFFICES ASSUME NEW q \in Doc, CommittedVersion(q) # None,
                    p \in traversePath(q) \/ q \in traversePath(p)
             PROVE  FALSE
  BY StrictPrefix DEF Clashes
<1>1. q # p
  BY DEF traversePath
<1>2. q \notin dirs /\ traversePath(q) \subseteq dirs
  BY <1>1 DEF DirsOK
<1> QED
  BY <1>2

\* put's test for a folder named like the document or a document named like a
\* folder above it means that there is one.
LEMMA IsDirClashes ==
  ASSUME MutexInv, Writers, Parts, Lists, NEW c \in Client, pc[c] = "check", PutIsDir(c)
  PROVE  Clashes(req[c].path)
<1> DEFINE p == req[c].path
<1>1. /\ p \in Doc /\ Own(c) = Front(p) /\ p \in Seq(Name) \ {<<>>} /\ Last(p) \in Name
      /\ Own(c) \in Folder /\ traversePath(p) \subseteq Folder /\ Own(c) \in traversePath(p)
      /\ pc[c] \in Critical
  BY WriterPaths, FolderPaths, FolderOfDoc DEF MutexInv, Critical, Own
<1>2. Rewriting(c) = {} /\ \A q : ~Pending(c, q)
  BY DEF Writers, WriterOK, Rewriting, Pending
<1>3. \A f \in Folder : /\ Proper(f, meta[f])
                        /\ \A q \in Folder \ {<<>>} :
                             Front(q) = f => (meta[f].subs[Last(q)] # None <=> HasDoc(q))
  BY <1>1, <1>2, ListBefore
<1>4. CASE meta[Own(c)].subs[Last(p)] # None
  <2>1. Append(Own(c), Last(p)) \in Folder \ {<<>>}
    BY <1>1, <1>3, <1>4 DEF Proper
  <2>2. Append(Own(c), Last(p)) = p
    BY <1>1, PathEntry
  <2>3. HasDoc(p)
    BY <1>1, <1>3, <1>4, <2>1, <2>2
  <2>4. PICK q \in Doc : p \in traversePath(q) /\ file[q] # NoFile
    BY <2>3 DEF HasDoc
  <2> QED
    BY <1>1, <2>4, CheckVersions, StrictPrefix DEF Clashes
<1>5. CASE \E g \in traversePath(p) :
             Toward(g, p) # Last(p) /\ meta[g].docs[Toward(g, p)] # None
  <2>1. PICK g \in traversePath(p) :
               Toward(g, p) # Last(p) /\ meta[g].docs[Toward(g, p)] # None
    BY <1>5
  <2>2. g # Front(p)
    <3>1. Len(Front(p)) + 1 = Len(p) /\ Last(p) = p[Len(p)]
      BY <1>1, PathParts
    <3> QED
      BY <2>1, <3>1 DEF Toward
  <2> DEFINE k == Child(g, p)
  <2>3. /\ k \in traversePath(p) /\ Front(k) = g /\ Last(k) = Toward(g, p)
        /\ Last(k) \in Name /\ Append(g, Last(k)) = k
    BY <1>1, <2>1, <2>2, InFolder
  <2> HIDE DEF k
  <2>4. k \in Doc
    BY <1>1, <1>3, <2>1, <2>3 DEF Proper
  <2>5. Item(meta[Front(k)], k) # None
    BY <2>1, <2>3 DEF Item
  <2> QED
    BY <1>1, <2>3, <2>4, <2>5, CheckVersions, StrictPrefix DEF Clashes
<1> QED
  BY <1>4, <1>5 DEF PutIsDir

\* Truncating its folder's metadata file, a handler commits its change, and a put
\* one that makes no name both a document and a folder.
LEMMA OwnCommits ==
  ASSUME MutexInv, Writers, DirsOK, Parts, CommitInv, NEW c \in Client, OpenOwn(c)
  PROVE  LET p == req[c].path IN
         /\ CommitInv'
         /\ p \in Doc /\ req[c].op \in {"put", "delete"}
         /\ CommittedVersion(p) = Item(meta[Own(c)], p)
         /\ AbsVersion' = [AbsVersion EXCEPT ![p] = Item(buf[c][Own(c)], p)]
         /\ req[c].op = "put" => ~Clashes(p)
<1> DEFINE p == req[c].path
<1>1. /\ pc[c] = "own" /\ pc'[c] = "ownfill" /\ pc[c] \in Critical
      /\ \A d \in Client : d # c => pc'[d] = pc[d]
      /\ meta' = [meta EXCEPT ![Own(c)] = EmptyMeta]
      /\ UNCHANGED <<buf, open, req, ans, now, crashes, file>>
  BY DEF OpenOwn, Goto, Critical, MutexInv, TypeInv, TypeOK, bounds
<1>2. /\ p \in Doc /\ Own(c) = Front(p) /\ Own(c) \in Folder /\ req[c].op \in {"put", "delete"}
      /\ Last(p) \in Name /\ meta \in [Folder -> Meta] /\ buf \in [Client -> [Folder -> Meta]]
      /\ Own(c)' = Own(c)
  BY <1>1, WriterPaths DEF MutexInv, TypeInv, TypeOK, Own
<1>3. /\ Rewriting(c) = {} /\ Rewriting(c)' = {Own(c)}
      /\ \A d \in Client : d # c => Rewriting(d) = {} /\ Rewriting(d)' = {}
      /\ \A d \in Client : d # c => pc[d] \notin Critical
  <2>1. open[c] = {}
    BY <1>1 DEF Writers, WriterOK
  <2>2. \A d \in Client : d # c => pc[d] \notin Critical /\ open[d] = {} /\ Rewriting(d) = {}
    BY <1>1, OthersWait
  <2> QED
    BY <1>1, <1>2, <2>1, <2>2 DEF Rewriting, Critical
<1>4. \A q \in Doc : CommittedVersion(q) = Item(meta[Front(q)], q)
  BY <1>3, Committed
<1>5. \A q \in Doc : CommittedVersion(q)'
                       = Item(IF Front(q) = Own(c) THEN buf[c][Own(c)] ELSE meta[Front(q)], q)
  <2>1. \A q \in Doc : CommittedVersion(q)'
          = Item(IF Front(q) \in Rewriting(c)' THEN buf'[c][Front(q)] ELSE meta'[Front(q)], q)
    BY <1>3, CommittedNext
  <2>2. \A q \in Doc : Front(q) # Own(c) => meta'[Front(q)] = meta[Front(q)]
    BY <1>1, <1>2, FolderOfDoc
  <2> QED
    BY <1>1, <1>3, <2>1, <2>2
<1>6. CommitOK(c) /\ StampOK(c)
  BY <1>1 DEF CommitInv, Writers, WriterOK
<1>7. \A q \in Doc : CommittedVersion(q)'
                       = IF q = p THEN Item(buf[c][Own(c)], p) ELSE CommittedVersion(q)
  BY <1>1, <1>2, <1>4, <1>5, <1>6 DEF CommitOK
<1>8. AbsVersion' = [AbsVersion EXCEPT ![p] = Item(buf[c][Own(c)], p)]
  BY <1>2, <1>7 DEF AbsVersion
<1>9. CommitInv'
  <2>1. Item(buf[c][Own(c)], p) <= now
    <3>1. CASE req[c].op = "put"
      BY <1>1, <1>6, <3>1 DEF StampOK, CommitOK
    <3>2. CASE req[c].op = "delete"
      <4>1. Item(buf[c][Own(c)], p) = None /\ now \in Nat
        BY <1>1, <1>6, <3>2 DEF CommitOK, MutexInv, TypeInv, TypeOK
      <4> QED
        BY <4>1 DEF None
    <3> QED
      BY <1>2, <3>1, <3>2
  <2>2. \A q \in Doc : CommittedVersion(q)' <= now'
    BY <1>1, <1>7, <2>1 DEF CommitInv
  <2>3. CommitOK(c)'
    BY <1>1 DEF CommitOK
  <2> QED
    BY <1>1, <2>2, <2>3, CommitStep DEF CommitInv
<1>10. ASSUME NEW q \in Doc, q # p, CommittedVersion(q) # None
       PROVE  file[q] # NoFile
  <2>1. CASE Front(q) = Own(c)
    <3>1. Agrees(buf[c][Front(q)], q)
      BY <1>1, <2>1 DEF Parts, MemoryAgrees
    <3>2. Item(buf[c][Front(q)], q) # None
      BY <1>4, <1>7, <1>5, <1>10, <2>1
    <3> QED
      BY <3>1, <3>2 DEF Agrees
  <2>2. CASE Front(q) # Own(c)
    <3>1. ~Exempt(q)
      BY <1>3, <1>10 DEF Exempt, Critical
    <3>2. Agrees(meta[Front(q)], q)
      BY <1>3, <3>1 DEF Parts, DiskAgrees
    <3> QED
      BY <1>4, <1>10, <3>2 DEF Agrees
  <2> QED
    BY <2>1, <2>2
<1>11. ASSUME req[c].op = "put"
       PROVE  ~Clashes(p)
  <2>1. traversePath(p) \subseteq dirs
    BY <1>1 DEF DirsOK, Amid
  <2>2. file[p] = req[c].val /\ req[c].val \in Value
    BY <1>6, <1>11 DEF StampOK, Writers, WriterOK
  <2>3. file[p] # NoFile
    BY <2>2, ContentAssumption
  <2>4. p \notin dirs
    BY <1>2, <2>3 DEF DirsOK
  <2> QED
    BY <1>2, <1>10, <2>1, <2>4, NoClash
<1> QED
  BY <1>2, <1>4, <1>8, <1>9, <1>11

-----------------------------------------------------------------------------
(* The readers of documents.                                               *)

\* A metadata file that is being rewritten is truncated.
Truncated == \A c \in Client : \A f \in Rewriting(c) : meta[f].ETag = None

\* What a GET or HEAD has found: a version of the document, whether it is the
\* client's, and, once read, the content, unless that is being written or the folder
\* has had a new ETag since.
ReaderOK(c) ==
  LET p == req[c].path
      f == Front(p)
  IN  pc[c] \in {"content", "recheck"} /\ req[c].op \in {"get", "head"} =>
        /\ Item(buf[c][f], p) # None /\ buf[c][f].ETag # None
        /\ ans[c].status = IF req[c].version = Item(buf[c][f], p) THEN 304 ELSE 200
        /\ pc[c] = "content" => ans[c].status = 200
        /\ IF pc[c] = "recheck" /\ req[c].op = "get" /\ ans[c].status = 200
           THEN \/ ans[c].val = file[p] \/ Exempt(p)
                \/ meta[f].ETag # buf[c][f].ETag
           ELSE ans[c].val = NoFile

Readers == Truncated /\ \A c \in Client : ReaderOK(c)

\* A reader does not move, and the file that it may have read changes only while
\* it is being written and gets its folder another ETag before that is over.
LEMMA ReaderStays ==
  ASSUME NEW c \in Client, ReaderOK(c),
         pc'[c] = pc[c], req'[c] = req[c], buf'[c] = buf[c], ans'[c] = ans[c],
         pc[c] \in {"content", "recheck"} /\ req[c].op \in {"get", "head"} =>
           LET p == req[c].path
               tag == buf[c][Front(p)].ETag
           IN  /\ file'[p] = file[p] \/ Exempt(p)'
               /\ Exempt(p) => Exempt(p)' \/ meta'[Front(p)].ETag # tag
               /\ meta[Front(p)].ETag # tag => meta'[Front(p)].ETag # tag
  PROVE  ReaderOK(c)'
<1> DEFINE p == req[c].path
           tag == buf[c][Front(p)].ETag
<1> SUFFICES ASSUME pc'[c] \in {"content", "recheck"}, req'[c].op \in {"get", "head"}
             PROVE  ReaderOK(c)'
  BY DEF ReaderOK
<1>1. /\ file'[p] = file[p] \/ Exempt(p)'
      /\ Exempt(p) => Exempt(p)' \/ meta'[Front(p)].ETag # tag
      /\ meta[Front(p)].ETag # tag => meta'[Front(p)].ETag # tag
  OBVIOUS
<1>2. Exempt(req[c].path)' <=> Exempt(p)'
  OBVIOUS
<1> QED
  BY <1>1 DEF ReaderOK, Exempt

\* The reader's own steps, and all others outside writes.
LEMMA ReadersAside ==
  ASSUME MutexInv, Writers, Readers, NEW c \in Client, Aside(c), ReaderOK(c)'
  PROVE  Readers'
<1>1. PICK l \in Label \ {"open", "fill", "own", "ownfill", "above", "detached"} : Goto(c, l)
  BY DEF Aside
<1>2. pc'[c] = l /\ \A d \in Client : d # c => pc'[d] = pc[d]
  BY <1>1 DEF Goto, MutexInv, TypeInv, TypeOK
<1>3. /\ \A d \in Client : d # c => req'[d] = req[d] /\ buf'[d] = buf[d] /\ ans'[d] = ans[d]
      /\ UNCHANGED <<file, meta, open>>
  BY DEF Aside
<1>4. pc[c] \notin {"fill", "own", "ownfill"}
  BY DEF Aside
<1>5. \A q : Exempt(q)' <=> Exempt(q)
  BY <1>2, <1>3, <1>4 DEF Exempt
<1>6. ASSUME NEW d \in Client, d # c
      PROVE  ReaderOK(d)'
  BY <1>2, <1>3, <1>5, <1>6, ReaderStays DEF Readers
<1>7. \A d \in Client : Rewriting(d)' \subseteq Rewriting(d)
  BY <1>2, <1>3 DEF Rewriting, Own
<1>8. Truncated'
  BY <1>3, <1>7 DEF Readers, Truncated
<1> QED
  BY <1>6, <1>8 DEF Readers

LEMMA ReadersGet ==
  ASSUME MutexInv, TagsOK, Readers, NEW c \in Client, GetMeta(c) \/ GetContent(c)
  PROVE  ReaderOK(c)'
<1> DEFINE p == req[c].path
           f == Front(p)
<1>1. /\ pc \in [Client -> Label] /\ buf \in [Client -> [Folder -> Meta]]
      /\ ans \in [Client -> AnswerType]
  BY DEF MutexInv, TypeInv, TypeOK
<1> SUFFICES ASSUME pc'[c] \in {"content", "recheck"}, req'[c].op \in {"get", "head"}
             PROVE  ReaderOK(c)'
  BY DEF ReaderOK
<1>2. req' = req /\ meta' = meta /\ file' = file
  BY DEF GetMeta, GetContent, disk
<1>3. /\ req[c].op \in {"get", "head"} /\ p \in Doc /\ f \in Folder /\ ReadFrom(c) = f
      /\ \A m : TagIn(c, m) = Item(m, p)
  BY <1>2, FolderOfDoc DEF ReadFrom, TagIn, MutexInv, TypeInv, ServesOK
<1> HIDE DEF f
<1>4. CASE GetMeta(c)
  <2> DEFINE tag == Item(meta[f], p)
             match == tag # None /\ req[c].version = tag
  <2>1. /\ buf'[c][f] = meta[f]
        /\ IF meta[f].ETag = None \/ tag = None
           THEN Goto(c, "answered")
           ELSE /\ ans' = [ans EXCEPT ![c] = [status |-> IF match THEN 304 ELSE 200,
                                              tag |-> IF match THEN meta[f].ETag ELSE tag,
                                              val |-> NoFile]]
                /\ Goto(c, IF match \/ req[c].op # "get" THEN "recheck" ELSE "content")
    BY <1>1, <1>3, <1>4 DEF GetMeta, Answer
  <2>2. ~(meta[f].ETag = None \/ tag = None)
    BY <1>1, <2>1 DEF Goto
  <2>3. /\ ans'[c] = [status |-> IF match THEN 304 ELSE 200,
                      tag |-> IF match THEN meta[f].ETag ELSE tag, val |-> NoFile]
        /\ pc'[c] = IF match \/ req[c].op # "get" THEN "recheck" ELSE "content"
    BY <1>1, <2>1, <2>2 DEF Goto
  <2>4. Item(buf[c][f], p)' = tag /\ tag # None /\ meta[f].ETag # None /\ buf'[c][f] = meta[f]
    BY <1>2, <2>1, <2>2 DEF Item, f
  <2> HIDE DEF tag
  <2>5. ~(pc'[c] = "recheck" /\ req[c].op = "get" /\ ans'[c].status = 200)
    BY <2>3
  <2> QED
    BY <1>2, <2>3, <2>4, <2>5 DEF ReaderOK, f
<1>5. CASE GetContent(c)
  <2>1. /\ pc[c] = "content" /\ req[c].op = "get" /\ pc'[c] = "recheck" /\ buf' = buf
        /\ ans' = [ans EXCEPT ![c].val = file[p]]
    BY <1>1, <1>5 DEF GetContent, Goto, MutexInv, TypeInv, ServesOK
  <2>2. ans'[c].status = ans[c].status /\ ans'[c].val = file[p]
    BY <1>1, <2>1 DEF AnswerType
  <2>3. ReaderOK(c)
    BY DEF Readers
  <2> QED
    BY <1>2, <2>1, <2>2, <2>3 DEF ReaderOK, Item, f
<1> QED
  BY <1>4, <1>5

\* A step of the handler in the critical section, if it gives no folder an ETag
\* that a reader holds.
LEMMA ReadersWrite ==
  ASSUME MutexInv, Writers, Readers, NEW c \in Client, pc[c] \in Critical,
         UNCHANGED <<req>>, Truncated',
         pc'[c] \notin {"content", "recheck"},
         \A d \in Client : d # c => pc'[d] = pc[d] /\ buf'[d] = buf[d] /\ ans'[d] = ans[d],
         \A q \in Doc : file'[q] = file[q] \/ Exempt(q)',
         \A q \in Doc : Exempt(q) => Exempt(q)' \/ meta'[Front(q)].ETag = None,
         \A d \in Client, f \in Folder :
           pc[d] \in {"content", "recheck"} /\ req[d].op \in {"get", "head"} /\ f = Front(req[d].path)
             => \/ meta'[f] = meta[f]
                \/ meta'[f].ETag = None
                \/ meta'[f].ETag # buf[d][f].ETag
  PROVE  Readers'
<1>1. ASSUME NEW d \in Client
      PROVE  ReaderOK(d)'
  <2>1. CASE d = c
    BY <2>1 DEF ReaderOK
  <2>2. CASE d # c
    <3>1. ReaderOK(d)
      BY DEF Readers
    <3>2. ASSUME pc[d] \in {"content", "recheck"}, req[d].op \in {"get", "head"}
          PROVE  LET p == req[d].path
                     tag == buf[d][Front(p)].ETag
                 IN  /\ file'[p] = file[p] \/ Exempt(p)'
                     /\ Exempt(p) => Exempt(p)' \/ meta'[Front(p)].ETag # tag
                     /\ meta[Front(p)].ETag # tag => meta'[Front(p)].ETag # tag
      <4>1. req[d].path \in Doc /\ Front(req[d].path) \in Folder
        BY <3>2, FolderOfDoc DEF MutexInv, TypeInv, ServesOK
      <4>2. buf[d][Front(req[d].path)].ETag # None
        BY <3>1, <3>2 DEF ReaderOK
      <4> QED
        BY <3>2, <4>1, <4>2
    <3> QED
      BY <2>2, <3>1, <3>2, ReaderStays
  <2> QED
    BY <2>1, <2>2
<1> QED
  BY <1>1 DEF Readers

\* The steps of a write up to where it truncates metadata.
LEMMA ReadersBefore ==
  ASSUME MutexInv, Writers, Readers, NEW c \in Client,
         PutStart(c) \/ PutOpen(c) \/ PutFill(c) \/ DeleteUnlink(c)
  PROVE  Readers'
<1> DEFINE p == req[c].path
<1>1. /\ pc[c] \in {"check", "open", "fill"} /\ pc[c] \in Critical
      /\ UNCHANGED <<meta, req, open>>
  BY DEF PutStart, PutOpen, PutFill, DeleteUnlink, DeleteAllowed, Checks, Critical
<1>2. /\ pc \in [Client -> Label] /\ buf \in [Client -> [Folder -> Meta]]
      /\ ans \in [Client -> AnswerType] /\ file \in [Doc -> Content]
  BY DEF MutexInv, TypeInv, TypeOK
<1>3. \/ pc' = [pc EXCEPT ![c] = "open"] /\ file' = file /\ pc[c] = "check"
      \/ /\ pc' = [pc EXCEPT ![c] = "fill"] \/ pc' = [pc EXCEPT ![c] = "own"]
         /\ \E v : file' = [file EXCEPT ![p] = v]
  BY DEF PutStart, PutOpen, PutFill, DeleteUnlink, DeleteAllowed, Checks, Goto
<1>4. pc'[c] \in {"open", "fill", "own"} /\ \A d \in Client : d # c => pc'[d] = pc[d]
  BY <1>2, <1>3
<1>5. \A d \in Client : d # c => buf'[d] = buf[d] /\ ans'[d] = ans[d]
  BY <1>2 DEF PutStart, PutOpen, PutFill, DeleteUnlink
<1>6. \A q \in Doc : file'[q] = file[q] \/ Exempt(q)'
  <2>1. CASE file' = file
    BY <2>1
  <2>2. CASE pc'[c] \in {"fill", "own"} /\ \E v : file' = [file EXCEPT ![p] = v]
    BY <1>1, <1>2, <2>2 DEF Exempt
  <2> QED
    BY <1>2, <1>3, <2>1, <2>2
<1>7. \A q \in Doc : Exempt(q) => Exempt(q)'
  <2>1. pc[c] \in {"fill", "own"} => pc'[c] \in {"fill", "own"}
    BY <1>2, <1>3
  <2> QED
    BY <1>1, <1>4, <2>1 DEF Exempt
<1>8. Truncated'
  <2>1. \A d \in Client : Rewriting(d)' \subseteq Rewriting(d)
    BY <1>1, <1>4 DEF Rewriting, Own
  <2> QED
    BY <1>1, <2>1 DEF Readers, Truncated
<1> QED
  BY <1>1, <1>4, <1>5, <1>6, <1>7, <1>8, ReadersWrite

\* The steps of a write that truncate and fill metadata, and the last one.
LEMMA ReadersAfter ==
  ASSUME MutexInv, Writers, TagsOK, Readers, NEW c \in Client,
         OpenOwn(c) \/ FillOwn(c) \/ Finish(c)
           \/ \E g \in Folder : OpenAbove(c, g) \/ SkipAbove(c, g) \/ FillAbove(c, g)
  PROVE  Readers'
<1> DEFINE p == req[c].path
           New(f) == \/ meta'[f] = meta[f]
                     \/ meta'[f].ETag = None
                     \/ Stamped(c) /\ f \in ToWrite(c) /\ meta'[f].ETag = StampOf(c)
<1>1. /\ pc[c] \in {"own", "ownfill", "above"} /\ pc[c] \in Critical
      /\ UNCHANGED <<file, req, ans>> /\ WriterOK(c)
      /\ pc' = pc \/ \E l \in {"ownfill", "above", "answered"} : Goto(c, l)
  <2>1. WriterOK(c) /\ ans \in [Client -> AnswerType]
    BY DEF Writers, MutexInv, TypeInv, TypeOK
  <2>2. CASE OpenOwn(c) \/ FillOwn(c) \/ Finish(c)
    BY <2>1, <2>2 DEF OpenOwn, FillOwn, Finish, UnlockAndAnswer, Answer, Critical
  <2>3. ASSUME NEW g \in Folder, OpenAbove(c, g) \/ SkipAbove(c, g) \/ FillAbove(c, g)
        PROVE  pc[c] = "above" /\ UNCHANGED <<file, req, ans, pc>>
    BY <2>1, <2>3 DEF OpenAbove, SkipAbove, FillAbove, WriterOK, disk
  <2> QED
    BY <2>1, <2>2, <2>3 DEF Critical
<1>2. /\ pc \in [Client -> Label] /\ buf \in [Client -> [Folder -> Meta]]
      /\ meta \in [Folder -> Meta] /\ open \in [Client -> SUBSET Folder] /\ p \in Doc
      /\ Own(c) \in Folder /\ Own(c) = Front(p)
  BY <1>1, WriterPaths DEF MutexInv, TypeInv, TypeOK, Own
<1>3. /\ pc'[c] \in {"own", "ownfill", "above", "answered"}
      /\ \A d \in Client : d # c => pc'[d] = pc[d]
  BY <1>1, <1>2 DEF Goto
<1>4. \A d \in Client : d # c => pc[d] \notin Critical /\ open[d] = {}
  BY <1>1, OthersWait
<1>5. ToWriteOK(c) /\ EmptyMeta.ETag = None
  BY DEF TagsOK, EmptyMeta
<1>6. /\ \A f \in Folder : New(f)
      /\ \A d \in Client : d # c => buf'[d] = buf[d] /\ open'[d] = open[d]
      /\ \A f \in Rewriting(c)' : f \in Folder /\ meta'[f].ETag = None
      /\ pc[c] = "own" => meta'[Own(c)].ETag = None
  <2>1. CASE OpenOwn(c)
    <3>1. /\ pc'[c] = "ownfill" /\ open' = open /\ buf' = buf /\ open[c] = {}
          /\ meta' = [meta EXCEPT ![Own(c)] = EmptyMeta]
      BY <1>1, <1>2, <2>1 DEF OpenOwn, Goto, WriterOK
    <3>2. Rewriting(c)' = {Own(c)}
      BY <1>1, <3>1 DEF Rewriting, Own
    <3> QED
      BY <1>2, <1>5, <3>1, <3>2
  <2>2. CASE FillOwn(c)
    <3>1. /\ pc[c] = "ownfill" /\ pc'[c] = "above" /\ open' = open /\ buf' = buf /\ open[c] = {}
          /\ meta' = [meta EXCEPT ![Own(c)] = buf[c][Own(c)]]
      BY <1>1, <1>2, <2>2 DEF FillOwn, Goto, WriterOK
    <3>2. Rewriting(c)' = {}
      BY <3>1 DEF Rewriting
    <3>3. Stamped(c) /\ Own(c) \in ToWrite(c) /\ buf[c][Own(c)].ETag = StampOf(c)
      BY <1>2, <3>1, FolderOfDoc DEF Stamped, ToWrite, StampOf
    <3> QED
      BY <1>2, <3>1, <3>2, <3>3
  <2>3. CASE Finish(c)
    <3>1. pc[c] = "above" /\ pc'[c] = "answered" /\ open[c] = {} /\ UNCHANGED <<open, buf, meta>>
      BY <1>2, <2>3 DEF Finish, UnlockAndAnswer, Answer, Goto
    <3>2. Rewriting(c)' = {}
      BY <3>1 DEF Rewriting
    <3> QED
      BY <3>1, <3>2
  <2>4. ASSUME NEW g \in Folder, OpenAbove(c, g)
        PROVE  /\ \A f \in Folder : New(f)
               /\ \A d \in Client : d # c => buf'[d] = buf[d] /\ open'[d] = open[d]
               /\ \A f \in Rewriting(c)' : f \in Folder /\ meta'[f].ETag = None
               /\ pc[c] = "above"
    <3>1. /\ pc[c] = "above" /\ pc' = pc
          /\ meta' = [meta EXCEPT ![g] = EmptyMeta]
          /\ open' = [open EXCEPT ![c] = @ \cup {g}]
          /\ \E m : buf' = [buf EXCEPT ![c][g] = m]
      BY <1>1, <2>4 DEF OpenAbove, WriterOK
    <3>2. Rewriting(c)' = open[c] \cup {g} /\ Rewriting(c) = open[c]
      BY <1>2, <3>1 DEF Rewriting
    <3>3. \A f \in open[c] : meta[f].ETag = None
      BY <3>2 DEF Readers, Truncated
    <3> QED
      BY <1>2, <1>5, <3>1, <3>2, <3>3
  <2>5. ASSUME NEW g \in Folder, SkipAbove(c, g)
        PROVE  /\ \A f \in Folder : New(f)
               /\ \A d \in Client : d # c => buf'[d] = buf[d] /\ open'[d] = open[d]
               /\ \A f \in Rewriting(c)' : f \in Folder /\ meta'[f].ETag = None
               /\ pc[c] = "above"
    <3>1. /\ pc[c] = "above" /\ pc' = pc /\ meta' = meta /\ open' = open
          /\ \E m : buf' = [buf EXCEPT ![c][g] = m]
      BY <1>1, <2>5 DEF SkipAbove, disk
    <3>2. Rewriting(c)' = open[c] /\ Rewriting(c) = open[c]
      BY <1>2, <3>1 DEF Rewriting
    <3> QED
      BY <1>2, <3>1, <3>2 DEF Readers, Truncated
  <2>6. ASSUME NEW g \in Folder, FillAbove(c, g)
        PROVE  /\ \A f \in Folder : New(f)
               /\ \A d \in Client : d # c => buf'[d] = buf[d] /\ open'[d] = open[d]
               /\ \A f \in Rewriting(c)' : f \in Folder /\ meta'[f].ETag = None
               /\ pc[c] = "above"
    <3>1. /\ pc[c] = "above" /\ pc' = pc /\ g \in open[c] /\ buf' = buf
          /\ meta' = [meta EXCEPT ![g] = buf[c][g]]
          /\ open' = [open EXCEPT ![c] = @ \ {g}]
      BY <1>1, <2>6 DEF FillAbove, WriterOK
    <3>2. Rewriting(c)' = open[c] \ {g} /\ Rewriting(c) = open[c]
      BY <1>2, <3>1 DEF Rewriting
    <3>3. Stamped(c) /\ g \in ToWrite(c) /\ buf[c][g].ETag = StampOf(c)
      BY <1>5, <3>1 DEF Stamped, ToWrite, ToWriteOK
    <3> QED
      BY <1>2, <3>1, <3>2, <3>3 DEF Readers, Truncated
  <2> QED
    BY <2>1, <2>2, <2>3, <2>4, <2>5, <2>6
<1>7. Truncated'
  <2>1. \A d \in Client : d # c => Rewriting(d)' = {}
    BY <1>3, <1>4, <1>6 DEF Rewriting, Critical
  <2> QED
    BY <1>6, <2>1 DEF Truncated
<1>8. \A q \in Doc : Exempt(q) => Exempt(q)' \/ meta'[Front(q)].ETag = None
  <2> SUFFICES ASSUME NEW q \in Doc, Exempt(q), ~Exempt(q)'
               PROVE  meta'[Front(q)].ETag = None
    OBVIOUS
  <2>1. PICK d \in Client : pc[d] \in {"fill", "own"} /\ req[d].path = q
    BY DEF Exempt
  <2>2. d = c
    BY <1>4, <2>1 DEF Critical
  <2> QED
    BY <1>1, <1>2, <1>6, <2>1, <2>2
<1>9. ASSUME NEW d \in Client, NEW f \in Folder, pc[d] \in {"content", "recheck"},
             req[d].op \in {"get", "head"}, f = Front(req[d].path)
      PROVE  \/ meta'[f] = meta[f] \/ meta'[f].ETag = None \/ meta'[f].ETag # buf[d][f].ETag
  <2>1. ReadOK(d) /\ ReadFrom(d) = f
    BY <1>9 DEF TagsOK, ReadFrom
  <2>2. Stamped(c) /\ f \in ToWrite(c) => buf[d][f].ETag # StampOf(c)
    BY <1>9, <2>1 DEF ReadOK
  <2> QED
    BY <1>6, <2>2
<1>10. \A d \in Client : d # c => pc'[d] = pc[d] /\ buf'[d] = buf[d] /\ ans'[d] = ans[d]
  BY <1>1, <1>3, <1>6
<1> QED
  BY <1>1, <1>3, <1>7, <1>8, <1>9, <1>10, ReadersWrite

LEMMA InitReaders == Init => Readers
BY DEF Init, Readers, Truncated, ReaderOK, Rewriting

LEMMA StepReaders ==
  ASSUME ~IOErrors, MutexInv, Writers, TagsOK, Readers, [Next]_vars
  PROVE  Readers'
<1>1. CASE Crash
  <2>1. \A c \in Client : pc'[c] = "idle" /\ open'[c] = {}
    BY <1>1 DEF Crash
  <2> QED
    BY <2>1 DEF Readers, Truncated, ReaderOK, Rewriting
<1>2. CASE UNCHANGED vars
  <2>1. UNCHANGED <<file, meta, pc, req, buf, open, ans>>
    BY <1>2 DEF vars, disk
  <2>2. (\A c \in Client : Rewriting(c)' = Rewriting(c)) /\ \A q : Exempt(q)' <=> Exempt(q)
    BY <2>1 DEF Rewriting, Own, Exempt
  <2>3. \A c \in Client : ReaderOK(c)'
    BY <2>1, <2>2, ReaderStays DEF Readers
  <2> QED
    BY <2>1, <2>2, <2>3 DEF Readers, Truncated
<1>3. ASSUME NEW c \in Client, Aside(c), pc'[c] \notin {"content", "recheck"}
      PROVE  Readers'
  <2>1. ReaderOK(c)'
    BY <1>3 DEF ReaderOK
  <2> QED
    BY <1>3, <2>1, ReadersAside
<1>4. ASSUME NEW c \in Client, Request(c) \/ Return(c)
      PROVE  Readers'
  <2>1. \E l \in {"idle", "lock", "read"} : Goto(c, l)
    BY <1>4 DEF Request, RequestPut, RequestDelete, RequestGet, Accept, Return
  <2>2. pc'[c] \notin {"content", "recheck"}
    BY <2>1 DEF Goto, MutexInv, TypeInv, TypeOK
  <2> QED
    BY <1>3, <1>4, <2>2, AsideRequest
<1>5. ASSUME NEW c \in Client,
             \/ AcquireLock(c) \/ StealLock(c) \/ LockTimeout(c)
             \/ PutRefused(c) \/ PutMkdirThrows(c) \/ PutFails(c)
             \/ DeleteRefused(c) \/ DeleteFails(c) \/ GetThrows(c)
             \/ GetAnswer(c) \/ GetRetry(c) \/ GetGivesUp(c)
      PROVE  Readers'
  <2>1. \E l \in {"check", "answered", "read"} : Goto(c, l)
    BY <1>5 DEF AcquireLock, StealLock, LockTimeout, PutRefused, PutMkdirThrows, PutFails,
                DeleteRefused, DeleteFails, GetThrows, GetAnswer, GetRetry, GetGivesUp,
                UnlockAndAnswer, Answer
  <2>2. pc'[c] \notin {"content", "recheck"}
    BY <2>1 DEF Goto, MutexInv, TypeInv, TypeOK
  <2> QED
    BY <1>3, <1>5, <2>2, AsideOther
<1>6. ASSUME NEW c \in Client, GetMeta(c) \/ GetContent(c)
      PROVE  Readers'
  BY <1>6, ReadersGet, AsideOther, ReadersAside
<1>7. ASSUME NEW c \in Client, Step(c)
      PROVE  Readers'
  <2>1. \A g \in Folder : ~AboveFails(c, g)
    BY DEF AboveFails
  <2> QED
    BY <1>4, <1>5, <1>6, <1>7, <2>1, ReadersBefore, ReadersAfter DEF Step
<1> QED
  BY <1>1, <1>2, <1>4, <1>7 DEF Next

-----------------------------------------------------------------------------
(* The refinement, step by step.                                           *)

\* One handler's phase, request and answer change when it moves.
LEMMA MapMove ==
  ASSUME TypeInv, NEW c \in Client, NEW l, Goto(c, l),
         \A d \in Client : d # c => ans'[d] = ans[d] /\ req'[d] = req[d]
  PROVE  /\ AbsPhase' = [AbsPhase EXCEPT ![c] = Phase(c)']
         /\ AbsAns' = [AbsAns EXCEPT ![c] = AbsAns'[c]]
         /\ AbsReq' = [AbsReq EXCEPT ![c] = AbsReq'[c]]
         /\ pc'[c] = l
         /\ AbsPhase[c] = Phase(c) /\ AbsPhase'[c] = Phase(c)'
<1>1. pc'[c] = l /\ \A d \in Client : d # c => pc'[d] = pc[d]
  BY DEF Goto, TypeInv, TypeOK
<1>2. \A d \in Client : d # c => Phase(d)' = Phase(d)
  BY <1>1 DEF Phase
<1>3. AbsPhase' = [AbsPhase EXCEPT ![c] = Phase(c)']
  BY <1>2 DEF AbsPhase
<1>4. /\ \A d \in Client : d # c => AbsPhase'[d] = AbsPhase[d]
      /\ AbsPhase[c] = Phase(c) /\ AbsPhase'[c] = Phase(c)'
  BY <1>2 DEF AbsPhase
<1>5. AbsAns' = [AbsAns EXCEPT ![c] = AbsAns'[c]]
  BY <1>4 DEF AbsAns
<1>6. AbsReq' = [AbsReq EXCEPT ![c] = AbsReq'[c]]
  BY <1>4 DEF AbsReq
<1> QED
  BY <1>1, <1>3, <1>4, <1>5, <1>6

\* A handler's move that shows neither in its phase nor in its answer.
LEMMA Unseen ==
  ASSUME TypeInv, NEW c \in Client, NEW l, Goto(c, l) \/ (UNCHANGED pc /\ l = pc[c]),
         \/ req[c].op = "list" /\ req'[c].op = "list"
         \/ req[c].op = "list" /\ l = "idle"
         \/ pc[c] = "idle" /\ req'[c].op = "list"
         \/ UNCHANGED req /\ {pc[c], l} \subseteq {"lock", "check", "open", "read", "content", "recheck"}
         \/ UNCHANGED <<req, ans>> /\ {pc[c], l} \subseteq {"ownfill", "above", "answered"},
         \A d \in Client : d # c => ans'[d] = ans[d] /\ req'[d] = req[d],
         AbsVersion' = AbsVersion, UNCHANGED file
  PROVE  UNCHANGED Store!storeVars
<1>1. pc'[c] = l /\ \A d \in Client : d # c => pc'[d] = pc[d]
  BY DEF Goto, TypeInv, TypeOK
<1>2. \A d \in Client : Phase(d)' = Phase(d)
  <2>1. Phase(c)' = Phase(c)
    BY <1>1 DEF Phase
  <2>2. \A d \in Client : d # c => Phase(d)' = Phase(d)
    BY <1>1 DEF Phase
  <2> QED
    BY <2>1, <2>2
<1>3. /\ Phase(c) # "idle" => req'[c] = req[c]
      /\ Phase(c) = "done" => ans'[c] = ans[c]
  BY <1>1, <1>2 DEF Phase
<1>4. AbsPhase' = AbsPhase /\ AbsPhase[c] = Phase(c)
  BY <1>2 DEF AbsPhase
<1>5. AbsAns' = AbsAns
  BY <1>3, <1>4 DEF AbsAns
<1>6. AbsReq' = AbsReq
  BY <1>3, <1>4 DEF AbsReq
<1> QED
  BY <1>4, <1>5, <1>6 DEF Store!storeVars

\* A handler whose request is pending answers, or commits with its answer ready.
LEMMA EndsWith ==
  ASSUME TypeInv, NEW c \in Client, req[c].op # "list", UNCHANGED <<file, req>>,
         \A d \in Client : d # c => ans'[d] = ans[d], NEW l, NEW s, NEW t, NEW v,
         \/ /\ Goto(c, "answered") /\ l = "pending"
            /\ pc[c] \in {"lock", "check", "open", "read", "content", "recheck"}
         \/ Goto(c, "ownfill") /\ l = "writing" /\ pc[c] = "own",
         ans'[c] = [status |-> s, tag |-> t, val |-> v]
  PROVE  Store!Done(c, l, s, t, v)
<1>1. PICK k \in {"answered", "ownfill"} : Goto(c, k)
  OBVIOUS
<1>2. /\ AbsPhase' = [AbsPhase EXCEPT ![c] = Phase(c)']
      /\ AbsAns' = [AbsAns EXCEPT ![c] = AbsAns'[c]]
      /\ AbsReq' = [AbsReq EXCEPT ![c] = AbsReq'[c]]
      /\ pc'[c] = k /\ AbsPhase[c] = Phase(c) /\ AbsPhase'[c] = Phase(c)'
  BY <1>1, MapMove
<1>3. AbsPhase[c] = l /\ Phase(c)' = "done" /\ AbsPhase'[c] = "done" /\ l # "idle"
  BY <1>1, <1>2 DEF Phase
<1>4. AbsAns'[c] = [status |-> s, tag |-> t, val |-> v]
  BY <1>3 DEF AbsAns
<1>5. AbsReq' = AbsReq
  <2>1. AbsReq'[c] = AbsReq[c]
    BY <1>3 DEF AbsReq
  <2>2. AbsReq = [AbsReq EXCEPT ![c] = AbsReq[c]]
    BY DEF AbsReq
  <2> QED
    BY <1>2, <2>1, <2>2
<1> QED
  BY <1>2, <1>3, <1>4, <1>5 DEF Store!Done

\* What the abstract operations see of handler c's request.
LEMMA AbsValues ==
  ASSUME NEW c \in Client, pc[c] # "idle", req[c].op # "list"
  PROVE  /\ AbsReq[c] = req[c]
         /\ \A p \in Doc : AbsVersion[p] = CommittedVersion(p)
<1>1. AbsPhase[c] # "idle"
  BY DEF AbsPhase, Phase
<1> QED
  BY <1>1 DEF AbsReq, AbsVersion

\* IsStrictPrefix is the same operator in both modules.
LEMMA SamePrefix == \A p, q : Store!IsStrictPrefix(p, q) <=> IsStrictPrefix(p, q)
BY DEF IsStrictPrefix, IsPrefix, Store!IsStrictPrefix, Store!IsPrefix

LEMMA SameClash ==
  ASSUME NEW p \in Doc
  PROVE  Store!NameClash(p) <=> Clashes(p)
<1>1. \A q \in Doc : AbsVersion[q] = CommittedVersion(q)
  BY DEF AbsVersion
<1> QED
  BY <1>1, SamePrefix DEF Store!NameClash, Clashes, None

LEMMA RefineRequest ==
  ASSUME TypeInv, NEW c \in Client, Request(c), AbsVersion' = AbsVersion
  PROVE  Store!Call(c) \/ UNCHANGED Store!storeVars
<1>1. PICK r, l : /\ Accept(c, r, l) /\ UNCHANGED <<ans, file>>
                  /\ l \in {"lock", "read"} /\ r.op \in {"put", "delete", "get", "head", "list"}
                  /\ r.op # "list" => r.path \in Doc
  <2>1. CASE RequestPut(c)
    <3>1. PICK p \in Doc, v \in Value, ver \in Versions :
            Accept(c, [op |-> "put", path |-> p, val |-> v, version |-> ver], "lock")
      BY <2>1 DEF RequestPut
    <3> QED
      BY <2>1, <3>1 DEF RequestPut, disk
  <2>2. CASE RequestDelete(c)
    <3>1. PICK p \in Doc, ver \in Versions :
            Accept(c, [op |-> "delete", path |-> p, val |-> NoFile, version |-> ver], "lock")
      BY <2>2 DEF RequestDelete
    <3> QED
      BY <2>2, <3>1 DEF RequestDelete, disk
  <2>3. CASE RequestGet(c)
    <3>1. PICK op \in {"get", "head", "list"}, p \in Doc \cup Folder, ver \in Versions \ {Star} :
            /\ Accept(c, [op |-> op, path |-> p, val |-> NoFile, version |-> ver], "read")
            /\ op # "list" => p \in Doc
      BY <2>3 DEF RequestGet
    <3> QED
      BY <2>3, <3>1 DEF RequestGet, disk
  <2> QED
    BY <2>1, <2>2, <2>3 DEF Request
<1>2. /\ pc[c] = "idle" /\ Goto(c, l) /\ req'[c] = r
      /\ \A d \in Client : d # c => req'[d] = req[d] /\ ans'[d] = ans[d]
  BY <1>1 DEF Accept, TypeInv, TypeOK
<1>3. CASE r.op = "list"
  BY <1>1, <1>2, <1>3, Unseen
<1>4. CASE r.op # "list"
  <2>1. /\ AbsPhase' = [AbsPhase EXCEPT ![c] = Phase(c)']
        /\ AbsReq' = [AbsReq EXCEPT ![c] = AbsReq'[c]]
        /\ AbsAns' = [AbsAns EXCEPT ![c] = AbsAns'[c]]
        /\ pc'[c] = l /\ AbsPhase[c] = Phase(c) /\ AbsPhase'[c] = Phase(c)'
    BY <1>2, MapMove
  <2>2. AbsPhase[c] = "idle" /\ AbsPhase'[c] = "pending"
    BY <1>1, <1>2, <1>4, <2>1 DEF Phase
  <2>3. AbsReq'[c] = r
    BY <1>2, <2>2 DEF AbsReq
  <2>4. AbsAns' = AbsAns
    <3>1. AbsAns'[c] = AbsAns[c]
      BY <2>2 DEF AbsAns
    <3>2. AbsAns = [AbsAns EXCEPT ![c] = AbsAns[c]]
      BY DEF AbsAns
    <3> QED
      BY <2>1, <3>1, <3>2
  <2> QED
    BY <1>1, <1>4, <2>1, <2>2, <2>3, <2>4 DEF Store!Call
<1> QED
  BY <1>3, <1>4

LEMMA RefineReturn ==
  ASSUME TypeInv, NEW c \in Client, Return(c), AbsVersion' = AbsVersion
  PROVE  Store!Forget(c) \/ UNCHANGED Store!storeVars
<1>1. /\ pc[c] = "answered" /\ Goto(c, "idle") /\ req'[c] = NoRequest /\ UNCHANGED file
      /\ \A d \in Client : d # c => req'[d] = req[d] /\ ans'[d] = ans[d]
  BY DEF Return, TypeInv, TypeOK, disk
<1>2. CASE req[c].op = "list"
  BY <1>1, <1>2, Unseen
<1>3. CASE req[c].op # "list"
  <2>1. /\ AbsPhase' = [AbsPhase EXCEPT ![c] = Phase(c)']
        /\ AbsReq' = [AbsReq EXCEPT ![c] = AbsReq'[c]]
        /\ AbsAns' = [AbsAns EXCEPT ![c] = AbsAns'[c]]
        /\ pc'[c] = "idle" /\ AbsPhase[c] = Phase(c) /\ AbsPhase'[c] = Phase(c)'
    BY <1>1, MapMove
  <2>2. AbsPhase[c] = "done" /\ AbsPhase'[c] = "idle"
    BY <1>1, <1>3, <2>1 DEF Phase
  <2>3. AbsReq'[c] = Store!NoRequest
    BY <2>2 DEF AbsReq, NoRequest, None, Store!NoRequest
  <2>4. AbsAns'[c] = Store!NoAnswer
    BY <2>2 DEF AbsAns, NoAnswer, None, Store!NoAnswer
  <2> QED
    BY <1>1, <2>1, <2>2, <2>3, <2>4 DEF Store!Forget
<1> QED
  BY <1>2, <1>3

LEMMA RefineFail ==
  ASSUME TypeInv, NEW c \in Client, ~IOErrors, req[c].op # "list",
         \/ LockTimeout(c) \/ PutMkdirThrows(c) \/ PutFails(c) \/ GetThrows(c) \/ GetGivesUp(c),
         AbsVersion' = AbsVersion
  PROVE  Store!Fail(c)
<1> USE DEF Answer, Status, TypeInv, TypeOK, None
<1>1. CASE LockTimeout(c) \/ PutMkdirThrows(c) \/ GetThrows(c) \/ GetGivesUp(c)
  <2>1. /\ Goto(c, "answered") /\ pc[c] \in {"lock", "check", "content", "recheck"}
        /\ UNCHANGED <<req, file>>
        /\ ans'[c] = [status |-> 500, tag |-> 0, val |-> NoFile]
        /\ \A d \in Client : d # c => ans'[d] = ans[d]
    BY <1>1 DEF LockTimeout, PutMkdirThrows, Checks, GetThrows, GetGivesUp, disk
  <2>2. Store!Done(c, "pending", 500, 0, NoFile)
    <3> HIDE DEF Answer, Status, TypeInv, TypeOK, None
    <3>1. pc[c] \in {"lock", "check", "open", "read", "content", "recheck"}
      BY <2>1
    <3> QED
      BY <2>1, <3>1, EndsWith
  <2> QED
    BY <2>2 DEF Store!Fail
<1>2. CASE PutFails(c)
  <2>1. /\ Goto(c, "answered") /\ pc[c] = "open" /\ UNCHANGED <<req, file>> /\ req[c].op = "put"
        /\ ans'[c] = [status |-> 200, tag |-> 0, val |-> NoFile]
        /\ \A d \in Client : d # c => ans'[d] = ans[d]
    BY <1>2 DEF PutFails, UnlockAndAnswer
  <2>2. Store!Done(c, "pending", 200, 0, NoFile)
    BY <2>1, EndsWith
  <2>3. AbsReq[c].op = "put"
    BY <2>1, AbsValues
  <2> QED
    BY <2>2, <2>3 DEF Store!Fail
<1> QED
  BY <1>1, <1>2

LEMMA RefineRefuse ==
  ASSUME MutexInv, Writers, Parts, Lists, NEW c \in Client, PutRefused(c) \/ DeleteRefused(c),
         AbsVersion' = AbsVersion
  PROVE  Store!Refuse(c)
<1> DEFINE p == req[c].path
           item == Item(meta[Own(c)], p)
           status == IF req[c].op = "put" THEN IF PutConflict(c) THEN 412 ELSE 409
                     ELSE IF req[c].version = None THEN 404 ELSE 412
<1>1. /\ Goto(c, "answered") /\ pc[c] = "check" /\ UNCHANGED <<file, req>>
      /\ ans'[c] = [status |-> status, tag |-> 0, val |-> NoFile]
      /\ \A d \in Client : d # c => ans'[d] = ans[d]
      /\ req[c].op \in {"put", "delete"}
  BY DEF PutRefused, DeleteRefused, Checks, UnlockAndAnswer, Answer, Status, None,
         MutexInv, TypeInv, TypeOK
<1>2. p \in Doc /\ pc[c] \in Critical /\ Own(c) = Front(p)
  BY <1>1, WriterPaths DEF MutexInv, Critical, Own
<1>3. AbsReq[c] = req[c] /\ AbsVersion[p] = item /\ Store!Writes(c)
  BY <1>1, <1>2, AbsValues, CheckVersions DEF Store!Writes
<1>4. Store!Done(c, "pending", status, 0, NoFile)
  BY <1>1, EndsWith DEF MutexInv
<1>5. item \in Nat /\ Star \notin Nat
  BY <1>2, FolderOfDoc, StarAssumption DEF Item, Meta, MutexInv, TypeInv, TypeOK
<1> HIDE DEF status, item
<1>6. CASE PutRefused(c) /\ PutConflict(c)
  <2>1. ~Store!Matches(c)
    BY <1>3, <1>5, <1>6 DEF PutConflict, None, item, Store!Matches, Store!Current
  <2>2. status = 412
    BY <1>6 DEF PutRefused, Checks, status
  <2> QED
    BY <1>3, <1>4, <2>1, <2>2 DEF Store!Refuse
<1>7. CASE PutRefused(c) /\ ~PutConflict(c)
  <2>1. PutIsDir(c) /\ req[c].op = "put" /\ status = 409
    BY <1>7 DEF PutRefused, Checks, status
  <2>2. Store!NameClash(p)
    BY <1>1, <1>2, <2>1, IsDirClashes, SameClash
  <2> QED
    BY <1>3, <1>4, <2>1, <2>2 DEF Store!Refuse
<1>8. CASE DeleteRefused(c)
  <2>1. /\ req[c].op = "delete" /\ (item = 0 \/ req[c].version \notin {0, item})
        /\ status = IF req[c].version = 0 THEN 404 ELSE 412
    BY <1>8 DEF DeleteRefused, Checks, None, item, status
  <2>2. CASE item = 0
    BY <1>3, <1>4, <2>1, <2>2 DEF Store!Refuse, Store!Current
  <2>3. CASE item # 0
    <3>1. ~Store!Matches(c) /\ status = 412
      BY <1>3, <2>1, <2>3 DEF Store!Matches, Store!Current
    <3> QED
      BY <1>3, <1>4, <3>1 DEF Store!Refuse
  <2> QED
    BY <2>2, <2>3
<1> QED
  BY <1>6, <1>7, <1>8

\* Without I/O errors, a document that is listed has its file.
LEMMA DeleteFinds ==
  ASSUME MutexInv, Writers, Parts, NEW c \in Client, ~IOErrors
  PROVE  ~DeleteFails(c)
<1> SUFFICES ASSUME DeleteFails(c)
             PROVE  FALSE
  OBVIOUS
<1>1. pc[c] = "check" /\ Item(meta[Own(c)], req[c].path) # None /\ file[req[c].path] = NoFile
  BY DEF DeleteFails, DeleteAllowed, Checks
<1>2. req[c].path \in Doc /\ Own(c) = Front(req[c].path)
  BY <1>1, WriterPaths DEF MutexInv, Critical, Own
<1> QED
  BY <1>1, <1>2, CheckVersions

\* put opens its file, or delete unlinks it, when nothing can refuse it any more.
LEMMA RefineBegin ==
  ASSUME MutexInv, Writers, DirsOK, Parts, NEW c \in Client, PutOpen(c) \/ DeleteUnlink(c),
         AbsVersion' = AbsVersion
  PROVE  Store!Begin(c)
<1> DEFINE p == req[c].path
           item == Item(meta[Own(c)], p)
<1>1. /\ pc[c] \in {"check", "open"} /\ (Goto(c, "fill") \/ Goto(c, "own"))
      /\ req[c].op \in {"put", "delete"} /\ UNCHANGED req
      /\ \E v : file' = [file EXCEPT ![p] = v]
      /\ UNCHANGED ans \/ \E a : ans' = [ans EXCEPT ![c] = a]
  <2>1. WriterOK(c)
    BY DEF Writers
  <2> QED
    BY <2>1 DEF PutOpen, DeleteUnlink, DeleteAllowed, Checks, WriterOK
<1>2. /\ pc[c] \in Critical /\ p \in Doc /\ Own(c) = Front(p)
      /\ \A d \in Client : d # c => ans'[d] = ans[d] /\ req'[d] = req[d]
      /\ file \in [Doc -> Content]
  <2>1. pc[c] \in Critical
    BY <1>1 DEF Critical
  <2> QED
    BY <1>1, <2>1, WriterPaths DEF MutexInv, TypeInv, TypeOK, Own
<1>3. \A d \in Client : pc[d] \notin {"fill", "own"}
  BY <1>1, <1>2, OthersWait DEF Critical
<1>4. AbsReq[c] = req[c] /\ AbsVersion[p] = item
  BY <1>1, <1>2, AbsValues, CheckVersions
<1>5. Store!Admitted(c)
  <2>1. CASE PutOpen(c)
    <3>1. pc[c] = "open" /\ req[c].op = "put" /\ NamesTheVersion(c) /\ p \notin dirs
      BY <2>1 DEF PutOpen, Writers, WriterOK
    <3>2. traversePath(p) \subseteq dirs
      BY <3>1 DEF DirsOK, Amid
    <3>3. ~Clashes(p)
      BY <1>1, <1>2, <3>1, <3>2, CheckVersions, NoClash
    <3>4. Store!Matches(c)
      BY <1>4, <3>1 DEF NamesTheVersion, None, Store!Matches, Store!Current
    <3> QED
      BY <1>2, <1>4, <3>1, <3>3, <3>4, SameClash DEF Store!Admitted
  <2>2. CASE DeleteUnlink(c)
    <3>1. req[c].op = "delete" /\ item # 0 /\ req[c].version \in {0, item}
      BY <2>2 DEF DeleteUnlink, DeleteAllowed, Checks, None
    <3> QED
      BY <1>4, <3>1 DEF Store!Admitted, Store!Matches, Store!Current
  <2> QED
    BY <2>1, <2>2
<1>6. PICK l \in {"fill", "own"} : Goto(c, l)
  BY <1>1
<1>7. /\ AbsPhase' = [AbsPhase EXCEPT ![c] = Phase(c)']
      /\ AbsAns' = [AbsAns EXCEPT ![c] = AbsAns'[c]]
      /\ AbsReq' = [AbsReq EXCEPT ![c] = AbsReq'[c]]
      /\ pc'[c] = l /\ AbsPhase[c] = Phase(c) /\ AbsPhase'[c] = Phase(c)'
  BY <1>2, <1>6, MapMove DEF MutexInv
<1>8. AbsPhase[c] = "pending" /\ AbsPhase'[c] = "writing"
  BY <1>1, <1>7 DEF Phase
<1>9. AbsReq' = AbsReq /\ AbsAns' = AbsAns
  <2>1. AbsReq'[c] = AbsReq[c]
    BY <1>1, <1>8 DEF AbsReq
  <2>2. AbsReq = [AbsReq EXCEPT ![c] = AbsReq[c]]
    BY DEF AbsReq
  <2>3. AbsAns'[c] = AbsAns[c]
    BY <1>8 DEF AbsAns
  <2>4. AbsAns = [AbsAns EXCEPT ![c] = AbsAns[c]]
    BY DEF AbsAns
  <2> QED
    BY <1>7, <2>1, <2>2, <2>3, <2>4
<1>10. \A d \in Client : AbsPhase[d] # "writing"
  BY <1>3 DEF AbsPhase, Phase
<1>11. file' = [file EXCEPT ![AbsReq[c].path] = file'[AbsReq[c].path]]
  BY <1>1, <1>2, <1>4
<1> QED
  BY <1>5, <1>7, <1>8, <1>9, <1>10, <1>11 DEF Store!Begin

\* put fills its file.
LEMMA RefineWrite ==
  ASSUME MutexInv, Writers, NEW c \in Client, PutFill(c), AbsVersion' = AbsVersion
  PROVE  Store!Write(c)
<1> DEFINE p == req[c].path
<1>1. /\ pc[c] = "fill" /\ Goto(c, "own") /\ UNCHANGED req /\ req[c].op = "put"
      /\ file' = [file EXCEPT ![p] = req[c].val]
      /\ \A d \in Client : d # c => ans'[d] = ans[d]
  BY DEF PutFill, Writers, WriterOK, MutexInv, TypeInv, TypeOK
<1>2. /\ AbsPhase' = [AbsPhase EXCEPT ![c] = Phase(c)']
      /\ AbsAns' = [AbsAns EXCEPT ![c] = AbsAns'[c]]
      /\ AbsReq' = [AbsReq EXCEPT ![c] = AbsReq'[c]]
      /\ pc'[c] = "own" /\ AbsPhase[c] = Phase(c) /\ AbsPhase'[c] = Phase(c)'
  BY <1>1, MapMove DEF MutexInv
<1>3. AbsPhase[c] = "writing" /\ AbsPhase'[c] = "writing"
  BY <1>1, <1>2 DEF Phase
<1>4. AbsPhase' = AbsPhase
  <2>1. AbsPhase = [AbsPhase EXCEPT ![c] = AbsPhase[c]]
    BY DEF AbsPhase
  <2> QED
    BY <1>2, <1>3, <2>1
<1>5. AbsReq' = AbsReq /\ AbsAns' = AbsAns
  <2>1. AbsReq'[c] = AbsReq[c]
    BY <1>1, <1>3 DEF AbsReq
  <2>2. AbsReq = [AbsReq EXCEPT ![c] = AbsReq[c]]
    BY DEF AbsReq
  <2>3. AbsAns'[c] = AbsAns[c]
    BY <1>3 DEF AbsAns
  <2>4. AbsAns = [AbsAns EXCEPT ![c] = AbsAns[c]]
    BY DEF AbsAns
  <2> QED
    BY <1>2, <2>1, <2>2, <2>3, <2>4
<1>6. AbsReq[c] = req[c]
  BY <1>1, AbsValues
<1>7. p \in Doc /\ file \in [Doc -> Content]
  BY <1>1, WriterPaths DEF MutexInv, TypeInv, TypeOK, Critical
<1>8. file' = [file EXCEPT ![AbsReq[c].path] = file'[AbsReq[c].path]]
  BY <1>1, <1>6, <1>7
<1> QED
  BY <1>3, <1>4, <1>5, <1>8 DEF Store!Write

LEMMA RefineCommit ==
  ASSUME MutexInv, Writers, DirsOK, Parts, CommitInv, NEW c \in Client, OpenOwn(c)
  PROVE  Store!Put(c) \/ Store!Delete(c)
<1> DEFINE p == req[c].path
           item == Item(meta[Own(c)], p)
           new == Item(buf[c][Own(c)], p)
<1>1. /\ p \in Doc /\ req[c].op \in {"put", "delete"} /\ CommittedVersion(p) = item
      /\ AbsVersion' = [AbsVersion EXCEPT ![p] = new]
      /\ req[c].op = "put" => ~Clashes(p)
  BY OwnCommits
<1>2. pc[c] = "own" /\ Goto(c, "ownfill") /\ UNCHANGED <<req, ans, file>>
  BY DEF OpenOwn
<1>3. CommitOK(c) /\ StampOK(c)
  BY <1>2 DEF CommitInv, Writers, WriterOK
<1>4. ans[c] \in AnswerType /\ ans[c].val = NoFile
  BY <1>2, <1>3 DEF CommitOK, MutexInv, TypeInv, TypeOK
<1>5. ans'[c] = [status |-> ans[c].status, tag |-> ans[c].tag, val |-> NoFile]
  BY <1>2, <1>4 DEF AnswerType
<1>6. Store!Done(c, "writing", ans[c].status, ans[c].tag, NoFile)
  BY <1>1, <1>2, <1>5, EndsWith DEF MutexInv
<1>7. AbsReq[c] = req[c] /\ AbsVersion[p] = item /\ \A q \in Doc : AbsVersion[q] = CommittedVersion(q)
  BY <1>1, <1>2, AbsValues
<1>8. AbsVersion'[p] = new
  BY <1>1 DEF AbsVersion
<1> HIDE DEF item, new
<1>9. CASE req[c].op = "put"
  <2>1. /\ NamesTheVersion(c) /\ ans[c].tag = new /\ \A q \in Doc : CommittedVersion(q) < new
        /\ ans[c].status = (IF item = 0 THEN 201 ELSE 200) /\ file[p] = req[c].val
    BY <1>2, <1>3, <1>9 DEF CommitOK, StampOK, None, item, new
  <2>2. Store!Matches(c)
    BY <1>7, <1>9, <2>1 DEF NamesTheVersion, None, item, Store!Matches, Store!Current
  <2>3. Store!Admitted(c)
    BY <1>1, <1>7, <1>9, <2>2, SameClash DEF Store!Admitted
  <2>4. \A q \in Doc : AbsVersion'[p] > AbsVersion[q]
    BY <1>7, <1>8, <2>1
  <2>5. Store!Done(c, "writing", IF Store!Current(c) = 0 THEN 201 ELSE 200, AbsVersion'[p], NoFile)
    BY <1>6, <1>7, <1>8, <2>1 DEF Store!Current
  <2> QED
    BY <1>1, <1>7, <1>8, <1>9, <2>1, <2>3, <2>4, <2>5 DEF Store!Put
<1>10. CASE req[c].op = "delete"
  <2>1. /\ req[c].version \in {0, item} /\ item # 0 /\ new = 0
        /\ ans[c].status = 200 /\ ans[c].tag = item
    BY <1>2, <1>3, <1>10 DEF CommitOK, None, item, new
  <2>2. Store!Admitted(c) /\ Store!Current(c) = item
    BY <1>7, <1>10, <2>1 DEF Store!Admitted, Store!Matches, Store!Current
  <2>3. file[p] = NoFile
    <3>1. Agrees(buf[c][Front(p)], p) /\ Own(c) = Front(p)
      BY <1>1, <1>2 DEF Parts, MemoryAgrees, Own
    <3> QED
      BY <2>1, <3>1 DEF Agrees, None, new
  <2> QED
    BY <1>1, <1>6, <1>7, <1>10, <2>1, <2>2, <2>3 DEF Store!Delete
<1> QED
  BY <1>1, <1>9, <1>10

\* Front is the same operator in both modules.
LEMMA SameFront == \A p : Store!Front(p) = Front(p)
BY DEF Front, Store!Front

\* An answer to a GET or HEAD of a document: its version, and its content unless
\* that is being written.
LEMMA RefineGet ==
  ASSUME MutexInv, TagsOK, Readers, NEW c \in Client, GetAnswer(c), req[c].op # "list",
         AbsVersion' = AbsVersion
  PROVE  Store!Get(c)
<1> DEFINE p == req[c].path
           f == Front(p)
           a == ans[c]
<1>1. /\ pc[c] = "recheck" /\ Goto(c, "answered") /\ UNCHANGED <<file, req>> /\ ans'[c] = a
      /\ \A d \in Client : d # c => ans'[d] = ans[d]
      /\ a \in AnswerType
  BY DEF GetAnswer, Answer, disk, MutexInv, TypeInv, TypeOK
<1>2. /\ req[c].op \in {"get", "head"} /\ p \in Doc /\ f \in Folder
      /\ ReadFrom(c) = f /\ \A m : TagIn(c, m) = Item(m, p)
  BY <1>1, FolderOfDoc DEF ReadFrom, TagIn, MutexInv, TypeInv, ServesOK
<1> HIDE DEF f
<1>3. ReaderOK(c) /\ ReadOK(c) /\ meta[f].ETag = buf[c][f].ETag
  BY <1>2 DEF Readers, TagsOK, GetAnswer, SameFolderTag
<1> DEFINE held == Item(meta[f], p)
<1>4. buf[c][f] = meta[f] /\ (a.status # 304 => a.tag = held)
  BY <1>1, <1>2, <1>3 DEF ReadOK, AnswerFits
<1>5. /\ held # None /\ meta[f].ETag # None
      /\ a.status = IF req[c].version = held THEN 304 ELSE 200
      /\ IF req[c].op = "get" /\ a.status = 200
         THEN a.val = file[p] \/ Exempt(p)
         ELSE a.val = NoFile
  BY <1>1, <1>2, <1>3, <1>4 DEF ReaderOK, f
<1>6. CommittedVersion(p) = held
  <2>1. {d \in Client : f \in Rewriting(d)} = {}
    BY <1>5 DEF Readers, Truncated
  <2> QED
    BY <1>4, <2>1 DEF CommittedVersion, f
<1>7. /\ AbsReq[c] = req[c] /\ AbsVersion[p] = held
  BY <1>1, <1>2, <1>6, AbsValues
<1>8. Exempt(p) => Store!BeingWritten(p)
  <2> SUFFICES ASSUME NEW d \in Client, pc[d] \in {"fill", "own"}, req[d].path = p
               PROVE  Store!BeingWritten(p)
    BY DEF Exempt
  <2>1. req[d].op # "list"
    BY DEF MutexInv, TypeInv, ServesOK, Critical
  <2>2. AbsPhase[d] = "writing" /\ AbsReq[d] = req[d]
    BY <2>1, AbsValues DEF AbsPhase, Phase
  <2> QED
    BY <2>2 DEF Store!BeingWritten
<1>9. a = [status |-> a.status, tag |-> a.tag, val |-> a.val]
  BY <1>1 DEF AnswerType
<1> HIDE DEF a, held
<1>10. Store!Done(c, "pending", a.status, a.tag, a.val)
  <2>1. pc[c] \in {"lock", "check", "open", "read", "content", "recheck"}
    BY <1>1
  <2>2. ans'[c] = [status |-> a.status, tag |-> a.tag, val |-> a.val]
    BY <1>1, <1>9
  <2> QED
    BY <1>1, <1>2, <2>1, <2>2, EndsWith DEF MutexInv
<1>11. AbsAns'[c].val = a.val /\ AbsAns'[c].tag = a.tag
  <2>1. AbsAns' = [AbsAns EXCEPT ![c] = [status |-> a.status, tag |-> a.tag, val |-> a.val]]
    BY <1>10 DEF Store!Done
  <2> QED
    BY <2>1 DEF AbsAns
<1> QED
  BY <1>2, <1>4, <1>5, <1>7, <1>8, <1>10, <1>11 DEF Store!Get, Store!Reads, Store!Current, None

\* A 404 to a GET or HEAD: the document is absent, or the writer that has
\* truncated the folder's metadata is still at its work.
LEMMA RefineAbsent ==
  ASSUME MutexInv, Writers, TagsOK, NEW c \in Client, GetMeta(c), req[c].op # "list",
         LET m == meta[ReadFrom(c)] IN m.ETag = None \/ TagIn(c, m) = None,
         AbsVersion' = AbsVersion
  PROVE  Store!Absent(c)
<1> DEFINE p == req[c].path
           f == Front(p)
<1>1. /\ pc[c] = "read" /\ Goto(c, "answered") /\ UNCHANGED <<file, req>>
      /\ ans' = [ans EXCEPT ![c] = [status |-> 404, tag |-> 0, val |-> NoFile]]
      /\ ans \in [Client -> AnswerType]
  BY DEF GetMeta, Answer, Status, None, disk, MutexInv, TypeInv, TypeOK
<1>2. /\ req[c].op \in {"get", "head"} /\ p \in Doc /\ f \in Folder /\ Last(p) \in Name
      /\ meta[f].ETag = None \/ Item(meta[f], p) = None
  BY <1>1, FolderOfDoc DEF ReadFrom, TagIn, MutexInv, TypeInv, ServesOK
<1>3. Item(meta[f], p) = 0
  <2>1. meta[f].ETag = None => meta[f] = EmptyMeta
    BY <1>2 DEF TagsOK
  <2> QED
    BY <1>2, <2>1 DEF Item, EmptyMeta, NoItems, None
<1>4. AbsReq[c] = req[c] /\ AbsVersion[p] = CommittedVersion(p)
  BY <1>1, <1>2, AbsValues
<1>5. Store!Done(c, "pending", 404, 0, NoFile)
  <2>1. pc[c] \in {"lock", "check", "open", "read", "content", "recheck"}
    BY <1>1
  <2> QED
    BY <1>1, <1>2, <2>1, EndsWith DEF MutexInv
<1>6. CommittedVersion(p) = 0 \/ Store!Unsettled(p)
  <2>1. CASE \A d \in Client : f \notin Rewriting(d)
    BY <1>3, <2>1 DEF CommittedVersion
  <2>2. ASSUME NEW d \in Client, f \in Rewriting(d)
        PROVE  Store!Unsettled(p)
    <3>1. pc[d] \in {"ownfill", "above"} /\ WriterOK(d)
      BY <2>2 DEF Rewriting, Writers, WriterOK
    <3>2. req[d].op \in {"put", "delete"} /\ req[d].path \in Doc
      BY <3>1, WriterPaths DEF MutexInv, Critical
    <3>3. f \in traversePath(req[d].path)
      BY <2>2, <3>1, <3>2, FolderOfDoc DEF Rewriting, WriterOK, AboveOK, Own
    <3>4. Store!IsStrictPrefix(Store!Front(p), req[d].path)
      BY <1>2, <3>2, <3>3, StrictPrefix, SamePrefix, SameFront
    <3>5. AbsPhase[d] = "done" /\ AbsReq[d] = req[d]
      BY <3>1, <3>2, AbsValues DEF AbsPhase, Phase
    <3> QED
      BY <3>2, <3>4, <3>5 DEF Store!Unsettled, Store!Writes
  <2> QED
    BY <2>1, <2>2
<1> QED
  BY <1>2, <1>4, <1>5, <1>6 DEF Store!Absent, Store!Reads, Store!Current

\* The steps of a reader that DocumentStore does not see.
LEMMA ReadsUnseen ==
  ASSUME MutexInv, NEW c \in Client, AbsVersion' = AbsVersion,
         \/ /\ GetMeta(c)
            /\ LET m == meta[ReadFrom(c)]
               IN  req[c].op = "list" \/ ~(m.ETag = None \/ TagIn(c, m) = None)
         \/ GetContent(c) \/ GetRetry(c)
         \/ GetAnswer(c) /\ req[c].op = "list"
         \/ GetGivesUp(c) /\ req[c].op = "list"
  PROVE  UNCHANGED Store!storeVars
<1>1. ans \in [Client -> AnswerType]
  BY DEF MutexInv, TypeInv, TypeOK
<1>2. /\ UNCHANGED <<file, req>> /\ \A d \in Client : d # c => ans'[d] = ans[d]
      /\ pc[c] \in {"read", "content", "recheck"}
      /\ \/ \E l \in {"read", "content", "recheck"} : Goto(c, l)
         \/ req[c].op = "list" /\ Goto(c, "answered")
  BY <1>1 DEF GetMeta, GetContent, GetRetry, GetAnswer, GetGivesUp, Answer, disk
<1>3. CASE \E l \in {"read", "content", "recheck"} : Goto(c, l)
  <2>1. PICK l \in {"read", "content", "recheck"} : Goto(c, l)
    BY <1>3
  <2>2. {pc[c], l} \subseteq {"lock", "check", "open", "read", "content", "recheck"}
    BY <1>2
  <2> QED
    BY <1>2, <2>1, <2>2, Unseen DEF MutexInv
<1>4. CASE req[c].op = "list" /\ Goto(c, "answered")
  BY <1>2, <1>4, Unseen DEF MutexInv
<1> QED
  BY <1>2, <1>3, <1>4

LEMMA InitRefines == Init => Store!StoreInit /\ CommitInv
<1> SUFFICES ASSUME Init
             PROVE  Store!StoreInit /\ CommitInv
  OBVIOUS
<1> USE DEF None
<1>1. \A p \in Doc : CommittedVersion(p) = 0
  <2> SUFFICES ASSUME NEW p \in Doc
               PROVE  CommittedVersion(p) = 0
    OBVIOUS
  <2>1. {c \in Client : Front(p) \in Rewriting(c)} = {}
    BY DEF Init, Rewriting
  <2>2. CommittedVersion(p) = Item(meta[Front(p)], p)
    BY <2>1 DEF CommittedVersion
  <2> QED
    BY <2>2, FolderOfDoc DEF Init, Item, EmptyMeta, NoItems
<1>2. \A c \in Client : pc[c] = "idle" /\ Phase(c) = "idle"
  BY DEF Init, Phase
<1>3. AbsVersion = [p \in Doc |-> 0]
  BY <1>1 DEF AbsVersion
<1>4. AbsPhase = [c \in Client |-> "idle"]
  BY <1>2 DEF AbsPhase
<1>5. AbsReq = [c \in Client |-> Store!NoRequest]
  BY <1>4 DEF AbsReq, NoRequest, Store!NoRequest
<1>6. AbsAns = [c \in Client |-> Store!NoAnswer]
  BY <1>4 DEF AbsAns, NoAnswer, Store!NoAnswer
<1>7. CommitInv
  BY <1>1, <1>2 DEF CommitInv, CommitOK, Init
<1>8. file = [p \in Doc |-> NoFile]
  BY DEF Init
<1> QED
  BY <1>3, <1>4, <1>5, <1>6, <1>7, <1>8 DEF Store!StoreInit

\* What is known of the tree, and what the next answers and commits rest on.
TreeInv == MutexInv /\ Writers /\ DirsOK /\ Parts /\ Lists
StoreInv == TreeInv /\ CommitInv /\ TagsOK /\ Readers

\* A step of a reader.
LEMMA ReadRefines ==
  ASSUME ~IOErrors, MutexInv, Writers, TagsOK, Readers, NEW c \in Client, AbsVersion' = AbsVersion,
         \/ GetMeta(c) \/ GetContent(c) \/ GetThrows(c)
         \/ GetAnswer(c) \/ GetRetry(c) \/ GetGivesUp(c)
  PROVE  Store!StoreNext \/ UNCHANGED Store!storeVars
<1>1. CASE GetMeta(c)
  <2>1. CASE LET m == meta[ReadFrom(c)]
             IN  req[c].op = "list" \/ ~(m.ETag = None \/ TagIn(c, m) = None)
    BY <1>1, <2>1, ReadsUnseen
  <2>2. CASE ~LET m == meta[ReadFrom(c)]
              IN  req[c].op = "list" \/ ~(m.ETag = None \/ TagIn(c, m) = None)
    BY <1>1, <2>2, RefineAbsent DEF Store!StoreNext
  <2> QED
    BY <2>1, <2>2
<1>2. CASE GetContent(c) \/ GetRetry(c)
  BY <1>2, ReadsUnseen
<1>3. CASE GetThrows(c)
  <2>1. req[c].op # "list"
    BY <1>3 DEF GetThrows, MutexInv, TypeInv, ServesOK
  <2> QED
    BY <1>3, <2>1, RefineFail DEF MutexInv, Store!StoreNext
<1>4. CASE GetGivesUp(c)
  <2>1. CASE req[c].op = "list"
    BY <1>4, <2>1, ReadsUnseen
  <2>2. CASE req[c].op # "list"
    BY <1>4, <2>2, RefineFail DEF MutexInv, Store!StoreNext
  <2> QED
    BY <2>1, <2>2
<1>5. CASE GetAnswer(c)
  <2>1. CASE req[c].op = "list"
    BY <1>5, <2>1, ReadsUnseen
  <2>2. CASE req[c].op # "list"
    BY <1>5, <2>2, RefineGet DEF Store!StoreNext
  <2> QED
    BY <2>1, <2>2
<1> QED
  BY <1>1, <1>2, <1>3, <1>4, <1>5

LEMMA StepRefines ==
  ASSUME Faultless, StoreInv, [Next]_vars
  PROVE  [Store!StoreNext]_Store!storeVars /\ CommitInv'
<1> USE DEF StoreInv, TreeInv, Faultless
<1>1. ~Crash
  BY BoundAssumption DEF Crash, MutexInv, TypeInv, TypeOK, CommitInv
<1>2. CASE UNCHANGED vars
  <2>1. /\ UNCHANGED <<file, meta, pc, req, buf, open, ans, now, crashes>>
        /\ \A c \in Client : Rewriting(c)' = Rewriting(c)
    BY <1>2 DEF vars, disk, bounds, Rewriting, Own
  <2>2. AbsVersion' = AbsVersion /\ \A p : CommittedVersion(p)' = CommittedVersion(p)
    <3>1. CASE Client = {}
      <4>1. \A p : /\ {c \in Client : Front(p) \in Rewriting(c)} = {}
                   /\ {c \in Client : Front(p) \in Rewriting(c)'} = {}
        BY <3>1
      <4>2. \A p : CommittedVersion(p)' = CommittedVersion(p)
        BY <2>1, <4>1 DEF CommittedVersion, Item
      <4> QED
        BY <4>2 DEF AbsVersion
    <3>2. CASE Client # {}
      BY <2>1, <3>2, SameVersions
    <3> QED
      BY <3>1, <3>2
  <2>3. \A c \in Client : Phase(c)' = Phase(c)
    BY <2>1 DEF Phase
  <2>4. \A c \in Client : CommitOK(c)'
    BY SMTT(30), <2>1, <2>2 DEF CommitInv, CommitOK, NamesTheVersion, Own, Item
  <2>5. AbsPhase' = AbsPhase
    BY <2>3 DEF AbsPhase
  <2>6. AbsReq' = AbsReq
    BY <2>1, <2>5 DEF AbsReq
  <2>7. AbsAns' = AbsAns
    BY <2>1, <2>5 DEF AbsAns
  <2>8. CommitInv'
    BY <2>1, <2>2, <2>4 DEF CommitInv
  <2> QED
    BY <2>1, <2>2, <2>5, <2>6, <2>7, <2>8 DEF Store!storeVars
<1>3. ASSUME NEW c \in Client, Request(c)
      PROVE  (Store!StoreNext \/ UNCHANGED Store!storeVars) /\ CommitInv'
  <2>1. Aside(c) /\ UNCHANGED crashes
    BY <1>3, AsideRequest DEF Request, RequestPut, RequestDelete, RequestGet, bounds
  <2>2. AbsVersion' = AbsVersion /\ CommitInv'
    BY <2>1, AsideCommits
  <2> QED
    BY <1>3, <2>2, RefineRequest DEF MutexInv, Store!StoreNext
<1>4. ASSUME NEW c \in Client, Step(c)
      PROVE  (Store!StoreNext \/ UNCHANGED Store!storeVars) /\ CommitInv'
  <2>1. WriterOK(c)
    BY DEF Writers
  <2>2. UNCHANGED crashes
    BY <1>4 DEF Step, Return, AcquireLock, StealLock, LockTimeout, PutRefused, PutMkdirThrows,
                PutStart, PutOpen, PutFill, PutFails, DeleteRefused, DeleteUnlink, DeleteFails,
                OpenOwn, FillOwn, Finish, OpenAbove, SkipAbove, FillAbove, AboveFails, GetMeta,
                GetContent, GetThrows, GetAnswer, GetRetry, GetGivesUp, bounds
  <2>3. CASE Return(c)
    <3>1. AbsVersion' = AbsVersion /\ CommitInv'
      BY <2>2, <2>3, AsideRequest, AsideCommits
    <3> QED
      BY <2>3, <3>1, RefineReturn DEF MutexInv, Store!StoreNext
  <2>4. CASE AcquireLock(c) \/ StealLock(c)
    <3>1. AbsVersion' = AbsVersion /\ CommitInv'
      BY <2>2, <2>4, AsideOther, AsideCommits
    <3>2. pc[c] = "lock" /\ Goto(c, "check") /\ UNCHANGED <<req, ans, file>>
      BY <2>4 DEF AcquireLock, StealLock, disk
    <3>3. {pc[c], "check"} \subseteq {"lock", "check", "open", "read", "content", "recheck"}
      BY <3>2
    <3> QED
      BY <3>1, <3>2, <3>3, Unseen DEF MutexInv
  <2>5. CASE LockTimeout(c) \/ PutMkdirThrows(c) \/ PutFails(c)
    <3>1. AbsVersion' = AbsVersion /\ CommitInv'
      BY <2>2, <2>5, AsideOther, AsideCommits
    <3>2. pc[c] \in {"lock", "check", "open"}
      BY <2>5 DEF LockTimeout, PutMkdirThrows, PutFails, Checks
    <3>3. req[c].op # "list"
      BY <3>2 DEF MutexInv, TypeInv, ServesOK, Critical
    <3> QED
      BY <2>5, <3>1, <3>3, RefineFail DEF MutexInv, Store!StoreNext
  <2>6. CASE PutRefused(c) \/ DeleteRefused(c)
    <3>1. AbsVersion' = AbsVersion /\ CommitInv'
      BY <2>2, <2>6, AsideOther, AsideCommits
    <3> QED
      BY <2>6, <3>1, RefineRefuse DEF Store!StoreNext
  <2>7. CASE PutStart(c) \/ PutOpen(c) \/ PutFill(c) \/ DeleteUnlink(c)
    <3>1. /\ AbsVersion' = AbsVersion /\ CommitInv'
          /\ UNCHANGED req /\ \A d \in Client : d # c => ans'[d] = ans[d]
      BY <2>7, BeforeCommits
    <3>2. CASE PutStart(c)
      <4>1. pc[c] = "check" /\ Goto(c, "open") /\ UNCHANGED file
        BY <3>2 DEF PutStart, Checks
      <4>2. {pc[c], "open"} \subseteq {"lock", "check", "open", "read", "content", "recheck"}
        BY <4>1
      <4> QED
        BY <3>1, <4>1, <4>2, Unseen DEF MutexInv
    <3> QED
      BY <2>7, <3>1, <3>2, RefineBegin, RefineWrite DEF Store!StoreNext
  <2>8. CASE OpenOwn(c)
    <3>1. CommitInv'
      BY <2>8, OwnCommits
    <3> QED
      BY <2>8, <3>1, RefineCommit DEF Store!StoreNext
  <2>9. CASE FillOwn(c) \/ Finish(c)
                \/ \E g \in Folder : OpenAbove(c, g) \/ SkipAbove(c, g) \/ FillAbove(c, g)
    <3>1. /\ AbsVersion' = AbsVersion /\ CommitInv'
          /\ pc[c] \in {"ownfill", "above"} /\ UNCHANGED <<req, ans>>
      BY <2>9, AfterCommits
    <3>2. /\ UNCHANGED file
          /\ \/ \E l \in {"above", "answered"} : Goto(c, l)
             \/ UNCHANGED pc /\ pc[c] = "above"
      BY <2>1, <2>9, <3>1 DEF FillOwn, Finish, UnlockAndAnswer, Answer, OpenAbove, SkipAbove,
                              FillAbove, WriterOK, disk
    <3>3. PICK l \in {"above", "answered"} : Goto(c, l) \/ (UNCHANGED pc /\ l = pc[c])
      BY <3>2
    <3>4. {pc[c], l} \subseteq {"ownfill", "above", "answered"}
      BY <3>1
    <3> QED
      BY <3>1, <3>2, <3>3, <3>4, Unseen DEF MutexInv
  <2>10. CASE \/ GetMeta(c) \/ GetContent(c) \/ GetThrows(c)
              \/ GetAnswer(c) \/ GetRetry(c) \/ GetGivesUp(c)
    <3>1. AbsVersion' = AbsVersion /\ CommitInv'
      BY <2>2, <2>10, AsideOther, AsideCommits
    <3> QED
      BY <2>10, <3>1, ReadRefines
  <2>11. ~DeleteFails(c) /\ \A g \in Folder : ~AboveFails(c, g)
    BY DeleteFinds DEF AboveFails
  <2> QED
    BY <1>4, <2>3, <2>4, <2>5, <2>6, <2>7, <2>8, <2>9, <2>10, <2>11 DEF Step
<1> QED
  BY <1>1, <1>2, <1>3, <1>4 DEF Next

\* Without crashes and I/O errors, and if no two stamps are equal, the file_tree
\* store implements DocumentStore: every PUT and DELETE, with its lock, its checks
\* and its several writes, takes effect at one instant between request and answer,
\* refused exactly for the reasons the promise gives, and every GET and HEAD that
\* reads beside them without the lock answers the version of one instant with the
\* content of that version, unless the document is being written.
THEOREM RefinementCorrect ==
  ASSUME Faultless
  PROVE  Spec => ImplementsStore
<1>1. Init => Store!StoreInit /\ CommitInv /\ TagsOK /\ Readers
  BY InitRefines, InitTags, InitReaders
<1>2. StoreInv /\ [Next]_vars => [Store!StoreNext]_Store!storeVars /\ CommitInv'
  BY StepRefines
<1>3. StoreInv /\ [Next]_vars => TagsOK' /\ Readers'
  BY StepTags, StepReaders DEF Faultless, StoreInv, TreeInv, MutexInv
<1>4. /\ MutexInv /\ IndexInv /\ (IOErrors \/ (Writers /\ DirsOK /\ ListInv))
      /\ CommitInv /\ TagsOK /\ Readers
      => StoreInv
  BY DEF Faultless, IndexInv, ListInv, CommitInv, TreeInv, StoreInv
<1> QED
  BY <1>1, <1>2, <1>3, <1>4, IndexInvariant, ListInvariant, PTL
     DEF Spec, ImplementsStore, Store!StoreSpec
=============================================================================
