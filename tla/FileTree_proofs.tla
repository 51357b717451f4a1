-------------------------- MODULE FileTree_proofs --------------------------
(***************************************************************************)
(* Theorems about FileTree for every set of clients, documents, contents   *)
(* and bounds, with crashes and I/O errors.                                *)
(***************************************************************************)
EXTENDS FileTree, TLAPS

\* The folders above a document are folders, its own folder among them.
LEMMA FolderOfDoc ==
  \A p \in Doc : /\ Front(p) \in Folder /\ Front(p) \in traversePath(p)
                 /\ traversePath(p) \subseteq Folder /\ Last(p) \in Name
<1> SUFFICES ASSUME NEW p \in Doc
             PROVE  /\ Front(p) \in traversePath(p)
                    /\ traversePath(p) \subseteq Folder /\ Last(p) \in Name
  OBVIOUS
<1>1. p \in Seq(Name) /\ Len(p) \in Nat /\ Len(p) > 0
  BY DocAssumption
<1>2. Front(p) \in Prefixes(p) /\ Front(p) # p
  <2>1. Len(p) - 1 \in 0..Len(p) /\ Len(SubSeq(p, 1, Len(p) - 1)) = Len(p) - 1
    BY <1>1
  <2> QED
    BY <1>1, <2>1 DEF Front, Prefixes
<1>3. traversePath(p) \subseteq Folder
  BY DEF Folder
<1>4. Last(p) \in Name
  BY <1>1 DEF Last
<1> QED
  BY <1>2, <1>3, <1>4 DEF traversePath

-----------------------------------------------------------------------------
(* Type correctness.  Its strengthening says what a handler at each place  *)
(* is serving.                                                             *)

\* What the handlers build from metadata, requests and answers has its type.
LEMMA MetaValues ==
  /\ EmptyMeta \in Meta
  /\ \A m \in Meta, e, t \in Nat :
       \A n : WithDoc(m, n, e, t) \in Meta /\ WithSub(m, n, e, t) \in Meta
  /\ \A m \in Meta : m.ETag \in Nat
  /\ \A m \in Meta, p \in Doc : Item(m, p) \in Nat
BY FolderOfDoc DEF Meta, EmptyMeta, NoItems, None, WithDoc, WithSub, Item

LEMMA OtherValues ==
  /\ None \in Nat
  /\ NoRequest \in RequestType
  /\ NoAnswer \in AnswerType
  /\ \A s \in Nat : Status(s) \in AnswerType
  /\ \A s, t \in Nat, v \in Content : [status |-> s, tag |-> t, val |-> v] \in AnswerType
  /\ \A a \in AnswerType, v \in Content : [a EXCEPT !.val = v] \in AnswerType
  /\ \A a \in AnswerType : a.status \in Nat /\ a.tag \in Nat
  /\ NoFile \in Content /\ Torn \in Content
BY DEF None, NoRequest, RequestType, NoAnswer, AnswerType, Status, Content

LEMMA RequestValues ==
  /\ NoRequest.op = "none"
  /\ \A r \in RequestType : /\ r.op \in Operations \cup {"none"}
                            /\ r.version \in Nat \cup {Star}
                            /\ r.val \in Value \cup {NoFile} /\ r.val \in Content
BY DEF NoRequest, RequestType, Content

\* A writer serves a PUT or DELETE of a document; a reader a GET or HEAD of a
\* document or a GET of a folder.
ServesOK ==
  \A c \in Client :
    /\ req[c].op \in {"put", "delete", "get", "head"} => req[c].path \in Doc
    /\ req[c].op = "list" => req[c].path \in Folder
    /\ pc[c] \in Critical \cup {"lock", "detached"} => req[c].op \in {"put", "delete"}
    /\ pc[c] \in {"read", "recheck"} => req[c].op \in {"get", "head", "list"}
    /\ pc[c] = "content" => req[c].op = "get"

TypeInv == TypeOK /\ ServesOK

LEMMA InitType == Init => TypeInv
<1> SUFFICES ASSUME Init
             PROVE  TypeInv
  OBVIOUS
<1> USE DEF Init
<1>1. /\ locked \in BOOLEAN /\ dirs \subseteq Folder
      /\ file \in [Doc -> Content] /\ meta \in [Folder -> Meta]
      /\ now \in Nat /\ writes \in Nat /\ crashes \in Nat
  BY MetaValues, OtherValues
<1>2. /\ pc \in [Client -> Label] /\ req \in [Client -> RequestType]
      /\ buf \in [Client -> [Folder -> Meta]]
  BY MetaValues, OtherValues DEF Label
<1>3. /\ todo \in [Client -> SUBSET Folder] /\ open \in [Client -> SUBSET Folder]
      /\ ans \in [Client -> AnswerType] /\ tries \in [Client -> Nat]
  BY OtherValues
<1>4. ServesOK
  BY RequestValues DEF ServesOK, Critical
<1> QED
  BY <1>1, <1>2, <1>3, <1>4 DEF TypeInv, TypeOK

\* A step that moves one handler, to a place its request allows, keeps ServesOK.
LEMMA MoveServes ==
  ASSUME TypeInv, NEW c \in Client, NEW l, Goto(c, l), UNCHANGED req,
         l \in Critical \cup {"lock", "detached"} => req[c].op \in {"put", "delete"},
         l \in {"read", "recheck"} => req[c].op \in {"get", "head", "list"},
         l = "content" => req[c].op = "get"
  PROVE  ServesOK'
BY DEF TypeInv, TypeOK, ServesOK, Goto

\* An answer ends a handler's work and keeps the types.
LEMMA AnswerKeepsType ==
  ASSUME TypeInv, NEW c \in Client, NEW a \in AnswerType, Answer(c, a),
         locked' \in BOOLEAN,
         UNCHANGED <<dirs, file, meta, now, req, buf, tries, bounds>>,
         todo' \in [Client -> SUBSET Folder], open' \in [Client -> SUBSET Folder]
  PROVE  TypeInv'
<1>1. Goto(c, "answered")
  BY DEF Answer
<1>2. ServesOK'
  BY <1>1, MoveServes DEF Critical
<1>3. pc' \in [Client -> Label]
  BY <1>1 DEF Goto, Label, TypeInv, TypeOK
<1>4. ans' \in [Client -> AnswerType]
  BY DEF Answer, TypeInv, TypeOK
<1> QED
  BY <1>2, <1>3, <1>4 DEF TypeInv, TypeOK, bounds

\* Accepting a well-formed request keeps the types.
LEMMA AcceptKeepsType ==
  ASSUME TypeInv, NEW c \in Client, NEW r \in RequestType, NEW l \in {"lock", "read"},
         Accept(c, r, l), writes' \in Nat,
         r.op \in {"put", "delete", "get", "head"} => r.path \in Doc,
         r.op = "list" => r.path \in Folder,
         l = "lock" => r.op \in {"put", "delete"},
         l = "read" => r.op \in {"get", "head", "list"},
         UNCHANGED <<disk, now, buf, todo, open, ans, tries, crashes>>
  PROVE  TypeInv'
<1>1. req' = [req EXCEPT ![c] = r] /\ pc' = [pc EXCEPT ![c] = l]
  BY DEF Accept, Goto
<1>2. pc' \in [Client -> Label] /\ req' \in [Client -> RequestType]
  BY <1>1 DEF Label, TypeInv, TypeOK
<1>3. ServesOK'
  BY <1>1 DEF TypeInv, TypeOK, ServesOK, Critical
<1> QED
  BY <1>2, <1>3 DEF TypeInv, TypeOK, disk

LEMMA RequestKeepsType ==
  ASSUME TypeInv, NEW c \in Client, Request(c)
  PROVE  TypeInv'
<1> USE OperationsAssumption, StarAssumption
<1>0. Versions \subseteq Nat \cup {Star}
  BY DEF Versions, None, TypeInv, TypeOK
<1>1. CASE RequestPut(c)
  <2>1. PICK p \in Doc, v \in Value, ver \in Versions :
          Accept(c, [op |-> "put", path |-> p, val |-> v, version |-> ver], "lock")
    BY <1>1 DEF RequestPut
  <2>2. [op |-> "put", path |-> p, val |-> v, version |-> ver] \in RequestType
    BY <1>0, <2>1 DEF RequestType, Accept
  <2>3. writes' \in Nat /\ UNCHANGED <<disk, now, buf, todo, open, ans, tries, crashes>>
    BY <1>1 DEF RequestPut, TypeInv, TypeOK
  <2> QED
    BY <2>1, <2>2, <2>3, AcceptKeepsType
<1>2. CASE RequestDelete(c)
  <2>1. PICK p \in Doc, ver \in Versions :
          Accept(c, [op |-> "delete", path |-> p, val |-> NoFile, version |-> ver], "lock")
    BY <1>2 DEF RequestDelete
  <2>2. [op |-> "delete", path |-> p, val |-> NoFile, version |-> ver] \in RequestType
    BY <1>0, <2>1 DEF RequestType, Accept
  <2>3. writes' \in Nat /\ UNCHANGED <<disk, now, buf, todo, open, ans, tries, crashes>>
    BY <1>2 DEF RequestDelete, TypeInv, TypeOK
  <2> QED
    BY <2>1, <2>2, <2>3, AcceptKeepsType
<1>3. CASE RequestGet(c)
  <2>1. PICK op \in {"get", "head", "list"}, p \in Doc \cup Folder, ver \in Versions \ {Star} :
          /\ p \in IF op = "list" THEN Folder ELSE Doc
          /\ Accept(c, [op |-> op, path |-> p, val |-> NoFile, version |-> ver], "read")
    BY <1>3 DEF RequestGet
  <2>2. [op |-> op, path |-> p, val |-> NoFile, version |-> ver] \in RequestType
    BY <1>0, <2>1 DEF RequestType, Accept
  <2> QED
    BY <1>3, <2>1, <2>2, AcceptKeepsType DEF RequestGet, TypeInv, TypeOK, bounds
<1> QED
  BY <1>1, <1>2, <1>3 DEF Request

\* The conjuncts of TypeOK about what a handler writes.
WrittenOK ==
  /\ locked \in BOOLEAN /\ dirs \subseteq Folder
  /\ file \in [Doc -> Content] /\ meta \in [Folder -> Meta] /\ now \in Nat
  /\ buf \in [Client -> [Folder -> Meta]] /\ ans \in [Client -> AnswerType]
  /\ todo \in [Client -> SUBSET Folder] /\ open \in [Client -> SUBSET Folder]
  /\ tries \in [Client -> Nat]

\* A handler that moves to another place, writing only well-typed values,
\* keeps the types.
LEMMA MoveKeepsType ==
  ASSUME TypeInv, NEW c \in Client, NEW l \in Label, Goto(c, l), UNCHANGED req,
         WrittenOK', UNCHANGED bounds,
         l \in Critical \cup {"detached"} => req[c].op \in {"put", "delete"}, l # "lock",
         l \in {"read", "recheck"} => req[c].op \in {"get", "head", "list"},
         l = "content" => req[c].op = "get"
  PROVE  TypeInv'
<1>1. ServesOK'
  BY MoveServes DEF Critical
<1>2. pc' \in [Client -> Label]
  BY DEF Goto, TypeInv, TypeOK
<1> QED
  BY <1>1, <1>2 DEF TypeInv, TypeOK, WrittenOK, bounds

LEMMA StayKeepsType ==
  ASSUME TypeInv, WrittenOK', UNCHANGED <<pc, req, bounds>>
  PROVE  TypeInv'
BY DEF TypeInv, TypeOK, ServesOK, WrittenOK, bounds

LEMMA LockKeepsType ==
  ASSUME TypeInv, NEW c \in Client, AcquireLock(c) \/ StealLock(c) \/ LockTimeout(c)
  PROVE  TypeInv'
<1>1. CASE AcquireLock(c) \/ StealLock(c)
  <2>1. WrittenOK' /\ Goto(c, "check") /\ UNCHANGED <<req, bounds>>
    BY <1>1 DEF AcquireLock, StealLock, disk, WrittenOK, TypeInv, TypeOK
  <2>2. req[c].op \in {"put", "delete"}
    BY <1>1 DEF AcquireLock, StealLock, TypeInv, ServesOK
  <2> QED
    BY <2>1, <2>2, MoveKeepsType DEF Critical, Label
<1>2. CASE LockTimeout(c)
  <2>1. Status(500) \in AnswerType
    BY OtherValues
  <2> QED
    BY <1>2, <2>1, AnswerKeepsType DEF LockTimeout, disk, TypeInv, TypeOK
<1> QED
  BY <1>1, <1>2

\* The document and the folder of a writer that is past the lock.
LEMMA WriterPaths ==
  ASSUME TypeInv, NEW c \in Client, pc[c] \in Critical \cup {"detached"}
  PROVE  /\ req[c] \in RequestType
         /\ req[c].op \in {"put", "delete"}
         /\ req[c].path \in Doc
         /\ Own(c) \in Folder
         /\ Last(req[c].path) \in Name
         /\ meta[Own(c)] \in Meta
         /\ buf[c][Own(c)] \in Meta
BY FolderOfDoc DEF TypeInv, TypeOK, ServesOK, Own

LEMMA PutKeepsType ==
  ASSUME TypeInv, NEW c \in Client,
         \/ PutRefused(c) \/ PutMkdirThrows(c) \/ PutStart(c)
         \/ PutOpen(c) \/ PutFill(c) \/ PutFails(c)
  PROVE  TypeInv'
<1>0. pc[c] \in Critical
  BY DEF PutRefused, PutMkdirThrows, PutStart, PutOpen, PutFill, PutAnswer, PutFails, Checks, Critical
<1>1. CASE PutRefused(c)
  <2>1. PICK s \in Nat : UnlockAndAnswer(c, Status(s))
    BY <1>1 DEF PutRefused
  <2> QED
    BY <1>1, <2>1, OtherValues, AnswerKeepsType
    DEF PutRefused, UnlockAndAnswer, bounds, TypeInv, TypeOK
<1>2. CASE PutMkdirThrows(c)
  <2>1. Answer(c, Status(500)) /\ UNCHANGED <<locked, dirs, file, meta, now, req, buf, todo, open, tries, bounds>>
    BY <1>2 DEF PutMkdirThrows, disk
  <2>2. Status(500) \in AnswerType
    BY OtherValues
  <2> QED
    BY <2>1, <2>2, AnswerKeepsType DEF TypeInv, TypeOK
<1>3. CASE PutStart(c)
  <2>1. dirs' \subseteq Folder
    BY <1>0, <1>3, WriterPaths, FolderOfDoc DEF PutStart, TypeInv, TypeOK
  <2>2. buf' \in [Client -> [Folder -> Meta]]
    BY <1>0, <1>3, WriterPaths DEF PutStart, TypeInv, TypeOK
  <2>3. WrittenOK' /\ UNCHANGED <<req, bounds>> /\ Goto(c, "open")
    BY <1>3, <2>1, <2>2 DEF PutStart, WrittenOK, TypeInv, TypeOK
  <2> QED
    BY <1>0, <2>3, WriterPaths, MoveKeepsType DEF Critical, Label
<1>4. CASE PutOpen(c)
  <2>1. WrittenOK' /\ UNCHANGED <<req, bounds>> /\ Goto(c, "fill")
    BY <1>4, OtherValues DEF PutOpen, WrittenOK, TypeInv, TypeOK
  <2> QED
    BY <1>0, <2>1, WriterPaths, MoveKeepsType DEF Critical, Label
<1>5. CASE PutFill(c)
  <2>1. now' \in Nat
    BY <1>5, ClockAssumption DEF PutFill, PutAnswer, Stamp, TypeInv, TypeOK
  <2>2. file' \in [Doc -> Content]
    BY <1>0, <1>5, WriterPaths, RequestValues DEF PutFill, PutAnswer, TypeInv, TypeOK
  <2>3. WithDoc(buf[c][Own(c)], Last(req[c].path), now', now') \in Meta
    BY <1>0, <2>1, WriterPaths, MetaValues
  <2>4. buf' \in [Client -> [Folder -> Meta]]
    BY <1>5, <2>3 DEF PutFill, PutAnswer, TypeInv, TypeOK
  <2>5. PICK s \in Nat : ans' = [ans EXCEPT ![c] = [status |-> s, tag |-> now', val |-> NoFile]]
    BY ZenonT(60), <1>5 DEF PutFill, PutAnswer
  <2>6. ans' \in [Client -> AnswerType]
    BY <2>1, <2>5, OtherValues DEF TypeInv, TypeOK
  <2>7. WrittenOK' /\ UNCHANGED <<req, bounds>> /\ Goto(c, "own")
    BY <1>5, <2>1, <2>2, <2>4, <2>6 DEF PutFill, PutAnswer, WrittenOK, TypeInv, TypeOK
  <2> QED
    BY <1>0, <2>7, WriterPaths, MoveKeepsType DEF Critical, Label
<1>6. CASE PutFails(c)
  <2>1. UnlockAndAnswer(c, Status(200)) /\ UNCHANGED <<dirs, file, meta, now, req, buf, todo, open, tries, bounds>>
    BY <1>6 DEF PutFails
  <2> QED
    BY ZenonT(60), <2>1, OtherValues, AnswerKeepsType DEF UnlockAndAnswer, TypeInv, TypeOK
<1> QED
  BY <1>1, <1>2, <1>3, <1>4, <1>5, <1>6

LEMMA DeleteKeepsType ==
  ASSUME TypeInv, NEW c \in Client, DeleteRefused(c) \/ DeleteUnlink(c) \/ DeleteFails(c)
  PROVE  TypeInv'
<1>1. CASE DeleteRefused(c)
  <2>1. PICK s \in Nat : UnlockAndAnswer(c, Status(s))
    BY <1>1 DEF DeleteRefused
  <2>2. UNCHANGED <<dirs, file, meta, now, req, buf, todo, open, tries, bounds>>
    BY <1>1 DEF DeleteRefused
  <2> QED
    BY <2>1, <2>2, OtherValues, AnswerKeepsType DEF UnlockAndAnswer, TypeInv, TypeOK
<1>2. CASE DeleteUnlink(c)
  <2>0. pc[c] \in Critical
    BY <1>2 DEF DeleteUnlink, DeleteAllowed, Checks, Critical
  <2>1. now' \in Nat
    BY <1>2, ClockAssumption DEF DeleteUnlink, Stamp, TypeInv, TypeOK
  <2>2. file' \in [Doc -> Content]
    BY <1>2, OtherValues DEF DeleteUnlink, TypeInv, TypeOK
  <2>3. /\ WithDoc(meta[Own(c)], Last(req[c].path), None, now') \in Meta
        /\ Item(meta[Own(c)], req[c].path) \in Nat
    BY <2>0, <2>1, WriterPaths, MetaValues, OtherValues
  <2>4. buf' \in [Client -> [Folder -> Meta]]
    BY <1>2, <2>3 DEF DeleteUnlink, TypeInv, TypeOK
  <2>5. ans' = [ans EXCEPT ![c] = [status |-> 200, tag |-> Item(meta[Own(c)], req[c].path), val |-> NoFile]]
    BY <1>2 DEF DeleteUnlink
  <2>6. ans' \in [Client -> AnswerType]
    BY ZenonT(60), <2>3, <2>5, OtherValues DEF TypeInv, TypeOK
  <2>7. WrittenOK' /\ UNCHANGED <<req, bounds>> /\ Goto(c, "own")
    BY <1>2, <2>1, <2>2, <2>4, <2>6 DEF DeleteUnlink, WrittenOK, TypeInv, TypeOK
  <2> QED
    BY <2>0, <2>7, WriterPaths, MoveKeepsType DEF Critical, Label
<1>3. CASE DeleteFails(c)
  <2>1. /\ UnlockAndAnswer(c, Status(404))
        /\ UNCHANGED <<dirs, file, meta, now, req, buf, tries, bounds>>
        /\ todo' = [todo EXCEPT ![c] = {}] /\ open' = [open EXCEPT ![c] = {}]
    BY <1>3 DEF DeleteFails
  <2>2. Status(404) \in AnswerType
    BY OtherValues
  <2> QED
    BY <2>1, <2>2, AnswerKeepsType DEF UnlockAndAnswer, TypeInv, TypeOK
<1> QED
  BY <1>1, <1>2, <1>3

LEMMA OwnKeepsType ==
  ASSUME TypeInv, NEW c \in Client, OpenOwn(c) \/ FillOwn(c) \/ Finish(c)
  PROVE  TypeInv'
<1>0. pc[c] \in Critical
  BY DEF OpenOwn, FillOwn, Finish, Critical
<1>1. CASE OpenOwn(c)
  <2>1. WrittenOK' /\ UNCHANGED <<req, bounds>> /\ Goto(c, "ownfill")
    BY <1>1, MetaValues DEF OpenOwn, WrittenOK, TypeInv, TypeOK
  <2> QED
    BY <1>0, <2>1, WriterPaths, MoveKeepsType DEF Critical, Label
<1>2. CASE FillOwn(c)
  <2>1. meta' \in [Folder -> Meta]
    BY <1>0, <1>2, WriterPaths DEF FillOwn, TypeInv, TypeOK
  <2>2. todo' \in [Client -> SUBSET Folder]
    BY <1>0, <1>2, WriterPaths, FolderOfDoc DEF FillOwn, TypeInv, TypeOK
  <2>3. WrittenOK' /\ UNCHANGED <<req, bounds>> /\ Goto(c, "above")
    BY <1>2, <2>1, <2>2 DEF FillOwn, WrittenOK, TypeInv, TypeOK
  <2> QED
    BY <1>0, <2>3, WriterPaths, MoveKeepsType DEF Critical, Label
<1>3. CASE Finish(c)
  <2>1. UnlockAndAnswer(c, ans[c]) /\ UNCHANGED <<dirs, file, meta, now, req, buf, todo, open, tries, bounds>>
    BY <1>3 DEF Finish
  <2> QED
    BY <2>1, AnswerKeepsType DEF UnlockAndAnswer, TypeInv, TypeOK
<1> QED
  BY <1>1, <1>2, <1>3

LEMMA AboveKeepsType ==
  ASSUME TypeInv, NEW c \in Client, NEW g \in Folder,
         OpenAbove(c, g) \/ SkipAbove(c, g) \/ FillAbove(c, g) \/ AboveFails(c, g)
  PROVE  TypeInv'
<1>1. CASE OpenAbove(c, g)
  <2>1. UNCHANGED <<locked, dirs, file, now, pc, req, ans, tries, bounds>>
    BY <1>1 DEF OpenAbove
  <2>2. meta' \in [Folder -> Meta]
    BY <1>1, MetaValues DEF OpenAbove, TypeInv, TypeOK
  <2>3. todo' \in [Client -> SUBSET Folder] /\ open' \in [Client -> SUBSET Folder]
    BY <1>1 DEF OpenAbove, TypeInv, TypeOK
  <2>4. PICK n, e, t : /\ buf' = [buf EXCEPT ![c][g] = WithSub(meta[g], n, e, t)]
                       /\ e \in {t, None} /\ t = buf[c][Own(c)].ETag
    BY <1>1 DEF OpenAbove
  <2>5. t \in Nat
    <3>1. pc[c] \in Critical \cup {"detached"}
      BY <1>1 DEF OpenAbove, Critical
    <3> QED
      BY <2>4, <3>1, WriterPaths, MetaValues
  <2>6. buf' \in [Client -> [Folder -> Meta]]
    BY <2>4, <2>5, MetaValues, OtherValues DEF TypeInv, TypeOK
  <2> QED
    BY <2>1, <2>2, <2>3, <2>6, StayKeepsType DEF WrittenOK, TypeInv, TypeOK
<1>2. CASE SkipAbove(c, g)
  <2>1. UNCHANGED <<locked, dirs, file, meta, now, pc, req, open, ans, tries, bounds>>
    BY <1>2 DEF SkipAbove, disk
  <2>2. buf' \in [Client -> [Folder -> Meta]] /\ todo' \in [Client -> SUBSET Folder]
    BY <1>2 DEF SkipAbove, TypeInv, TypeOK
  <2> QED
    BY <2>1, <2>2, StayKeepsType DEF WrittenOK, TypeInv, TypeOK
<1>3. CASE FillAbove(c, g)
  <2>1. UNCHANGED <<locked, dirs, file, now, req, buf, todo, ans, tries, bounds>>
    BY <1>3 DEF FillAbove
  <2>2. meta' \in [Folder -> Meta] /\ open' \in [Client -> SUBSET Folder]
    BY <1>3 DEF FillAbove, TypeInv, TypeOK
  <2>3. WrittenOK'
    BY <2>1, <2>2 DEF WrittenOK, TypeInv, TypeOK
  <2>4. CASE UNCHANGED pc
    BY <2>1, <2>3, <2>4, StayKeepsType
  <2>5. CASE pc[c] = "detached" /\ (Goto(c, "answered") \/ Goto(c, "detached"))
    <3>1. req[c].op \in {"put", "delete"}
      BY <2>5 DEF TypeInv, ServesOK
    <3> QED
      BY <2>1, <2>3, <2>5, <3>1, MoveKeepsType DEF Critical, Label
  <2> QED
    BY <1>3, <2>4, <2>5 DEF FillAbove, Settle
<1>4. CASE AboveFails(c, g)
  <2>1. UNCHANGED <<dirs, file, meta, now, req, buf, tries, bounds>>
    BY <1>4 DEF AboveFails
  <2>2. /\ todo' \in [Client -> SUBSET Folder] /\ open' \in [Client -> SUBSET Folder]
        /\ locked' \in BOOLEAN /\ ans' \in [Client -> AnswerType]
    <3>1. ans' = ans \/ ans' = [ans EXCEPT ![c] = Status(200)]
      BY <1>4 DEF AboveFails
    <3>2. Status(200) \in AnswerType
      BY OtherValues
    <3>3. ans' \in [Client -> AnswerType]
      BY <3>1, <3>2 DEF TypeInv, TypeOK
    <3>4. todo' \in [Client -> SUBSET Folder] /\ open' \in [Client -> SUBSET Folder]
      BY <1>4 DEF AboveFails, TypeInv, TypeOK
    <3> QED
      BY <1>4, <3>3, <3>4 DEF AboveFails, TypeInv, TypeOK
  <2>3. Goto(c, "answered") \/ Goto(c, "detached")
    BY <1>4 DEF AboveFails, Settle
  <2>4. WrittenOK'
    BY <2>1, <2>2 DEF WrittenOK, TypeInv, TypeOK
  <2>5. req[c].op = "put"
    BY <1>4 DEF AboveFails
  <2> QED
    BY <2>1, <2>3, <2>4, <2>5, MoveKeepsType DEF Critical, Label
<1> QED
  BY <1>1, <1>2, <1>3, <1>4

LEMMA GetKeepsType ==
  ASSUME TypeInv, NEW c \in Client,
         \/ GetMeta(c) \/ GetContent(c) \/ GetThrows(c)
         \/ GetAnswer(c) \/ GetRetry(c) \/ GetGivesUp(c)
  PROVE  TypeInv'
<1>1. CASE GetMeta(c)
  <2>1. req[c].op \in {"get", "head", "list"} /\ ReadFrom(c) \in Folder
    BY <1>1, FolderOfDoc DEF GetMeta, ReadFrom, TypeInv, ServesOK
  <2>2. {TagIn(c, meta[ReadFrom(c)]), meta[ReadFrom(c)].ETag} \subseteq Nat
    <3>1. meta[ReadFrom(c)] \in Meta
      BY <2>1 DEF TypeInv, TypeOK
    <3>2. req[c].op # "list" => req[c].path \in Doc
      BY <2>1 DEF TypeInv, ServesOK
    <3> QED
      BY <3>1, <3>2, MetaValues DEF TagIn
  <2>3. UNCHANGED <<locked, dirs, file, meta, now, req, todo, open, tries, bounds>>
    BY <1>1 DEF GetMeta, disk
  <2>4. buf' \in [Client -> [Folder -> Meta]]
    BY <1>1, <2>1 DEF GetMeta, TypeInv, TypeOK
  <2>5. CASE Answer(c, Status(404))
    <3>0. Status(404) \in AnswerType
      BY OtherValues
    <3>1. ans' \in [Client -> AnswerType] /\ Goto(c, "answered")
      BY <2>5, <3>0 DEF Answer, TypeInv, TypeOK
    <3>2. WrittenOK'
      BY <2>3, <2>4, <3>1 DEF WrittenOK, TypeInv, TypeOK
    <3> QED
      BY <2>3, <3>1, <3>2, MoveKeepsType DEF Critical, Label
  <2>6. ASSUME NEW s \in Nat, NEW t \in {TagIn(c, meta[ReadFrom(c)]), meta[ReadFrom(c)].ETag},
               NEW l \in {"recheck", "content"}, Goto(c, l),
               ans' = [ans EXCEPT ![c] = [status |-> s, tag |-> t, val |-> NoFile]],
               l = "content" => req[c].op = "get"
        PROVE  TypeInv'
    <3>1. ans' \in [Client -> AnswerType]
      BY <2>2, <2>6, OtherValues DEF TypeInv, TypeOK
    <3>2. WrittenOK'
      BY <2>3, <2>4, <3>1 DEF WrittenOK, TypeInv, TypeOK
    <3> QED
      BY <2>1, <2>3, <2>6, <3>2, MoveKeepsType DEF Critical, Label
  <2> QED
    BY <1>1, <2>1, <2>5, <2>6 DEF GetMeta
<1>2. CASE GetContent(c)
  <2>1. req[c].op = "get" /\ req[c].path \in Doc
    BY <1>2 DEF GetContent, TypeInv, ServesOK
  <2>2. ans' = [ans EXCEPT ![c] = [ans[c] EXCEPT !.val = file[req[c].path]]]
    BY <1>2 DEF GetContent
  <2>3. ans' \in [Client -> AnswerType]
    BY <2>1, <2>2, OtherValues DEF TypeInv, TypeOK
  <2>4. WrittenOK' /\ UNCHANGED <<req, bounds>> /\ Goto(c, "recheck")
    BY <1>2, <2>3 DEF GetContent, WrittenOK, disk, TypeInv, TypeOK
  <2> QED
    BY <2>1, <2>4, MoveKeepsType DEF Critical, Label
<1>3. CASE GetThrows(c) \/ GetGivesUp(c)
  <2>1. Answer(c, Status(500)) /\ UNCHANGED <<locked, dirs, file, meta, now, req, buf, todo, open, tries, bounds>>
    BY <1>3 DEF GetThrows, GetGivesUp, disk
  <2>2. Status(500) \in AnswerType
    BY OtherValues
  <2> QED
    BY <2>1, <2>2, AnswerKeepsType DEF TypeInv, TypeOK
<1>4. CASE GetAnswer(c)
  <2>1. Answer(c, ans[c]) /\ UNCHANGED <<locked, dirs, file, meta, now, req, buf, todo, open, tries, bounds>>
    BY <1>4 DEF GetAnswer, disk
  <2> QED
    BY <2>1, AnswerKeepsType DEF TypeInv, TypeOK
<1>5. CASE GetRetry(c)
  <2>1. WrittenOK' /\ UNCHANGED <<req, bounds>> /\ Goto(c, "read")
    BY <1>5 DEF GetRetry, WrittenOK, disk, TypeInv, TypeOK
  <2>2. req[c].op \in {"get", "head", "list"}
    BY <1>5 DEF GetRetry, TypeInv, ServesOK
  <2> QED
    BY <2>1, <2>2, MoveKeepsType DEF Critical, Label
<1> QED
  BY <1>1, <1>2, <1>3, <1>4, <1>5

LEMMA EndKeepsType ==
  ASSUME TypeInv, (\E c \in Client : Return(c)) \/ Crash \/ UNCHANGED vars
  PROVE  TypeInv'
<1>1. ASSUME NEW c \in Client, Return(c)
      PROVE  TypeInv'
  <2>1. WrittenOK' /\ UNCHANGED bounds
    BY <1>1, MetaValues, OtherValues DEF Return, WrittenOK, disk, TypeInv, TypeOK
  <2>2. pc' \in [Client -> Label] /\ req' \in [Client -> RequestType]
    BY <1>1, OtherValues DEF Return, Goto, Label, TypeInv, TypeOK
  <2>3. ServesOK'
    BY <1>1, RequestValues DEF Return, Goto, Critical, TypeInv, TypeOK, ServesOK
  <2> QED
    BY <2>1, <2>2, <2>3 DEF WrittenOK, bounds, TypeInv, TypeOK
<1>2. CASE Crash
  <2>1. WrittenOK'
    BY <1>2, MetaValues, OtherValues DEF Crash, WrittenOK, TypeInv, TypeOK
  <2>2. pc' \in [Client -> Label] /\ req' \in [Client -> RequestType]
    BY <1>2, OtherValues DEF Crash, Label
  <2>3. ServesOK'
    BY <1>2, RequestValues DEF Crash, Critical, ServesOK
  <2>4. writes' \in Nat /\ crashes' \in Nat
    BY <1>2 DEF Crash, TypeInv, TypeOK
  <2> QED
    BY <2>1, <2>2, <2>3, <2>4 DEF WrittenOK, TypeInv, TypeOK
<1>3. CASE UNCHANGED vars
  BY <1>3, StayKeepsType DEF vars, disk, WrittenOK, TypeInv, TypeOK
<1> QED
  BY <1>1, <1>2, <1>3

LEMMA StepType == TypeInv /\ [Next]_vars => TypeInv'
BY RequestKeepsType, LockKeepsType, PutKeepsType, DeleteKeepsType, OwnKeepsType,
   AboveKeepsType, GetKeepsType, EndKeepsType
DEF Next, Step

\* Every variable keeps its type, whatever the clients request, crash or fail.
THEOREM TypeCorrect == Spec => []TypeOK
<1>1. TypeInv => TypeOK
  BY DEF TypeInv
<1> QED
  BY <1>1, InitType, StepType, PTL DEF Spec

-----------------------------------------------------------------------------
(* Mutual exclusion.  By itself it is not inductive: AcquireLock looks at  *)
(* the lock file only, so a writer must also imply the lock file.          *)

WriterHoldsLock == \A c \in Client : pc[c] \in Critical => locked

MutexInv == TypeInv /\ MutualExclusion /\ WriterHoldsLock

\* A handler that does not enter the critical section, and frees the lock only
\* when it leaves it, keeps both parts.
LEMMA MoveKeepsMutex ==
  ASSUME MutexInv, NEW c \in Client, NEW l, Goto(c, l),
         l \in Critical => pc[c] \in Critical,
         \/ UNCHANGED locked
         \/ pc[c] \in Critical /\ l \notin Critical
  PROVE  MutualExclusion' /\ WriterHoldsLock'
BY DEF MutexInv, MutualExclusion, WriterHoldsLock, Goto, TypeInv, TypeOK

LEMMA StepMutex == MutexInv /\ [Next]_vars => MutexInv'
<1> SUFFICES ASSUME MutexInv, [Next]_vars
             PROVE  MutualExclusion' /\ WriterHoldsLock'
  BY StepType DEF MutexInv
<1> USE DEF Critical
<1>1. ASSUME NEW c \in Client, Request(c) \/ Return(c) \/ LockTimeout(c)
      PROVE  MutualExclusion' /\ WriterHoldsLock'
  <2>1. UNCHANGED locked /\ (Goto(c, "lock") \/ Goto(c, "read") \/ Goto(c, "idle") \/ Goto(c, "answered"))
    BY <1>1 DEF Request, RequestPut, RequestDelete, RequestGet, Accept, Return, LockTimeout, Answer, disk
  <2> QED
    BY <2>1, MoveKeepsMutex
<1>2. ASSUME NEW c \in Client, AcquireLock(c) \/ StealLock(c)
      PROVE  MutualExclusion' /\ WriterHoldsLock'
  <2>1. \A d \in Client : pc[d] \notin Critical
    BY <1>2 DEF AcquireLock, StealLock, LockIsStale, MutexInv, WriterHoldsLock
  <2>2. locked' /\ Goto(c, "check")
    BY <1>2 DEF AcquireLock, StealLock, LockIsStale, disk
  <2> QED
    BY <2>1, <2>2 DEF Goto, MutexInv, MutualExclusion, WriterHoldsLock, TypeInv, TypeOK
<1>3. ASSUME NEW c \in Client,
             \/ PutRefused(c) \/ PutMkdirThrows(c) \/ PutFails(c)
             \/ DeleteRefused(c) \/ DeleteFails(c) \/ Finish(c)
      PROVE  MutualExclusion' /\ WriterHoldsLock'
  <2>1. pc[c] \in Critical /\ Goto(c, "answered")
    BY <1>3 DEF PutRefused, PutMkdirThrows, PutFails, DeleteRefused, DeleteFails, DeleteAllowed,
                Finish, UnlockAndAnswer, Answer, Checks
  <2> QED
    BY <2>1, MoveKeepsMutex
<1>4. ASSUME NEW c \in Client,
             \/ PutStart(c) \/ PutOpen(c) \/ PutFill(c) \/ DeleteUnlink(c)
             \/ OpenOwn(c) \/ FillOwn(c)
      PROVE  MutualExclusion' /\ WriterHoldsLock'
  <2>1. PICK l \in Critical : Goto(c, l)
    BY <1>4 DEF PutStart, PutOpen, PutFill, PutAnswer, DeleteUnlink, OpenOwn, FillOwn
  <2>2. pc[c] \in Critical /\ UNCHANGED locked
    BY <1>4 DEF PutStart, PutOpen, PutFill, PutAnswer, DeleteUnlink, DeleteAllowed, OpenOwn, FillOwn, Checks
  <2> QED
    BY <2>1, <2>2, MoveKeepsMutex
<1>5. ASSUME NEW c \in Client, NEW g \in Folder,
             OpenAbove(c, g) \/ SkipAbove(c, g) \/ FillAbove(c, g) \/ AboveFails(c, g)
      PROVE  MutualExclusion' /\ WriterHoldsLock'
  <2>1. CASE UNCHANGED <<pc, locked>>
    BY <2>1 DEF MutexInv, MutualExclusion, WriterHoldsLock
  <2>2. CASE (Goto(c, "answered") \/ Goto(c, "detached")) /\ (UNCHANGED locked \/ pc[c] = "above")
    BY <2>2, MoveKeepsMutex
  <2> QED
    BY <1>5, <2>1, <2>2 DEF OpenAbove, SkipAbove, FillAbove, AboveFails, Settle, disk
<1>6. ASSUME NEW c \in Client,
             \/ GetMeta(c) \/ GetContent(c) \/ GetThrows(c)
             \/ GetAnswer(c) \/ GetRetry(c) \/ GetGivesUp(c)
      PROVE  MutualExclusion' /\ WriterHoldsLock'
  <2>1. UNCHANGED locked /\ (Goto(c, "answered") \/ Goto(c, "recheck") \/ Goto(c, "content") \/ Goto(c, "read"))
    BY <1>6 DEF GetMeta, GetContent, GetThrows, GetAnswer, GetRetry, GetGivesUp, Answer, disk
  <2> QED
    BY <2>1, MoveKeepsMutex
<1>7. CASE Crash
  BY <1>7 DEF Crash, MutualExclusion, WriterHoldsLock
<1>8. CASE UNCHANGED vars
  BY <1>8 DEF vars, disk, MutexInv, MutualExclusion, WriterHoldsLock
<1> QED
  BY <1>1, <1>2, <1>3, <1>4, <1>5, <1>6, <1>7, <1>8 DEF Next, Step

LEMMA MutexInvariant == Spec => []MutexInv
<1>1. Init => MutexInv
  BY InitType DEF MutexInv, MutualExclusion, WriterHoldsLock, Init, Critical
<1> QED
  BY <1>1, StepMutex, PTL DEF Spec

\* Two writers are never at work on one user's tree, although the lock can be
\* leaked by an exception, left by a crash, stolen when stale or waited for in vain.
THEOREM MutexCorrect == Spec => []MutualExclusion
<1>1. MutexInv => MutualExclusion
  BY DEF MutexInv
<1> QED
  BY <1>1, MutexInvariant, PTL

-----------------------------------------------------------------------------
(* The lock-free reads.  If the clock advances between two stamps, an ETag *)
(* stands for one content of a folder's metadata for ever: each writer has *)
(* its own stamp and fills each metadata file with it once.  That survives *)
(* crashes, and tasks of a failed put that go on without the lock.         *)

\* A handler that has stamped its write, its stamp, and the folders that it
\* may still give that ETag.
Stamped(d) == pc[d] \in {"own", "ownfill", "above", "detached"}
StampOf(d) == buf[d][Own(d)].ETag
ToWrite(d) == IF pc[d] \in {"own", "ownfill"} THEN traversePath(req[d].path)
              ELSE todo[d] \cup open[d]

ToWriteOK(d) ==
  /\ pc[d] \notin {"above", "detached"} => todo[d] = {} /\ open[d] = {}
  /\ Stamped(d) =>
       /\ StampOf(d) # None /\ StampOf(d) <= now
       /\ pc[d] \in {"above", "detached"}
            => /\ todo[d] \cap open[d] = {}
               /\ todo[d] \cup open[d] \subseteq traversePath(req[d].path) \ {Own(d)}
       /\ \A f \in open[d] : buf[d][f].ETag = StampOf(d)
       /\ \A f \in ToWrite(d) : f \in Folder /\ meta[f].ETag # StampOf(d)

\* What a reader holds is the metadata that had its ETag, and is nothing that a
\* writer is yet to write.
ReadOK(c) ==
  pc[c] \in {"content", "recheck"} =>
    LET f == ReadFrom(c)
        m == buf[c][f]
    IN  /\ m.ETag <= now /\ (m.ETag = None => m = EmptyMeta)
        /\ AnswerFits(c, ans[c], m)
        /\ m.ETag = meta[f].ETag => m = meta[f]
        /\ \A d \in Client : Stamped(d) /\ f \in ToWrite(d) => m.ETag # StampOf(d)

TagsOK ==
  /\ \A f \in Folder : meta[f].ETag <= now /\ (meta[f].ETag = None => meta[f] = EmptyMeta)
  /\ \A d, e \in Client : Stamped(d) /\ Stamped(e) /\ StampOf(d) = StampOf(e) => d = e
  /\ \A c \in Client : ToWriteOK(c) /\ ReadOK(c)

\* A step of one handler that writes no metadata and is not amid its writes when
\* it is over.
LEMMA TagsAside ==
  ASSUME TypeInv, TagsOK, NEW c \in Client, NEW l, Goto(c, l),
         l \notin {"own", "ownfill", "above", "detached"},
         UNCHANGED <<meta, now>>,
         \A d \in Client : d # c => /\ req'[d] = req[d] /\ buf'[d] = buf[d] /\ ans'[d] = ans[d]
                                    /\ todo'[d] = todo[d] /\ open'[d] = open[d],
         todo'[c] = {}, open'[c] = {},
         ReadOK(c)'
  PROVE  TagsOK'
<1>1. pc'[c] = l /\ ~Stamped(c)' /\ \A d \in Client : d # c => pc'[d] = pc[d]
  BY DEF Goto, Stamped, TypeInv, TypeOK
<1>2. \A d \in Client : d # c => /\ Stamped(d)' <=> Stamped(d)
                                 /\ StampOf(d)' = StampOf(d) /\ ToWrite(d)' = ToWrite(d)
  BY <1>1 DEF Stamped, StampOf, ToWrite, Own
<1>3. ASSUME NEW d \in Client, d # c
      PROVE  ToWriteOK(d)' /\ ReadOK(d)'
  <2>1. ToWriteOK(d) /\ ReadOK(d)
    BY DEF TagsOK
  <2>2. ToWriteOK(d)'
    BY <1>1, <1>2, <1>3, <2>1 DEF ToWriteOK, Own
  <2>3. ReadFrom(d)' = ReadFrom(d) /\ \A m : TagIn(d, m)' = TagIn(d, m)
    BY <1>3 DEF ReadFrom, TagIn, Item
  <2>4. ReadOK(d)'
    BY <1>1, <1>2, <1>3, <2>1, <2>3 DEF ReadOK, AnswerFits
  <2> QED
    BY <2>2, <2>4
<1>4. ToWriteOK(c)'
  BY <1>1 DEF ToWriteOK
<1> QED
  BY <1>1, <1>2, <1>3, <1>4 DEF TagsOK

\* A step that stamps a write: now has advanced past every ETag there is.
LEMMA TagsStamp ==
  ASSUME TypeInv, TagsOK, 0 \notin ClockSteps, NEW c \in Client, PutFill(c) \/ DeleteUnlink(c)
  PROVE  TagsOK'
<1> DEFINE p == req[c].path
<1>1. /\ pc[c] \in {"check", "fill"} /\ pc' = [pc EXCEPT ![c] = "own"]
      /\ UNCHANGED <<meta, req, todo, open>> /\ pc[c] \in Critical
  BY DEF PutFill, PutAnswer, DeleteUnlink, DeleteAllowed, Checks, Goto, Critical
<1>2. /\ pc \in [Client -> Label] /\ buf \in [Client -> [Folder -> Meta]] /\ now \in Nat
      /\ ans \in [Client -> AnswerType] /\ meta \in [Folder -> Meta]
      /\ p \in Doc /\ Own(c) \in Folder /\ Last(p) \in Name
      /\ meta[Own(c)] \in Meta /\ buf[c][Own(c)] \in Meta
  BY <1>1, WriterPaths DEF TypeInv, TypeOK
<1>3. now' > now /\ now' \in Nat
  BY <1>2, ClockAssumption DEF PutFill, PutAnswer, DeleteUnlink, Stamp
<1>4. PICK m \in Meta, e \in Nat :
        buf' = [buf EXCEPT ![c][Own(c)] = WithDoc(m, Last(p), e, now')]
  <2>1. CASE PutFill(c)
    <3>1. buf' = [buf EXCEPT ![c][Own(c)] = WithDoc(buf[c][Own(c)], Last(p), now', now')]
      BY <1>2, <2>1 DEF PutFill, PutAnswer
    <3> QED
      BY <1>2, <1>3, <3>1
  <2>2. CASE DeleteUnlink(c)
    <3>1. buf' = [buf EXCEPT ![c][Own(c)] = WithDoc(meta[Own(c)], Last(p), None, now')]
      BY <2>2 DEF DeleteUnlink
    <3> QED
      BY <1>2, <3>1 DEF None
  <2> QED
    BY <2>1, <2>2
<1>5. /\ pc'[c] = "own" /\ Own(c)' = Own(c) /\ StampOf(c)' = now' /\ Stamped(c)'
      /\ ToWrite(c)' = traversePath(p) /\ todo'[c] = {} /\ open'[c] = {}
  <2>1. buf'[c][Own(c)] = WithDoc(m, Last(p), e, now')
    BY <1>2, <1>4
  <2>2. todo[c] = {} /\ open[c] = {}
    BY <1>1 DEF TagsOK, ToWriteOK
  <2> QED
    BY <1>1, <1>2, <2>1, <2>2 DEF WithDoc, Meta, StampOf, Stamped, ToWrite, Own
<1>6. \A d \in Client : d # c => pc'[d] = pc[d] /\ buf'[d] = buf[d] /\ ans'[d] = ans[d]
  BY <1>1, <1>2, <1>4 DEF PutFill, PutAnswer, DeleteUnlink
<1>7. \A d \in Client : d # c => /\ Stamped(d)' <=> Stamped(d)
                                 /\ StampOf(d)' = StampOf(d) /\ ToWrite(d)' = ToWrite(d)
  BY <1>1, <1>6 DEF Stamped, StampOf, ToWrite, Own
<1>8. \A f \in Folder : meta[f].ETag \in Nat /\ meta[f].ETag <= now
  BY <1>2 DEF TagsOK, Meta
<1>9. \A d \in Client : Stamped(d) => StampOf(d) \in Nat /\ StampOf(d) <= now
  <2>1. ASSUME NEW d \in Client, Stamped(d)
        PROVE  StampOf(d) \in Nat
    BY <2>1, WriterPaths DEF Stamped, StampOf, Critical, Meta
  <2> QED
    BY <2>1 DEF TagsOK, ToWriteOK
<1>10. ToWriteOK(c)'
  BY <1>1, <1>2, <1>3, <1>5, <1>8, FolderOfDoc DEF ToWriteOK, None
<1>11. ASSUME NEW d \in Client, d # c
       PROVE  ToWriteOK(d)' /\ ReadOK(d)'
  <2>1. ToWriteOK(d) /\ ReadOK(d)
    BY DEF TagsOK
  <2>2. ToWriteOK(d)'
    BY <1>1, <1>2, <1>3, <1>6, <1>7, <1>9, <1>11, <2>1 DEF ToWriteOK, Own
  <2>3. ReadFrom(d)' = ReadFrom(d) /\ \A x : TagIn(d, x)' = TagIn(d, x)
    BY <1>1 DEF ReadFrom, TagIn, Item
  <2>4. ASSUME pc[d] \in {"content", "recheck"}
        PROVE  buf[d][ReadFrom(d)].ETag \in Nat
    <3>1. ReadFrom(d) \in Folder
      BY <2>4, FolderOfDoc DEF ReadFrom, TypeInv, ServesOK
    <3> QED
      BY <1>2, <3>1 DEF Meta
  <2>5. pc[d] \in {"content", "recheck"}
          => LET t == buf[d][ReadFrom(d)].ETag IN t <= now' /\ t # StampOf(c)'
    BY <1>2, <1>3, <1>5, <2>1, <2>4 DEF ReadOK
  <2>6. ASSUME NEW w \in Client, pc[d] \in {"content", "recheck"}, Stamped(w)',
               ReadFrom(d) \in ToWrite(w)'
        PROVE  buf[d][ReadFrom(d)].ETag # StampOf(w)'
    BY <1>7, <2>1, <2>5, <2>6 DEF ReadOK
  <2>7. ReadOK(d)'
    BY <1>1, <1>6, <1>11, <2>1, <2>3, <2>5, <2>6 DEF ReadOK, AnswerFits
  <2> QED
    BY <2>2, <2>7
<1>12. ReadOK(c)'
  BY <1>5 DEF ReadOK
<1>13. \A f \in Folder : meta'[f].ETag <= now' /\ (meta'[f].ETag = None => meta'[f] = EmptyMeta)
  BY <1>1, <1>2, <1>3, <1>8 DEF TagsOK
<1>14. \A d \in Client : Stamped(d)' /\ d # c => StampOf(d)' # StampOf(c)'
  BY <1>2, <1>3, <1>5, <1>7, <1>9
<1> QED
  BY <1>7, <1>10, <1>11, <1>12, <1>13, <1>14 DEF TagsOK

\* A step of a handler amid its writes: it truncates a folder's metadata file, or
\* gives it its ETag for the first and last time.
LEMMA TagsWrite ==
  ASSUME TypeInv, TagsOK, NEW c \in Client, Stamped(c), NEW l,
         pc' = [pc EXCEPT ![c] = l], l \notin {"content", "recheck"},
         UNCHANGED <<now, req>>,
         \A d \in Client : d # c => /\ buf'[d] = buf[d] /\ ans'[d] = ans[d]
                                    /\ todo'[d] = todo[d] /\ open'[d] = open[d],
         NEW g \in ToWrite(c), NEW m, m = meta[g] \/ m = EmptyMeta \/ m.ETag = StampOf(c),
         meta' = [meta EXCEPT ![g] = m],
         Stamped(c)' => /\ StampOf(c)' = StampOf(c) /\ ToWrite(c)' \subseteq ToWrite(c)
                        /\ m.ETag = StampOf(c) => g \notin ToWrite(c)'
                        /\ pc'[c] \in {"above", "detached"}
                             => /\ todo'[c] \cap open'[c] = {}
                                /\ todo'[c] \cup open'[c] \subseteq traversePath(req[c].path) \ {Own(c)}
                        /\ \A f \in open'[c] : buf'[c][f].ETag = StampOf(c),
         l \notin {"above", "detached"} => todo'[c] = {} /\ open'[c] = {}
  PROVE  TagsOK'
<1>1. pc'[c] = l /\ \A d \in Client : d # c => pc'[d] = pc[d]
  BY DEF TypeInv, TypeOK
<1>2. \A d \in Client : d # c => /\ Stamped(d)' <=> Stamped(d)
                                 /\ StampOf(d)' = StampOf(d) /\ ToWrite(d)' = ToWrite(d)
  BY <1>1 DEF Stamped, StampOf, ToWrite, Own
<1>3. /\ StampOf(c) # None /\ StampOf(c) <= now /\ g \in Folder /\ meta \in [Folder -> Meta]
      /\ now \in Nat /\ EmptyMeta.ETag = None /\ None <= now
  BY DEF TagsOK, ToWriteOK, TypeInv, TypeOK, EmptyMeta, None
<1>4. \A f \in Folder : meta'[f].ETag <= now /\ (meta'[f].ETag = None => meta'[f] = EmptyMeta)
  BY <1>3 DEF TagsOK
<1>5. \A d \in Client : Stamped(d) => StampOf(d) # None /\ \A f \in ToWrite(d) :
                                        f \in Folder /\ meta[f].ETag # StampOf(d)
  BY DEF TagsOK, ToWriteOK
<1>6. ASSUME NEW d \in Client, d # c
      PROVE  ToWriteOK(d)' /\ ReadOK(d)'
  <2>1. ToWriteOK(d) /\ ReadOK(d)
    BY DEF TagsOK
  <2>2. Stamped(d) => StampOf(d) # StampOf(c)
    BY <1>6 DEF TagsOK
  <2>3. Stamped(d) => \A f \in ToWrite(d) : meta'[f].ETag # StampOf(d)
    BY <1>3, <1>5, <2>2
  <2>4. ToWriteOK(d)'
    BY <1>1, <1>2, <1>6, <2>1, <2>3 DEF ToWriteOK, Own
  <2>5. ReadFrom(d)' = ReadFrom(d) /\ \A x : TagIn(d, x)' = TagIn(d, x)
    BY DEF ReadFrom, TagIn, Item
  <2>6. ASSUME pc[d] \in {"content", "recheck"}, buf[d][ReadFrom(d)].ETag = meta'[ReadFrom(d)].ETag
        PROVE  buf[d][ReadFrom(d)] = meta'[ReadFrom(d)]
    <3>1. ReadFrom(d) \in Folder
      BY <2>6, FolderOfDoc DEF ReadFrom, TypeInv, ServesOK
    <3>2. CASE ReadFrom(d) # g
      BY <1>3, <2>1, <2>6, <3>1, <3>2 DEF ReadOK
    <3>3. CASE ReadFrom(d) = g
      <4>1. meta'[g] = m /\ buf[d][g].ETag # StampOf(c)
        BY <1>3, <2>1, <2>6, <3>3 DEF ReadOK
      <4> QED
        BY <1>3, <2>1, <2>6, <3>3, <4>1 DEF ReadOK
    <3> QED
      BY <3>2, <3>3
  <2>7. ReadOK(d)'
    BY <1>1, <1>2, <1>6, <2>1, <2>5, <2>6 DEF ReadOK, AnswerFits
  <2> QED
    BY <2>4, <2>7
<1>7. ToWriteOK(c)'
  <2>1. ASSUME Stamped(c)', NEW f \in ToWrite(c)'
        PROVE  f \in Folder /\ meta'[f].ETag # StampOf(c)
    BY <1>3, <1>5, <2>1
  <2>2. Own(c)' = Own(c)
    BY DEF Own
  <2> QED
    BY <1>1, <1>3, <2>1, <2>2 DEF ToWriteOK
<1>8. ReadOK(c)'
  BY <1>1 DEF ReadOK
<1>9. \A d, e \in Client : Stamped(d)' /\ Stamped(e)' /\ StampOf(d)' = StampOf(e)' => d = e
  BY <1>2 DEF TagsOK
<1> QED
  BY <1>4, <1>6, <1>7, <1>8, <1>9 DEF TagsOK

LEMMA TagsRead ==
  ASSUME TypeInv, TagsOK, NEW c \in Client, GetMeta(c) \/ GetContent(c)
  PROVE  TagsOK'
<1> DEFINE f == ReadFrom(c)
<1>1. /\ pc[c] \in {"read", "content"} /\ req[c].op \in {"get", "head", "list"}
      /\ UNCHANGED <<meta, now, req, todo, open>>
  BY DEF GetMeta, GetContent, TypeInv, ServesOK, disk
<1>2. f \in Folder /\ f' = f /\ \A m : TagIn(c, m)' = TagIn(c, m)
  BY <1>1, FolderOfDoc DEF ReadFrom, TagIn, Item, TypeInv, ServesOK
<1>3. todo[c] = {} /\ open[c] = {} /\ ~Stamped(c)
  BY <1>1 DEF TagsOK, ToWriteOK, Stamped
<1> HIDE DEF f
<1>4. /\ buf \in [Client -> [Folder -> Meta]] /\ ans \in [Client -> AnswerType]
      /\ pc \in [Client -> Label]
  BY DEF TypeInv, TypeOK
<1>5. CASE GetMeta(c)
  <2> DEFINE Fits(a) == AnswerFits(c, a, meta[f])
  <2>1. PICK l \in {"answered", "recheck", "content"} :
          /\ Goto(c, l)
          /\ l # "answered" => \E a : Fits(a) /\ ans' = [ans EXCEPT ![c] = a]
    <3> DEFINE held == TagIn(c, meta[f])
               match == held # None /\ req[c].version = held
               a == [status |-> IF match THEN 304 ELSE 200,
                     tag |-> IF match THEN meta[f].ETag ELSE held, val |-> NoFile]
    <3>1. Fits(a)
      BY DEF AnswerFits
    <3>2. \/ Goto(c, "answered")
          \/ \E l \in {"recheck", "content"} : Goto(c, l) /\ ans' = [ans EXCEPT ![c] = a]
      BY <1>5 DEF GetMeta, Answer, f
    <3> HIDE DEF a, Fits
    <3> QED
      BY <3>1, <3>2
  <2>2. buf' = [buf EXCEPT ![c][f] = meta[f]] /\ \E a : ans' = [ans EXCEPT ![c] = a]
    BY <1>5 DEF GetMeta, Answer, f
  <2>3. buf'[c][f] = meta[f] /\ pc'[c] = l /\ (l # "answered" => Fits(ans'[c]))
    <3>1. buf'[c][f] = meta[f] /\ pc'[c] = l
      BY <1>2, <1>4, <2>1, <2>2 DEF Goto
    <3>2. ASSUME l # "answered"
          PROVE  Fits(ans'[c])
      <4>1. PICK a : Fits(a) /\ ans' = [ans EXCEPT ![c] = a]
        BY <2>1, <3>2
      <4>2. ans'[c] = a
        BY <1>4, <4>1
      <4> QED
        BY <4>1, <4>2
    <3> QED
      BY <3>1, <3>2
  <2>4. \A d \in Client : d # c => buf'[d] = buf[d] /\ ans'[d] = ans[d]
    BY <1>4, <2>2
  <2>5. ASSUME NEW d \in Client, Stamped(d)', f \in ToWrite(d)'
        PROVE  meta[f].ETag # StampOf(d)'
    <3>1. d # c
      BY <2>3, <2>5 DEF Stamped
    <3>2. Stamped(d) /\ f \in ToWrite(d) /\ StampOf(d)' = StampOf(d)
      BY <1>1, <1>4, <2>1, <2>4, <2>5, <3>1 DEF Goto, Stamped, ToWrite, StampOf, Own
    <3> QED
      BY <3>2 DEF TagsOK, ToWriteOK
  <2>6. l # "answered" => AnswerFits(c, ans[c], buf[c][f])'
    BY <1>1, <1>2, <2>3 DEF AnswerFits
  <2>7. ReadOK(c)'
    BY <1>1, <1>2, <2>3, <2>5, <2>6 DEF ReadOK, TagsOK, f
  <2> QED
    BY <1>1, <1>3, <2>1, <2>4, <2>7, TagsAside
<1>6. CASE GetContent(c)
  <2>1. /\ pc[c] = "content" /\ Goto(c, "recheck") /\ buf' = buf
        /\ \E v : ans' = [ans EXCEPT ![c].val = v]
    BY <1>6 DEF GetContent
  <2>2. ans'[c].tag = ans[c].tag /\ ans'[c].status = ans[c].status /\ \A d \in Client : d # c => ans'[d] = ans[d]
    BY <1>4, <2>1 DEF AnswerType
  <2>3. \A d \in Client : Stamped(d)' => /\ Stamped(d) /\ ToWrite(d)' = ToWrite(d)
                                         /\ StampOf(d)' = StampOf(d)
    BY <1>1, <1>4, <2>1 DEF Goto, Stamped, ToWrite, StampOf, Own
  <2>4. ReadOK(c)'
    BY <1>1, <1>2, <2>1, <2>2, <2>3 DEF ReadOK, AnswerFits, TagsOK, f
  <2> QED
    BY <1>1, <1>3, <2>1, <2>2, <2>4, TagsAside
<1> QED
  BY <1>5, <1>6

\* Requests, answers, locks and the steps before a write is stamped.
LEMMA TagsOther ==
  ASSUME TypeInv, TagsOK, NEW c \in Client,
         \/ Request(c) \/ Return(c) \/ AcquireLock(c) \/ StealLock(c) \/ LockTimeout(c)
         \/ PutRefused(c) \/ PutMkdirThrows(c) \/ PutStart(c) \/ PutOpen(c) \/ PutFails(c)
         \/ DeleteRefused(c) \/ DeleteFails(c) \/ Finish(c)
         \/ GetThrows(c) \/ GetAnswer(c) \/ GetRetry(c) \/ GetGivesUp(c)
  PROVE  TagsOK'
<1>1. /\ buf \in [Client -> [Folder -> Meta]] /\ ans \in [Client -> AnswerType]
      /\ pc \in [Client -> Label] /\ req \in [Client -> RequestType]
      /\ todo \in [Client -> SUBSET Folder] /\ open \in [Client -> SUBSET Folder]
      /\ pc[c] \notin {"above", "detached"} => todo[c] = {} /\ open[c] = {}
  BY DEF TypeInv, TypeOK, TagsOK, ToWriteOK
<1>2. ASSUME NEW l \in {"idle", "lock", "read", "check", "open", "fill", "answered"}, Goto(c, l),
             UNCHANGED <<meta, now>>, todo'[c] = {}, open'[c] = {},
             \A d \in Client : d # c => /\ req'[d] = req[d] /\ buf'[d] = buf[d] /\ ans'[d] = ans[d]
                                        /\ todo'[d] = todo[d] /\ open'[d] = open[d]
      PROVE  TagsOK'
  <2>1. ReadOK(c)'
    BY <1>1, <1>2 DEF ReadOK, Goto
  <2> QED
    BY <1>2, <2>1, TagsAside
<1>3. CASE Request(c)
  <2>1. PICK l \in {"lock", "read"} : \E r : Accept(c, r, l)
    BY <1>3 DEF Request, RequestPut, RequestDelete, RequestGet
  <2>2. UNCHANGED <<meta, now, buf, todo, open, ans>>
    BY <1>3 DEF Request, RequestPut, RequestDelete, RequestGet, disk
  <2> QED
    BY <1>1, <1>2, <2>1, <2>2 DEF Accept
<1>4. CASE Return(c)
  BY <1>1, <1>2, <1>4 DEF Return, disk
<1>5. CASE AcquireLock(c) \/ StealLock(c) \/ PutOpen(c) \/ GetRetry(c)
  BY <1>1, <1>2, <1>5 DEF AcquireLock, StealLock, PutOpen, GetRetry, disk
<1>6. CASE PutStart(c)
  BY <1>1, <1>2, <1>6 DEF PutStart, Checks
<1>7. CASE LockTimeout(c) \/ PutRefused(c) \/ PutMkdirThrows(c) \/ PutFails(c) \/ DeleteRefused(c)
           \/ Finish(c) \/ GetThrows(c) \/ GetAnswer(c) \/ GetGivesUp(c)
  <2>1. todo[c] = {} /\ open[c] = {}
    <3>1. CASE Finish(c)
      BY <3>1 DEF Finish
    <3>2. CASE ~Finish(c)
      <4>1. pc[c] \notin {"above", "detached"}
        BY <1>7, <3>2 DEF LockTimeout, PutRefused, PutMkdirThrows, PutFails, Checks, DeleteRefused,
                          GetThrows, GetAnswer, GetGivesUp
      <4> QED
        BY <1>1, <4>1
    <3> QED
      BY <3>1, <3>2
  <2>2. \E a : Answer(c, a)
    BY <1>7 DEF LockTimeout, PutRefused, PutMkdirThrows, PutFails, DeleteRefused, Finish,
                UnlockAndAnswer, GetThrows, GetAnswer, GetGivesUp
  <2>3. UNCHANGED <<meta, now, req, buf, todo, open>>
    BY <1>7 DEF LockTimeout, PutRefused, PutMkdirThrows, PutFails, DeleteRefused, Finish,
                GetThrows, GetAnswer, GetGivesUp, disk
  <2>4. Goto(c, "answered") /\ \A d \in Client : d # c => ans'[d] = ans[d]
    BY <1>1, <2>2 DEF Answer
  <2> QED
    BY <1>2, <2>1, <2>3, <2>4
<1>8. CASE DeleteFails(c)
  BY <1>1, <1>2, <1>8 DEF DeleteFails, UnlockAndAnswer, Answer
<1> QED
  BY <1>3, <1>4, <1>5, <1>6, <1>7, <1>8

LEMMA TagsOwn ==
  ASSUME TypeInv, TagsOK, NEW c \in Client, OpenOwn(c) \/ FillOwn(c)
  PROVE  TagsOK'
<1> DEFINE p == req[c].path
           g == Own(c)
<1>1. /\ pc[c] \in {"own", "ownfill"} /\ Stamped(c) /\ UNCHANGED <<now, req, buf, open, ans>>
  BY DEF OpenOwn, FillOwn, Stamped
<1>2. /\ pc \in [Client -> Label] /\ todo \in [Client -> SUBSET Folder] /\ p \in Doc
      /\ g \in traversePath(p) /\ g \in Folder
  BY <1>1, WriterPaths, FolderOfDoc DEF TypeInv, TypeOK, Own, Critical
<1>3. Own(c)' = g /\ StampOf(c)' = StampOf(c) /\ todo[c] = {} /\ open[c] = {}
  BY <1>1 DEF TagsOK, ToWriteOK, StampOf, Own
<1>4. ToWrite(c) = traversePath(p)
  BY <1>1 DEF ToWrite
<1> HIDE DEF g
<1>5. CASE OpenOwn(c)
  <2>1. pc' = [pc EXCEPT ![c] = "ownfill"] /\ todo' = todo
    BY <1>5 DEF OpenOwn, Goto
  <2>2. ToWrite(c)' = ToWrite(c) /\ pc'[c] = "ownfill"
    BY <1>1, <1>2, <1>4, <2>1 DEF ToWrite
  <2>3. meta' = [meta EXCEPT ![g] = EmptyMeta] /\ EmptyMeta.ETag # StampOf(c)
    BY <1>1, <1>5 DEF OpenOwn, g, EmptyMeta, TagsOK, ToWriteOK
  <2> QED
    BY <1>1, <1>2, <1>3, <1>4, <2>1, <2>2, <2>3, TagsWrite
<1>6. CASE FillOwn(c)
  <2>1. /\ pc' = [pc EXCEPT ![c] = "above"] /\ todo' = [todo EXCEPT ![c] = traversePath(p) \ {g}]
        /\ meta' = [meta EXCEPT ![g] = buf[c][g]]
    BY <1>6 DEF FillOwn, Goto, g
  <2>2. todo'[c] = traversePath(p) \ {g} /\ pc'[c] = "above" /\ open'[c] = {}
    BY <1>1, <1>2, <1>3, <2>1
  <2>3. ToWrite(c)' = traversePath(p) \ {g} /\ buf[c][g].ETag = StampOf(c)
    BY <2>2 DEF ToWrite, StampOf, g
  <2>4. \A d \in Client : d # c => todo'[d] = todo[d]
    BY <1>2, <2>1
  <2> QED
    BY <1>1, <1>2, <1>3, <1>4, <2>1, <2>2, <2>3, <2>4, TagsWrite DEF g
<1> QED
  BY <1>1, <1>5, <1>6 DEF OpenOwn, FillOwn

\* The tasks that update the folders above, of a put that may have failed.
LEMMA TagsAbove ==
  ASSUME TypeInv, TagsOK, NEW c \in Client, NEW g \in Folder,
         OpenAbove(c, g) \/ SkipAbove(c, g) \/ FillAbove(c, g) \/ AboveFails(c, g)
  PROVE  TagsOK'
<1> DEFINE p == req[c].path
           o == Own(c)
<1>1. g \in todo[c] \cup open[c] /\ UNCHANGED <<now, req>>
  BY DEF OpenAbove, SkipAbove, FillAbove, AboveFails, NextAbove
<1>2. pc[c] \in {"above", "detached"} /\ Stamped(c) /\ ToWrite(c) = todo[c] \cup open[c]
  BY <1>1 DEF TagsOK, ToWriteOK, Stamped, ToWrite
<1>3. /\ pc \in [Client -> Label] /\ todo \in [Client -> SUBSET Folder]
      /\ open \in [Client -> SUBSET Folder] /\ buf \in [Client -> [Folder -> Meta]]
      /\ meta \in [Folder -> Meta] /\ ans \in [Client -> AnswerType]
      /\ meta[g] \in Meta /\ p \in Doc /\ o \in Folder /\ buf[c][o] \in Meta
  BY <1>2, WriterPaths DEF TypeInv, TypeOK, Critical
<1>4. /\ todo[c] \cap open[c] = {} /\ todo[c] \cup open[c] \subseteq traversePath(p) \ {o}
      /\ (\A f \in open[c] : buf[c][f].ETag = StampOf(c)) /\ g # o
      /\ meta[g].ETag # StampOf(c) /\ StampOf(c) # None /\ Own(c) = o
  BY <1>1, <1>2 DEF TagsOK, ToWriteOK, Own
<1> HIDE DEF o
<1>0. Own(c)' = Own(c)
  BY <1>1 DEF Own
<1>5. CASE OpenAbove(c, g)
  <2>1. /\ g \in todo[c] /\ pc' = pc /\ ans' = ans
        /\ meta' = [meta EXCEPT ![g] = EmptyMeta]
        /\ todo' = [todo EXCEPT ![c] = @ \ {g}]
        /\ open' = [open EXCEPT ![c] = @ \cup {g}]
        /\ \E n, e : buf' = [buf EXCEPT ![c][g] = WithSub(meta[g], n, e, StampOf(c))]
    BY <1>5 DEF OpenAbove, NextAbove, StampOf, o
  <2>2. /\ todo'[c] = todo[c] \ {g} /\ open'[c] = open[c] \cup {g}
        /\ \A d \in Client : d # c => todo'[d] = todo[d] /\ open'[d] = open[d] /\ buf'[d] = buf[d]
    BY <1>3, <2>1
  <2>3. buf'[c][g].ETag = StampOf(c) /\ \A f \in Folder : f # g => buf'[c][f] = buf[c][f]
    BY <1>3, <2>1 DEF WithSub, Meta
  <2>4. StampOf(c)' = StampOf(c)
    BY <1>0, <1>3, <1>4, <2>3 DEF StampOf
  <2>5. ToWrite(c)' = ToWrite(c)
    BY <1>2, <2>1, <2>2 DEF ToWrite
  <2>6. \A f \in open'[c] : buf'[c][f].ETag = StampOf(c)
    BY <1>3, <1>4, <2>2, <2>3
  <2>7. EmptyMeta.ETag # StampOf(c)
    BY <1>4 DEF EmptyMeta
  <2> QED
    <3>1. /\ todo'[c] \cap open'[c] = {}
          /\ todo'[c] \cup open'[c] \subseteq traversePath(p) \ {Own(c)}
      BY <1>4, <2>1, <2>2
    <3>2. pc' = [pc EXCEPT ![c] = pc[c]] /\ pc[c] \notin {"content", "recheck"} /\ g \in ToWrite(c)
      BY <1>1, <1>2, <1>3, <2>1
    <3>3. \A d \in Client : d # c => /\ buf'[d] = buf[d] /\ ans'[d] = ans[d]
                                     /\ todo'[d] = todo[d] /\ open'[d] = open[d]
      BY <2>1, <2>2
    <3> QED
      BY ZenonT(60), <1>1, <1>2, <2>1, <2>4, <2>5, <2>6, <2>7, <3>1, <3>2, <3>3, TagsWrite
<1>6. CASE SkipAbove(c, g)
  <2>1. /\ g \in todo[c] /\ pc[c] = "above" /\ UNCHANGED <<meta, pc, open, ans>> /\ open[c] = {}
        /\ todo' = [todo EXCEPT ![c] = @ \ {g}]
        /\ buf' = [buf EXCEPT ![c][g] = meta[g]]
    BY <1>6 DEF SkipAbove, NextAbove, disk
  <2>2. /\ todo'[c] = todo[c] \ {g} /\ open'[c] = {} /\ StampOf(c)' = StampOf(c)
        /\ \A d \in Client : d # c => todo'[d] = todo[d] /\ open'[d] = open[d] /\ buf'[d] = buf[d]
    <3>1. buf'[c][o] = buf[c][o]
      BY <1>3, <1>4, <2>1
    <3>2. StampOf(c)' = StampOf(c)
      BY <1>0, <1>4, <3>1 DEF StampOf
    <3> QED
      BY <1>3, <2>1, <3>2
  <2>3. ToWrite(c)' \subseteq ToWrite(c)
    BY <1>2, <2>1, <2>2 DEF ToWrite
  <2>4. pc' = [pc EXCEPT ![c] = pc[c]] /\ meta' = [meta EXCEPT ![g] = meta[g]]
    BY <1>3, <2>1
  <2> QED
    <3>1. /\ todo'[c] \cap open'[c] = {}
          /\ todo'[c] \cup open'[c] \subseteq traversePath(p) \ {Own(c)}
      BY <1>4, <2>1, <2>2
    <3>2. pc[c] \notin {"content", "recheck"} /\ g \in ToWrite(c)
      BY <1>1, <1>2
    <3>3. \A d \in Client : d # c => /\ buf'[d] = buf[d] /\ ans'[d] = ans[d]
                                     /\ todo'[d] = todo[d] /\ open'[d] = open[d]
      BY <2>1, <2>2
    <3> QED
      BY <1>1, <1>2, <1>4, <2>2, <2>3, <2>4, <3>1, <3>2, <3>3, TagsWrite
<1>7. CASE FillAbove(c, g) \/ AboveFails(c, g)
  <2>1. /\ todo' = [todo EXCEPT ![c] = @ \ {g}] /\ open' = [open EXCEPT ![c] = @ \ {g}]
        /\ buf' = buf
    <3>1. CASE FillAbove(c, g)
      <4>1. g \in open[c] /\ UNCHANGED <<todo, buf>> /\ open' = [open EXCEPT ![c] = @ \ {g}]
        BY <3>1 DEF FillAbove
      <4> QED
        BY <1>3, <1>4, <4>1
    <3>2. CASE AboveFails(c, g)
      BY <3>2 DEF AboveFails
    <3> QED
      BY <1>7, <3>1, <3>2
  <2>2. PICK m : meta' = [meta EXCEPT ![g] = m] /\ (m = meta[g] \/ m.ETag = StampOf(c))
    <3>1. CASE FillAbove(c, g)
      BY <1>4, <3>1 DEF FillAbove
    <3>2. CASE AboveFails(c, g)
      BY <1>3, <3>2 DEF AboveFails
    <3> QED
      BY <1>7, <3>1, <3>2
  <2>3. /\ todo'[c] = todo[c] \ {g} /\ open'[c] = open[c] \ {g} /\ StampOf(c)' = StampOf(c)
        /\ \A d \in Client : d # c => todo'[d] = todo[d] /\ open'[d] = open[d] /\ buf'[d] = buf[d]
    BY <1>0, <1>3, <2>1 DEF StampOf
  <2>4. \A d \in Client : d # c => ans'[d] = ans[d]
    BY <1>3, <1>7 DEF FillAbove, AboveFails
  <2>5. PICK l \in {"above", "detached", "answered"} :
          /\ pc' = [pc EXCEPT ![c] = l]
          /\ l = "answered" => todo'[c] = {} /\ open'[c] = {}
    <3>1. CASE UNCHANGED pc
      BY <1>2, <1>3, <3>1
    <3>2. CASE Settle(c, todo'[c] \cup open'[c])
      BY <3>2 DEF Settle, Goto
    <3>3. CASE Settle(c, todo[c] \cup open'[c])
      BY <2>3, <3>3 DEF Settle, Goto
    <3> QED
      BY <1>7, <3>1, <3>2, <3>3 DEF FillAbove, AboveFails
  <2>6. Stamped(c)' => ToWrite(c)' = ToWrite(c) \ {g}
    BY <1>2, <1>3, <2>3, <2>5 DEF Stamped, ToWrite
  <2> QED
    <3>1. /\ todo'[c] \cap open'[c] = {}
          /\ todo'[c] \cup open'[c] \subseteq traversePath(p) \ {Own(c)}
          /\ \A f \in open'[c] : buf'[c][f].ETag = StampOf(c)
      BY <1>4, <2>1, <2>3
    <3>2. g \in ToWrite(c)
      BY <1>1, <1>2
    <3>3. \A d \in Client : d # c => /\ buf'[d] = buf[d] /\ ans'[d] = ans[d]
                                     /\ todo'[d] = todo[d] /\ open'[d] = open[d]
      BY <2>3, <2>4
    <3>4. Stamped(c)' => ToWrite(c)' \subseteq ToWrite(c) /\ g \notin ToWrite(c)'
      BY <2>6
    <3> QED
      BY <1>1, <1>2, <2>2, <2>3, <2>5, <3>1, <3>2, <3>3, <3>4, TagsWrite
<1> QED
  BY <1>5, <1>6, <1>7

LEMMA InitTags == Init => TagsOK
<1> SUFFICES ASSUME Init
             PROVE  TagsOK
  OBVIOUS
<1>1. /\ \A f \in Folder : meta[f] = EmptyMeta
      /\ \A c \in Client : pc[c] = "idle" /\ todo[c] = {} /\ open[c] = {} /\ ~Stamped(c)
      /\ now = 1 /\ EmptyMeta.ETag = 0
  BY DEF Init, Stamped, EmptyMeta, None
<1> QED
  BY <1>1 DEF TagsOK, ToWriteOK, ReadOK

LEMMA StepTags == 0 \notin ClockSteps /\ TypeInv /\ TagsOK /\ [Next]_vars => TagsOK'
<1> SUFFICES ASSUME 0 \notin ClockSteps, TypeInv, TagsOK, [Next]_vars
             PROVE  TagsOK'
  OBVIOUS
<1>1. CASE Crash
  BY <1>1 DEF Crash, TagsOK, ToWriteOK, ReadOK, Stamped
<1>2. CASE UNCHANGED vars
  <2>1. UNCHANGED <<meta, now, pc, req, buf, todo, open, ans>>
    BY <1>2 DEF vars, disk
  <2>2. \A d \in Client : /\ Stamped(d)' <=> Stamped(d)
                          /\ StampOf(d)' = StampOf(d) /\ ToWrite(d)' = ToWrite(d)
    BY <2>1 DEF Stamped, StampOf, ToWrite, Own
  <2>3. \A d \in Client : ToWriteOK(d)' <=> ToWriteOK(d)
    BY <2>1, <2>2 DEF ToWriteOK, Own
  <2>4. \A d \in Client : ReadFrom(d)' = ReadFrom(d) /\ \A m : TagIn(d, m)' = TagIn(d, m)
    BY <2>1 DEF ReadFrom, TagIn, Item
  <2>5. \A d \in Client : ReadOK(d)' <=> ReadOK(d)
    BY <2>1, <2>2, <2>4 DEF ReadOK, AnswerFits
  <2> QED
    BY <2>1, <2>2, <2>3, <2>5 DEF TagsOK
<1> QED
  BY <1>1, <1>2, TagsOther, TagsRead, TagsStamp, TagsOwn, TagsAbove DEF Next, Step

\* If the clock advances between two stamps, a GET's 304 means that the version the
\* client named is current, the ETag of its 200 is the current one, that of its 304
\* the folder's, and a listing the folder's current one, though get takes no lock:
\* in spite of crashes, I/O errors and the tasks of a failed put that go on
\* writing unlocked, a folder never gets an ETag back with other metadata.
THEOREM AnswerCorrect ==
  ASSUME 0 \notin ClockSteps
  PROVE  Spec => AnswerIsCurrent
<1>1. ASSUME TypeInv, TagsOK, NEW c \in Client, GetAnswer(c)
      PROVE  LET m == meta[ReadFrom(c)] IN
             AnswerFits(c, ans'[c], m) /\ (req[c].op = "list" => buf[c][ReadFrom(c)] = m)
  <2>1. ReadOK(c) /\ pc[c] = "recheck" /\ buf[c][ReadFrom(c)] = meta[ReadFrom(c)]
    BY <1>1 DEF TagsOK, ReadOK, GetAnswer, SameFolderTag
  <2>2. ans'[c] = ans[c]
    BY <1>1 DEF GetAnswer, Answer, TypeInv, TypeOK
  <2> QED
    BY <2>1, <2>2 DEF ReadOK
<1>2. TypeInv /\ TagsOK /\ [Next]_vars
        => [\A c \in Client : GetAnswer(c) =>
             LET m == meta[ReadFrom(c)] IN
             AnswerFits(c, ans'[c], m) /\ (req[c].op = "list" => buf[c][ReadFrom(c)] = m)]_vars
  BY <1>1
<1>3. TypeInv /\ TagsOK /\ [Next]_vars => TagsOK'
  BY StepTags
<1> QED
  BY <1>2, <1>3, InitType, InitTags, StepType, PTL DEF Spec, AnswerIsCurrent
=============================================================================
