----------------------- MODULE FileTreeIndex_proofs -----------------------
(***************************************************************************)
(* What FileTree promises of the tree a user's writers leave, for every    *)
(* set of clients, documents and contents.                                 *)
(*                                                                         *)
(* First IndexMatchesDisk.  A writer changes the document's file first and *)
(* its folder's metadata later, truncating the metadata file in between.   *)
(* The invariant (Parts) follows the folder's metadata to where it is: on  *)
(* disk, or in the memory of the handler that is rewriting it; the one     *)
(* document being written is exempt from when its file changes until the   *)
(* metadata file is truncated.                                             *)
(*                                                                         *)
(* Then ConditionalWrite and TaggedPutIsStored, which hold across crashes: *)
(* Writers says what a handler knows of the folders it has done with.      *)
(*                                                                         *)
(* Then FoldersListed and DocXorFolder.  Lists says of every folder's      *)
(* metadata, wherever it is, that its entries are those of the folders     *)
(* with documents below, but for the entries a writer has yet to see to;   *)
(* DirsOK says that documents' files stand in directories and are none.    *)
(***************************************************************************)
EXTENDS FileTree_proofs

Agrees(m, p) == file[p] # Torn /\ (Item(m, p) # None <=> file[p] # NoFile)

Exempt(p) == \E c \in Client : pc[c] \in {"fill", "own"} /\ req[c].path = p

\* Metadata on disk that nobody is rewriting lists the documents there are.
DiskAgrees ==
  \A p \in Doc : (\A c \in Client : Front(p) \notin Rewriting(c)) /\ ~Exempt(p)
                   => Agrees(meta[Front(p)], p)

\* So does the metadata a handler is about to write back.
MemoryAgrees ==
  \A c \in Client, p \in Doc :
    Front(p) \in Rewriting(c) \/ (pc[c] = "own" /\ Front(p) = Own(c))
      => Agrees(buf[c][Front(p)], p)

\* What the handlers hold, place by place.
HandlersOK ==
  \A c \in Client :
    /\ pc[c] \in {"open", "fill"} => /\ buf[c][Own(c)] = meta[Own(c)]
                                     /\ req[c].val \in Value
                                     /\ req[c].op = "put"
    /\ req[c].op = "put" => req[c].val \in Value
    /\ pc[c] # "above" => open[c] = {} /\ todo[c] = {}
    /\ pc[c] # "detached"
    /\ todo[c] \cap open[c] = {}

Parts == DiskAgrees /\ MemoryAgrees /\ HandlersOK /\ now > 0

IndexInv == ~IOErrors /\ crashes = 0 => Parts

-----------------------------------------------------------------------------
(* Paths and metadata.                                                     *)

LEMMA FrontLength == \A p \in Doc : Len(Front(p)) = Len(p) - 1
<1> SUFFICES ASSUME NEW p \in Doc
             PROVE  Len(SubSeq(p, 1, Len(p) - 1)) = Len(p) - 1
  BY DEF Front
<1>1. p \in Seq(Name) /\ Len(p) \in Nat /\ Len(p) > 0
  BY DocAssumption
<1>2. Len(p) - 1 \in 0..Len(p) /\ Len(SubSeq(p, 1, Len(p) - 1)) = Len(p) - 1
  BY <1>1
<1> QED
  BY <1>2

\* A document is known by its folder and its name.
LEMMA SameDoc ==
  \A p, q \in Doc : Front(p) = Front(q) /\ Last(p) = Last(q) => p = q
<1> SUFFICES ASSUME NEW p \in Doc, NEW q \in Doc, Front(p) = Front(q), Last(p) = Last(q)
             PROVE  p = q
  OBVIOUS
<1>1. /\ p \in Seq(Name) /\ Len(p) \in Nat /\ Len(p) > 0
      /\ q \in Seq(Name) /\ Len(q) \in Nat /\ Len(q) > 0
  BY DocAssumption
<1>3. Len(p) = Len(q)
  BY <1>1, FrontLength
<1>4. ASSUME NEW k \in 1..Len(p)
      PROVE  p[k] = q[k]
  <2>1. CASE k = Len(p)
    BY <1>3, <2>1 DEF Last
  <2>2. CASE k \in 1..(Len(p) - 1)
    <3>1. SubSeq(p, 1, Len(p) - 1)[k] = p[k] /\ SubSeq(q, 1, Len(q) - 1)[k] = q[k]
      BY <1>1, <1>3, <2>2
    <3> QED
      BY <3>1 DEF Front
  <2> QED
    BY <1>1, <2>1, <2>2
<1> QED
  BY <1>1, <1>3, <1>4

\* What the new metadata objects say of a document.
LEMMA ItemValues ==
  /\ \A m \in Meta, p \in Doc, e, t \in Nat :
       \A n : /\ Item(WithDoc(m, n, e, t), p) = IF Last(p) = n THEN e ELSE Item(m, p)
             /\ Item(WithSub(m, n, e, t), p) = Item(m, p)
BY FolderOfDoc DEF Item, WithDoc, WithSub, Meta

-----------------------------------------------------------------------------
(* One lemma for the steps that write nothing, one for each that does.     *)

LEMMA OnlyWriter ==
  ASSUME MutexInv, HandlersOK, NEW c \in Client, pc[c] \in Critical
  PROVE  \A d \in Client : d # c => pc[d] \notin Critical /\ Rewriting(d) = {}
BY DEF MutexInv, MutualExclusion, HandlersOK, Rewriting, Critical

\* A handler that is not amid its writes moves to a place outside them.
LEMMA IdleStep ==
  ASSUME MutexInv, Parts, NEW c \in Client, NEW l, Goto(c, l),
         pc[c] \notin {"fill", "own", "ownfill", "above"},
         l \notin {"open", "fill", "own", "ownfill", "above", "detached"},
         UNCHANGED <<file, meta, now, open, todo>>,
         \A d \in Client : d # c => buf'[d] = buf[d] /\ req'[d] = req[d],
         req'[c].op = "put" => req'[c].val \in Value
  PROVE  Parts'
<1>1. pc' = [pc EXCEPT ![c] = l] /\ pc \in [Client -> Label]
  BY DEF Goto, MutexInv, TypeInv, TypeOK
<1>2. open[c] = {} /\ Rewriting(c) = {} /\ Rewriting(c)' = {}
  BY <1>1 DEF Parts, HandlersOK, Rewriting
<1>3. \A d \in Client : d # c => pc'[d] = pc[d] /\ Rewriting(d)' = Rewriting(d) /\ Own(d)' = Own(d)
  BY <1>1 DEF Rewriting, Own
<1>4. \A p \in Doc : Exempt(p)' <=> Exempt(p)
  BY <1>1, <1>3 DEF Exempt
<1>5. DiskAgrees'
  BY <1>2, <1>3, <1>4 DEF Parts, DiskAgrees, Agrees
<1>6. MemoryAgrees'
  BY <1>1, <1>2, <1>3 DEF Parts, MemoryAgrees, Agrees
<1>7. HandlersOK'
  BY <1>1, <1>2, <1>3 DEF Parts, HandlersOK
<1> QED
  BY <1>5, <1>6, <1>7 DEF Parts
LEMMA IndexPutStart ==
  ASSUME MutexInv, Parts, NEW c \in Client, PutStart(c)
  PROVE  Parts'
<1>1. /\ pc[c] = "check" /\ req[c].op = "put" /\ pc' = [pc EXCEPT ![c] = "open"]
      /\ UNCHANGED <<file, meta, now, req, todo, open>>
      /\ buf' = [buf EXCEPT ![c][Own(c)] = meta[Own(c)]]
  BY DEF PutStart, Checks, Goto
<1>2. Own(c) \in Folder /\ pc \in [Client -> Label] /\ buf \in [Client -> [Folder -> Meta]]
  BY <1>1, WriterPaths DEF MutexInv, TypeInv, TypeOK, Critical
<1>3. \A d \in Client : Rewriting(d)' = Rewriting(d) /\ Own(d)' = Own(d)
  BY <1>1, <1>2 DEF Rewriting, Own
<1>4. \A d \in Client : d # c => pc[d] \notin Critical /\ buf'[d] = buf[d] /\ pc'[d] = pc[d]
  BY <1>1, <1>2, OnlyWriter DEF Parts, Critical
<1>5. Rewriting(c) = {}
  BY <1>1 DEF Parts, HandlersOK, Rewriting
<1>6. \A p \in Doc : Exempt(p)' <=> Exempt(p)
  BY <1>1, <1>2 DEF Exempt
<1>7. DiskAgrees'
  BY <1>1, <1>3, <1>6 DEF Parts, DiskAgrees, Agrees
<1>8. MemoryAgrees'
  BY <1>1, <1>2, <1>3, <1>4, <1>5 DEF Parts, MemoryAgrees, Agrees, Critical
<1>9. HandlersOK'
  BY <1>1, <1>2, <1>3, <1>4 DEF Parts, HandlersOK, Critical
<1> QED
  BY <1>1, <1>7, <1>8, <1>9 DEF Parts

LEMMA IndexPutOpen ==
  ASSUME MutexInv, Parts, NEW c \in Client, PutOpen(c)
  PROVE  Parts'
<1>1. /\ pc[c] = "open" /\ pc' = [pc EXCEPT ![c] = "fill"]
      /\ UNCHANGED <<meta, now, req, buf, todo, open>>
      /\ file' = [file EXCEPT ![req[c].path] = Torn]
  BY DEF PutOpen, Goto
<1>2. /\ req[c].path \in Doc /\ file \in [Doc -> Content] /\ pc \in [Client -> Label]
  BY <1>1, WriterPaths DEF MutexInv, TypeInv, TypeOK, Critical
<1>3. \A d \in Client : Rewriting(d) = {} /\ Rewriting(d)' = {} /\ Own(d)' = Own(d)
  BY <1>1, <1>2, OnlyWriter DEF Rewriting, Own, Parts, HandlersOK, Critical
<1>4. \A d \in Client : d # c => pc[d] \notin Critical /\ pc'[d] = pc[d]
  BY <1>1, <1>2, OnlyWriter DEF Parts, Critical
<1>5. \A p \in Doc : ~Exempt(p) /\ (Exempt(p)' <=> p = req[c].path)
  BY <1>1, <1>2, <1>4 DEF Exempt, Critical
<1>6. DiskAgrees'
  BY <1>1, <1>2, <1>3, <1>5 DEF Parts, DiskAgrees, Agrees
<1>7. MemoryAgrees'
  BY <1>1, <1>2, <1>3, <1>4 DEF MemoryAgrees, Critical
<1>8. HandlersOK'
  BY <1>1, <1>2, <1>3, <1>4 DEF Parts, HandlersOK, Critical
<1> QED
  BY <1>1, <1>6, <1>7, <1>8 DEF Parts

\* Changing the file of a document and its entry in memory together.
LEMMA IndexFileStep ==
  ASSUME MutexInv, Parts, NEW c \in Client, pc[c] \in {"check", "fill"},
         NEW v \in Content, NEW e \in Nat, NEW m \in Meta,
         now' > 0, now' \in Nat,
         m.docs = meta[Own(c)].docs, v # Torn, e # None <=> v # NoFile,
         Goto(c, "own"), UNCHANGED <<meta, req, todo, open>>,
         file' = [file EXCEPT ![req[c].path] = v],
         buf' = [buf EXCEPT ![c][Own(c)] = WithDoc(m, Last(req[c].path), e, now')]
  PROVE  Parts'
<1>1. pc' = [pc EXCEPT ![c] = "own"]
  BY DEF Goto
<1>2. /\ req[c].path \in Doc /\ Own(c) \in Folder /\ file \in [Doc -> Content]
      /\ pc \in [Client -> Label] /\ buf \in [Client -> [Folder -> Meta]]
      /\ meta[Own(c)] \in Meta /\ pc[c] \in Critical
  BY WriterPaths DEF MutexInv, TypeInv, TypeOK, Critical
<1>3. \A d \in Client : Rewriting(d) = {} /\ Rewriting(d)' = {} /\ Own(d)' = Own(d)
  BY <1>1, <1>2, OnlyWriter DEF Rewriting, Own, Parts, HandlersOK, Critical
<1>4. \A d \in Client : d # c => pc[d] \notin Critical /\ pc'[d] = pc[d] /\ buf'[d] = buf[d]
  BY <1>1, <1>2, OnlyWriter DEF Parts, Critical
<1>5. \A p \in Doc : (Exempt(p)' <=> p = req[c].path) /\ (Exempt(p) => p = req[c].path)
  BY <1>1, <1>2, <1>4 DEF Exempt, Critical
<1>6. DiskAgrees'
  BY <1>1, <1>2, <1>3, <1>5 DEF Parts, DiskAgrees, Agrees
<1>7. ASSUME NEW p \in Doc, Front(p) = Own(c)
      PROVE  /\ file'[p] # Torn
             /\ Item(WithDoc(m, Last(req[c].path), e, now'), p) # None <=> file'[p] # NoFile
  <2>1. Item(WithDoc(m, Last(req[c].path), e, now'), p)
          = IF Last(p) = Last(req[c].path) THEN e ELSE Item(m, p)
    BY ItemValues
  <2>2. Item(m, p) = Item(meta[Front(p)], p)
    BY <1>7 DEF Item
  <2>3. CASE p = req[c].path
    <3>1. file'[p] = v
      BY <1>2, <2>3
    <3> QED
      BY <2>1, <2>3, <3>1
  <2>4. CASE p # req[c].path
    <3>1. Last(p) # Last(req[c].path)
      BY <1>2, <1>7, <2>4, SameDoc DEF Own
    <3>2. Agrees(meta[Front(p)], p)
      BY <1>3, <1>5, <2>4 DEF Parts, DiskAgrees
    <3>3. file'[p] = file[p]
      BY <1>2, <2>4
    <3> QED
      BY <2>1, <2>2, <3>1, <3>2, <3>3 DEF Agrees
  <2> QED
    BY <2>3, <2>4
<1>8. buf'[c][Own(c)] = WithDoc(m, Last(req[c].path), e, now')
  BY <1>2
<1>9. MemoryAgrees'
  BY <1>1, <1>2, <1>3, <1>4, <1>7, <1>8 DEF MemoryAgrees, Critical, Agrees
<1>10. HandlersOK'
  BY <1>1, <1>2, <1>3, <1>4 DEF Parts, HandlersOK, Critical
<1> QED
  BY <1>6, <1>9, <1>10 DEF Parts

LEMMA IndexPutFill ==
  ASSUME MutexInv, Parts, NEW c \in Client, PutFill(c)
  PROVE  Parts'
<1> DEFINE m == buf[c][Own(c)]
<1>1. pc[c] = "fill" /\ buf[c][Own(c)] = meta[Own(c)] /\ req[c].val \in Value
  BY DEF PutFill, PutAnswer, Parts, HandlersOK
<1>2. now' > 0 /\ now' \in Nat
  BY ClockAssumption DEF PutFill, PutAnswer, Stamp, Parts, MutexInv, TypeInv, TypeOK
<1>3. m \in Meta /\ req[c].val \in Content /\ req[c].val # Torn /\ req[c].val # NoFile
  BY <1>1, WriterPaths, ContentAssumption DEF MutexInv, Critical, Content
<1>4. buf' = [buf EXCEPT ![c][Own(c)] = WithDoc(m, Last(req[c].path), now', now')]
  BY <1>1 DEF PutFill, PutAnswer, MutexInv, TypeInv, TypeOK
<1>5. /\ Goto(c, "own") /\ UNCHANGED <<meta, req, todo, open>>
      /\ file' = [file EXCEPT ![req[c].path] = req[c].val]
  BY DEF PutFill, PutAnswer
<1>6. m.docs = meta[Own(c)].docs /\ (now' # None <=> req[c].val # NoFile)
  BY <1>1, <1>2, <1>3 DEF None
<1> HIDE DEF m
<1> QED
  BY <1>1, <1>2, <1>3, <1>4, <1>5, <1>6, IndexFileStep

LEMMA IndexDeleteUnlink ==
  ASSUME MutexInv, Parts, NEW c \in Client, DeleteUnlink(c)
  PROVE  Parts'
<1>1. pc[c] = "check"
  BY DEF DeleteUnlink, DeleteAllowed, Checks
<1>2. now' > 0 /\ now' \in Nat
  BY ClockAssumption DEF DeleteUnlink, Stamp, Parts, MutexInv, TypeInv, TypeOK
<1>3. meta[Own(c)] \in Meta /\ NoFile \in Content /\ NoFile # Torn /\ None \in Nat
  BY <1>1, WriterPaths, ContentAssumption DEF MutexInv, Critical, Content, None
<1>4. /\ Goto(c, "own") /\ UNCHANGED <<meta, req, todo, open>>
      /\ file' = [file EXCEPT ![req[c].path] = NoFile]
      /\ buf' = [buf EXCEPT ![c][Own(c)] = WithDoc(meta[Own(c)], Last(req[c].path), None, now')]
  BY DEF DeleteUnlink
<1> QED
  BY <1>1, <1>2, <1>3, <1>4, IndexFileStep

\* The folder's metadata file is truncated: what is in memory takes its place.
LEMMA IndexOpenOwn ==
  ASSUME MutexInv, Parts, NEW c \in Client, OpenOwn(c)
  PROVE  Parts'
<1>1. /\ pc[c] = "own" /\ pc' = [pc EXCEPT ![c] = "ownfill"]
      /\ UNCHANGED <<file, now, req, buf, todo, open>>
      /\ meta' = [meta EXCEPT ![Own(c)] = EmptyMeta]
  BY DEF OpenOwn, Goto
<1>2. /\ req[c].path \in Doc /\ Own(c) \in Folder /\ meta \in [Folder -> Meta]
      /\ pc \in [Client -> Label] /\ pc[c] \in Critical
  BY <1>1, WriterPaths DEF MutexInv, TypeInv, TypeOK, Critical
<1>3. /\ Rewriting(c) = {} /\ Rewriting(c)' = {Own(c)}
      /\ \A d \in Client : d # c => Rewriting(d) = {} /\ Rewriting(d)' = {}
      /\ \A d \in Client : Own(d)' = Own(d)
  BY <1>1, <1>2, OnlyWriter DEF Rewriting, Own, Parts, HandlersOK, Critical
<1>4. \A d \in Client : d # c => pc[d] \notin Critical /\ pc'[d] = pc[d]
  BY <1>1, <1>2, OnlyWriter DEF Parts, Critical
<1>5. \A p \in Doc : ~Exempt(p)' /\ (Exempt(p) => Front(p) = Own(c))
  BY <1>1, <1>2, <1>4 DEF Exempt, Critical, Own
<1>6. DiskAgrees'
  <2> SUFFICES ASSUME NEW p \in Doc, Front(p) # Own(c)
               PROVE  Agrees(meta[Front(p)], p)'
    BY <1>3 DEF DiskAgrees
  <2>1. meta'[Front(p)] = meta[Front(p)]
    BY <1>1, <1>2, FolderOfDoc
  <2>2. Agrees(meta[Front(p)], p)
    BY <1>3, <1>5 DEF Parts, DiskAgrees
  <2> QED
    BY <1>1, <2>1, <2>2 DEF Agrees
<1>7. MemoryAgrees'
  <2> SUFFICES ASSUME NEW d \in Client, NEW p \in Doc,
                      Front(p) \in Rewriting(d)' \/ (pc'[d] = "own" /\ Front(p) = Own(d)')
               PROVE  Agrees(buf[d][Front(p)], p)'
    BY DEF MemoryAgrees
  <2>1. d = c /\ Front(p) = Own(c)
    BY <1>1, <1>2, <1>3, <1>4 DEF Critical
  <2>2. Agrees(buf[c][Front(p)], p)
    BY <1>1, <2>1 DEF Parts, MemoryAgrees
  <2> QED
    BY <1>1, <2>1, <2>2 DEF Agrees
<1>8. HandlersOK'
  BY <1>1, <1>2, <1>3, <1>4 DEF Parts, HandlersOK, Critical
<1> QED
  BY <1>1, <1>6, <1>7, <1>8 DEF Parts

LEMMA IndexFillOwn ==
  ASSUME MutexInv, Parts, NEW c \in Client, FillOwn(c)
  PROVE  Parts'
<1>1. /\ pc[c] = "ownfill" /\ pc' = [pc EXCEPT ![c] = "above"]
      /\ UNCHANGED <<file, now, req, buf, open>>
      /\ meta' = [meta EXCEPT ![Own(c)] = buf[c][Own(c)]]
      /\ \E s \in SUBSET Folder : todo' = [todo EXCEPT ![c] = s]
  BY WriterPaths, FolderOfDoc DEF FillOwn, Goto, MutexInv, Critical
<1>2. /\ req[c].path \in Doc /\ Own(c) \in Folder /\ meta \in [Folder -> Meta]
      /\ pc \in [Client -> Label] /\ pc[c] \in Critical /\ todo \in [Client -> SUBSET Folder]
  BY <1>1, WriterPaths DEF MutexInv, TypeInv, TypeOK, Critical
<1>3. /\ Rewriting(c) = {Own(c)} /\ open[c] = {}
      /\ \A d \in Client : Rewriting(d)' = {} /\ Own(d)' = Own(d)
      /\ \A d \in Client : d # c => Rewriting(d) = {}
  BY <1>1, <1>2, OnlyWriter DEF Rewriting, Own, Parts, HandlersOK, Critical
<1>4. \A d \in Client : d # c => pc[d] \notin Critical /\ pc'[d] = pc[d] /\ todo'[d] = todo[d]
  BY <1>1, <1>2, OnlyWriter DEF Parts, Critical
<1>5. \A p \in Doc : ~Exempt(p)
  BY <1>1, <1>2, <1>4 DEF Exempt, Critical
<1>6. DiskAgrees'
  <2> SUFFICES ASSUME NEW p \in Doc
               PROVE  Agrees(meta[Front(p)], p)'
    BY DEF DiskAgrees
  <2>1. CASE Front(p) = Own(c)
    <3>1. Agrees(buf[c][Front(p)], p)
      BY <1>3, <2>1 DEF Parts, MemoryAgrees
    <3> QED
      BY <1>1, <1>2, <2>1, <3>1 DEF Agrees
  <2>2. CASE Front(p) # Own(c)
    <3>1. Agrees(meta[Front(p)], p) /\ meta'[Front(p)] = meta[Front(p)]
      BY <1>1, <1>2, <1>3, <1>5, <2>2, FolderOfDoc DEF Parts, DiskAgrees
    <3> QED
      BY <1>1, <3>1 DEF Agrees
  <2> QED
    BY <2>1, <2>2
<1>7. MemoryAgrees'
  BY <1>1, <1>2, <1>3, <1>4 DEF MemoryAgrees, Critical
<1>8. HandlersOK'
  BY <1>1, <1>2, <1>3, <1>4 DEF Parts, HandlersOK, Critical
<1> QED
  BY <1>1, <1>6, <1>7, <1>8 DEF Parts

\* A folder above, with its metadata read, changed at one subfolder and truncated.
LEMMA IndexOpenAbove ==
  ASSUME MutexInv, Parts, NEW c \in Client, NEW g \in Folder, OpenAbove(c, g)
  PROVE  Parts'
<1>1. /\ pc[c] = "above" /\ g \in todo[c]
      /\ UNCHANGED <<file, now, pc, req>>
      /\ meta' = [meta EXCEPT ![g] = EmptyMeta]
      /\ todo' = [todo EXCEPT ![c] = @ \ {g}]
      /\ open' = [open EXCEPT ![c] = @ \cup {g}]
  BY DEF OpenAbove, NextAbove, Parts, HandlersOK
<1>2. PICK e, t, n :
        e \in Nat /\ t \in Nat /\ buf' = [buf EXCEPT ![c][g] = WithSub(meta[g], n, e, t)]
  <2>1. buf[c][Own(c)].ETag \in Nat /\ None \in Nat
    BY <1>1, WriterPaths, MetaValues DEF MutexInv, Critical, None
  <2> QED
    BY <2>1 DEF OpenAbove
<1>3. /\ meta \in [Folder -> Meta] /\ buf \in [Client -> [Folder -> Meta]]
      /\ open \in [Client -> SUBSET Folder] /\ todo \in [Client -> SUBSET Folder]
      /\ pc[c] \in Critical
  BY <1>1 DEF MutexInv, TypeInv, TypeOK, Critical
<1>4. /\ Rewriting(c) = open[c] /\ Rewriting(c)' = open[c] \cup {g}
      /\ \A d \in Client : Own(d)' = Own(d)
      /\ \A d \in Client : d # c => Rewriting(d) = {} /\ Rewriting(d)' = {}
  BY <1>1, <1>3, OnlyWriter DEF Rewriting, Own, Parts
<1>5. \A d \in Client : d # c => pc[d] \notin Critical /\ open'[d] = open[d] /\ todo'[d] = todo[d]
  BY <1>1, <1>3, OnlyWriter DEF Parts
<1>6. \A p \in Doc : ~Exempt(p) /\ ~Exempt(p)'
  BY <1>1, <1>5 DEF Exempt, Critical
<1>7. g \notin open[c]
  BY <1>1 DEF Parts, HandlersOK
<1>8. DiskAgrees'
  <2> SUFFICES ASSUME NEW p \in Doc, Front(p) \notin open[c], Front(p) # g
               PROVE  Agrees(meta[Front(p)], p)'
    BY <1>4 DEF DiskAgrees
  <2>1. meta'[Front(p)] = meta[Front(p)]
    BY <1>1, <1>3, FolderOfDoc
  <2>2. Agrees(meta[Front(p)], p)
    BY <1>4, <1>6 DEF Parts, DiskAgrees
  <2> QED
    BY <1>1, <2>1, <2>2 DEF Agrees
<1>9. MemoryAgrees'
  <2> SUFFICES ASSUME NEW p \in Doc, Front(p) \in open[c] \cup {g}
               PROVE  Agrees(buf[c][Front(p)], p)'
    BY <1>1, <1>4, <1>5 DEF MemoryAgrees, Critical
  <2>1. CASE Front(p) = g
    <3>1. Agrees(meta[g], p)
      BY <1>4, <1>6, <1>7, <2>1 DEF Parts, DiskAgrees
    <3>2. Item(buf'[c][g], p) = Item(meta[g], p)
      BY <1>2, <1>3, ItemValues
    <3> QED
      BY <1>1, <2>1, <3>1, <3>2 DEF Agrees
  <2>2. CASE Front(p) # g
    <3>1. Agrees(buf[c][Front(p)], p)
      BY <1>4, <2>2 DEF Parts, MemoryAgrees
    <3>2. buf'[c][Front(p)] = buf[c][Front(p)]
      BY <1>2, <1>3, <2>2
    <3> QED
      BY <1>1, <3>1, <3>2 DEF Agrees
  <2> QED
    BY <2>1, <2>2
<1>10. HandlersOK'
  BY <1>1, <1>3, <1>5 DEF Parts, HandlersOK, Critical
<1> QED
  BY <1>1, <1>8, <1>9, <1>10 DEF Parts

LEMMA IndexSkipAbove ==
  ASSUME MutexInv, Parts, NEW c \in Client, NEW g \in Folder, SkipAbove(c, g)
  PROVE  Parts'
<1>1. /\ pc[c] = "above" /\ g \in todo[c]
      /\ UNCHANGED <<file, meta, now, pc, req, open>>
      /\ todo' = [todo EXCEPT ![c] = @ \ {g}]
      /\ buf' = [buf EXCEPT ![c][g] = meta[g]]
  BY DEF SkipAbove, NextAbove, disk
<1>2. /\ buf \in [Client -> [Folder -> Meta]] /\ todo \in [Client -> SUBSET Folder]
      /\ pc[c] \in Critical /\ g \notin open[c]
  BY <1>1 DEF MutexInv, TypeInv, TypeOK, Critical, Parts, HandlersOK
<1>3. \A d \in Client : Own(d)' = Own(d) /\ Rewriting(d)' = Rewriting(d)
  BY <1>1 DEF Rewriting, Own
<1>4. \A d \in Client : d # c => /\ pc[d] \notin Critical /\ Rewriting(d) = {}
                                 /\ buf'[d] = buf[d] /\ todo'[d] = todo[d]
  BY <1>1, <1>2, OnlyWriter DEF Parts
<1>5. DiskAgrees'
  BY <1>1, <1>3 DEF Parts, DiskAgrees, Agrees, Exempt
<1>6. MemoryAgrees'
  <2> SUFFICES ASSUME NEW p \in Doc, Front(p) \in open[c]
               PROVE  Agrees(buf[c][Front(p)], p)'
    BY <1>1, <1>3, <1>4 DEF MemoryAgrees, Critical, Rewriting
  <2>1. Agrees(buf[c][Front(p)], p)
    BY DEF Parts, MemoryAgrees, Rewriting
  <2>2. buf'[c][Front(p)] = buf[c][Front(p)]
    BY <1>1, <1>2
  <2> QED
    BY <1>1, <2>1, <2>2 DEF Agrees
<1>7. HandlersOK'
  BY <1>1, <1>2, <1>4 DEF Parts, HandlersOK, Critical
<1> QED
  BY <1>1, <1>5, <1>6, <1>7 DEF Parts

LEMMA IndexFillAbove ==
  ASSUME MutexInv, Parts, NEW c \in Client, NEW g \in Folder, FillAbove(c, g)
  PROVE  Parts'
<1>1. /\ pc[c] = "above" /\ g \in open[c]
      /\ UNCHANGED <<file, now, pc, req, buf, todo>>
      /\ meta' = [meta EXCEPT ![g] = buf[c][g]]
      /\ open' = [open EXCEPT ![c] = @ \ {g}]
  BY DEF FillAbove, Parts, HandlersOK
<1>2. /\ meta \in [Folder -> Meta] /\ open \in [Client -> SUBSET Folder]
      /\ pc[c] \in Critical
  BY <1>1 DEF MutexInv, TypeInv, TypeOK, Critical
<1>3. /\ Rewriting(c) = open[c] /\ Rewriting(c)' = open[c] \ {g}
      /\ \A d \in Client : Own(d)' = Own(d)
      /\ \A d \in Client : d # c => Rewriting(d) = {} /\ Rewriting(d)' = {}
  BY <1>1, <1>2, OnlyWriter DEF Rewriting, Own, Parts
<1>4. \A d \in Client : d # c => pc[d] \notin Critical /\ open'[d] = open[d]
  BY <1>1, <1>2, OnlyWriter DEF Parts
<1>5. \A p \in Doc : ~Exempt(p) /\ ~Exempt(p)'
  BY <1>1, <1>4 DEF Exempt, Critical
<1>6. DiskAgrees'
  <2> SUFFICES ASSUME NEW p \in Doc, Front(p) \notin open[c] \ {g}
               PROVE  Agrees(meta[Front(p)], p)'
    BY <1>3 DEF DiskAgrees
  <2>1. CASE Front(p) = g
    <3>1. Agrees(buf[c][g], p) /\ meta'[g] = buf[c][g]
      BY <1>1, <1>2, <1>3, <2>1 DEF Parts, MemoryAgrees
    <3> QED
      BY <1>1, <2>1, <3>1 DEF Agrees
  <2>2. CASE Front(p) # g
    <3>1. Agrees(meta[Front(p)], p) /\ meta'[Front(p)] = meta[Front(p)]
      BY <1>1, <1>2, <1>3, <1>5, <2>2, FolderOfDoc DEF Parts, DiskAgrees
    <3> QED
      BY <1>1, <3>1 DEF Agrees
  <2> QED
    BY <2>1, <2>2
<1>7. MemoryAgrees'
  <2> SUFFICES ASSUME NEW p \in Doc, Front(p) \in open[c]
               PROVE  Agrees(buf[c][Front(p)], p)'
    BY <1>1, <1>3, <1>4 DEF MemoryAgrees, Critical
  <2>1. Agrees(buf[c][Front(p)], p)
    BY <1>3 DEF Parts, MemoryAgrees
  <2> QED
    BY <1>1, <2>1 DEF Agrees
<1>8. HandlersOK'
  BY <1>1, <1>2, <1>4 DEF Parts, HandlersOK, Critical
<1> QED
  BY <1>1, <1>6, <1>7, <1>8 DEF Parts

\* The lock is only given back once nothing is truncated.
LEMMA IndexFinish ==
  ASSUME MutexInv, Parts, NEW c \in Client, Finish(c)
  PROVE  Parts'
<1>1. /\ pc[c] = "above" /\ open[c] = {} /\ todo[c] = {}
      /\ UNCHANGED <<file, meta, now, req, buf, todo, open>>
      /\ pc' = [pc EXCEPT ![c] = "answered"]
  BY DEF Finish, UnlockAndAnswer, Answer, Goto
<1>2. pc \in [Client -> Label] /\ pc[c] \in Critical
  BY <1>1 DEF MutexInv, TypeInv, TypeOK, Critical
<1>3. \A d \in Client : Own(d)' = Own(d) /\ Rewriting(d)' = {} /\ Rewriting(d) = {}
  BY <1>1, <1>2, OnlyWriter DEF Rewriting, Own, Parts
<1>4. \A d \in Client : d # c => pc[d] \notin Critical /\ pc'[d] = pc[d]
  BY <1>1, <1>2, OnlyWriter DEF Parts
<1>5. \A p \in Doc : ~Exempt(p) /\ ~Exempt(p)'
  BY <1>1, <1>2, <1>4 DEF Exempt, Critical
<1>6. DiskAgrees'
  BY <1>1, <1>3, <1>5 DEF Parts, DiskAgrees, Agrees
<1>7. MemoryAgrees'
  BY <1>1, <1>2, <1>3, <1>4 DEF MemoryAgrees, Critical
<1>8. HandlersOK'
  BY <1>1, <1>2, <1>4 DEF Parts, HandlersOK, Critical
<1> QED
  BY <1>1, <1>6, <1>7, <1>8 DEF Parts

-----------------------------------------------------------------------------
(* The steps that leave the disk alone.                                    *)

LEMMA IndexAccept ==
  ASSUME MutexInv, Parts, NEW c \in Client, NEW r, NEW l \in {"lock", "read"}, Accept(c, r, l),
         r.op = "put" => r.val \in Value, UNCHANGED <<file, meta, now, buf, open, todo>>
  PROVE  Parts'
<1>1. pc[c] = "idle" /\ Goto(c, l) /\ req' = [req EXCEPT ![c] = r]
  BY DEF Accept
<1>2. req \in [Client -> RequestType]
  BY DEF MutexInv, TypeInv, TypeOK
<1>3. \A d \in Client : d # c => buf'[d] = buf[d] /\ req'[d] = req[d]
  BY <1>1, <1>2
<1>4. req'[c].op = "put" => req'[c].val \in Value
  BY <1>1, <1>2
<1> QED
  BY <1>1, <1>3, <1>4, IdleStep

LEMMA IndexRequest ==
  ASSUME MutexInv, Parts, NEW c \in Client, Request(c)
  PROVE  Parts'
<1>1. CASE RequestPut(c)
  <2>1. PICK p \in Doc, v \in Value, ver \in Versions :
          Accept(c, [op |-> "put", path |-> p, val |-> v, version |-> ver], "lock")
    BY <1>1 DEF RequestPut
  <2>2. UNCHANGED <<file, meta, now, buf, open, todo>>
    BY <1>1 DEF RequestPut, disk
  <2> QED
    BY <2>1, <2>2, IndexAccept
<1>2. CASE RequestDelete(c)
  <2>1. PICK p \in Doc, ver \in Versions :
          Accept(c, [op |-> "delete", path |-> p, val |-> NoFile, version |-> ver], "lock")
    BY <1>2 DEF RequestDelete
  <2>2. UNCHANGED <<file, meta, now, buf, open, todo>>
    BY <1>2 DEF RequestDelete, disk
  <2> QED
    BY <2>1, <2>2, IndexAccept
<1>3. CASE RequestGet(c)
  <2>1. PICK op \in {"get", "head", "list"}, p \in Doc \cup Folder, ver \in Versions \ {Star} :
          Accept(c, [op |-> op, path |-> p, val |-> NoFile, version |-> ver], "read")
    BY <1>3 DEF RequestGet
  <2>2. UNCHANGED <<file, meta, now, buf, open, todo>>
    BY <1>3 DEF RequestGet, disk
  <2> QED
    BY <2>1, <2>2, IndexAccept
<1> QED
  BY <1>1, <1>2, <1>3 DEF Request

LEMMA IndexReturn ==
  ASSUME MutexInv, Parts, NEW c \in Client, Return(c)
  PROVE  Parts'
<1>1. /\ pc[c] = "answered" /\ Goto(c, "idle")
      /\ req' = [req EXCEPT ![c] = NoRequest]
      /\ buf' = [buf EXCEPT ![c] = [f \in Folder |-> EmptyMeta]]
      /\ UNCHANGED <<file, meta, now, open, todo>>
  BY DEF Return, disk
<1>2. req \in [Client -> RequestType] /\ buf \in [Client -> [Folder -> Meta]]
  BY DEF MutexInv, TypeInv, TypeOK
<1>3. \A d \in Client : d # c => buf'[d] = buf[d] /\ req'[d] = req[d]
  BY <1>1, <1>2
<1>4. req'[c].op # "put"
  BY <1>1, <1>2, RequestValues
<1> QED
  BY <1>1, <1>3, <1>4, IdleStep

\* Locks, refusals and reads.
LEMMA IndexOther ==
  ASSUME MutexInv, Parts, ~IOErrors, NEW c \in Client,
         \/ AcquireLock(c) \/ StealLock(c) \/ LockTimeout(c)
         \/ PutRefused(c) \/ PutMkdirThrows(c) \/ PutFails(c)
         \/ DeleteRefused(c) \/ DeleteFails(c)
         \/ GetMeta(c) \/ GetContent(c) \/ GetThrows(c)
         \/ GetAnswer(c) \/ GetRetry(c) \/ GetGivesUp(c)
  PROVE  Parts'
<1>1. CASE AcquireLock(c) \/ StealLock(c) \/ LockTimeout(c)
  <2>1. /\ pc[c] = "lock" /\ (Goto(c, "check") \/ Goto(c, "answered"))
        /\ UNCHANGED <<file, meta, now, req, buf, open, todo>>
    BY <1>1 DEF AcquireLock, StealLock, LockTimeout, Answer, disk
  <2> QED
    BY <2>1, IdleStep DEF Parts, HandlersOK
<1>2. CASE PutRefused(c) \/ PutMkdirThrows(c) \/ PutFails(c)
  <2>1. /\ pc[c] \in {"check", "open"} /\ Goto(c, "answered")
        /\ UNCHANGED <<file, meta, now, req, buf, open, todo>>
    BY <1>2 DEF PutRefused, PutMkdirThrows, PutFails, Checks, UnlockAndAnswer, Answer, disk
  <2> QED
    BY <2>1, IdleStep DEF Parts, HandlersOK
<1>3. CASE DeleteRefused(c) \/ DeleteFails(c)
  <2>1. /\ pc[c] = "check" /\ Goto(c, "answered")
        /\ UNCHANGED <<file, meta, now, req, buf>>
    BY <1>3 DEF DeleteRefused, DeleteFails, DeleteAllowed, Checks, UnlockAndAnswer, Answer
  <2>2. UNCHANGED <<open, todo>>
    BY <1>3, <2>1 DEF DeleteRefused, DeleteFails, Parts, HandlersOK, MutexInv, TypeInv, TypeOK
  <2> QED
    BY <2>1, <2>2, IdleStep DEF Parts, HandlersOK
<1>4. CASE GetMeta(c)
  <2>1. /\ pc[c] = "read"
        /\ Goto(c, "answered") \/ Goto(c, "recheck") \/ Goto(c, "content")
        /\ buf' = [buf EXCEPT ![c][ReadFrom(c)] = meta[ReadFrom(c)]]
        /\ UNCHANGED <<file, meta, now, req, open, todo>>
    BY <1>4 DEF GetMeta, Answer, disk
  <2>2. \A d \in Client : d # c => buf'[d] = buf[d]
    BY <2>1 DEF MutexInv, TypeInv, TypeOK
  <2> QED
    BY <2>1, <2>2, IdleStep DEF Parts, HandlersOK
<1>5. CASE GetContent(c) \/ GetThrows(c) \/ GetAnswer(c) \/ GetRetry(c) \/ GetGivesUp(c)
  <2>1. /\ pc[c] \in {"content", "recheck"}
        /\ Goto(c, "answered") \/ Goto(c, "recheck") \/ Goto(c, "read")
        /\ UNCHANGED <<file, meta, now, req, buf, open, todo>>
    BY <1>5 DEF GetContent, GetThrows, GetAnswer, GetRetry, GetGivesUp, Answer, disk
  <2> QED
    BY <2>1, IdleStep DEF Parts, HandlersOK
<1> QED
  BY <1>1, <1>2, <1>3, <1>4, <1>5

-----------------------------------------------------------------------------
LEMMA StepIndex == MutexInv /\ IndexInv /\ [Next]_vars => IndexInv'
<1> SUFFICES ASSUME MutexInv, IndexInv, [Next]_vars, ~IOErrors, crashes' = 0
             PROVE  Parts'
  BY DEF IndexInv
<1>1. crashes \in Nat
  BY DEF MutexInv, TypeInv, TypeOK
<1>2. CASE Crash
  BY <1>1, <1>2 DEF Crash
<1>3. CASE UNCHANGED vars
  BY <1>3 DEF vars, disk, bounds, IndexInv, Parts, DiskAgrees, MemoryAgrees, HandlersOK,
              Agrees, Exempt, Rewriting, Own
<1>4. ASSUME NEW c \in Client, Request(c)
      PROVE  Parts'
  <2>1. Parts
    BY <1>4 DEF IndexInv, Request, RequestPut, RequestDelete, RequestGet, bounds
  <2> QED
    BY <1>4, <2>1, IndexRequest
<1>5. ASSUME NEW c \in Client, Step(c)
      PROVE  Parts'
  <2>1. UNCHANGED crashes
    BY <1>5 DEF Step, Return, AcquireLock, StealLock, LockTimeout, PutRefused, PutMkdirThrows,
                PutStart, PutOpen, PutFill, PutAnswer, PutFails, DeleteRefused, DeleteUnlink, DeleteFails,
                OpenOwn, FillOwn, Finish, OpenAbove, SkipAbove, FillAbove, AboveFails, GetMeta,
                GetContent, GetThrows, GetAnswer, GetRetry, GetGivesUp, bounds
  <2>2. Parts
    BY <2>1 DEF IndexInv
  <2>3. ASSUME NEW g \in Folder, AboveFails(c, g)
        PROVE  FALSE
    BY <2>3 DEF AboveFails
  <2> QED
    BY <1>5, <2>2, <2>3, IndexReturn, IndexOther, IndexPutStart, IndexPutOpen, IndexPutFill,
       IndexDeleteUnlink, IndexOpenOwn, IndexFillOwn, IndexOpenAbove, IndexSkipAbove,
       IndexFillAbove, IndexFinish DEF Step
<1> QED
  BY <1>2, <1>3, <1>4, <1>5 DEF Next

LEMMA InitIndex == Init => Parts
<1> SUFFICES ASSUME Init
             PROVE  Parts
  OBVIOUS
<1>1. \A c \in Client : pc[c] = "idle" /\ open[c] = {} /\ todo[c] = {} /\ req[c].op # "put"
  BY RequestValues DEF Init
<1>2. \A p \in Doc : Item(meta[Front(p)], p) = None /\ file[p] = NoFile
  BY FolderOfDoc DEF Init, Item, EmptyMeta, NoItems
<1>3. DiskAgrees
  BY <1>2, ContentAssumption DEF DiskAgrees, Agrees
<1>4. MemoryAgrees /\ HandlersOK
  BY <1>1 DEF MemoryAgrees, HandlersOK, Rewriting
<1> QED
  BY <1>3, <1>4 DEF Parts, Init

LEMMA IndexInvariant == Spec => [](MutexInv /\ IndexInv)
<1>1. Init => IndexInv
  BY InitIndex DEF IndexInv
<1> QED
  BY <1>1, MutexInvariant, StepIndex, PTL DEF Spec

\* As long as no write fails and no crash cuts one short, a document is listed in
\* its folder exactly if its file exists, whenever no writer holds the lock.
THEOREM IndexCorrect == Spec => []IndexMatchesDisk
<1>1. MutexInv /\ IndexInv => IndexMatchesDisk
  <2> SUFFICES ASSUME MutexInv, IndexInv, Quiet, NEW p \in Doc
               PROVE  Agrees(meta[Front(p)], p)
    BY DEF IndexMatchesDisk, Agrees
  <2>1. Parts /\ \A c \in Client : pc[c] \notin Critical
    BY DEF IndexInv, Quiet
  <2>2. \A c \in Client : Rewriting(c) = {}
    BY <2>1 DEF Parts, HandlersOK, Rewriting, Critical
  <2>3. ~Exempt(p)
    BY <2>1 DEF Exempt, Critical
  <2> QED
    BY <2>1, <2>2, <2>3 DEF Parts, DiskAgrees
<1> QED
  BY <1>1, IndexInvariant, PTL

-----------------------------------------------------------------------------
(* More about paths.                                                       *)

\* The first and the last part of a path, name by name.
LEMMA PathParts ==
  ASSUME NEW s \in Seq(Name), s # <<>>
  PROVE  /\ Len(s) \in Nat /\ Len(s) > 0
         /\ Front(s) \in Seq(Name) /\ Len(Front(s)) = Len(s) - 1
         /\ \A i \in 1..(Len(s) - 1) : Front(s)[i] = s[i]
         /\ Last(s) = s[Len(s)] /\ Last(s) \in Name
<1>1. Len(s) \in Nat /\ Len(s) > 0
  OBVIOUS
<1>2. /\ SubSeq(s, 1, Len(s) - 1) \in Seq(Name) /\ Len(SubSeq(s, 1, Len(s) - 1)) = Len(s) - 1
      /\ \A i \in 1..(Len(s) - 1) : SubSeq(s, 1, Len(s) - 1)[i] = s[i]
  <2>1. Len(s) - 1 \in 0..Len(s)
    BY <1>1
  <2>2. ASSUME NEW l \in 0..Len(s)
        PROVE  /\ SubSeq(s, 1, l) \in Seq(Name) /\ Len(SubSeq(s, 1, l)) = l
               /\ \A i \in 1..l : SubSeq(s, 1, l)[i] = s[i]
    OBVIOUS
  <2> QED
    BY <2>1, <2>2
<1> QED
  BY <1>1, <1>2 DEF Front, Last

\* The folders above a path.
LEMMA Above ==
  ASSUME NEW p \in Seq(Name)
  PROVE  \A q : q \in traversePath(p) <=>
           q \in Seq(Name) /\ Len(q) < Len(p) /\ \A i \in 1..Len(q) : q[i] = p[i]
<1>1. ASSUME NEW l \in 0..Len(p), SubSeq(p, 1, l) # p
      PROVE  LET q == SubSeq(p, 1, l)
             IN  q \in Seq(Name) /\ Len(q) < Len(p) /\ \A i \in 1..Len(q) : q[i] = p[i]
  <2>1. l < Len(p)
    BY <1>1
  <2> QED
    BY <1>1, <2>1
<1>2. ASSUME NEW q \in Seq(Name), Len(q) < Len(p), \A i \in 1..Len(q) : q[i] = p[i]
      PROVE  q \in traversePath(p)
  <2>1. /\ SubSeq(p, 1, Len(q)) \in Seq(Name) /\ Len(SubSeq(p, 1, Len(q))) = Len(q)
        /\ \A i \in 1..Len(q) : SubSeq(p, 1, Len(q))[i] = p[i]
    BY <1>2
  <2>2. q = SubSeq(p, 1, Len(q)) /\ Len(q) \in 0..Len(p) /\ q # p
    BY <1>2, <2>1
  <2> QED
    BY <2>2 DEF traversePath, Prefixes
<1> QED
  BY <1>1, <1>2 DEF traversePath, Prefixes

LEMMA FolderPaths ==
  /\ Doc \subseteq Seq(Name) \ {<<>>} /\ Folder \subseteq Seq(Name)
  /\ \A p \in Doc : Front(p) \in traversePath(p)
<1>1. Folder \subseteq Seq(Name)
  BY DocAssumption, Above DEF Folder
<1>2. ASSUME NEW p \in Doc PROVE Front(p) \in traversePath(p)
  BY DocAssumption, PathParts, Above
<1> QED
  BY <1>1, <1>2, DocAssumption

\* A path is known by its folder and its name.
LEMMA SamePath ==
  ASSUME NEW s \in Seq(Name) \ {<<>>}, NEW t \in Seq(Name) \ {<<>>},
         Front(s) = Front(t), Last(s) = Last(t)
  PROVE  s = t
<1>1. Len(s) = Len(t) /\ Len(s) \in Nat
  BY PathParts
<1>2. ASSUME NEW k \in 1..Len(s)
      PROVE  s[k] = t[k]
  <2>1. CASE k = Len(s)
    BY <1>1, <2>1, PathParts
  <2>2. CASE k \in 1..(Len(s) - 1)
    BY SMTT(30), <1>1, <2>2, PathParts
  <2> QED
    BY <1>1, <2>1, <2>2
<1> QED
  BY <1>1, <1>2

\* What is above a folder above p is above p.
LEMMA UpAgain ==
  ASSUME NEW p \in Doc, NEW q \in traversePath(p), q # <<>>
  PROVE  /\ q \in Folder /\ q \in Seq(Name) /\ Last(q) \in Name
         /\ Front(q) \in traversePath(p) /\ Front(q) # Front(p)
<1>1. q \in Folder /\ q \in Seq(Name) /\ p \in Seq(Name)
  BY FolderPaths, FolderOfDoc
<1>2. Len(q) < Len(p) /\ \A i \in 1..Len(q) : q[i] = p[i]
  BY <1>1, Above
<1>3. /\ Front(q) \in Seq(Name) /\ Len(Front(q)) = Len(q) - 1 /\ Last(q) \in Name
      /\ \A i \in 1..(Len(q) - 1) : Front(q)[i] = q[i]
  BY <1>1, PathParts
<1>4. Len(Front(p)) = Len(p) - 1
  BY FrontLength
<1>5. Front(q) \in traversePath(p)
  BY <1>1, <1>2, <1>3, Above
<1> QED
  BY <1>1, <1>2, <1>3, <1>4, <1>5

\* The folder in g on the way to p.
Child(g, p) == SubSeq(p, 1, Len(g) + 1)

LEMMA ChildPath ==
  ASSUME NEW p \in Doc, NEW g \in traversePath(p), g # Front(p)
  PROVE  /\ Child(g, p) \in traversePath(p) /\ Child(g, p) # <<>>
         /\ Front(Child(g, p)) = g /\ Last(Child(g, p)) = Toward(g, p)
         /\ Len(Child(g, p)) = Len(g) + 1
<1>1. g \in Seq(Name) /\ p \in Seq(Name) /\ Len(g) < Len(p) /\ \A i \in 1..Len(g) : g[i] = p[i]
  BY FolderPaths, Above
<1>2. Len(Front(p)) = Len(p) - 1 /\ \A i \in 1..(Len(p) - 1) : Front(p)[i] = p[i]
  BY PathParts, FolderPaths
<1>3. Len(g) # Len(p) - 1
  <2>1. Front(p) \in Seq(Name)
    BY PathParts, FolderPaths
  <2> QED
    BY <1>1, <1>2, <2>1
<1> DEFINE k == SubSeq(p, 1, Len(g) + 1)
<1>4. /\ k \in Seq(Name) /\ Len(g) \in Nat /\ Len(k) = Len(g) + 1 /\ \A i \in 1..(Len(g) + 1) : k[i] = p[i]
  BY <1>1, <1>3
<1> HIDE DEF k
<1>5. k \in traversePath(p) /\ k # <<>>
  BY <1>1, <1>3, <1>4, Above
<1>6. Front(k) = g
  <2>1. /\ Front(k) \in Seq(Name) /\ Len(Front(k)) = Len(g)
        /\ \A i \in 1..Len(g) : Front(k)[i] = k[i]
    <3>1. Len(k) - 1 = Len(g)
      BY <1>4
    <3>2. Len(Front(k)) = Len(k) - 1 /\ \A i \in 1..(Len(k) - 1) : Front(k)[i] = k[i]
      BY <1>4, <1>5, PathParts
    <3> QED
      BY <1>4, <1>5, <3>1, <3>2, PathParts
  <2> QED
    BY <1>1, <1>4, <2>1
<1>7. Last(k) = Toward(g, p)
  BY <1>1, <1>4, <1>5, PathParts DEF Toward
<1> QED
  BY <1>4, <1>5, <1>6, <1>7 DEF k, Child

\* A folder has one child on the way to p.
LEMMA OneChild ==
  ASSUME NEW p \in Doc, NEW q \in traversePath(p), q # <<>>, NEW k \in traversePath(p), k # <<>>,
         Front(q) = Front(k)
  PROVE  q = k
<1>1. p \in Seq(Name) /\ q \in Seq(Name) /\ k \in Seq(Name)
      /\ Len(q) < Len(p) /\ (\A i \in 1..Len(q) : q[i] = p[i])
      /\ Len(k) < Len(p) /\ (\A i \in 1..Len(k) : k[i] = p[i])
  BY FolderPaths, Above
<1>2. Len(q) = Len(k)
  BY <1>1, PathParts
<1> QED
  BY <1>1, <1>2

\* What an entry n in folder g stands for.
LEMMA EntryPath ==
  ASSUME NEW g \in Seq(Name), NEW n \in Name
  PROVE  /\ Append(g, n) \in Seq(Name) \ {<<>>}
         /\ Front(Append(g, n)) = g /\ Last(Append(g, n)) = n
         /\ \A p \in Seq(Name) : Append(g, n) \in traversePath(p) => g \in traversePath(p)
         /\ g \in traversePath(Append(g, n))
<1> DEFINE s == Append(g, n)
<1>1. /\ s \in Seq(Name) /\ Len(g) \in Nat /\ Len(s) = Len(g) + 1 /\ s # <<>> /\ s[Len(s)] = n
      /\ \A i \in 1..Len(g) : s[i] = g[i]
  OBVIOUS
<1> HIDE DEF s
<1>2. /\ Front(s) \in Seq(Name) /\ Len(Front(s)) = Len(g) /\ \A i \in 1..Len(g) : Front(s)[i] = s[i]
  <2>1. Len(s) - 1 = Len(g)
    BY <1>1
  <2>2. Len(Front(s)) = Len(s) - 1 /\ \A i \in 1..(Len(s) - 1) : Front(s)[i] = s[i]
    BY <1>1, PathParts
  <2> QED
    BY <1>1, <2>1, <2>2, PathParts
<1>3. Front(s) = g
  BY <1>1, <1>2
<1>4. Last(s) = n
  BY <1>1, PathParts
<1>5. ASSUME NEW p \in Seq(Name), s \in traversePath(p)
      PROVE  g \in traversePath(p)
  <2>1. Len(s) < Len(p) /\ \A i \in 1..Len(s) : s[i] = p[i]
    BY <1>5, Above
  <2> QED
    BY <1>1, <2>1, Above
<1>6. g \in traversePath(s)
  BY <1>1, Above
<1> QED
  BY <1>1, <1>3, <1>4, <1>5, <1>6 DEF s

-----------------------------------------------------------------------------
(* The writers, without I/O errors; crashes may happen.  What a handler    *)
(* knows of the folders it has updated is what their metadata is.          *)

\* m is the metadata of folder f, on disk or in the memory of the handler that
\* rewrites its file.
Current(f, m) ==
  \/ \E c \in Client : f \in Rewriting(c) /\ m = buf[c][f]
  \/ (\A c \in Client : f \notin Rewriting(c)) /\ m = meta[f]

\* A writer has given its document's folder a new ETag; a put has given it to
\* the document, whose file holds the content.
StampOK(c) ==
  /\ buf[c][Own(c)].ETag # None
  /\ req[c].op = "put" => /\ file[req[c].path] = req[c].val
                          /\ ans[c].tag = buf[c][Own(c)].ETag
                          /\ Item(buf[c][Own(c)], req[c].path) = ans[c].tag

\* The folders above that are not to be updated any more.
AboveOK(c) ==
  /\ todo[c] \cap open[c] = {}
  /\ todo[c] \cup open[c] \subseteq traversePath(req[c].path) \ {Own(c)}
  /\ \A g \in traversePath(req[c].path) \ todo[c] :
       /\ Current(g, buf[c][g])
       /\ req[c].op = "put" => buf[c][g].ETag = ans[c].tag

WriterOK(c) ==
  /\ pc[c] # "detached"
  /\ req[c].op = "put" => req[c].val \in Value
  /\ pc[c] # "above" => open[c] = {} /\ todo[c] = {}
  /\ pc[c] \in {"open", "fill"} => req[c].op = "put" /\ buf[c][Own(c)] = meta[Own(c)]
  /\ pc[c] = "open" => NamesTheVersion(c)
  /\ pc[c] \in {"own", "ownfill", "above"} => StampOK(c)
  /\ pc[c] = "above" => AboveOK(c)

Writers == now > 0 /\ \A c \in Client : WriterOK(c)

LEMMA OthersWait ==
  ASSUME MutexInv, Writers, NEW c \in Client, pc[c] \in Critical
  PROVE  \A d \in Client : d # c => /\ pc[d] \notin Critical /\ Rewriting(d) = {}
                                    /\ open[d] = {} /\ todo[d] = {}
BY DEF MutexInv, MutualExclusion, Writers, WriterOK, Rewriting, Critical

\* A step of the handler in the critical section.
LEMMA WriterStep ==
  ASSUME MutexInv, Writers, NEW c \in Client, pc[c] \in Critical,
         \A d \in Client : d # c => /\ pc'[d] = pc[d] /\ req'[d] = req[d]
                                    /\ open'[d] = open[d] /\ todo'[d] = todo[d],
         now' > 0, WriterOK(c)'
  PROVE  Writers'
<1>1. ASSUME NEW d \in Client, d # c
      PROVE  WriterOK(d)'
  <2>1. pc[d] \notin Critical /\ WriterOK(d)
    BY <1>1, OthersWait DEF Writers
  <2> QED
    BY <1>1, <2>1 DEF WriterOK, Critical
<1> QED
  BY <1>1 DEF Writers

\* A handler that is not amid its writes moves to a place outside them.
LEMMA AsideStep ==
  ASSUME MutexInv, Writers, NEW c \in Client, NEW l, Goto(c, l),
         pc[c] \notin {"fill", "own", "ownfill", "above"},
         l \notin {"open", "fill", "own", "ownfill", "above", "detached"},
         UNCHANGED <<file, meta, now, open, todo>>,
         \A d \in Client : d # c => buf'[d] = buf[d] /\ req'[d] = req[d] /\ ans'[d] = ans[d],
         req'[c].op = "put" => req'[c].val \in Value
  PROVE  /\ Writers' /\ \A f, m : Current(f, m)' <=> Current(f, m)
<1>1. pc' = [pc EXCEPT ![c] = l] /\ pc \in [Client -> Label]
  BY DEF Goto, MutexInv, TypeInv, TypeOK
<1>2. open[c] = {} /\ todo[c] = {} /\ Rewriting(c) = {} /\ Rewriting(c)' = {} /\ pc'[c] = l
  BY <1>1 DEF Writers, WriterOK, Rewriting
<1>3. \A d \in Client : d # c => pc'[d] = pc[d] /\ Rewriting(d)' = Rewriting(d) /\ Own(d)' = Own(d)
  BY <1>1 DEF Rewriting, Own
<1>4. \A f, m : Current(f, m)' <=> Current(f, m)
  BY <1>2, <1>3 DEF Current
<1>5. WriterOK(c)'
  BY <1>2 DEF WriterOK
<1>6. ASSUME NEW d \in Client, d # c
      PROVE  WriterOK(d)'
  <2>1. WriterOK(d)
    BY DEF Writers
  <2>2. /\ NamesTheVersion(d)' <=> NamesTheVersion(d)
        /\ StampOK(d)' <=> StampOK(d)
        /\ AboveOK(d)' <=> AboveOK(d)
    BY <1>3, <1>4, <1>6 DEF NamesTheVersion, StampOK, AboveOK
  <2> QED
    BY <1>3, <1>6, <2>1, <2>2 DEF WriterOK
<1> QED
  BY <1>4, <1>5, <1>6 DEF Writers

LEMMA WritersPutStart ==
  ASSUME MutexInv, Writers, NEW c \in Client, PutStart(c)
  PROVE  Writers'
<1>1. /\ pc[c] = "check" /\ req[c].op = "put" /\ pc' = [pc EXCEPT ![c] = "open"]
      /\ UNCHANGED <<file, meta, now, req, todo, open>>
      /\ buf' = [buf EXCEPT ![c][Own(c)] = meta[Own(c)]] /\ ~PutConflict(c)
  BY DEF PutStart, Checks, Goto
<1>2. Own(c) \in Folder /\ pc \in [Client -> Label] /\ buf \in [Client -> [Folder -> Meta]]
  BY <1>1, WriterPaths DEF MutexInv, TypeInv, TypeOK, Critical
<1>3. pc'[c] = "open" /\ buf'[c][Own(c)] = meta[Own(c)] /\ Own(c)' = Own(c)
  BY <1>1, <1>2 DEF Own
<1>4. NamesTheVersion(c)'
  BY <1>1, <1>3 DEF PutConflict, NamesTheVersion
<1>5. WriterOK(c)'
  BY <1>1, <1>3, <1>4 DEF WriterOK, Writers
<1> QED
  BY <1>1, <1>2, <1>5, WriterStep DEF Critical, Writers

LEMMA WritersPutOpen ==
  ASSUME MutexInv, Writers, NEW c \in Client, PutOpen(c)
  PROVE  Writers'
<1>1. /\ pc[c] = "open" /\ pc' = [pc EXCEPT ![c] = "fill"]
      /\ UNCHANGED <<meta, now, req, buf, todo, open>>
  BY DEF PutOpen, Goto
<1>2. pc \in [Client -> Label]
  BY DEF MutexInv, TypeInv, TypeOK
<1>3. WriterOK(c)'
  BY <1>1, <1>2 DEF WriterOK, Writers, Own
<1> QED
  BY <1>1, <1>2, <1>3, WriterStep DEF Critical, Writers

LEMMA WritersFileStep ==
  ASSUME MutexInv, Writers, NEW c \in Client, PutFill(c) \/ DeleteUnlink(c)
  PROVE  Writers'
<1>1. /\ pc[c] \in {"check", "fill"} /\ pc' = [pc EXCEPT ![c] = "own"]
      /\ UNCHANGED <<meta, req, todo, open>> /\ pc[c] \in Critical
  BY DEF PutFill, PutAnswer, DeleteUnlink, DeleteAllowed, Checks, Goto, Critical
<1>2. /\ pc \in [Client -> Label] /\ buf \in [Client -> [Folder -> Meta]] /\ file \in [Doc -> Content]
      /\ ans \in [Client -> AnswerType] /\ now \in Nat
      /\ req[c].path \in Doc /\ Own(c) \in Folder /\ Last(req[c].path) \in Name
      /\ meta[Own(c)] \in Meta /\ buf[c][Own(c)] \in Meta
  BY <1>1, WriterPaths DEF MutexInv, TypeInv, TypeOK
<1>3. now' > 0 /\ now' \in Nat
  BY <1>2, ClockAssumption DEF PutFill, PutAnswer, DeleteUnlink, Stamp, Writers
<1>4. PICK m \in Meta, e \in Nat :
        buf' = [buf EXCEPT ![c][Own(c)] = WithDoc(m, Last(req[c].path), e, now')]
        /\ (PutFill(c) => e = now')
  <2>1. CASE PutFill(c)
    <3>1. buf' = [buf EXCEPT ![c][Own(c)] = WithDoc(buf[c][Own(c)], Last(req[c].path), now', now')]
      BY <1>2, <2>1 DEF PutFill, PutAnswer
    <3> QED
      BY <1>2, <1>3, <2>1, <3>1
  <2>2. CASE DeleteUnlink(c)
    <3>1. buf' = [buf EXCEPT ![c][Own(c)] = WithDoc(meta[Own(c)], Last(req[c].path), None, now')]
      BY <2>2 DEF DeleteUnlink
    <3>2. ~PutFill(c)
      BY <2>2 DEF PutFill, PutAnswer, DeleteUnlink, DeleteAllowed, Checks
    <3> QED
      BY <1>2, <3>1, <3>2 DEF None
  <2> QED
    BY <2>1, <2>2
<1>5. buf'[c][Own(c)] = WithDoc(m, Last(req[c].path), e, now') /\ pc'[c] = "own" /\ Own(c)' = Own(c)
  BY <1>1, <1>2, <1>4 DEF Own
<1>6. buf'[c][Own(c)].ETag = now' /\ Item(buf'[c][Own(c)], req[c].path) = e
  BY <1>2, <1>3, <1>5 DEF WithDoc, Item, Meta
<1>7. StampOK(c)'
  <2>1. CASE PutFill(c)
    <3>1. file'[req[c].path] = req[c].val /\ ans'[c].tag = now'
      BY <1>2, <2>1 DEF PutFill, PutAnswer
    <3> QED
      BY <1>1, <1>3, <1>4, <1>5, <1>6, <2>1, <3>1 DEF StampOK, None
  <2>2. CASE DeleteUnlink(c)
    <3>1. req[c].op = "delete"
      BY <2>2 DEF DeleteUnlink, DeleteAllowed, Checks
    <3> QED
      BY <1>1, <1>3, <1>5, <1>6, <3>1 DEF StampOK, None
  <2> QED
    BY <2>1, <2>2
<1>8. WriterOK(c)'
  BY <1>1, <1>5, <1>7 DEF WriterOK, Writers
<1> QED
  BY <1>1, <1>2, <1>3, <1>8, WriterStep

LEMMA WritersOpenOwn ==
  ASSUME MutexInv, Writers, NEW c \in Client, OpenOwn(c)
  PROVE  Writers'
<1>1. /\ pc[c] = "own" /\ pc' = [pc EXCEPT ![c] = "ownfill"]
      /\ UNCHANGED <<file, now, req, buf, todo, open, ans>>
  BY DEF OpenOwn, Goto
<1>2. pc \in [Client -> Label]
  BY DEF MutexInv, TypeInv, TypeOK
<1>3. WriterOK(c)'
  BY <1>1, <1>2 DEF WriterOK, Writers, StampOK, Own
<1> QED
  BY <1>1, <1>2, <1>3, WriterStep DEF Critical, Writers

LEMMA WritersFillOwn ==
  ASSUME MutexInv, Writers, NEW c \in Client, FillOwn(c)
  PROVE  Writers'
<1>1. /\ pc[c] = "ownfill" /\ pc' = [pc EXCEPT ![c] = "above"]
      /\ UNCHANGED <<file, now, req, buf, open, ans>>
      /\ meta' = [meta EXCEPT ![Own(c)] = buf[c][Own(c)]]
      /\ todo' = [todo EXCEPT ![c] = traversePath(req[c].path) \ {Own(c)}]
  BY DEF FillOwn, Goto
<1>2. /\ pc \in [Client -> Label] /\ meta \in [Folder -> Meta] /\ Own(c) \in Folder
      /\ todo \in [Client -> SUBSET Folder] /\ pc[c] \in Critical
  BY <1>1, WriterPaths DEF MutexInv, TypeInv, TypeOK, Critical
<1>3. /\ pc'[c] = "above" /\ open'[c] = {} /\ todo'[c] = traversePath(req[c].path) \ {Own(c)}
      /\ meta'[Own(c)] = buf[c][Own(c)] /\ Own(c)' = Own(c)
  BY <1>1, <1>2 DEF Writers, WriterOK, Own
<1>4. \A d \in Client : Rewriting(d)' = {}
  BY <1>1, <1>2, <1>3, OthersWait DEF Rewriting, Critical
<1>5. Current(Own(c), buf[c][Own(c)])'
  BY <1>1, <1>3, <1>4 DEF Current
<1>6. StampOK(c) /\ StampOK(c)'
  BY <1>1, <1>3 DEF StampOK, Writers, WriterOK
<1>7. AboveOK(c)'
  BY <1>1, <1>3, <1>5, <1>6 DEF AboveOK, StampOK
<1>8. WriterOK(c)'
  BY <1>1, <1>3, <1>6, <1>7 DEF WriterOK, Writers
<1> QED
  BY <1>1, <1>2, <1>8, WriterStep DEF Writers

\* What is current of the folders a handler updates, while it alone is writing.
LEMMA CurrentAbove ==
  ASSUME MutexInv, Writers, NEW c \in Client, pc[c] = "above", NEW f, NEW m
  PROVE  Current(f, m) <=> m = IF f \in open[c] THEN buf[c][f] ELSE meta[f]
<1>1. Rewriting(c) = open[c] /\ \A d \in Client : d # c => Rewriting(d) = {}
  BY OthersWait DEF Rewriting, Critical
<1> QED
  BY <1>1 DEF Current

LEMMA WritersOpenAbove ==
  ASSUME MutexInv, Writers, NEW c \in Client, NEW g \in Folder, OpenAbove(c, g)
  PROVE  Writers'
<1> DEFINE p == req[c].path
<1>1. /\ pc[c] = "above" /\ g \in todo[c]
      /\ UNCHANGED <<file, now, pc, req, ans>>
      /\ meta' = [meta EXCEPT ![g] = EmptyMeta]
      /\ todo' = [todo EXCEPT ![c] = @ \ {g}]
      /\ open' = [open EXCEPT ![c] = @ \cup {g}]
  BY DEF OpenAbove, NextAbove, Writers, WriterOK
<1>2. /\ meta \in [Folder -> Meta] /\ buf \in [Client -> [Folder -> Meta]]
      /\ open \in [Client -> SUBSET Folder] /\ todo \in [Client -> SUBSET Folder]
      /\ pc[c] \in Critical
  BY <1>1 DEF MutexInv, TypeInv, TypeOK, Critical
<1>3. PICK n, e : buf' = [buf EXCEPT ![c][g] = WithSub(meta[g], n, e, buf[c][Own(c)].ETag)]
  BY DEF OpenAbove
<1>4. WriterOK(c) /\ StampOK(c) /\ AboveOK(c)
  BY <1>1 DEF Writers, WriterOK
<1>5. /\ g # Own(c) /\ Own(c)' = Own(c) /\ todo'[c] = todo[c] \ {g} /\ open'[c] = open[c] \cup {g}
      /\ \A h \in Folder : h # g => buf'[c][h] = buf[c][h] /\ meta'[h] = meta[h]
  BY <1>1, <1>2, <1>3, <1>4 DEF AboveOK, Own
<1>6. Own(c) \in Folder /\ traversePath(p) \subseteq Folder /\ meta[g] \in Meta
  BY <1>2, WriterPaths, FolderOfDoc DEF MutexInv
<1>7. StampOK(c)'
  BY <1>1, <1>4, <1>5, <1>6 DEF StampOK
<1>8. \A d \in Client : d # c => Rewriting(d)' = {} /\ open'[d] = open[d] /\ todo'[d] = todo[d]
  BY <1>1, <1>2, OthersWait DEF Rewriting, Critical
<1>9. Rewriting(c)' = open[c] \cup {g}
  BY <1>1, <1>5 DEF Rewriting
<1>10. ASSUME NEW h \in traversePath(p) \ (todo[c] \ {g})
       PROVE  /\ Current(h, buf[c][h])'
              /\ req[c].op = "put" => buf'[c][h].ETag = ans[c].tag
  <2>1. CASE h = g
    <3>1. buf'[c][g].ETag = buf[c][Own(c)].ETag
      BY <1>2, <1>3, <1>6 DEF WithSub, Meta
    <3> QED
      BY <1>4, <1>9, <2>1, <3>1 DEF Current, StampOK
  <2>2. CASE h # g
    <3>1. buf'[c][h] = buf[c][h] /\ meta'[h] = meta[h]
      BY <1>5, <1>6, <2>2
    <3>2. Current(h, buf[c][h]) /\ (req[c].op = "put" => buf[c][h].ETag = ans[c].tag)
      BY <1>4, <2>2 DEF AboveOK
    <3>3. h \in open[c] \/ meta[h] = buf[c][h]
      BY <1>1, <3>2, CurrentAbove
    <3> QED
      BY <1>8, <1>9, <2>2, <3>1, <3>2, <3>3 DEF Current
  <2> QED
    BY <2>1, <2>2
<1>11. AboveOK(c)'
  BY <1>1, <1>4, <1>5, <1>10 DEF AboveOK
<1>12. WriterOK(c)'
  BY <1>1, <1>4, <1>7, <1>11 DEF WriterOK
<1> QED
  BY <1>1, <1>2, <1>8, <1>12, WriterStep DEF Writers

LEMMA WritersSkipAbove ==
  ASSUME MutexInv, Writers, NEW c \in Client, NEW g \in Folder, SkipAbove(c, g)
  PROVE  Writers'
<1> DEFINE p == req[c].path
<1>1. /\ pc[c] = "above" /\ g \in todo[c] /\ req[c].op = "delete"
      /\ UNCHANGED <<file, meta, now, pc, req, open, ans>>
      /\ todo' = [todo EXCEPT ![c] = @ \ {g}]
      /\ buf' = [buf EXCEPT ![c][g] = meta[g]]
  BY DEF SkipAbove, NextAbove, disk
<1>2. /\ buf \in [Client -> [Folder -> Meta]] /\ todo \in [Client -> SUBSET Folder]
      /\ pc[c] \in Critical
  BY <1>1 DEF MutexInv, TypeInv, TypeOK, Critical
<1>3. WriterOK(c) /\ StampOK(c) /\ AboveOK(c)
  BY <1>1 DEF Writers, WriterOK
<1>4. /\ g # Own(c) /\ Own(c)' = Own(c) /\ todo'[c] = todo[c] \ {g} /\ g \notin open[c]
      /\ buf'[c][g] = meta[g] /\ \A h \in Folder : h # g => buf'[c][h] = buf[c][h]
  BY <1>1, <1>2, <1>3 DEF AboveOK, Own
<1>5. Own(c) \in Folder /\ traversePath(p) \subseteq Folder
  BY <1>2, WriterPaths, FolderOfDoc DEF MutexInv
<1>6. StampOK(c)'
  BY <1>1, <1>3, <1>4, <1>5 DEF StampOK
<1>7. /\ Rewriting(c)' = open[c]
      /\ \A d \in Client : d # c => Rewriting(d)' = {} /\ todo'[d] = todo[d]
  BY <1>1, <1>2, OthersWait DEF Rewriting, Critical
<1>8. ASSUME NEW h \in traversePath(p) \ (todo[c] \ {g})
      PROVE  Current(h, buf[c][h])'
  <2>1. CASE h = g
    BY <1>1, <1>4, <1>7, <2>1 DEF Current
  <2>2. CASE h # g
    <3>1. buf'[c][h] = buf[c][h]
      BY <1>4, <1>5, <2>2
    <3>2. h \in open[c] \/ meta[h] = buf[c][h]
      BY <1>1, <1>3, <2>2, CurrentAbove DEF AboveOK
    <3> QED
      BY <1>1, <1>7, <2>2, <3>1, <3>2 DEF Current
  <2> QED
    BY <2>1, <2>2
<1>9. AboveOK(c)'
  BY <1>1, <1>3, <1>4, <1>8 DEF AboveOK
<1>10. WriterOK(c)'
  BY <1>1, <1>3, <1>6, <1>9 DEF WriterOK
<1> QED
  BY <1>1, <1>2, <1>7, <1>10, WriterStep DEF Writers

LEMMA WritersFillAbove ==
  ASSUME MutexInv, Writers, NEW c \in Client, NEW g \in Folder, FillAbove(c, g)
  PROVE  Writers'
<1> DEFINE p == req[c].path
<1>1. /\ pc[c] = "above" /\ g \in open[c]
      /\ UNCHANGED <<file, now, pc, req, buf, todo, ans>>
      /\ meta' = [meta EXCEPT ![g] = buf[c][g]]
      /\ open' = [open EXCEPT ![c] = @ \ {g}]
  BY DEF FillAbove, Writers, WriterOK
<1>2. /\ meta \in [Folder -> Meta] /\ open \in [Client -> SUBSET Folder]
      /\ pc[c] \in Critical
  BY <1>1 DEF MutexInv, TypeInv, TypeOK, Critical
<1>3. WriterOK(c) /\ StampOK(c) /\ AboveOK(c)
  BY <1>1 DEF Writers, WriterOK
<1>4. /\ Own(c)' = Own(c) /\ open'[c] = open[c] \ {g} /\ meta'[g] = buf[c][g]
      /\ \A h \in Folder : h # g => meta'[h] = meta[h]
  BY <1>1, <1>2 DEF Own
<1>5. traversePath(p) \subseteq Folder
  BY <1>2, WriterPaths, FolderOfDoc DEF MutexInv
<1>6. StampOK(c)'
  BY <1>1, <1>3, <1>4 DEF StampOK
<1>7. /\ Rewriting(c)' = open[c] \ {g}
      /\ \A d \in Client : d # c => Rewriting(d)' = {} /\ open'[d] = open[d]
  BY <1>1, <1>2, OthersWait DEF Rewriting, Critical
<1>8. ASSUME NEW h \in traversePath(p) \ todo[c]
      PROVE  Current(h, buf[c][h])'
  <2>1. CASE h = g
    BY <1>1, <1>4, <1>7, <2>1 DEF Current
  <2>2. CASE h # g
    <3>1. meta'[h] = meta[h]
      BY <1>4, <1>5, <2>2
    <3>2. h \in open[c] \/ meta[h] = buf[c][h]
      BY <1>1, <1>3, <2>2, CurrentAbove DEF AboveOK
    <3> QED
      BY <1>1, <1>7, <2>2, <3>1, <3>2 DEF Current
  <2> QED
    BY <2>1, <2>2
<1>9. AboveOK(c)'
  BY <1>1, <1>3, <1>4, <1>8 DEF AboveOK
<1>10. WriterOK(c)'
  BY <1>1, <1>3, <1>6, <1>9 DEF WriterOK
<1> QED
  BY <1>1, <1>2, <1>7, <1>10, WriterStep DEF Writers

LEMMA WritersFinish ==
  ASSUME MutexInv, Writers, NEW c \in Client, Finish(c)
  PROVE  Writers'
<1>1. /\ pc[c] = "above" /\ open[c] = {} /\ todo[c] = {} /\ pc' = [pc EXCEPT ![c] = "answered"]
      /\ UNCHANGED <<now, req, todo, open>>
  BY DEF Finish, UnlockAndAnswer, Answer, Goto
<1>2. pc \in [Client -> Label]
  BY DEF MutexInv, TypeInv, TypeOK
<1>3. WriterOK(c)'
  BY <1>1, <1>2 DEF WriterOK, Writers
<1> QED
  BY <1>1, <1>2, <1>3, WriterStep DEF Critical, Writers

\* Steps of a handler outside its writes.
Aside(c) ==
  /\ pc[c] \notin {"fill", "own", "ownfill", "above"}
  /\ \E l \in Label \ {"open", "fill", "own", "ownfill", "above", "detached"} : Goto(c, l)
  /\ UNCHANGED <<dirs, file, meta, now, open, todo>>
  /\ \A d \in Client : d # c => buf'[d] = buf[d] /\ req'[d] = req[d] /\ ans'[d] = ans[d]
  /\ req'[c].op = "put" => req'[c].val \in Value

LEMMA AsideAccept ==
  ASSUME MutexInv, NEW c \in Client, NEW r, NEW l \in {"lock", "read"}, Accept(c, r, l),
         r.op = "put" => r.val \in Value, UNCHANGED <<disk, now, buf, todo, open, ans>>
  PROVE  Aside(c)
<1>1. req \in [Client -> RequestType]
  BY DEF MutexInv, TypeInv, TypeOK
<1>2. req' = [req EXCEPT ![c] = r] /\ Goto(c, l) /\ pc[c] = "idle"
  BY DEF Accept
<1> QED
  BY <1>1, <1>2 DEF Aside, disk, Label

LEMMA AsideRequest ==
  ASSUME MutexInv, Writers, NEW c \in Client, Request(c) \/ Return(c)
  PROVE  Aside(c)
<1>1. req \in [Client -> RequestType] /\ buf \in [Client -> [Folder -> Meta]]
      /\ ans \in [Client -> AnswerType]
  BY DEF MutexInv, TypeInv, TypeOK
<1>2. CASE Request(c)
  <2>1. UNCHANGED <<disk, now, buf, todo, open, ans>>
    BY <1>2 DEF Request, RequestPut, RequestDelete, RequestGet
  <2>2. CASE RequestPut(c)
    <3>1. PICK p \in Doc, v \in Value, ver \in Versions :
            Accept(c, [op |-> "put", path |-> p, val |-> v, version |-> ver], "lock")
      BY <2>2 DEF RequestPut
    <3> QED
      BY <2>1, <3>1, AsideAccept
  <2>3. CASE RequestDelete(c)
    <3>1. PICK p \in Doc, ver \in Versions :
            Accept(c, [op |-> "delete", path |-> p, val |-> NoFile, version |-> ver], "lock")
      BY <2>3 DEF RequestDelete
    <3> QED
      BY <2>1, <3>1, AsideAccept
  <2>4. CASE RequestGet(c)
    <3>1. PICK op \in {"get", "head", "list"}, p \in Doc \cup Folder, ver \in Versions \ {Star} :
            Accept(c, [op |-> op, path |-> p, val |-> NoFile, version |-> ver], "read")
      BY <2>4 DEF RequestGet
    <3>2. op # "put"
      OBVIOUS
    <3> QED
      BY <2>1, <3>1, <3>2, AsideAccept
  <2> QED
    BY <1>2, <2>2, <2>3, <2>4 DEF Request
<1>3. CASE Return(c)
  <2>1. /\ pc[c] = "answered" /\ Goto(c, "idle")
        /\ req' = [req EXCEPT ![c] = NoRequest]
        /\ buf' = [buf EXCEPT ![c] = [f \in Folder |-> EmptyMeta]]
        /\ ans' = [ans EXCEPT ![c] = NoAnswer]
        /\ UNCHANGED <<dirs, file, meta, now, open, todo>>
    BY <1>3 DEF Return, disk
  <2>2. req'[c].op # "put"
    BY <1>1, <2>1, RequestValues
  <2> QED
    BY <1>1, <2>1, <2>2 DEF Aside, Label
<1> QED
  BY <1>2, <1>3

\* Locks, refusals and reads.
LEMMA AsideOther ==
  ASSUME MutexInv, Writers, ~IOErrors, NEW c \in Client,
         \/ AcquireLock(c) \/ StealLock(c) \/ LockTimeout(c)
         \/ PutRefused(c) \/ PutMkdirThrows(c) \/ PutFails(c)
         \/ DeleteRefused(c) \/ DeleteFails(c)
         \/ GetMeta(c) \/ GetContent(c) \/ GetThrows(c)
         \/ GetAnswer(c) \/ GetRetry(c) \/ GetGivesUp(c)
  PROVE  Aside(c)
<1>0. /\ buf \in [Client -> [Folder -> Meta]] /\ ans \in [Client -> AnswerType]
      /\ WriterOK(c)
  BY DEF MutexInv, TypeInv, TypeOK, Writers
<1>1. CASE AcquireLock(c) \/ StealLock(c)
  <2>1. /\ pc[c] = "lock" /\ Goto(c, "check")
        /\ UNCHANGED <<dirs, file, meta, now, req, buf, open, todo, ans>>
    BY <1>1 DEF AcquireLock, StealLock, disk
  <2> QED
    BY <1>0, <2>1 DEF Aside, WriterOK, Label, Critical
<1>2. CASE LockTimeout(c) \/ PutRefused(c) \/ PutMkdirThrows(c) \/ PutFails(c)
           \/ GetThrows(c) \/ GetAnswer(c) \/ GetGivesUp(c)
  <2>1. PICK a : /\ pc[c] \in {"lock", "check", "open", "content", "recheck"} /\ Answer(c, a)
                 /\ UNCHANGED <<dirs, file, meta, now, req, buf, open, todo>>
    BY <1>2 DEF LockTimeout, PutRefused, PutMkdirThrows, PutFails, Checks, UnlockAndAnswer,
                GetThrows, GetAnswer, GetGivesUp, disk
  <2> QED
    BY <1>0, <2>1 DEF Aside, Answer, WriterOK, Label
<1>3. CASE DeleteRefused(c) \/ DeleteFails(c)
  <2>1. PICK a : /\ pc[c] = "check" /\ Answer(c, a)
                 /\ UNCHANGED <<dirs, file, meta, now, req, buf>>
    BY <1>3 DEF DeleteRefused, DeleteFails, DeleteAllowed, Checks, UnlockAndAnswer
  <2>2. open[c] = {} /\ todo[c] = {}
    BY <1>0, <2>1 DEF WriterOK
  <2>3. open \in [Client -> SUBSET Folder] /\ todo \in [Client -> SUBSET Folder]
    BY DEF MutexInv, TypeInv, TypeOK
  <2>4. \/ UNCHANGED <<open, todo>>
        \/ todo' = [todo EXCEPT ![c] = {}] /\ open' = [open EXCEPT ![c] = {}]
    BY <1>3 DEF DeleteRefused, DeleteFails
  <2>5. UNCHANGED <<open, todo>>
    BY <2>2, <2>3, <2>4
  <2> QED
    BY <1>0, <2>1, <2>5 DEF Aside, Answer, WriterOK, Label
<1>4. CASE GetMeta(c)
  <2>1. /\ pc[c] = "read"
        /\ Goto(c, "answered") \/ Goto(c, "recheck") \/ Goto(c, "content")
        /\ buf' = [buf EXCEPT ![c][ReadFrom(c)] = meta[ReadFrom(c)]]
        /\ \E a : ans' = [ans EXCEPT ![c] = a]
        /\ UNCHANGED <<dirs, file, meta, now, req, open, todo>>
    BY <1>4 DEF GetMeta, Answer, disk
  <2> QED
    BY <1>0, <2>1 DEF Aside, WriterOK, Label
<1>5. CASE GetContent(c) \/ GetRetry(c)
  <2>1. /\ pc[c] \in {"content", "recheck"}
        /\ Goto(c, "recheck") \/ Goto(c, "read")
        /\ UNCHANGED <<dirs, file, meta, now, req, buf, open, todo>>
        /\ \A d \in Client : d # c => ans'[d] = ans[d]
    BY <1>0, <1>5 DEF GetContent, GetRetry, disk
  <2> QED
    BY <1>0, <2>1 DEF Aside, WriterOK, Label
<1> QED
  BY <1>1, <1>2, <1>3, <1>4, <1>5

LEMMA WritersAside ==
  ASSUME MutexInv, Writers, NEW c \in Client, Aside(c)
  PROVE  Writers'
BY AsideStep DEF Aside

LEMMA InitWriters == Init => Writers
BY RequestValues DEF Init, Writers, WriterOK

LEMMA StepWriters == ~IOErrors /\ MutexInv /\ Writers /\ [Next]_vars => Writers'
<1> SUFFICES ASSUME ~IOErrors, MutexInv, Writers, [Next]_vars PROVE Writers'
  OBVIOUS
<1>1. CASE Crash
  <2>1. now' = now /\ \A c \in Client : /\ pc'[c] = "idle" /\ open'[c] = {} /\ todo'[c] = {}
                                         /\ req'[c].op # "put"
    BY <1>1, RequestValues DEF Crash
  <2> QED
    BY <2>1 DEF Writers, WriterOK
<1>2. CASE UNCHANGED vars
  BY <1>2 DEF vars, disk, bounds, Writers, WriterOK, StampOK, AboveOK, NamesTheVersion, Current,
              Rewriting, Own
<1>3. ASSUME NEW c \in Client, Step(c)
      PROVE  Writers'
  <2>1. ASSUME NEW g \in Folder, AboveFails(c, g)
        PROVE  FALSE
    BY <2>1 DEF AboveFails
  <2> QED
    BY <1>3, <2>1, AsideRequest, AsideOther, WritersAside, WritersPutStart, WritersPutOpen,
       WritersFileStep, WritersOpenOwn, WritersFillOwn, WritersOpenAbove, WritersSkipAbove,
       WritersFillAbove, WritersFinish DEF Step
<1> QED
  BY <1>1, <1>2, <1>3, AsideRequest, WritersAside DEF Next

LEMMA WritersInvariant == ASSUME ~IOErrors PROVE Spec => [](MutexInv /\ Writers)
BY MutexInvariant, InitWriters, StepWriters, PTL DEF Spec

\* Without I/O errors (a put whose concurrent tasks failed goes on writing with
\* no lock), a PUT or DELETE overwrites no version but the one it names: the
\* index a put compared its version with is still there when it truncates the
\* document's file, crashes and stolen locks notwithstanding.
THEOREM ConditionalWriteCorrect ==
  ASSUME ~IOErrors
  PROVE  Spec => ConditionalWrite
<1>1. ASSUME Writers, [Next]_vars, NEW c \in Client, PutOpen(c) \/ DeleteUnlink(c)
      PROVE  NamesTheVersion(c)
  <2>1. CASE PutOpen(c)
    BY <1>1, <2>1 DEF PutOpen, Writers, WriterOK
  <2>2. CASE DeleteUnlink(c)
    BY <2>2 DEF DeleteUnlink, DeleteAllowed, NamesTheVersion
  <2> QED
    BY <1>1, <2>1, <2>2
<1>2. Writers /\ [Next]_vars
        => [\A c \in Client : PutOpen(c) \/ DeleteUnlink(c) => NamesTheVersion(c)]_vars
  BY <1>1
<1> QED
  BY <1>2, WritersInvariant, PTL DEF Spec, ConditionalWrite

\* The put that answers with an ETag is the one that has written everything.
LEMMA FinishStores ==
  ASSUME MutexInv, Writers, NEW c \in Client, Finish(c), req[c].op = "put"
  PROVE  Stored(c)
<1> DEFINE p == req[c].path
<1>1. /\ pc[c] = "above" /\ open[c] = {} /\ todo[c] = {}
      /\ UNCHANGED <<file, meta>> /\ ans' = [ans EXCEPT ![c] = ans[c]]
  BY DEF Finish, UnlockAndAnswer, Answer
<1>2. ans' = ans /\ Own(c) \in traversePath(p)
  BY <1>1, WriterPaths, FolderPaths DEF MutexInv, TypeInv, TypeOK, Critical, Own
<1>3. StampOK(c) /\ AboveOK(c)
  BY <1>1 DEF Writers, WriterOK
<1>4. \A g \in traversePath(p) : meta[g] = buf[c][g] /\ buf[c][g].ETag = ans[c].tag
  BY <1>1, <1>3, CurrentAbove DEF AboveOK
<1>5. file[p] = req[c].val /\ Item(buf[c][Own(c)], p) = ans[c].tag
  BY <1>3 DEF StampOK
<1> QED
  BY <1>1, <1>2, <1>4, <1>5 DEF Stored, Own

\* Any other end of a put answers without an ETag.
LEMMA OtherEnds ==
  ASSUME ~IOErrors, MutexInv, Writers, [Next]_vars, NEW c \in Client, Ends(c, "put"),
         ans'[c].tag # None
  PROVE  Finish(c)
<1>1. pc \in [Client -> Label] /\ ans \in [Client -> AnswerType] /\ req[c].op = "put"
  BY DEF MutexInv, TypeInv, TypeOK, Ends
<1>2. ~Crash /\ ~UNCHANGED vars
  BY <1>1 DEF Crash, Ends, vars
<1>3. PICK d \in Client : Request(d) \/ Step(d)
  BY <1>2 DEF Next
<1>4. ASSUME NEW g \in Folder, AboveFails(d, g)
      PROVE  FALSE
  BY <1>4 DEF AboveFails
<1>5. UNCHANGED pc \/ \E l : Goto(d, l)
  <2>1. CASE Request(d)
    BY <2>1 DEF Request, RequestPut, RequestDelete, RequestGet, Accept
  <2>2. CASE GetMeta(d)
    BY <2>2 DEF GetMeta, Answer
  <2>3. ASSUME NEW g \in Folder, FillAbove(d, g)
        PROVE  UNCHANGED pc
    BY <2>3 DEF FillAbove, Writers, WriterOK
  <2> QED
    BY <1>3, <1>4, <2>1, <2>2, <2>3
       DEF Step, Return, AcquireLock, StealLock, LockTimeout, PutRefused, PutMkdirThrows,
           PutStart, PutOpen, PutFill, PutAnswer, PutFails, DeleteRefused, DeleteUnlink, DeleteFails,
           OpenOwn, FillOwn, Finish, OpenAbove, SkipAbove, UnlockAndAnswer, Answer,
           GetContent, GetThrows, GetAnswer, GetRetry, GetGivesUp
<1>6. d = c /\ pc[c] # pc'[c] /\ pc'[c] \in {"answered", "detached"}
  BY <1>1, <1>5 DEF Ends, Goto
<1>7. ASSUME LockTimeout(c) \/ PutRefused(c) \/ PutMkdirThrows(c) \/ PutFails(c)
             \/ GetThrows(c) \/ GetGivesUp(c)
      PROVE  FALSE
  <2>1. PICK n : Answer(c, Status(n))
    BY <1>7 DEF LockTimeout, PutRefused, PutMkdirThrows, PutFails, UnlockAndAnswer, GetThrows,
                GetGivesUp
  <2>2. ans'[c].tag = None
    BY <1>1, <2>1 DEF Answer, Status
  <2> QED
    BY <2>2
<1>8. ASSUME DeleteRefused(c) \/ DeleteFails(c) \/ DeleteUnlink(c)
      PROVE  FALSE
  BY <1>1, <1>8 DEF DeleteRefused, DeleteFails, DeleteUnlink, DeleteAllowed, Checks
<1>9. \A l : pc' = [pc EXCEPT ![c] = l] => l \in {"answered", "detached"}
  BY <1>1, <1>6
<1>10. ASSUME Request(c) \/ Return(c)
      PROVE  FALSE
  <2>1. Goto(c, "lock") \/ Goto(c, "read") \/ pc[c] = "answered"
    BY <1>10 DEF Request, RequestPut, RequestDelete, RequestGet, Accept, Return
  <2> QED
    BY <1>9, <2>1 DEF Ends, Goto
<1>11. ASSUME GetMeta(c) \/ GetContent(c) \/ GetRetry(c) \/ GetAnswer(c)
       PROVE  FALSE
  <2>1. pc[c] \in {"read", "content", "recheck"}
    BY <1>11 DEF GetMeta, GetContent, GetRetry, GetAnswer
  <2> QED
    BY <1>1, <2>1 DEF MutexInv, TypeInv, ServesOK
<1>12. ASSUME \/ AcquireLock(c) \/ StealLock(c) \/ PutStart(c) \/ PutOpen(c) \/ PutFill(c)
              \/ OpenOwn(c) \/ FillOwn(c)
       PROVE  FALSE
  BY <1>9, <1>12 DEF AcquireLock, StealLock, PutStart, PutOpen, PutFill, PutAnswer, OpenOwn,
                     FillOwn, Goto
<1>13. ASSUME NEW g \in Folder, OpenAbove(c, g) \/ SkipAbove(c, g) \/ FillAbove(c, g)
       PROVE  FALSE
  BY <1>6, <1>13 DEF OpenAbove, SkipAbove, FillAbove, Writers, WriterOK
<1> QED
  BY <1>3, <1>4, <1>6, <1>7, <1>8, <1>10, <1>11, <1>12, <1>13 DEF Step

\* Without I/O errors, a PUT answered with an ETag has stored its content under
\* that ETag, and every folder above carries it, whatever other handlers did and
\* whatever crashes came before: no stolen or forgotten lock lets a second writer
\* change a folder between put's last write of it and its answer.
THEOREM TaggedPutCorrect ==
  ASSUME ~IOErrors
  PROVE  Spec => TaggedPutIsStored
<1>1. MutexInv /\ Writers /\ [Next]_vars
        => [\A c \in Client : Ends(c, "put") /\ ans'[c].tag # None => Stored(c)]_vars
  BY OtherEnds, FinishStores DEF Ends
<1> QED
  BY <1>1, WritersInvariant, PTL DEF Spec, TaggedPutIsStored

-----------------------------------------------------------------------------
(* The directories.                                                        *)

\* What is above a folder above p is above p, and p's own folder is the last.
LEMMA UpTo ==
  ASSUME NEW p \in Doc
  PROVE  /\ \A g \in traversePath(p) : traversePath(g) \subseteq traversePath(p)
         /\ traversePath(p) \subseteq traversePath(Front(p)) \cup {Front(p)}
<1>1. p \in Seq(Name) /\ Front(p) \in Seq(Name) /\ Len(Front(p)) = Len(p) - 1 /\ Len(p) \in Nat
      /\ (\A i \in 1..(Len(p) - 1) : Front(p)[i] = p[i])
  BY FolderPaths, PathParts
<1>2. ASSUME NEW g \in traversePath(p), NEW q \in traversePath(g)
      PROVE  q \in traversePath(p)
  <2>1. g \in Seq(Name) /\ Len(g) < Len(p) /\ \A i \in 1..Len(g) : g[i] = p[i]
    BY <1>1, Above
  <2>2. q \in Seq(Name) /\ Len(q) < Len(g) /\ \A i \in 1..Len(q) : q[i] = g[i]
    BY <2>1, Above
  <2>3. Len(q) < Len(p) /\ \A i \in 1..Len(q) : q[i] = p[i]
    BY <1>1, <2>1, <2>2
  <2> QED
    BY <1>1, <2>2, <2>3, Above
<1>3. ASSUME NEW q \in traversePath(p), q # Front(p)
      PROVE  q \in traversePath(Front(p))
  <2>1. q \in Seq(Name) /\ Len(q) \in Nat /\ Len(q) < Len(p) /\ \A i \in 1..Len(q) : q[i] = p[i]
    BY <1>1, Above
  <2>2. Len(q) # Len(p) - 1
    BY <1>1, <1>3, <2>1
  <2>3. Len(q) < Len(Front(p)) /\ \A i \in 1..Len(q) : q[i] = Front(p)[i]
    BY <1>1, <2>1, <2>2
  <2> QED
    BY <1>1, <2>1, <2>3, Above
<1> QED
  BY <1>2, <1>3

Amid == {"open", "fill", "own", "ownfill", "above"}

\* A document's file stands in a directory and is none, a folder with an ETag
\* is a directory, and so are the folders above the document of a writer.
DirsOK ==
  /\ \A p \in Doc : file[p] # NoFile => p \notin dirs /\ traversePath(p) \subseteq dirs
  /\ \A f \in Folder : meta[f].ETag # None => {f} \cup traversePath(f) \subseteq dirs
  /\ \A c \in Client : /\ pc[c] \in Amid => traversePath(req[c].path) \subseteq dirs
                       /\ pc[c] = "fill" => req[c].path \notin dirs

\* A step of the handler in the critical section.
LEMMA DirsStep ==
  ASSUME MutexInv, Writers, DirsOK, NEW c \in Client, pc[c] \in Critical,
         NEW l, Goto(c, l) \/ (UNCHANGED pc /\ l = pc[c]), UNCHANGED req,
         \A p \in Doc : file'[p] # NoFile => p \notin dirs' /\ traversePath(p) \subseteq dirs',
         \A f \in Folder : meta'[f].ETag # None => {f} \cup traversePath(f) \subseteq dirs',
         l \in Amid => traversePath(req[c].path) \subseteq dirs',
         l = "fill" => req[c].path \notin dirs'
  PROVE  DirsOK'
<1>1. pc'[c] = l /\ \A d \in Client : d # c => pc'[d] = pc[d]
  BY DEF Goto, MutexInv, TypeInv, TypeOK
<1>2. \A d \in Client : d # c => pc[d] \notin Amid
  BY OthersWait DEF Amid, Critical
<1> QED
  BY <1>1, <1>2 DEF DirsOK, Amid

LEMMA DirsPutStart ==
  ASSUME MutexInv, Writers, DirsOK, NEW c \in Client, PutStart(c)
  PROVE  DirsOK'
<1> DEFINE p == req[c].path
<1>1. pc[c] = "check" /\ Goto(c, "open") /\ UNCHANGED <<file, meta, req>>
  BY DEF PutStart, Checks
<1>2. p \in Doc /\ Own(c) \in Folder /\ pc[c] \in Critical
  BY <1>1, WriterPaths DEF MutexInv, Critical
<1>3. CASE meta[Own(c)].ETag = None
  <2>1. dirs' = dirs \cup traversePath(p)
    BY <1>3 DEF PutStart
  <2>2. \A g \in traversePath(p) \cap Doc : file[g] = NoFile
    BY <1>3 DEF PutStart, MkdirFails
  <2> QED
    BY <1>1, <1>2, <2>1, <2>2, DirsStep DEF DirsOK
<1>4. CASE meta[Own(c)].ETag # None
  <2>1. dirs' = dirs
    BY <1>4 DEF PutStart
  <2>2. traversePath(p) \subseteq dirs
    BY <1>2, <1>4, UpTo DEF DirsOK, Own
  <2> QED
    BY <1>1, <1>2, <2>1, <2>2, DirsStep DEF DirsOK
<1> QED
  BY <1>3, <1>4

LEMMA DirsFileStep ==
  ASSUME MutexInv, Writers, DirsOK, NEW c \in Client,
         PutOpen(c) \/ PutFill(c) \/ DeleteUnlink(c)
  PROVE  DirsOK'
<1> DEFINE p == req[c].path
<1>1. /\ pc[c] \in {"check", "open", "fill"} /\ UNCHANGED <<dirs, meta, req>>
      /\ \E x : file' = [file EXCEPT ![p] = x]
      /\ \E l \in {"fill", "own"} : Goto(c, l) /\ (l = "fill" => PutOpen(c))
  BY DEF PutOpen, PutFill, PutAnswer, DeleteUnlink, DeleteAllowed, Checks
<1>2. p \in Doc /\ Own(c) \in Folder /\ pc[c] \in Critical /\ file \in [Doc -> Content]
  BY <1>1, WriterPaths DEF MutexInv, TypeInv, TypeOK, Critical
<1>3. traversePath(p) \subseteq dirs
  <2>1. CASE PutOpen(c) \/ PutFill(c)
    BY <2>1 DEF PutOpen, PutFill, PutAnswer, DirsOK, Amid
  <2>2. CASE DeleteUnlink(c)
    BY <1>2, <2>2 DEF DeleteUnlink, DirsOK
  <2> QED
    BY <2>1, <2>2
<1>4. p \notin dirs
  <2>1. CASE PutOpen(c) \/ PutFill(c)
    BY <2>1 DEF PutOpen, PutFill, PutAnswer, DirsOK, Amid
  <2>2. CASE DeleteUnlink(c)
    BY <1>2, <2>2 DEF DeleteUnlink, DirsOK
  <2> QED
    BY <2>1, <2>2
<1>5. \A q \in Doc : file'[q] # NoFile => q \notin dirs' /\ traversePath(q) \subseteq dirs'
  BY <1>1, <1>2, <1>3, <1>4 DEF DirsOK
<1>6. \A f \in Folder : meta'[f].ETag # None => {f} \cup traversePath(f) \subseteq dirs'
  BY <1>1 DEF DirsOK
<1> QED
  BY <1>1, <1>2, <1>3, <1>4, <1>5, <1>6, DirsStep

\* Metadata is only written where the directories are.
LEMMA DirsMetaStep ==
  ASSUME MutexInv, Writers, DirsOK, NEW c \in Client,
         \/ OpenOwn(c) \/ FillOwn(c) \/ Finish(c)
         \/ \E g \in Folder : OpenAbove(c, g) \/ SkipAbove(c, g) \/ FillAbove(c, g)
  PROVE  DirsOK'
<1> DEFINE p == req[c].path
<1>1. /\ pc[c] \in {"own", "ownfill", "above"} /\ UNCHANGED <<dirs, file, req>>
      /\ \E l : (Goto(c, l) \/ (UNCHANGED pc /\ l = pc[c])) /\ l # "fill"
  BY DEF OpenOwn, FillOwn, Finish, OpenAbove, SkipAbove, FillAbove, UnlockAndAnswer, Answer, disk,
         Writers, WriterOK
<1>2. p \in Doc /\ Own(c) \in Folder /\ pc[c] \in Critical /\ meta \in [Folder -> Meta]
  BY <1>1, WriterPaths DEF MutexInv, TypeInv, TypeOK, Critical
<1>3. traversePath(p) \subseteq dirs /\ Own(c) \in traversePath(p)
  BY <1>1, <1>2, FolderPaths DEF DirsOK, Amid, Own
<1>4. meta' = meta \/ \E g \in traversePath(p) : \E m : meta' = [meta EXCEPT ![g] = m]
  <2>1. CASE OpenOwn(c) \/ FillOwn(c) \/ Finish(c)
    BY <1>3, <2>1 DEF OpenOwn, FillOwn, Finish
  <2>2. ASSUME NEW g \in Folder, OpenAbove(c, g) \/ SkipAbove(c, g) \/ FillAbove(c, g)
        PROVE  \E h \in traversePath(p) : \E m : meta' = meta \/ meta' = [meta EXCEPT ![h] = m]
    <3>1. g \in todo[c] \cup open[c]
      BY <2>2 DEF OpenAbove, SkipAbove, FillAbove, NextAbove
    <3>2. g \in traversePath(p)
      BY <3>1 DEF Writers, WriterOK, AboveOK
    <3> QED
      BY <2>2, <3>2 DEF OpenAbove, SkipAbove, FillAbove, disk
  <2> QED
    BY <2>1, <2>2
<1>5. \A f \in Folder : meta'[f].ETag # None => {f} \cup traversePath(f) \subseteq dirs'
  <2> SUFFICES ASSUME NEW f \in Folder, meta'[f].ETag # None
               PROVE  {f} \cup traversePath(f) \subseteq dirs
    BY <1>1
  <2>1. CASE f \in traversePath(p)
    BY <1>2, <1>3, <2>1, UpTo
  <2>2. CASE f \notin traversePath(p)
    <3>1. meta'[f] = meta[f]
      BY <1>2, <1>4, <2>2
    <3> QED
      BY <3>1 DEF DirsOK
  <2> QED
    BY <2>1, <2>2
<1>6. \A q \in Doc : file'[q] # NoFile => q \notin dirs' /\ traversePath(q) \subseteq dirs'
  BY <1>1 DEF DirsOK
<1> QED
  BY <1>1, <1>2, <1>3, <1>5, <1>6, DirsStep

LEMMA DirsAside ==
  ASSUME MutexInv, DirsOK, NEW c \in Client, Aside(c)
  PROVE  DirsOK'
<1>1. PICK l \in Label \ {"open", "fill", "own", "ownfill", "above", "detached"} : Goto(c, l)
  BY DEF Aside
<1>2. pc'[c] = l /\ \A d \in Client : d # c => pc'[d] = pc[d] /\ req'[d] = req[d]
  BY <1>1 DEF Goto, Aside, MutexInv, TypeInv, TypeOK
<1>3. UNCHANGED <<dirs, file, meta>>
  BY DEF Aside
<1> QED
  BY <1>2, <1>3 DEF DirsOK, Amid

LEMMA InitDirs == Init => DirsOK
BY DEF Init, DirsOK, EmptyMeta, None, Amid

LEMMA StepDirs == ~IOErrors /\ MutexInv /\ Writers /\ DirsOK /\ [Next]_vars => DirsOK'
<1> SUFFICES ASSUME ~IOErrors, MutexInv, Writers, DirsOK, [Next]_vars PROVE DirsOK'
  OBVIOUS
<1>1. CASE Crash
  BY <1>1 DEF Crash, DirsOK, Amid
<1>2. CASE UNCHANGED vars
  BY <1>2 DEF vars, disk, DirsOK
<1>3. ASSUME NEW c \in Client, Step(c)
      PROVE  DirsOK'
  <2>1. ASSUME NEW g \in Folder, AboveFails(c, g)
        PROVE  FALSE
    BY <2>1 DEF AboveFails
  <2> QED
    BY <1>3, <2>1, AsideRequest, AsideOther, DirsAside, DirsPutStart, DirsFileStep, DirsMetaStep
       DEF Step
<1> QED
  BY <1>1, <1>2, <1>3, AsideRequest, DirsAside DEF Next

-----------------------------------------------------------------------------
(* The folders' entries, without crashes.                                  *)

HasDoc(q) == \E p \in Doc : q \in traversePath(p) /\ file[p] # NoFile

\* Handler c has changed its document's file and will still see to the entry of
\* folder q, above the document, in the folder above q.
Pending(c, q) ==
  /\ q \in traversePath(req[c].path) \ {<<>>}
  /\ \/ pc[c] \in {"fill", "own", "ownfill"}
     \/ pc[c] = "above" /\ Front(q) \in todo[c]

\* Entries of metadata m of folder f are of documents and folders there can be.
Proper(f, m) ==
  \A n \in Name : /\ m.docs[n] # None => Append(f, n) \in Doc
                  /\ m.subs[n] # None => Append(f, n) \in Folder \ {<<>>}

\* The entry of q in the metadata of the folder above; a delete has yet to
\* clear it, or to find that it must stay.
EntryOK(q, m) ==
  /\ (\A c \in Client : ~Pending(c, q)) => (m.subs[Last(q)] # None <=> HasDoc(q))
  /\ (\E c \in Client : Pending(c, q) /\ req[c].op = "delete") => m.subs[Last(q)] # None

FolderOK(f, m) == Proper(f, m) /\ \A q \in Folder \ {<<>>} : Front(q) = f => EntryOK(q, m)

\* A handler that is about to write its own folder's metadata has left alone the
\* entries of the folders in it.
OwnOK(c) == pc[c] = "own" => /\ Proper(Own(c), buf[c][Own(c)])
                             /\ buf[c][Own(c)].subs = meta[Own(c)].subs

Lists == (\A f \in Folder, m \in Meta : Current(f, m) => FolderOK(f, m)) /\ \A c \in Client : OwnOK(c)

\* A step of the handler in the critical section, which is the one that decides
\* what is current and what is pending.
LEMMA ListStep ==
  ASSUME MutexInv, Writers, Writers', NEW c \in Client, pc[c] \in Critical,
         \A d \in Client : d # c => /\ pc'[d] = pc[d] /\ req'[d] = req[d]
                                    /\ open'[d] = open[d] /\ todo'[d] = todo[d],
         OwnOK(c)',
         \A f \in Folder :
           LET m == IF f \in Rewriting(c)' THEN buf'[c][f] ELSE meta'[f]
           IN  Proper(f, m) /\ \A q \in Folder \ {<<>>} : Front(q) = f =>
                 /\ ~Pending(c, q)' => (m.subs[Last(q)] # None <=> HasDoc(q)')
                 /\ Pending(c, q)' /\ req'[c].op = "delete" => m.subs[Last(q)] # None
  PROVE  Lists'
<1>1. \A d \in Client : d # c => pc[d] \notin Critical /\ pc'[d] = pc[d] /\ open'[d] = {}
  BY OthersWait
<1>2. \A d \in Client : d # c => Rewriting(d)' = {} /\ OwnOK(d)'
  BY <1>1 DEF Rewriting, OwnOK, Critical
<1>3. \A d \in Client : d # c => \A q : ~Pending(d, q)'
  BY <1>1 DEF Pending, Critical
<1>4. ASSUME NEW f \in Folder, NEW m \in Meta, Current(f, m)'
      PROVE  FolderOK(f, m)'
  <2>1. m = IF f \in Rewriting(c)' THEN buf'[c][f] ELSE meta'[f]
    BY <1>2, <1>4 DEF Current
  <2>2. Proper(f, m)'
    BY <2>1 DEF Proper
  <2>3. ASSUME NEW q \in Folder \ {<<>>}, Front(q) = f
        PROVE  EntryOK(q, m)'
    BY <1>3, <2>1, <2>3 DEF EntryOK
  <2> QED
    BY <2>2, <2>3 DEF FolderOK
<1> QED
  BY <1>2, <1>4 DEF Lists

\* What is known before such a step.
LEMMA ListBefore ==
  ASSUME MutexInv, Writers, Lists, NEW c \in Client, pc[c] \in Critical, NEW f \in Folder
  PROVE  LET m == IF f \in Rewriting(c) THEN buf[c][f] ELSE meta[f]
         IN  Proper(f, m) /\ \A q \in Folder \ {<<>>} : Front(q) = f =>
               /\ ~Pending(c, q) => (m.subs[Last(q)] # None <=> HasDoc(q))
               /\ Pending(c, q) /\ req[c].op = "delete" => m.subs[Last(q)] # None
<1> DEFINE m == IF f \in Rewriting(c) THEN buf[c][f] ELSE meta[f]
<1>1. \A d \in Client : d # c => Rewriting(d) = {} /\ pc[d] \notin Critical
  BY OthersWait
<1>2. m \in Meta
  BY DEF MutexInv, TypeInv, TypeOK
<1>3. Current(f, m)
  BY <1>1 DEF Current
<1>4. FolderOK(f, m)
  BY <1>2, <1>3 DEF Lists
<1>5. \A d \in Client : d # c => \A q : ~Pending(d, q)
  BY <1>1 DEF Pending, Critical
<1> HIDE DEF m
<1>6. Proper(f, m)
  BY <1>4 DEF FolderOK
<1>7. ASSUME NEW q \in Folder \ {<<>>}, Front(q) = f
      PROVE  /\ ~Pending(c, q) => (m.subs[Last(q)] # None <=> HasDoc(q))
             /\ Pending(c, q) /\ req[c].op = "delete" => m.subs[Last(q)] # None
  <2>1. EntryOK(q, m)
    BY <1>4, <1>7 DEF FolderOK
  <2> QED
    BY <1>5, <2>1 DEF EntryOK
<1> QED
  BY <1>6, <1>7 DEF m

\* A path is the entry with its name in its folder.
LEMMA PathEntry == \A s \in Seq(Name) \ {<<>>} : Append(Front(s), Last(s)) = s
<1> SUFFICES ASSUME NEW s \in Seq(Name) \ {<<>>}
             PROVE  Append(Front(s), Last(s)) = s
  OBVIOUS
<1>1. Front(s) \in Seq(Name) /\ Last(s) \in Name
  BY PathParts
<1> DEFINE t == Append(Front(s), Last(s))
<1>2. t \in Seq(Name) \ {<<>>} /\ Front(t) = Front(s) /\ Last(t) = Last(s)
  BY <1>1, EntryPath
<1> QED
  BY <1>2, SamePath

LEMMA HasDocElsewhere ==
  ASSUME file \in [Doc -> Content], NEW p \in Doc, NEW x, file' = [file EXCEPT ![p] = x],
         NEW q, q \notin traversePath(p)
  PROVE  HasDoc(q)' <=> HasDoc(q)
BY DEF HasDoc

LEMMA ListPutStart ==
  ASSUME MutexInv, Writers, Writers', Lists, NEW c \in Client, PutStart(c)
  PROVE  Lists'
<1>1. /\ pc[c] = "check" /\ pc' = [pc EXCEPT ![c] = "open"] /\ pc[c] \in Critical
      /\ UNCHANGED <<file, meta, req, todo, open>>
  BY DEF PutStart, Checks, Goto, Critical
<1>2. pc \in [Client -> Label]
  BY DEF MutexInv, TypeInv, TypeOK
<1>3. Rewriting(c) = {} /\ Rewriting(c)' = {} /\ OwnOK(c)' /\ \A q : ~Pending(c, q) /\ ~Pending(c, q)'
  BY <1>1, <1>2 DEF Rewriting, OwnOK, Pending, Writers, WriterOK
<1>4. \A q : HasDoc(q)' <=> HasDoc(q)
  BY <1>1 DEF HasDoc
<1>5. \A f \in Folder :
        /\ Proper(f, meta[f])
        /\ \A q \in Folder \ {<<>>} : Front(q) = f => (meta[f].subs[Last(q)] # None <=> HasDoc(q))
  BY <1>1, <1>3, ListBefore
<1> QED
  BY <1>1, <1>2, <1>3, <1>4, <1>5, ListStep

LEMMA ListPutOpen ==
  ASSUME MutexInv, Writers, Writers', Lists, NEW c \in Client, PutOpen(c)
  PROVE  Lists'
<1> DEFINE p == req[c].path
<1>1. /\ pc[c] = "open" /\ pc' = [pc EXCEPT ![c] = "fill"] /\ pc[c] \in Critical
      /\ UNCHANGED <<meta, req, todo, open>> /\ file' = [file EXCEPT ![p] = Torn]
  BY DEF PutOpen, Goto, Critical
<1>2. pc \in [Client -> Label] /\ file \in [Doc -> Content] /\ p \in Doc
  BY <1>1, WriterPaths DEF MutexInv, TypeInv, TypeOK
<1>3. Rewriting(c) = {} /\ Rewriting(c)' = {} /\ OwnOK(c)' /\ req[c].op = "put"
      /\ \A q : ~Pending(c, q) /\ (Pending(c, q)' <=> q \in traversePath(p) \ {<<>>})
  BY <1>1, <1>2 DEF Rewriting, OwnOK, Pending, Writers, WriterOK
<1>4. \A q : q \notin traversePath(p) => (HasDoc(q)' <=> HasDoc(q))
  BY <1>1, <1>2, HasDocElsewhere
<1>5. \A f \in Folder :
        /\ Proper(f, meta[f])
        /\ \A q \in Folder \ {<<>>} : Front(q) = f => (meta[f].subs[Last(q)] # None <=> HasDoc(q))
  BY <1>1, <1>3, ListBefore
<1> QED
  BY <1>1, <1>2, <1>3, <1>4, <1>5, ListStep

LEMMA ListFileStep ==
  ASSUME MutexInv, Writers, Writers', Lists, NEW c \in Client, PutFill(c) \/ DeleteUnlink(c)
  PROVE  Lists'
<1> DEFINE p == req[c].path
<1>1. /\ pc[c] \in {"check", "fill"} /\ pc' = [pc EXCEPT ![c] = "own"] /\ pc[c] \in Critical
      /\ UNCHANGED <<meta, req, todo, open>> /\ \E x : file' = [file EXCEPT ![p] = x]
  BY DEF PutFill, PutAnswer, DeleteUnlink, DeleteAllowed, Checks, Goto, Critical
<1>2. /\ pc \in [Client -> Label] /\ file \in [Doc -> Content] /\ p \in Doc
      /\ buf \in [Client -> [Folder -> Meta]] /\ Own(c) \in Folder /\ Last(p) \in Name
      /\ meta[Own(c)] \in Meta
  BY <1>1, WriterPaths DEF MutexInv, TypeInv, TypeOK
<1>3. Rewriting(c) = {} /\ Rewriting(c)' = {} /\ pc'[c] = "own" /\ Own(c)' = Own(c)
      /\ \A q : Pending(c, q)' <=> q \in traversePath(p) \ {<<>>}
  BY <1>1, <1>2 DEF Rewriting, Pending, Writers, WriterOK, Own
<1>4. \A q : q \notin traversePath(p) => (HasDoc(q)' <=> HasDoc(q)) /\ ~Pending(c, q)
  BY <1>1, <1>2, HasDocElsewhere DEF Pending
<1>5. \A f \in Folder :
        /\ Proper(f, meta[f])
        /\ \A q \in Folder \ {<<>>} : Front(q) = f /\ ~Pending(c, q)
             => (meta[f].subs[Last(q)] # None <=> HasDoc(q))
  BY <1>1, <1>3, ListBefore
<1>6. ASSUME NEW q \in Folder \ {<<>>}, Pending(c, q)', req[c].op = "delete"
      PROVE  meta[Front(q)].subs[Last(q)] # None
  <2>1. DeleteUnlink(c)
    BY <1>6 DEF PutFill, Writers, WriterOK
  <2>2. file[p] # NoFile /\ pc[c] = "check"
    BY <2>1 DEF DeleteUnlink, DeleteAllowed, Checks
  <2>3. HasDoc(q) /\ ~Pending(c, q) /\ Front(q) \in Folder
    BY <1>2, <1>3, <1>6, <2>2, UpAgain, FolderOfDoc DEF HasDoc, Pending
  <2> QED
    BY <1>5, <2>3
<1>7. OwnOK(c)'
  <2>1. \E e, t : buf'[c][Own(c)] = WithDoc(meta[Own(c)], Last(p), e, t)
    <3>1. CASE PutFill(c)
      <4>1. buf'[c][Own(c)] = WithDoc(buf[c][Own(c)], Last(p), now', now')
        BY <1>2, <3>1 DEF PutFill, PutAnswer
      <4>2. buf[c][Own(c)] = meta[Own(c)]
        BY <3>1 DEF PutFill, Writers, WriterOK
      <4> QED
        BY <4>1, <4>2
    <3>2. CASE DeleteUnlink(c)
      BY <1>2, <3>2 DEF DeleteUnlink
    <3> QED
      BY <3>1, <3>2
  <2>2. /\ buf'[c][Own(c)].subs = meta[Own(c)].subs
        /\ \A n \in Name : n # Last(p) => buf'[c][Own(c)].docs[n] = meta[Own(c)].docs[n]
    BY <1>2, <2>1 DEF WithDoc, Meta
  <2>3. Append(Own(c), Last(p)) = p
    BY <1>2, FolderPaths, PathEntry DEF Own
  <2>4. Proper(Own(c), buf'[c][Own(c)])
    BY <1>2, <1>5, <2>2, <2>3 DEF Proper
  <2> QED
    BY <1>1, <1>3, <2>2, <2>4 DEF OwnOK, Proper
<1> QED
  BY <1>1, <1>2, <1>3, <1>4, <1>5, <1>6, <1>7, ListStep

LEMMA ListOpenOwn ==
  ASSUME MutexInv, Writers, Writers', Lists, NEW c \in Client, OpenOwn(c)
  PROVE  Lists'
<1> DEFINE p == req[c].path
<1>1. /\ pc[c] = "own" /\ pc' = [pc EXCEPT ![c] = "ownfill"] /\ pc[c] \in Critical
      /\ UNCHANGED <<file, req, buf, todo, open>>
      /\ meta' = [meta EXCEPT ![Own(c)] = EmptyMeta]
  BY DEF OpenOwn, Goto, Critical
<1>2. /\ pc \in [Client -> Label] /\ meta \in [Folder -> Meta] /\ Own(c) \in Folder
  BY <1>1, WriterPaths DEF MutexInv, TypeInv, TypeOK
<1>3. Rewriting(c) = {} /\ Rewriting(c)' = {Own(c)} /\ OwnOK(c)' /\ OwnOK(c)
      /\ \A q : Pending(c, q)' <=> Pending(c, q)
  BY <1>1, <1>2 DEF Rewriting, OwnOK, Pending, Writers, WriterOK, Own, Lists
<1>4. \A q : HasDoc(q)' <=> HasDoc(q)
  BY <1>1 DEF HasDoc
<1>5. \A f \in Folder :
        /\ Proper(f, meta[f])
        /\ \A q \in Folder \ {<<>>} : Front(q) = f =>
             /\ ~Pending(c, q) => (meta[f].subs[Last(q)] # None <=> HasDoc(q))
             /\ Pending(c, q) /\ req[c].op = "delete" => meta[f].subs[Last(q)] # None
  BY <1>1, <1>3, ListBefore
<1>6. buf[c][Own(c)].subs = meta[Own(c)].subs /\ Proper(Own(c), buf[c][Own(c)])
  BY <1>1, <1>3 DEF OwnOK
<1> QED
  BY <1>1, <1>2, <1>3, <1>4, <1>5, <1>6, ListStep

LEMMA ListFillOwn ==
  ASSUME MutexInv, Writers, Writers', Lists, NEW c \in Client, FillOwn(c)
  PROVE  Lists'
<1> DEFINE p == req[c].path
<1>1. /\ pc[c] = "ownfill" /\ pc' = [pc EXCEPT ![c] = "above"] /\ pc[c] \in Critical
      /\ UNCHANGED <<file, req, buf, open>>
      /\ meta' = [meta EXCEPT ![Own(c)] = buf[c][Own(c)]]
      /\ todo' = [todo EXCEPT ![c] = traversePath(p) \ {Own(c)}]
  BY DEF FillOwn, Goto, Critical
<1>2. /\ pc \in [Client -> Label] /\ meta \in [Folder -> Meta] /\ Own(c) \in Folder /\ p \in Doc
      /\ todo \in [Client -> SUBSET Folder]
  BY <1>1, WriterPaths DEF MutexInv, TypeInv, TypeOK
<1>3. Rewriting(c) = {Own(c)} /\ Rewriting(c)' = {} /\ OwnOK(c)'
  BY <1>1, <1>2 DEF Rewriting, OwnOK, Writers, WriterOK
<1>4. \A q : Pending(c, q)' <=> Pending(c, q)
  <2>1. \A q \in traversePath(p) \ {<<>>} : Front(q) \in traversePath(p) \ {Own(c)}
    BY <1>2, UpAgain DEF Own
  <2> QED
    BY <1>1, <1>2, <2>1 DEF Pending
<1>5. \A q : HasDoc(q)' <=> HasDoc(q)
  BY <1>1 DEF HasDoc
<1>6. \A f \in Folder :
        LET m == IF f = Own(c) THEN buf[c][f] ELSE meta[f]
        IN  Proper(f, m) /\ \A q \in Folder \ {<<>>} : Front(q) = f =>
              /\ ~Pending(c, q) => (m.subs[Last(q)] # None <=> HasDoc(q))
              /\ Pending(c, q) /\ req[c].op = "delete" => m.subs[Last(q)] # None
  BY <1>1, <1>3, ListBefore
<1>7. \A f \in Folder : meta'[f] = IF f = Own(c) THEN buf[c][f] ELSE meta[f]
  BY <1>1, <1>2
<1> QED
  BY <1>1, <1>2, <1>3, <1>4, <1>5, <1>6, <1>7, ListStep

\* Metadata that is empty is that of a folder without documents below it, once
\* the handler that could know better has done with that folder.
LEMMA EmptyFolder ==
  ASSUME MutexInv, Writers, Parts, Lists, NEW c \in Client, pc[c] = "above", open[c] = {},
         NEW k \in Folder, k \notin todo[c]
  PROVE  HasDoc(k) <=> ~(meta[k].docs = NoItems /\ meta[k].subs = NoItems)
<1>1. pc[c] \in Critical /\ Rewriting(c) = {}
  BY DEF Critical, Rewriting
<1>2. \A d \in Client : Rewriting(d) = {} /\ pc[d] \notin {"fill", "own"}
  BY <1>1, OthersWait DEF Critical
<1>3. /\ meta[k] \in Meta /\ Proper(k, meta[k])
      /\ \A q \in Folder \ {<<>>} : Front(q) = k => (meta[k].subs[Last(q)] # None <=> HasDoc(q))
  <2>1. \A q : Front(q) = k => ~Pending(c, q)
    BY DEF Pending
  <2> QED
    BY <1>1, <2>1, ListBefore DEF MutexInv, TypeInv, TypeOK
<1>4. \A p \in Doc : Front(p) = k => (meta[k].docs[Last(p)] # None <=> file[p] # NoFile)
  BY <1>2 DEF Parts, DiskAgrees, Exempt, Agrees, Item
<1>5. ASSUME NEW p \in Doc, k \in traversePath(p), file[p] # NoFile
      PROVE  ~(meta[k].docs = NoItems /\ meta[k].subs = NoItems)
  <2>1. CASE k = Front(p)
    BY <1>4, <1>5, <2>1, FolderOfDoc DEF NoItems
  <2>2. CASE k # Front(p)
    <3> DEFINE q == Child(k, p)
    <3>1. q \in traversePath(p) \ {<<>>} /\ Front(q) = k
      BY <1>5, <2>2, ChildPath
    <3> HIDE DEF q
    <3>2. q \in Folder /\ Last(q) \in Name
      BY <3>1, UpAgain
    <3>3. meta[k].subs[Last(q)] # None
      BY <1>3, <1>5, <3>1, <3>2 DEF HasDoc
    <3> QED
      BY <3>2, <3>3 DEF NoItems
  <2> QED
    BY <2>1, <2>2
<1>6. k \in Seq(Name)
  BY FolderPaths
<1>7. ASSUME NEW n \in Name, meta[k].docs[n] # None
      PROVE  HasDoc(k)
  <2>1. Append(k, n) \in Doc
    BY <1>3, <1>7 DEF Proper
  <2>2. Front(Append(k, n)) = k /\ Last(Append(k, n)) = n /\ k \in traversePath(Append(k, n))
    BY <1>6, EntryPath
  <2> QED
    BY <1>4, <1>7, <2>1, <2>2 DEF HasDoc
<1>8. ASSUME NEW n \in Name, meta[k].subs[n] # None
      PROVE  HasDoc(k)
  <2>1. Append(k, n) \in Folder \ {<<>>}
    BY <1>3, <1>8 DEF Proper
  <2>2. Front(Append(k, n)) = k /\ Last(Append(k, n)) = n
    BY <1>6, EntryPath
  <2>3. HasDoc(Append(k, n))
    BY <1>3, <1>8, <2>1, <2>2
  <2> QED
    BY <1>6, <2>3, EntryPath, FolderPaths DEF HasDoc
<1>9. ASSUME ~HasDoc(k)
      PROVE  meta[k].docs = NoItems /\ meta[k].subs = NoItems
  BY <1>3, <1>7, <1>8, <1>9 DEF Meta, NoItems
<1> QED
  BY <1>5, <1>9 DEF HasDoc

\* What delete sees of the folder below g, before it opens or skips g.
LEMMA DeleteSees ==
  ASSUME MutexInv, Writers, Parts, Lists, NEW c \in Client, pc[c] = "above",
         NEW g \in Folder, NextAbove(c, g), req[c].op = "delete"
  PROVE  HasDoc(Child(g, req[c].path)) <=> ~NothingBelow(c, g)
<1> DEFINE p == req[c].path
           k == Child(g, p)
<1>1. p \in Doc /\ open[c] = {} /\ g \in todo[c] /\ (\A h \in todo[c] : Len(h) <= Len(g))
  BY WriterPaths DEF NextAbove, MutexInv, Critical
<1>2. AboveOK(c) /\ g \in traversePath(p) /\ g # Front(p)
  BY <1>1 DEF Writers, WriterOK, AboveOK, Own
<1>3. k \in traversePath(p) /\ Len(k) = Len(g) + 1 /\ k \in Folder
  BY <1>1, <1>2, ChildPath, FolderOfDoc
<1> HIDE DEF k
<1>4. k \notin todo[c]
  <2>1. Len(g) \in Nat
    BY FolderPaths
  <2> QED
    BY <1>1, <1>3, <2>1
<1>5. buf[c][k] = meta[k]
  BY <1>1, <1>2, <1>3, <1>4, CurrentAbove DEF AboveOK
<1>6. NothingBelow(c, g) <=> meta[k].docs = NoItems /\ meta[k].subs = NoItems
  BY <1>5 DEF NothingBelow, k, Child
<1> QED
  BY <1>1, <1>3, <1>4, <1>6, EmptyFolder DEF k

\* The folder below g on the way to p, and the other folders in g.
LEMMA InFolder ==
  ASSUME NEW p \in Doc, NEW g \in traversePath(p), g # Front(p)
  PROVE  LET k == Child(g, p)
         IN  /\ k \in traversePath(p) \ {<<>>} /\ k \in Folder /\ Front(k) = g
             /\ Last(k) = Toward(g, p) /\ Last(k) \in Name /\ Append(g, Last(k)) = k
             /\ \A q \in Folder \ {<<>>} : Front(q) = g /\ q # k
                  => q \notin traversePath(p) /\ Last(q) # Last(k)
<1> DEFINE k == Child(g, p)
<1>1. /\ k \in traversePath(p) \ {<<>>} /\ Front(k) = g /\ Last(k) = Toward(g, p)
  BY ChildPath
<1> HIDE DEF k
<1>2. k \in Folder /\ k \in Seq(Name) /\ Last(k) \in Name /\ Append(g, Last(k)) = k
  BY <1>1, UpAgain, PathEntry
<1>3. ASSUME NEW q \in Folder \ {<<>>}, Front(q) = g, q # k
      PROVE  q \notin traversePath(p) /\ Last(q) # Last(k)
  BY <1>1, <1>2, <1>3, OneChild, SamePath, FolderPaths
<1> QED
  BY <1>1, <1>2, <1>3 DEF k

LEMMA ListOpenAbove ==
  ASSUME MutexInv, Writers, Writers', Parts, Lists, NEW c \in Client, NEW g \in Folder,
         OpenAbove(c, g)
  PROVE  Lists'
<1> DEFINE p == req[c].path
           k == Child(g, p)
           entry == IF req[c].op = "put" THEN buf[c][Own(c)].ETag ELSE None
<1>1. /\ pc[c] = "above" /\ g \in todo[c] /\ pc[c] \in Critical
      /\ UNCHANGED <<file, pc, req>>
      /\ meta' = [meta EXCEPT ![g] = EmptyMeta]
      /\ todo' = [todo EXCEPT ![c] = @ \ {g}]
      /\ open' = [open EXCEPT ![c] = @ \cup {g}]
      /\ buf' = [buf EXCEPT ![c][g] =
                   WithSub(meta[g], Toward(g, p), entry, buf[c][Own(c)].ETag)]
  BY DEF OpenAbove, NextAbove, Writers, WriterOK, Critical
<1>2. /\ meta \in [Folder -> Meta] /\ buf \in [Client -> [Folder -> Meta]] /\ p \in Doc
      /\ todo \in [Client -> SUBSET Folder] /\ open \in [Client -> SUBSET Folder]
      /\ req[c].op \in {"put", "delete"} /\ meta[g] \in Meta
  BY <1>1, WriterPaths DEF MutexInv, TypeInv, TypeOK, ServesOK
<1>3. StampOK(c) /\ AboveOK(c)
  BY <1>1 DEF Writers, WriterOK
<1>4. g \in traversePath(p) /\ g # Front(p) /\ g \notin open[c]
  BY <1>1, <1>3 DEF AboveOK, Own
<1>5. /\ Rewriting(c) = open[c] /\ Rewriting(c)' = open[c] \cup {g} /\ OwnOK(c)'
      /\ \A q : Front(q) = g => ~Pending(c, q)'
      /\ \A q : Front(q) # g => (Pending(c, q)' <=> Pending(c, q))
  BY <1>1, <1>2 DEF Rewriting, OwnOK, Pending
<1>6. \A q : HasDoc(q)' <=> HasDoc(q)
  BY <1>1 DEF HasDoc
<1>7. /\ k \in traversePath(p) \ {<<>>} /\ k \in Folder /\ Front(k) = g
      /\ Last(k) = Toward(g, p) /\ Last(k) \in Name /\ Append(g, Last(k)) = k
      /\ \A q \in Folder \ {<<>>} : Front(q) = g /\ q # k
           => q \notin traversePath(p) /\ Last(q) # Last(k)
  BY <1>2, <1>4, InFolder
<1>8. entry # None <=> HasDoc(k)
  <2>1. CASE req[c].op = "put"
    <3>1. file[p] # NoFile
      BY <1>1, <1>3, <2>1, ContentAssumption DEF StampOK, Writers, WriterOK
    <3>2. HasDoc(k)
      BY <1>2, <1>7, <3>1 DEF HasDoc
    <3> QED
      BY <1>3, <2>1, <3>2 DEF StampOK
  <2>2. CASE req[c].op = "delete"
    <3>1. NothingBelow(c, g) /\ NextAbove(c, g)
      BY <2>2 DEF OpenAbove
    <3> QED
      BY <1>1, <2>2, <3>1, DeleteSees
  <2> QED
    BY <1>2, <2>1, <2>2
<1> HIDE DEF k, entry
<1>9. /\ Proper(g, meta[g])
      /\ \A q \in Folder \ {<<>>} : Front(q) = g /\ q # k
           => (meta[g].subs[Last(q)] # None <=> HasDoc(q))
  <2>1. \A q : Front(q) = g /\ Pending(c, q) => q \in traversePath(p)
    BY DEF Pending
  <2> QED
    BY <1>1, <1>4, <1>5, <1>7, <2>1, ListBefore
<1>10. /\ buf'[c][g].docs = meta[g].docs
       /\ \A n \in Name : buf'[c][g].subs[n] = IF n = Last(k) THEN entry ELSE meta[g].subs[n]
  BY <1>1, <1>2, <1>7 DEF WithSub, Meta
<1>11. Proper(g, buf'[c][g])
  BY <1>7, <1>9, <1>10 DEF Proper
<1>12. ASSUME NEW q \in Folder \ {<<>>}, Front(q) = g
       PROVE  buf'[c][g].subs[Last(q)] # None <=> HasDoc(q)
  <2>1. Last(q) \in Name
    BY <1>12, PathParts, FolderPaths
  <2> QED
    BY <1>7, <1>8, <1>9, <1>10, <1>12, <2>1
<1>13. ASSUME NEW f \in Folder
       PROVE  LET m == IF f \in Rewriting(c)' THEN buf'[c][f] ELSE meta'[f]
              IN  Proper(f, m) /\ \A q \in Folder \ {<<>>} : Front(q) = f =>
                    /\ ~Pending(c, q)' => (m.subs[Last(q)] # None <=> HasDoc(q)')
                    /\ Pending(c, q)' /\ req'[c].op = "delete" => m.subs[Last(q)] # None
  <2>1. CASE f = g
    BY <1>5, <1>6, <1>11, <1>12, <2>1
  <2>2. CASE f # g
    <3>1. (IF f \in Rewriting(c)' THEN buf'[c][f] ELSE meta'[f])
            = IF f \in Rewriting(c) THEN buf[c][f] ELSE meta[f]
      BY <1>1, <1>2, <1>5, <2>2
    <3> QED
      BY <1>1, <1>5, <1>6, <2>2, <3>1, ListBefore
  <2> QED
    BY <2>1, <2>2
<1> QED
  BY <1>1, <1>2, <1>5, <1>13, ListStep

LEMMA ListSkipAbove ==
  ASSUME MutexInv, Writers, Writers', Parts, Lists, NEW c \in Client, NEW g \in Folder,
         SkipAbove(c, g)
  PROVE  Lists'
<1> DEFINE p == req[c].path
           k == Child(g, p)
<1>1. /\ pc[c] = "above" /\ g \in todo[c] /\ pc[c] \in Critical /\ open[c] = {}
      /\ UNCHANGED <<file, meta, pc, req, open>> /\ req[c].op = "delete"
      /\ todo' = [todo EXCEPT ![c] = @ \ {g}]
  BY DEF SkipAbove, NextAbove, Critical, disk
<1>2. p \in Doc /\ todo \in [Client -> SUBSET Folder]
  BY <1>1, WriterPaths DEF MutexInv, TypeInv, TypeOK
<1>3. g \in traversePath(p) /\ g # Front(p)
  BY <1>1 DEF Writers, WriterOK, AboveOK, Own
<1>4. /\ Rewriting(c) = {} /\ Rewriting(c)' = {} /\ OwnOK(c)'
      /\ \A q : Front(q) = g => ~Pending(c, q)'
      /\ \A q : Front(q) # g => (Pending(c, q)' <=> Pending(c, q))
  BY <1>1, <1>2 DEF Rewriting, OwnOK, Pending
<1>5. \A q : HasDoc(q)' <=> HasDoc(q)
  BY <1>1 DEF HasDoc
<1>6. /\ k \in traversePath(p) \ {<<>>} /\ k \in Folder /\ Front(k) = g
      /\ \A q \in Folder \ {<<>>} : Front(q) = g /\ q # k => q \notin traversePath(p)
  BY <1>2, <1>3, InFolder
<1>7. HasDoc(k)
  BY <1>1, DeleteSees DEF SkipAbove
<1> HIDE DEF k
<1>8. \A f \in Folder :
        /\ Proper(f, meta[f])
        /\ \A q \in Folder \ {<<>>} : Front(q) = f =>
             /\ ~Pending(c, q) => (meta[f].subs[Last(q)] # None <=> HasDoc(q))
             /\ Pending(c, q) => meta[f].subs[Last(q)] # None
  BY <1>1, <1>4, ListBefore
<1>9. ASSUME NEW q \in Folder \ {<<>>}, Front(q) = g
      PROVE  meta[g].subs[Last(q)] # None <=> HasDoc(q)
  <2>1. CASE q = k
    BY <1>1, <1>6, <1>7, <1>8, <1>9, <2>1 DEF Pending
  <2>2. CASE q # k
    BY <1>6, <1>8, <1>9, <2>2 DEF Pending
  <2> QED
    BY <2>1, <2>2
<1> QED
  BY <1>1, <1>2, <1>4, <1>5, <1>8, <1>9, ListStep

LEMMA ListFillAbove ==
  ASSUME MutexInv, Writers, Writers', Lists, NEW c \in Client, NEW g \in Folder, FillAbove(c, g)
  PROVE  Lists'
<1>1. /\ pc[c] = "above" /\ g \in open[c] /\ pc[c] \in Critical
      /\ UNCHANGED <<file, pc, req, buf, todo>>
      /\ meta' = [meta EXCEPT ![g] = buf[c][g]]
      /\ open' = [open EXCEPT ![c] = @ \ {g}]
  BY DEF FillAbove, Writers, WriterOK, Critical
<1>2. /\ meta \in [Folder -> Meta] /\ open \in [Client -> SUBSET Folder]
  BY DEF MutexInv, TypeInv, TypeOK
<1>3. Rewriting(c) = open[c] /\ Rewriting(c)' = open[c] \ {g} /\ OwnOK(c)'
      /\ \A q : (Pending(c, q)' <=> Pending(c, q)) /\ (HasDoc(q)' <=> HasDoc(q))
  BY <1>1, <1>2 DEF Rewriting, OwnOK, Pending, HasDoc
<1>4. ASSUME NEW f \in Folder
      PROVE  (IF f \in Rewriting(c)' THEN buf'[c][f] ELSE meta'[f])
               = IF f \in Rewriting(c) THEN buf[c][f] ELSE meta[f]
  BY <1>1, <1>2, <1>3
<1>5. ASSUME NEW f \in Folder
      PROVE  LET m == IF f \in Rewriting(c)' THEN buf'[c][f] ELSE meta'[f]
             IN  Proper(f, m) /\ \A q \in Folder \ {<<>>} : Front(q) = f =>
                   /\ ~Pending(c, q)' => (m.subs[Last(q)] # None <=> HasDoc(q)')
                   /\ Pending(c, q)' /\ req'[c].op = "delete" => m.subs[Last(q)] # None
  BY <1>1, <1>3, <1>4, ListBefore
<1> QED
  BY <1>1, <1>2, <1>3, <1>5, ListStep

LEMMA ListFinish ==
  ASSUME MutexInv, Writers, Writers', Lists, NEW c \in Client, Finish(c)
  PROVE  Lists'
<1>1. /\ pc[c] = "above" /\ open[c] = {} /\ todo[c] = {} /\ pc' = [pc EXCEPT ![c] = "answered"]
      /\ UNCHANGED <<file, meta, req, buf, todo, open>> /\ pc[c] \in Critical
  BY DEF Finish, UnlockAndAnswer, Answer, Goto, Critical
<1>2. pc \in [Client -> Label]
  BY DEF MutexInv, TypeInv, TypeOK
<1>3. Rewriting(c) = {} /\ Rewriting(c)' = {} /\ OwnOK(c)'
      /\ \A q : ~Pending(c, q)' /\ ~Pending(c, q) /\ (HasDoc(q)' <=> HasDoc(q))
  BY <1>1, <1>2 DEF Rewriting, OwnOK, Pending, HasDoc
<1>4. \A f \in Folder :
        /\ Proper(f, meta[f])
        /\ \A q \in Folder \ {<<>>} : Front(q) = f => (meta[f].subs[Last(q)] # None <=> HasDoc(q))
  BY <1>1, <1>3, ListBefore
<1> QED
  BY <1>1, <1>2, <1>3, <1>4, ListStep

LEMMA ListAside ==
  ASSUME MutexInv, Writers, Lists, NEW c \in Client, Aside(c)
  PROVE  Lists'
<1>1. PICK l \in Label \ {"open", "fill", "own", "ownfill", "above", "detached"} : Goto(c, l)
  BY DEF Aside
<1>2. /\ pc'[c] = l
      /\ \A d \in Client : d # c => pc'[d] = pc[d] /\ req'[d] = req[d] /\ buf'[d] = buf[d]
      /\ UNCHANGED <<file, meta, todo>>
  BY <1>1 DEF Goto, Aside, MutexInv, TypeInv, TypeOK
<1>3. \A f, m : Current(f, m)' <=> Current(f, m)
  BY AsideStep DEF Aside
<1>4. ASSUME NEW d \in Client, NEW q
      PROVE  (Pending(d, q)' <=> Pending(d, q)) /\ (Pending(d, q) => req'[d] = req[d])
  <2>1. CASE d = c
    BY <1>2, <2>1 DEF Pending, Aside
  <2>2. CASE d # c
    BY <1>2, <2>2 DEF Pending
  <2> QED
    BY <2>1, <2>2
<1>5. \A q : HasDoc(q)' <=> HasDoc(q)
  BY <1>2 DEF HasDoc
<1>6. \A f, m : FolderOK(f, m) => FolderOK(f, m)'
  <2>1. \A q, m : EntryOK(q, m) => EntryOK(q, m)'
    BY <1>4, <1>5 DEF EntryOK
  <2> QED
    BY <2>1 DEF FolderOK, Proper
<1>7. \A d \in Client : OwnOK(d)'
  BY <1>2 DEF OwnOK, Own, Proper, Lists
<1> QED
  BY <1>3, <1>6, <1>7 DEF Lists

ListInv == crashes = 0 => Lists

LEMMA InitLists == Init => Lists
<1> SUFFICES ASSUME Init
             PROVE  Lists
  OBVIOUS
<1>1. /\ \A p \in Doc : file[p] = NoFile
      /\ \A f \in Folder : meta[f] = EmptyMeta
      /\ \A c \in Client : pc[c] = "idle" /\ Rewriting(c) = {}
  BY DEF Init, Rewriting
<1>2. \A f \in Folder, m \in Meta : Current(f, m) => m = EmptyMeta
  BY <1>1 DEF Current
<1>3. \A f : Proper(f, EmptyMeta)
  BY DEF Proper, EmptyMeta, NoItems
<1>4. ASSUME NEW q \in Folder \ {<<>>}
      PROVE  EntryOK(q, EmptyMeta)
  <2>1. Last(q) \in Name
    BY PathParts, FolderPaths
  <2>2. EmptyMeta.subs[Last(q)] = None
    BY <2>1 DEF EmptyMeta, NoItems
  <2>3. ~HasDoc(q) /\ \A c \in Client : ~Pending(c, q)
    BY <1>1 DEF HasDoc, Pending
  <2> QED
    BY <2>2, <2>3 DEF EntryOK
<1> QED
  BY <1>1, <1>2, <1>3, <1>4 DEF Lists, FolderOK, OwnOK

LEMMA StepLists ==
  ASSUME ~IOErrors
  PROVE  MutexInv /\ IndexInv /\ Writers /\ Writers' /\ ListInv /\ [Next]_vars => ListInv'
<1> SUFFICES ASSUME MutexInv, IndexInv, Writers, Writers', ListInv, [Next]_vars, crashes' = 0
             PROVE  Lists'
  BY DEF ListInv
<1>1. crashes \in Nat
  BY DEF MutexInv, TypeInv, TypeOK
<1>2. CASE Crash
  BY <1>1, <1>2 DEF Crash
<1>3. CASE UNCHANGED vars
  <2>1. Lists
    BY <1>3 DEF vars, bounds, ListInv
  <2>2. \A f, m : Current(f, m)' <=> Current(f, m)
    BY <1>3 DEF vars, disk, Current, Rewriting, Own
  <2>3. \A q : (HasDoc(q)' <=> HasDoc(q)) /\ \A c \in Client : Pending(c, q)' <=> Pending(c, q)
    BY <1>3 DEF vars, disk, HasDoc, Pending
  <2>4. \A q, m : EntryOK(q, m)' <=> EntryOK(q, m)
    BY <1>3, <2>3 DEF EntryOK, vars
  <2>5. \A c \in Client : OwnOK(c)' <=> OwnOK(c)
    BY <1>3 DEF OwnOK, Own, Proper, vars, disk
  <2> QED
    BY <2>1, <2>2, <2>4, <2>5 DEF Lists, FolderOK, Proper
<1>4. ASSUME NEW c \in Client, Request(c)
      PROVE  Lists'
  <2>1. Lists
    BY <1>4 DEF ListInv, Request, RequestPut, RequestDelete, RequestGet, bounds
  <2> QED
    BY <1>4, <2>1, AsideRequest, ListAside
<1>5. ASSUME NEW c \in Client, Step(c)
      PROVE  Lists'
  <2>1. UNCHANGED crashes
    BY <1>5 DEF Step, Return, AcquireLock, StealLock, LockTimeout, PutRefused, PutMkdirThrows,
                PutStart, PutOpen, PutFill, PutAnswer, PutFails, DeleteRefused, DeleteUnlink, DeleteFails,
                OpenOwn, FillOwn, Finish, OpenAbove, SkipAbove, FillAbove, AboveFails, GetMeta,
                GetContent, GetThrows, GetAnswer, GetRetry, GetGivesUp, bounds
  <2>2. Lists /\ Parts
    BY <2>1 DEF ListInv, IndexInv
  <2>3. ASSUME NEW g \in Folder, AboveFails(c, g)
        PROVE  FALSE
    BY <2>3 DEF AboveFails
  <2> QED
    BY <1>5, <2>2, <2>3, AsideRequest, AsideOther, ListAside, ListPutStart, ListPutOpen,
       ListFileStep, ListOpenOwn, ListFillOwn, ListOpenAbove, ListSkipAbove, ListFillAbove,
       ListFinish DEF Step
<1> QED
  BY <1>2, <1>3, <1>4, <1>5 DEF Next

LEMMA QuietLists ==
  MutexInv /\ Writers /\ ListInv /\ Quiet
    => \A q \in Folder \ {<<>>} : meta[Front(q)].subs[Last(q)] # None <=> HasDoc(q)
<1> SUFFICES ASSUME MutexInv, Writers, Lists, \A c \in Client : pc[c] \notin Critical,
                    NEW q \in Folder \ {<<>>}
             PROVE  meta[Front(q)].subs[Last(q)] # None <=> HasDoc(q)
  BY DEF ListInv, Quiet
<1>1. \A c \in Client : Rewriting(c) = {} /\ ~Pending(c, q)
  BY DEF Writers, WriterOK, Rewriting, Pending, Critical
<1>2. Front(q) \in Folder /\ meta[Front(q)] \in Meta
  <2>1. PICK p \in Doc : q \in traversePath(p)
    BY DEF Folder
  <2>2. Front(q) \in Folder
    BY <2>1, UpAgain, FolderOfDoc
  <2> QED
    BY <2>2 DEF MutexInv, TypeInv, TypeOK
<1>3. EntryOK(q, meta[Front(q)])
  BY <1>1, <1>2 DEF Lists, Current, FolderOK
<1> QED
  BY <1>1, <1>3 DEF EntryOK

LEMMA ListInvariant ==
  Spec => [](MutexInv /\ (IOErrors \/ (Writers /\ DirsOK /\ ListInv)))
<1>1. CASE IOErrors
  BY <1>1, MutexInvariant, PTL
<1>2. CASE ~IOErrors
  <2>1. Init => DirsOK /\ ListInv
    BY InitDirs, InitLists DEF ListInv
  <2>2. MutexInv /\ Writers /\ DirsOK /\ [Next]_vars => DirsOK'
    BY <1>2, StepDirs
  <2>3. MutexInv /\ IndexInv /\ Writers /\ Writers' /\ ListInv /\ [Next]_vars => ListInv'
    BY <1>2, StepLists
  <2>4. Spec => [](MutexInv /\ Writers)
    BY <1>2, WritersInvariant
  <2> QED
    BY <2>1, <2>2, <2>3, <2>4, IndexInvariant, PTL DEF Spec
<1> QED
  BY <1>1, <1>2

\* Between two writes a folder is listed in the one above exactly if a document is
\* left below it: put's concurrent updates of the folders above reach them all, and
\* delete, which stops clearing entries at the first folder that keeps items, never
\* clears one too many.
THEOREM FoldersCorrect == Spec => []FoldersListed
<1>1. MutexInv /\ (IOErrors \/ (Writers /\ DirsOK /\ ListInv)) => FoldersListed
  <2>1. Quiet => ~IOErrors
    BY DEF Quiet
  <2> QED
    BY <2>1, QuietLists DEF FoldersListed, HasDoc
<1> QED
  BY <1>1, ListInvariant, PTL

\* A document and a folder never share a path: mkdirp, which put calls when its
\* folder has no ETag, and the write of the file refuse what put's own test lets
\* pass.
THEOREM DocXorFolderCorrect == Spec => []DocXorFolder
<1>1. MutexInv /\ (IOErrors \/ (Writers /\ DirsOK /\ ListInv)) => DocXorFolder
  <2> SUFFICES ASSUME MutexInv, Writers, DirsOK, ListInv, Quiet, NEW p \in Doc \cap Folder,
                      file[p] # NoFile, meta[Front(p)].subs[Last(p)] # None
               PROVE  FALSE
    BY DEF DocXorFolder, Quiet
  <2>1. p # <<>>
    BY DocAssumption
  <2>2. PICK q \in Doc : p \in traversePath(q) /\ file[q] # NoFile
    BY <2>1, QuietLists DEF HasDoc
  <2> QED
    BY <2>2 DEF DirsOK
<1> QED
  BY <1>1, ListInvariant, PTL
=============================================================================
