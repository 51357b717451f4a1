-------------------------- MODULE S3Store_proofs --------------------------
(***************************************************************************)
(* Theorems about S3Store, for every set of clients, documents and bounds. *)
(*                                                                         *)
(* A conditional PUT tests If-Match against its listing and makes the ETag *)
(* it listed the condition of its PutObject.  RememberInv says that the    *)
(* two are the same for as long as the PutObject is under way.             *)
(*                                                                         *)
(* The cached listings: while no lister ran beside a writer and nothing    *)
(* failed, a cache blob equals the documents below its folder once the     *)
(* writers are done.  Writers drop caches and change documents in any      *)
(* order.  CalmInv says that a cache which is wrong is about to be dropped *)
(* by a writer, and that a writer with its change still to come has        *)
(* dropped each cache above its document or is about to.  A lister at work *)
(* has found caches that were exact, so the listing it puts together is    *)
(* exact too.  Where one name continues another (Beyond), a listing shows  *)
(* foreign items, so these theorems are about stores without such names.   *)
(***************************************************************************)
EXTENDS S3Store, WellFoundedInduction, TLAPS

-----------------------------------------------------------------------------
(* The condition of a PUT.                                                 *)

\* The handlers' locals are there, one for each handler.
EachLocal ==
  /\ pc = [c \in Client |-> pc[c]]
  /\ req = [c \in Client |-> req[c]]
  /\ etag = [c \in Client |-> etag[c]]
  /\ tasks = [c \in Client |-> tasks[c]]

\* S3 requests are under way only at "work", PutObject requests only for a PUT.
TasksOK ==
  \A c \in Client : \A t \in tasks[c] : pc[c] = "work" /\ (t[1] = "put" => req[c].op = "put")

\* What handler c remembers of its condition: the version that If-Match names,
\* which once it is past its listing is the ETag it listed.
Remembers(c) ==
  req[c].cond = "is" =>
    /\ req[c].version \in Value
    /\ pc[c] = "work" /\ req[c].op = "put" => etag[c] = req[c].version

\* The places of listFolder are for listers.
Serves(c) == pc[c] \in {"get", "list", "heads"} => req[c].op = "list"

\* A PutObject that was given up still has the ETag that its client named.
LateRemembers == \A r \in late : r.named # NoBlob => r.tag = r.named

RememberInv == /\ EachLocal /\ TasksOK /\ LateRemembers
               /\ \A c \in Client : Remembers(c) /\ Serves(c)

\* One handler moves and the others stay as they are.
LEMMA OneRemembers ==
  ASSUME RememberInv, NEW c \in Client, EachLocal',
         \A d \in Client \ {c} : /\ pc'[d] = pc[d] /\ req'[d] = req[d]
                                 /\ etag'[d] = etag[d] /\ tasks'[d] = tasks[d],
         \A t \in tasks'[c] : pc'[c] = "work" /\ (t[1] = "put" => req'[c].op = "put"),
         Remembers(c)', Serves(c)', LateRemembers'
  PROVE  RememberInv'
BY DEF RememberInv, TasksOK, Remembers, Serves

LEMMA AcceptRemembers ==
  ASSUME RememberInv, NEW c \in Client, NEW r, NEW l \in {"check", "get"}, Accept(c, r, l),
         r.cond = "is" => r.version \in Value, l = "get" => r.op = "list"
  PROVE  RememberInv'
<1>1. pc[c] = "idle" /\ pc' = [pc EXCEPT ![c] = l] /\ req' = [req EXCEPT ![c] = r]
      /\ UNCHANGED <<etag, tasks>>
  BY DEF Accept, Goto
<1>2. EachLocal' /\ pc'[c] = l /\ req'[c] = r /\ tasks'[c] = {}
  BY <1>1 DEF RememberInv, EachLocal, TasksOK
<1>3. Remembers(c)' /\ Serves(c)' /\ LateRemembers'
  BY <1>2 DEF Accept, RememberInv, Remembers, Serves, LateRemembers
<1> QED
  BY <1>1, <1>2, <1>3, OneRemembers DEF RememberInv, EachLocal

LEMMA RequestRemembers ==
  ASSUME RememberInv, NEW c \in Client, Request(c)
  PROVE  RememberInv'
<1>1. CASE RequestPut(c)
  <2>1. PICK p \in Doc, v \in Value, cond \in Conditions, ver \in Value \cup {NoBlob},
             small \in BOOLEAN :
          /\ ver = NoBlob <=> cond \in {"always", "absent"}
          /\ Accept(c, [op |-> "put", path |-> p, val |-> v,
                        cond |-> cond, version |-> ver, small |-> small], "check")
    BY <1>1 DEF RequestPut
  <2> QED
    BY <2>1, AcceptRemembers
<1>2. CASE RequestDelete(c)
  <2>1. PICK p \in Doc, cond \in Conditions, ver \in Value \cup {NoBlob} :
          /\ ver = NoBlob <=> cond \in {"always", "absent"}
          /\ Accept(c, [op |-> "delete", path |-> p, val |-> NoBlob,
                        cond |-> cond, version |-> ver, small |-> TRUE], "check")
    BY <1>2 DEF RequestDelete
  <2> QED
    BY <2>1, AcceptRemembers
<1>3. CASE RequestList(c)
  BY <1>3, AcceptRemembers DEF RequestList
<1> QED
  BY <1>1, <1>2, <1>3 DEF Request

LEMMA AnswerRemembers ==
  ASSUME RememberInv, NEW c \in Client, Answer(c)
  PROVE  RememberInv'
<1>1. EachLocal' /\ pc'[c] = "idle" /\ req'[c] = NoRequest /\ tasks'[c] = {}
  BY DEF Answer, Goto, RememberInv, EachLocal
<1>2. Remembers(c)' /\ Serves(c)' /\ LateRemembers'
  BY <1>1 DEF Answer, RememberInv, Remembers, Serves, LateRemembers, NoRequest
<1> QED
  BY <1>1, <1>2, OneRemembers DEF Answer, Goto, RememberInv, EachLocal

\* The tasks of a PUT that got past its listing.
LEMMA PutStartRemembers ==
  ASSUME RememberInv, NEW c \in Client, PutStart(c)
  PROVE  RememberInv'
<1>1. /\ req[c].op = "put" /\ Precondition(c, blob[req[c].path])
      /\ pc' = [pc EXCEPT ![c] = "work"]
      /\ etag' = [etag EXCEPT ![c] = blob[req[c].path]]
      /\ \E ts : tasks' = [tasks EXCEPT ![c] = ts]
      /\ UNCHANGED <<req, late>>
  BY DEF PutStart, Send, Goto
<1>2. EachLocal' /\ pc'[c] = "work" /\ etag'[c] = blob[req[c].path]
  BY <1>1 DEF RememberInv, EachLocal
<1>3. Remembers(c)' /\ Serves(c)' /\ LateRemembers'
  BY <1>1, <1>2 DEF Remembers, Serves, LateRemembers, RememberInv, Precondition
<1> QED
  BY <1>1, <1>2, <1>3, OneRemembers DEF RememberInv, EachLocal

\* The tasks of a DELETE or a lister.
LEMMA OtherStartRemembers ==
  ASSUME RememberInv, NEW c \in Client, DeleteStart(c) \/ HeadsDone(c)
  PROVE  RememberInv'
<1>1. PICK ts : Send(c, ts) /\ \A t \in ts : t[1] # "put"
  BY DEF DeleteStart, HeadsDone
<1>2. /\ req[c].op \in {"delete", "list"} /\ UNCHANGED <<req, late>>
      /\ UNCHANGED etag \/ etag' = [etag EXCEPT ![c] = blob[req[c].path]]
  BY DEF DeleteStart, HeadsDone, RememberInv, Serves
<1>3. EachLocal' /\ pc'[c] = "work" /\ tasks'[c] = ts
  BY <1>1, <1>2 DEF Send, Goto, RememberInv, EachLocal
<1>4. Remembers(c)' /\ Serves(c)' /\ LateRemembers'
  BY <1>2, <1>3 DEF Remembers, Serves, LateRemembers, RememberInv
<1> QED
  BY <1>1, <1>2, <1>3, <1>4, OneRemembers DEF Send, Goto, RememberInv, EachLocal

\* A task ends, well or badly.
LEMMA TaskEndRemembers ==
  ASSUME RememberInv, NEW c \in Client, UNCHANGED <<pc, req, etag>>, LateRemembers',
         \E t : tasks' = [tasks EXCEPT ![c] = @ \ {t}]
  PROVE  RememberInv'
<1>1. EachLocal' /\ tasks'[c] \subseteq tasks[c]
  BY DEF RememberInv, EachLocal
<1>2. Remembers(c)' /\ Serves(c)'
  BY DEF RememberInv, Remembers, Serves
<1>3. \A t \in tasks'[c] : pc'[c] = "work" /\ (t[1] = "put" => req'[c].op = "put")
  BY <1>1 DEF RememberInv, TasksOK
<1> QED
  BY <1>1, <1>2, <1>3, OneRemembers DEF RememberInv, EachLocal

\* A PutObject is given up at "work", with the ETag that was listed.
LEMMA TimeoutRemembers ==
  ASSUME RememberInv, NEW c \in Client, PutTimesOut(c)
  PROVE  LateRemembers'
<1> DEFINE named == IF req[c].cond = "is" THEN req[c].version ELSE NoBlob
<1>1. pc[c] = "work" /\ req[c].op = "put"
  BY DEF PutTimesOut, RememberInv, TasksOK
<1>2. named # NoBlob => etag[c] = named
  BY <1>1 DEF RememberInv, Remembers
<1> QED
  BY <1>2 DEF PutTimesOut, RememberInv, LateRemembers

\* A lister goes from one place to the next.
LEMMA ListRemembers ==
  ASSUME RememberInv, NEW c \in Client, GetNotCached(c) \/ ListKeys(c)
  PROVE  RememberInv'
<1>1. /\ pc[c] \in {"get", "list"} /\ UNCHANGED <<req, etag, tasks, late>>
      /\ pc' = [pc EXCEPT ![c] = "list"] \/ pc' = [pc EXCEPT ![c] = "heads"]
  BY DEF GetNotCached, ListKeys, Goto
<1>2. EachLocal' /\ pc'[c] \in {"list", "heads"} /\ tasks'[c] = {} /\ req[c].op = "list"
  BY <1>1 DEF RememberInv, EachLocal, TasksOK, Serves
<1>3. Remembers(c)' /\ Serves(c)' /\ LateRemembers'
  BY <1>1, <1>2 DEF RememberInv, Remembers, Serves, LateRemembers
<1> QED
  BY <1>1, <1>2, <1>3, OneRemembers DEF RememberInv, EachLocal

LEMMA StayRemembers ==
  ASSUME RememberInv, UNCHANGED <<pc, req, etag, tasks>>, late' \subseteq late
  PROVE  RememberInv'
BY DEF RememberInv, EachLocal, TasksOK, LateRemembers, Remembers, Serves

LEMMA RestartRemembers ==
  ASSUME RememberInv, Restart
  PROVE  RememberInv'
BY DEF Restart, RememberInv, EachLocal, TasksOK, LateRemembers, Remembers, Serves, NoRequest

LEMMA StepRemembers == RememberInv /\ [Next]_vars => RememberInv'
<1> SUFFICES ASSUME RememberInv, [Next]_vars
             PROVE  RememberInv'
  OBVIOUS
<1>1. ASSUME NEW c \in Client,
             \/ PutRefused(c) \/ PutAnswer(c) \/ DeleteRefused(c) \/ DeleteAnswer(c)
             \/ GetCached(c) \/ ListRefused(c) \/ ListAnswer(c)
      PROVE  RememberInv'
  <2>1. Answer(c)
    BY <1>1 DEF PutRefused, PutAnswer, DeleteRefused, DeleteAnswer, GetCached, ListRefused,
                ListAnswer
  <2> QED
    BY <2>1, AnswerRemembers
<1>2. ASSUME NEW c \in Client,
             \/ PutObject(c) \/ RemoveObject(c) \/ PutTimesOut(c) \/ TaskFails(c)
             \/ \E f \in Folder : DropCache(c, f) \/ StoreCache(c, f)
      PROVE  RememberInv'
  <2>1. /\ UNCHANGED <<pc, req, etag>>
        /\ \E t : tasks' = [tasks EXCEPT ![c] = @ \ {t}]
    BY <1>2 DEF PutObject, RemoveObject, PutTimesOut, TaskFails, DropCache, StoreCache
  <2>2. PutTimesOut(c) => LateRemembers'
    BY TimeoutRemembers
  <2>3. UNCHANGED late => LateRemembers'
    BY DEF RememberInv, LateRemembers
  <2>4. PutTimesOut(c) \/ UNCHANGED late
    BY <1>2 DEF PutObject, RemoveObject, TaskFails, DropCache, StoreCache
  <2> QED
    BY <2>1, <2>2, <2>3, <2>4, TaskEndRemembers
<1>3. ASSUME NEW c \in Client, HeadsAbandoned(c) \/ \E q \in heads[c] : HeadObject(c, q)
      PROVE  RememberInv'
  BY <1>3, StayRemembers DEF HeadsAbandoned, HeadObject
<1>4. ASSUME NEW r \in late, LatePut(r)
      PROVE  RememberInv'
  BY <1>4, StayRemembers DEF LatePut
<1>5. ASSUME Crash \/ \E c \in Client : PutConflict(c)
      PROVE  RememberInv'
  BY <1>5, RestartRemembers DEF Crash, PutConflict
<1>6. CASE UNCHANGED vars
  BY <1>6, StayRemembers DEF vars
<1> QED
  BY <1>1, <1>2, <1>3, <1>4, <1>5, <1>6, RequestRemembers, PutStartRemembers,
     OtherStartRemembers, ListRemembers DEF Next, Step, Trouble

LEMMA RememberInvariant == Spec => []RememberInv
<1>1. Init => RememberInv
  BY DEF Init, RememberInv, EachLocal, TasksOK, LateRemembers, Remembers, Serves, NoRequest
<1> QED
  BY <1>1, StepRemembers, PTL DEF Spec

\* A PUT with If-Match and a known length never replaces another version than
\* the one it names, whatever other handlers do between its listing and its
\* PutObject, whatever requests fail, and however late S3 executes a PutObject
\* whose handler gave it up.
THEOREM ConditionalPutCorrect == Spec => ConditionalPut
<1> DEFINE Named(c) == PutObject(c) /\ req[c].cond = "is" /\ req[c].small
                         => blob[req[c].path] = req[c].version \/ UNCHANGED blob
           NamedLate(r) == LatePut(r) /\ r.named # NoBlob
                             => blob[r.path] = r.named \/ UNCHANGED blob
<1>1. ASSUME RememberInv, NEW c \in Client
      PROVE  Named(c)
  <2> SUFFICES ASSUME PutObject(c), req[c].cond = "is", req[c].small
               PROVE  blob[req[c].path] = req[c].version \/ UNCHANGED blob
    OBVIOUS
  <2>1. pc[c] = "work" /\ req[c].op = "put"
    BY <1>1 DEF PutObject, RememberInv, TasksOK
  <2>2. etag[c] = req[c].version /\ etag[c] # NoBlob
    BY <1>1, <2>1, ValueAssumption DEF RememberInv, Remembers
  <2> QED
    BY <2>2 DEF PutObject, Unchanged
<1>2. ASSUME RememberInv, NEW r \in late
      PROVE  NamedLate(r)
  <2> SUFFICES ASSUME LatePut(r), r.named # NoBlob
               PROVE  blob[r.path] = r.named \/ UNCHANGED blob
    OBVIOUS
  <2>1. r.tag = r.named
    BY <1>2 DEF RememberInv, LateRemembers
  <2> QED
    BY <2>1 DEF LatePut, Unchanged
<1>3. RememberInv => [(\A c \in Client : Named(c)) /\ (\A r \in late : NamedLate(r))]_vars
  BY <1>1, <1>2
<1> QED
  BY <1>3, RememberInvariant, PTL DEF ConditionalPut

-----------------------------------------------------------------------------
(* Cached listings.                                                        *)

\* No name of a document or folder begins with another.
NoSiblings == DOMAIN Beyond = {}

-----------------------------------------------------------------------------
(* Paths.                                                                  *)

LEMMA PrefixElements ==
  ASSUME NEW f \in Seq(Name), NEW s \in Seq(Name)
  PROVE  /\ IsPrefix(f, s) <=> Len(f) <= Len(s) /\ \A i \in 1..Len(f) : f[i] = s[i]
         /\ IsStrictPrefix(f, s) <=> Len(f) < Len(s) /\ \A i \in 1..Len(f) : f[i] = s[i]
<1>1. IsPrefix(f, s) <=> Len(f) <= Len(s) /\ \A i \in 1..Len(f) : f[i] = s[i]
  <2>1. Len(f) <= Len(s) => /\ Len(SubSeq(s, 1, Len(f))) = Len(f)
                            /\ \A i \in 1..Len(f) : SubSeq(s, 1, Len(f))[i] = s[i]
    OBVIOUS
  <2>2. Len(f) <= Len(s) => SubSeq(s, 1, Len(f)) \in Seq(Name)
    OBVIOUS
  <2>3. SubSeq(f, 1, Len(f)) = f
    OBVIOUS
  <2>4. ASSUME Len(f) <= Len(s), \A i \in 1..Len(f) : f[i] = s[i]
        PROVE  f = SubSeq(s, 1, Len(f))
    BY <2>1, <2>2, <2>4
  <2> QED
    BY <2>1, <2>3, <2>4 DEF IsPrefix
<1>2. Len(f) = Len(s) /\ (\A i \in 1..Len(f) : f[i] = s[i]) => f = s
  OBVIOUS
<1> QED
  BY <1>1, <1>2 DEF IsStrictPrefix

\* Of two folders above one path, the shorter is above the longer.
LEMMA Chain ==
  ASSUME NEW f \in Seq(Name), NEW g \in Seq(Name), NEW s \in Seq(Name)
  PROVE  /\ IsPrefix(f, g) /\ IsStrictPrefix(g, s) => IsStrictPrefix(f, s)
         /\ IsStrictPrefix(f, g) /\ IsPrefix(g, s) => IsStrictPrefix(f, s)
         /\ IsStrictPrefix(f, s) /\ IsStrictPrefix(g, s) =>
              /\ Len(f) < Len(g) => IsStrictPrefix(f, g)
              /\ Len(f) = Len(g) => f = g
BY PrefixElements

LEMMA Paths == Doc \subseteq Seq(Name) /\ Folder \subseteq Seq(Name)
<1>1. \A p \in Doc : \A l \in 0..Len(p) : SubSeq(p, 1, l) \in Seq(Name)
  BY DocAssumption
<1> QED
  BY <1>1, DocAssumption DEF Folder, FoldersAbove, Prefixes

\* The prefixes of a path.
LEMMA PrefixesOf ==
  ASSUME NEW s \in Seq(Name), NEW f
  PROVE  f \in Prefixes(s) <=> f \in Seq(Name) /\ IsPrefix(f, s)
<1>1. ASSUME NEW l \in 0..Len(s), f = SubSeq(s, 1, l)
      PROVE  f \in Seq(Name) /\ IsPrefix(f, s)
  <2>1. f \in Seq(Name) /\ Len(f) = l /\ \A i \in 1..l : f[i] = s[i]
    BY <1>1
  <2> QED
    BY <2>1, PrefixElements
<1>2. ASSUME f \in Seq(Name), IsPrefix(f, s)
      PROVE  f = SubSeq(s, 1, Len(f)) /\ Len(f) \in 0..Len(s)
  <2>1. SubSeq(f, 1, Len(f)) = f
    BY <1>2
  <2> QED
    BY <1>2, <2>1 DEF IsPrefix
<1> QED
  BY <1>1, <1>2 DEF Prefixes

\* The folders are the paths above documents.
LEMMA Folders ==
  /\ \A p \in Doc : \A f : f \in FoldersAbove(p) <=> f \in Folder /\ IsStrictPrefix(f, p)
  /\ \A f \in Folder : \E p \in Doc : IsStrictPrefix(f, p)
  /\ \A p \in Doc, f \in Seq(Name) : IsStrictPrefix(f, p) => f \in Folder
<1>1. \A p \in Doc : \A f : f \in FoldersAbove(p) <=> f \in Seq(Name) /\ IsStrictPrefix(f, p)
  <2> SUFFICES ASSUME NEW p \in Doc, NEW f
               PROVE  f \in Prefixes(p) \ {p} <=> f \in Seq(Name) /\ IsStrictPrefix(f, p)
    BY DEF FoldersAbove
  <2>1. p \in Seq(Name)
    BY Paths
  <2> QED
    BY <2>1, PrefixesOf DEF IsStrictPrefix
<1>2. \A f : f \in Folder <=> \E p \in Doc : f \in FoldersAbove(p)
  BY DEF Folder
<1> QED
  BY <1>1, <1>2

\* What is above a folder is a folder.
LEMMA FoldersAboveFolders ==
  ASSUME NEW g \in Folder
  PROVE  Prefixes(g) \subseteq Folder
<1>1. PICK p \in Doc : IsStrictPrefix(g, p)
  BY Folders
<1> SUFFICES ASSUME NEW f \in Prefixes(g)
             PROVE  f \in Folder
  OBVIOUS
<1>2. f \in Seq(Name) /\ IsPrefix(f, g)
  BY PrefixesOf, Paths
<1> QED
  BY <1>1, <1>2, Chain, Folders, Paths

\* The folder of a document.
LEMMA FrontOfDoc ==
  ASSUME NEW p \in Doc
  PROVE  Front(p) \in Folder /\ IsStrictPrefix(Front(p), p)
<1>1. p \in Seq(Name) /\ Len(p) \in Nat /\ Len(p) >= 2
  BY DocAssumption
<1>2. Len(p) - 1 \in 0..Len(p) /\ Front(p) = SubSeq(p, 1, Len(p) - 1)
  BY <1>1 DEF Front
<1>3. Front(p) \in Seq(Name) /\ Len(Front(p)) = Len(p) - 1
      /\ \A i \in 1..(Len(p) - 1) : Front(p)[i] = p[i]
  BY <1>1, <1>2
<1>4. IsStrictPrefix(Front(p), p)
  BY <1>1, <1>3, PrefixElements
<1> QED
  BY <1>3, <1>4, Folders

-----------------------------------------------------------------------------
(* Listings.                                                               *)

Items == Doc \X Value

\* The documents that a listing does not show: documents named like a folder.
Hidden(d) == \E q \in Doc : blob[q] # NoBlob /\ Front(q) = d

LEMMA TrueItems ==
  ASSUME NEW f
  PROVE  \A e : e \in TrueListing(f) <=>
           \E d \in Doc : /\ e = <<d, blob[d]>> /\ blob[d] # NoBlob
                          /\ IsStrictPrefix(f, d) /\ ~Hidden(d)
BY DEF TrueListing, Hidden

\* Without names that continue one another a listing shows what is below.
LEMMA ShownBelow ==
  ASSUME NoSiblings, NEW f, NEW e
  PROVE  Shown(f, e) = IF IsStrictPrefix(f, e) THEN {e} ELSE {}
BY DEF NoSiblings, Shown, Sibling

LEMMA DocsBelow ==
  ASSUME NoSiblings, NEW f
  PROVE  \A e : e \in DocsShown(f) <=>
           \E d \in Doc : e = <<d, blob[d]>> /\ blob[d] # NoBlob /\ IsStrictPrefix(f, d)
BY ShownBelow DEF DocsShown

LEMMA CachesBelow ==
  ASSUME NoSiblings, NEW f
  PROVE  \A e : e \in CachesShown(f) <=>
           \E g \in Folder : e = <<g, g>> /\ cache[g] # {} /\ IsStrictPrefix(f, g)
BY ShownBelow DEF CachesShown

LEMMA SameSeq ==
  ASSUME NEW s \in Seq(Name), NEW t \in Seq(Name), Len(s) = Len(t),
         \A i \in 1..Len(s) : s[i] = t[i]
  PROVE  s = t
OBVIOUS

\* What is taken from a cache blob is what it lists.
LEMMA CopiedItems ==
  ASSUME NEW g \in Folder, cache[g] \subseteq {e \in Items : IsStrictPrefix(g, e[1])}
  PROVE  FromCache(<<g, g>>) = cache[g]
<1>1. ASSUME NEW d \in cache[g]
      PROVE  g \o SubSeq(d[1], Len(g) + 1, Len(d[1])) = d[1] /\ d = <<d[1], d[2]>>
  <2>1. d[1] \in Seq(Name) /\ g \in Seq(Name) /\ d = <<d[1], d[2]>>
    BY Paths DEF Items
  <2>2. Len(g) < Len(d[1]) /\ \A i \in 1..Len(g) : g[i] = d[1][i]
    BY <2>1, PrefixElements
  <2> DEFINE t == SubSeq(d[1], Len(g) + 1, Len(d[1]))
  <2>3. /\ t \in Seq(Name) /\ Len(t) = Len(d[1]) - Len(g)
        /\ \A i \in 1..(Len(d[1]) - Len(g)) : t[i] = d[1][i + Len(g)]
    BY <2>1, <2>2
  <2>4. /\ g \o t \in Seq(Name) /\ Len(g \o t) = Len(d[1])
        /\ \A i \in 1..Len(d[1]) : (g \o t)[i] = IF i <= Len(g) THEN g[i] ELSE t[i - Len(g)]
    BY <2>1, <2>2, <2>3
  <2>5. \A i \in 1..Len(d[1]) : (g \o t)[i] = d[1][i]
    BY <2>1, <2>2, <2>3, <2>4
  <2> HIDE DEF t
  <2>6. g \o t = d[1]
    BY <2>1, <2>4, <2>5, SameSeq
  <2> QED
    BY <2>1, <2>6 DEF t
<1> DEFINE copy(d) == <<g \o SubSeq(d[1], Len(g) + 1, Len(d[1])), d[2]>>
<1>2. FromCache(<<g, g>>) = {copy(d) : d \in cache[g]}
  BY DEF FromCache
<1>3. \A d \in cache[g] : copy(d) = d
  BY <1>1
<1> HIDE DEF copy
<1> QED
  BY <1>2, <1>3

\* Of the cached folders between a folder and a document one is topmost.
LEMMA TopCache ==
  ASSUME NEW f \in Folder, NEW d \in Doc,
         NEW g \in Folder, cache[g] # {}, IsStrictPrefix(f, g), IsStrictPrefix(g, d)
  PROVE  \E h \in Folder : /\ cache[h] # {} /\ IsStrictPrefix(f, h) /\ IsStrictPrefix(h, d)
                           /\ \A k \in Folder : cache[k] # {} /\ IsStrictPrefix(f, k)
                                                  => ~IsStrictPrefix(k, h)
<1> DEFINE Between == {h \in Folder : cache[h] # {} /\ IsStrictPrefix(f, h) /\ IsStrictPrefix(h, d)}
           T == {Len(h) : h \in Between}
<1>1. T \subseteq Nat /\ T # {}
  <2>1. \A h \in Folder : Len(h) \in Nat
    BY Paths
  <2>2. g \in Between
    OBVIOUS
  <2> QED
    BY <2>1, <2>2
<1>2. PICK n \in T : \A m \in T : ~(<<m, n>> \in OpToRel(<, Nat))
  BY <1>1, NatLessThanWellFounded, WFMin
<1>3. \A m \in T : ~(m < n)
  BY <1>1, <1>2 DEF OpToRel
<1>4. PICK h \in Between : n = Len(h)
  OBVIOUS
<1>5. ASSUME NEW k \in Folder, cache[k] # {}, IsStrictPrefix(f, k), IsStrictPrefix(k, h)
      PROVE  FALSE
  <2>1. k \in Seq(Name) /\ h \in Seq(Name) /\ d \in Seq(Name)
    BY Paths
  <2>2. IsStrictPrefix(k, d) /\ Len(k) < Len(h)
    BY <1>5, <2>1, Chain, PrefixElements DEF IsStrictPrefix
  <2> QED
    BY <1>3, <1>4, <1>5, <2>2
<1> QED
  BY <1>4, <1>5

\* A listing put together from exact caches is exact.
LEMMA ListingExact ==
  ASSUME NoSiblings, NEW f \in Folder,
         \A g \in Folder : cache[g] \subseteq {e \in Items : IsStrictPrefix(g, e[1])},
         CacheIsExact
  PROVE  Listing(f) = TrueListing(f)
<1>1. ASSUME NEW e \in OwnItems(f)
      PROVE  e \in TrueListing(f)
  <2>1. PICK d \in Doc : e = <<d, blob[d]>> /\ blob[d] # NoBlob /\ IsStrictPrefix(f, d)
    BY <1>1, DocsBelow DEF OwnItems
  <2>2. ASSUME NEW q \in Doc, blob[q] # NoBlob, Front(q) = d
        PROVE  FALSE
    <3>1. IsStrictPrefix(f, q)
      BY <2>1, <2>2, FrontOfDoc, Chain, Paths DEF IsStrictPrefix
    <3>2. <<q, blob[q]>> \in DocsShown(f)
      BY <2>2, <3>1, DocsBelow
    <3> QED
      BY <1>1, <2>1, <2>2, <3>2 DEF OwnItems
  <2> QED
    BY <2>1, <2>2, TrueItems DEF Hidden
<1>2. ASSUME NEW e \in OwnCaches(f)
      PROVE  FromCache(e) \subseteq TrueListing(f)
  <2>1. PICK g \in Folder : e = <<g, g>> /\ cache[g] # {} /\ IsStrictPrefix(f, g)
    BY <1>2, CachesBelow DEF OwnCaches
  <2>2. FromCache(e) = TrueListing(g)
    BY <2>1, CopiedItems DEF CacheIsExact
  <2>3. \A d \in Doc : IsStrictPrefix(g, d) => IsStrictPrefix(f, d)
    BY <2>1, Chain, Paths DEF IsStrictPrefix
  <2> QED
    BY <2>2, <2>3, TrueItems
<1>3. ASSUME NEW e \in TrueListing(f)
      PROVE  e \in Listing(f)
  <2>1. PICK d \in Doc : /\ e = <<d, blob[d]>> /\ blob[d] # NoBlob
                         /\ IsStrictPrefix(f, d) /\ ~Hidden(d)
    BY <1>3, TrueItems
  <2>2. e \in DocsShown(f)
    BY <2>1, DocsBelow
  <2>3. ~\E b \in DocsShown(f) : Front(b[1]) = d
    BY <2>1, DocsBelow DEF Hidden
  <2>4. CASE ~UnderCache(f, d)
    BY <2>1, <2>2, <2>3, <2>4 DEF Listing, OwnItems
  <2>5. CASE UnderCache(f, d)
    <3>1. PICK g \in Folder : cache[g] # {} /\ IsStrictPrefix(f, g) /\ IsStrictPrefix(g, d)
      BY <2>5, CachesBelow DEF UnderCache
    <3>2. PICK h \in Folder : /\ cache[h] # {} /\ IsStrictPrefix(f, h) /\ IsStrictPrefix(h, d)
                              /\ \A k \in Folder : cache[k] # {} /\ IsStrictPrefix(f, k)
                                                     => ~IsStrictPrefix(k, h)
      BY <3>1, TopCache
    <3>3. <<h, h>> \in OwnCaches(f)
      BY <3>2, CachesBelow DEF OwnCaches, UnderCache
    <3>4. e \in FromCache(<<h, h>>)
      <4>1. e \in TrueListing(h)
        BY <2>1, <3>2, TrueItems
      <4> QED
        BY <3>2, <4>1, CopiedItems DEF CacheIsExact
    <3> QED
      BY <3>3, <3>4 DEF Listing
  <2> QED
    BY <2>4, <2>5
<1> QED
  BY <1>1, <1>2, <1>3 DEF Listing

-----------------------------------------------------------------------------
(* Types.                                                                  *)

ItemsBelow(f) == {e \in Items : IsStrictPrefix(f, e[1])}

\* The handlers' locals are there, one for each handler.
Locals ==
  /\ pc = [c \in Client |-> pc[c]] /\ req = [c \in Client |-> req[c]]
  /\ etag = [c \in Client |-> etag[c]] /\ tasks = [c \in Client |-> tasks[c]]
  /\ outcome = [c \in Client |-> outcome[c]] /\ items = [c \in Client |-> items[c]]
  /\ nodes = [c \in Client |-> nodes[c]] /\ heads = [c \in Client |-> heads[c]]
  /\ failed = [c \in Client |-> failed[c]]

SameLocals(d) ==
  /\ pc'[d] = pc[d] /\ req'[d] = req[d] /\ etag'[d] = etag[d] /\ tasks'[d] = tasks[d]
  /\ outcome'[d] = outcome[d] /\ items'[d] = items[d] /\ nodes'[d] = nodes[d]
  /\ heads'[d] = heads[d] /\ failed'[d] = failed[d]

BucketOK ==
  /\ blob \in [Doc -> Value \cup {NoBlob}]
  /\ cache = [f \in Folder |-> cache[f]]
  /\ \A f \in Folder : cache[f] \subseteq ItemsBelow(f)

RequestOK(r) ==
  /\ r.op \in Operations \cup {"none"}
  /\ r.path \in Doc \cup Folder \cup {<<>>}
  /\ r.op \in {"put", "delete"} => r.path \in Doc
  /\ r.op = "put" => r.val \in Value
  /\ r.op = "list" => r.path \in Folder

PlaceOK(c) ==
  /\ pc[c] \in {"idle", "check", "get", "list", "heads", "work"}
  /\ pc[c] = "check" => req[c].op \in {"put", "delete"}
  /\ pc[c] \in {"get", "list", "heads"} => req[c].op = "list"
  /\ tasks[c] # {} => pc[c] = "work"

TaskOK(c, t) ==
  /\ t \in Tasks
  /\ t[1] = "put" => req[c].op = "put" /\ t[2] = req[c].path
  /\ t[1] = "remove" => req[c].op = "delete" /\ t[2] = req[c].path
  /\ t[1] = "cache" => req[c].op = "list" /\ IsPrefix(req[c].path, t[2])

ListOK(c) ==
  /\ items[c] \subseteq ItemsBelow(req[c].path)
  /\ nodes[c] \subseteq {g \in Folder : IsPrefix(req[c].path, g)}
  /\ heads[c] \subseteq {e[1] : e \in items[c]}
  /\ failed[c] \subseteq Folder
  /\ pc[c] \notin {"heads", "work"} =>
       items[c] = {} /\ nodes[c] = {} /\ heads[c] = {} /\ failed[c] = {}

HandlerOK(c) ==
  /\ RequestOK(req[c]) /\ PlaceOK(c) /\ ListOK(c)
  /\ \A t \in tasks[c] : TaskOK(c, t)
  /\ etag[c] \in Value \cup {NoBlob}
  /\ outcome[c] \in {"pending", "stored", "conflict", "failed"}

LateOK == \A r \in late : r.path \in Doc /\ r.val \in Value

CountsOK == requests \in 0..MaxRequests /\ faults \in 0..MaxFaults

TypesInv == Locals /\ BucketOK /\ LateOK /\ CountsOK /\ \A c \in Client : HandlerOK(c)

LEMMA TypesImply == TypesInv => TypeOK
<1> SUFFICES ASSUME TypesInv PROVE TypeOK
  OBVIOUS
<1> USE DEF TypesInv, HandlerOK
<1>1. \A f \in Folder : \A e \in cache[f] : IsStrictPrefix(f, e[1]) /\ e[2] \in Value
  BY DEF BucketOK, ItemsBelow, Items
<1>2. ASSUME NEW c \in Client
      PROVE  /\ req[c].op \in Operations \cup {"none"}
             /\ req[c].path \in Doc \cup Folder \cup {<<>>}
             /\ tasks[c] \subseteq Tasks
             /\ nodes[c] \subseteq Folder
             /\ \A e \in items[c] : IsStrictPrefix(req[c].path, e[1]) /\ e[2] \in Value
             /\ heads[c] \subseteq {e[1] : e \in items[c]}
  BY DEF RequestOK, ListOK, TaskOK, ItemsBelow, Items
<1>3. /\ pc \in [Client -> {"idle", "check", "get", "list", "heads", "work"}]
      /\ etag \in [Client -> Value \cup {NoBlob}]
      /\ outcome \in [Client -> {"pending", "stored", "conflict", "failed"}]
  BY DEF Locals, PlaceOK
<1> QED
  BY <1>1, <1>2, <1>3 DEF TypeOK, BucketOK, CountsOK

\* One handler moves and the others keep their locals.
LEMMA OneMoves ==
  ASSUME TypesInv, NEW c \in Client, \A d \in Client \ {c} : SameLocals(d),
         Locals', BucketOK', LateOK', CountsOK', HandlerOK(c)'
  PROVE  TypesInv'
BY DEF TypesInv, SameLocals, HandlerOK, PlaceOK, TaskOK, ListOK

LEMMA InitTypes == Init => TypesInv
<1> SUFFICES ASSUME Init PROVE TypesInv
  OBVIOUS
<1>1. Locals /\ BucketOK /\ LateOK /\ CountsOK
  BY BoundAssumption DEF Init, Locals, BucketOK, LateOK, CountsOK
<1>2. ASSUME NEW c \in Client PROVE HandlerOK(c)
  BY DEF Init, HandlerOK, RequestOK, PlaceOK, ListOK, TaskOK, NoRequest
<1> QED
  BY <1>1, <1>2 DEF TypesInv

LEMMA AcceptTypes ==
  ASSUME TypesInv, NEW c \in Client, NEW r, NEW l \in {"check", "get"}, Accept(c, r, l),
         RequestOK(r), l = "check" => r.op \in {"put", "delete"}, l = "get" => r.op = "list"
  PROVE  TypesInv' /\ \A d \in Client \ {c} : SameLocals(d)
<1>1. /\ pc[c] = "idle" /\ pc' = [pc EXCEPT ![c] = l] /\ req' = [req EXCEPT ![c] = r]
      /\ requests < MaxRequests /\ requests' = requests + 1
      /\ UNCHANGED <<bucket, etag, tasks, outcome, lister, late, faults>>
  BY DEF Accept, Goto
<1>2. Locals' /\ pc'[c] = l /\ req'[c] = r /\ \A d \in Client \ {c} : SameLocals(d)
  BY <1>1 DEF TypesInv, Locals, SameLocals, lister
<1>3. tasks'[c] = {} /\ items'[c] = {} /\ nodes'[c] = {} /\ heads'[c] = {} /\ failed'[c] = {}
  BY <1>1 DEF TypesInv, HandlerOK, PlaceOK, ListOK, lister
<1>4. BucketOK' /\ LateOK' /\ CountsOK'
  BY <1>1, BoundAssumption DEF TypesInv, BucketOK, LateOK, CountsOK, bucket
<1>5. HandlerOK(c)'
  BY <1>1, <1>2, <1>3 DEF TypesInv, HandlerOK, PlaceOK, ListOK, TaskOK, RequestOK
<1> QED
  BY <1>2, <1>4, <1>5, OneMoves

LEMMA RequestTypes ==
  ASSUME TypesInv, NEW c \in Client, Request(c)
  PROVE  TypesInv' /\ \A d \in Client \ {c} : SameLocals(d)
<1>1. CASE RequestPut(c)
  <2>1. PICK p \in Doc, v \in Value, cond \in Conditions, ver \in Value \cup {NoBlob},
             small \in BOOLEAN :
          Accept(c, [op |-> "put", path |-> p, val |-> v,
                     cond |-> cond, version |-> ver, small |-> small], "check")
    BY <1>1 DEF RequestPut
  <2>2. "put" \in Operations
    BY <2>1 DEF Accept
  <2> QED
    BY <2>1, <2>2, AcceptTypes DEF RequestOK
<1>2. CASE RequestDelete(c)
  <2>1. PICK p \in Doc, cond \in Conditions, ver \in Value \cup {NoBlob} :
          Accept(c, [op |-> "delete", path |-> p, val |-> NoBlob,
                     cond |-> cond, version |-> ver, small |-> TRUE], "check")
    BY <1>2 DEF RequestDelete
  <2>2. "delete" \in Operations
    BY <2>1 DEF Accept
  <2> QED
    BY <2>1, <2>2, AcceptTypes DEF RequestOK
<1>3. CASE RequestList(c)
  <2>1. PICK f \in Folder :
          Accept(c, [op |-> "list", path |-> f, val |-> NoBlob,
                     cond |-> "always", version |-> NoBlob, small |-> TRUE], "get")
    BY <1>3 DEF RequestList
  <2>2. "list" \in Operations
    BY <2>1 DEF Accept
  <2> QED
    BY <2>1, <2>2, AcceptTypes DEF RequestOK
<1> QED
  BY <1>1, <1>2, <1>3 DEF Request

LEMMA AnswerTypes ==
  ASSUME TypesInv, NEW c \in Client, Answer(c)
  PROVE  TypesInv' /\ (\A d \in Client \ {c} : SameLocals(d)) /\ pc'[c] = "idle" /\ tasks'[c] = {}
<1>1. /\ Locals' /\ (\A d \in Client \ {c} : SameLocals(d))
      /\ pc'[c] = "idle" /\ req'[c] = NoRequest /\ tasks'[c] = {} /\ items'[c] = {}
      /\ nodes'[c] = {} /\ heads'[c] = {} /\ failed'[c] = {}
      /\ etag'[c] = NoBlob /\ outcome'[c] = "pending"
  BY DEF Answer, Goto, TypesInv, Locals, SameLocals
<1>2. BucketOK' /\ LateOK' /\ CountsOK'
  BY DEF Answer, TypesInv, BucketOK, LateOK, CountsOK, bucket, bounds
<1>3. HandlerOK(c)'
  BY <1>1 DEF HandlerOK, RequestOK, PlaceOK, ListOK, TaskOK, NoRequest
<1> QED
  BY <1>1, <1>2, <1>3, OneMoves

\* Writers send their tasks, which drop caches.
LEMMA StartTypes ==
  ASSUME TypesInv, NEW c \in Client, PutStart(c) \/ DeleteStart(c)
  PROVE  TypesInv' /\ \A d \in Client \ {c} : SameLocals(d)
<1> DEFINE p == req[c].path
<1>1. PICK ts :
        /\ pc[c] = "check" /\ req[c].op \in {"put", "delete"} /\ Send(c, ts)
        /\ etag' = [etag EXCEPT ![c] = blob[p]]
        /\ ts \subseteq (CASE req[c].op = "put" -> {<<"put", p>>} [] OTHER -> {<<"remove", p>>})
                          \cup ({"drop"} \X Folder)
        /\ UNCHANGED <<bucket, req, outcome, lister, late, bounds>>
  <2>1. p \in Doc => FoldersAbove(p) \subseteq Folder
    BY DEF Folder
  <2>2. pc[c] = "check" => p \in Doc
    BY DEF TypesInv, HandlerOK, PlaceOK, RequestOK
  <2>3. CASE PutStart(c)
    <3> DEFINE ts == {<<"put", p>>} \cup {<<"drop", f>> : f \in FoldersAbove(p)}
    <3>1. /\ pc[c] = "check" /\ req[c].op = "put" /\ Send(c, ts)
          /\ etag' = [etag EXCEPT ![c] = blob[p]]
          /\ UNCHANGED <<bucket, req, outcome, lister, late, bounds>>
      BY <2>3 DEF PutStart
    <3>2. ts \subseteq {<<"put", p>>} \cup ({"drop"} \X Folder)
      BY <2>1, <2>2, <3>1
    <3> QED
      BY <3>1, <3>2
  <2>4. CASE DeleteStart(c)
    <3> DEFINE above == IF blob[p] = NoBlob THEN {} ELSE FoldersAbove(p)
               doc == IF blob[p] = NoBlob THEN {} ELSE {<<"remove", p>>}
               ts == doc \cup {<<"drop", f>> : f \in above \cup CachesListed(p)}
    <3>1. /\ pc[c] = "check" /\ req[c].op = "delete" /\ Send(c, ts)
          /\ etag' = [etag EXCEPT ![c] = blob[p]]
          /\ UNCHANGED <<bucket, req, outcome, lister, late, bounds>>
      BY <2>4 DEF DeleteStart
    <3>2. ts \subseteq {<<"remove", p>>} \cup ({"drop"} \X Folder)
      BY <2>1, <2>2, <3>1 DEF CachesListed
    <3> QED
      BY <3>1, <3>2
  <2> QED
    BY <2>3, <2>4
<1>2. p \in Doc /\ items[c] = {} /\ nodes[c] = {} /\ heads[c] = {} /\ failed[c] = {}
  BY <1>1 DEF TypesInv, HandlerOK, PlaceOK, RequestOK, ListOK
<1>3. /\ Locals' /\ (\A d \in Client \ {c} : SameLocals(d))
      /\ pc'[c] = "work" /\ tasks'[c] = ts /\ etag'[c] = blob[p]
  BY <1>1 DEF Send, Goto, TypesInv, Locals, SameLocals, lister
<1>4. BucketOK' /\ LateOK' /\ CountsOK' /\ blob[p] \in Value \cup {NoBlob}
  BY <1>1, <1>2 DEF TypesInv, BucketOK, LateOK, CountsOK, bucket, bounds
<1>5. \A t \in ts : TaskOK(c, t)'
  BY <1>1, <1>2 DEF TaskOK, Tasks
<1>6. HandlerOK(c)'
  BY <1>1, <1>2, <1>3, <1>4, <1>5 DEF TypesInv, HandlerOK, PlaceOK, ListOK, RequestOK, lister
<1> QED
  BY <1>3, <1>4, <1>6, OneMoves

\* A task ends, well or badly; what it did to the bucket has the right types.
LEMMA TaskEndTypes ==
  ASSUME TypesInv, NEW c \in Client, NEW t \in tasks[c],
         tasks' = [tasks EXCEPT ![c] = @ \ {t}],
         UNCHANGED <<pc, req, etag, lister, requests>>, BucketOK', LateOK', faults' \in 0..MaxFaults,
         \/ UNCHANGED outcome
         \/ \E o \in {"stored", "conflict", "failed"} : outcome' = [outcome EXCEPT ![c] = o]
  PROVE  TypesInv' /\ \A d \in Client \ {c} : SameLocals(d)
<1>1. /\ Locals' /\ (\A d \in Client \ {c} : SameLocals(d))
      /\ pc'[c] = pc[c] /\ tasks'[c] = tasks[c] \ {t}
      /\ outcome'[c] \in {"pending", "stored", "conflict", "failed"}
  BY DEF TypesInv, Locals, SameLocals, lister, HandlerOK
<1>2. CountsOK'
  BY DEF TypesInv, CountsOK
<1>3. HandlerOK(c)'
  BY <1>1 DEF TypesInv, HandlerOK, PlaceOK, ListOK, RequestOK, TaskOK, lister
<1> QED
  BY <1>1, <1>2, <1>3, OneMoves

LEMMA PutObjectTypes ==
  ASSUME TypesInv, NEW c \in Client, PutObject(c)
  PROVE  TypesInv' /\ \A d \in Client \ {c} : SameLocals(d)
<1> DEFINE p == req[c].path
<1>1. /\ <<"put", p>> \in tasks[c] /\ tasks' = [tasks EXCEPT ![c] = @ \ {<<"put", p>>}]
      /\ blob' = blob \/ blob' = [blob EXCEPT ![p] = req[c].val]
      /\ \E o \in {"stored", "conflict", "failed"} : outcome' = [outcome EXCEPT ![c] = o]
      /\ UNCHANGED <<cache, pc, req, etag, lister, late, bounds>>
  BY DEF PutObject
<1>2. req[c].val \in Value /\ p \in Doc
  BY <1>1 DEF TypesInv, HandlerOK, TaskOK, RequestOK
<1>3. BucketOK' /\ LateOK' /\ faults' \in 0..MaxFaults
  BY <1>1, <1>2 DEF TypesInv, BucketOK, LateOK, CountsOK, bounds
<1> QED
  BY <1>1, <1>3, TaskEndTypes DEF bounds

LEMMA RemoveTypes ==
  ASSUME TypesInv, NEW c \in Client, RemoveObject(c)
  PROVE  TypesInv' /\ \A d \in Client \ {c} : SameLocals(d)
<1> DEFINE p == req[c].path
<1>1. /\ <<"remove", p>> \in tasks[c] /\ tasks' = [tasks EXCEPT ![c] = @ \ {<<"remove", p>>}]
      /\ blob' = [blob EXCEPT ![p] = NoBlob]
      /\ UNCHANGED <<cache, pc, req, etag, outcome, lister, late, bounds>>
  BY DEF RemoveObject
<1>2. BucketOK' /\ LateOK' /\ faults' \in 0..MaxFaults
  BY <1>1 DEF TypesInv, BucketOK, LateOK, CountsOK, bounds
<1> QED
  BY <1>1, <1>2, TaskEndTypes DEF bounds

LEMMA DropTypes ==
  ASSUME TypesInv, NEW c \in Client, NEW f \in Folder, DropCache(c, f)
  PROVE  TypesInv' /\ \A d \in Client \ {c} : SameLocals(d)
<1>1. /\ <<"drop", f>> \in tasks[c] /\ tasks' = [tasks EXCEPT ![c] = @ \ {<<"drop", f>>}]
      /\ cache' = [cache EXCEPT ![f] = {}]
      /\ UNCHANGED <<blob, pc, req, etag, outcome, lister, late, bounds>>
  BY DEF DropCache
<1>2. BucketOK' /\ LateOK' /\ faults' \in 0..MaxFaults
  BY <1>1 DEF TypesInv, BucketOK, LateOK, CountsOK, bounds
<1> QED
  BY <1>1, <1>2, TaskEndTypes DEF bounds

LEMMA StoreTypes ==
  ASSUME TypesInv, NEW c \in Client, NEW g \in Folder, StoreCache(c, g)
  PROVE  TypesInv' /\ \A d \in Client \ {c} : SameLocals(d)
<1>1. /\ <<"cache", g>> \in tasks[c] /\ tasks' = [tasks EXCEPT ![c] = @ \ {<<"cache", g>>}]
      /\ cache' = [cache EXCEPT ![g] = Below(g, items[c])]
      /\ UNCHANGED <<blob, pc, req, etag, outcome, lister, late, bounds>>
  BY DEF StoreCache
<1>2. Below(g, items[c]) \subseteq ItemsBelow(g)
  BY DEF Below, ItemsBelow, TypesInv, HandlerOK, ListOK
<1>3. BucketOK' /\ LateOK' /\ faults' \in 0..MaxFaults
  BY <1>1, <1>2 DEF TypesInv, BucketOK, LateOK, CountsOK, bounds
<1> QED
  BY <1>1, <1>3, TaskEndTypes DEF bounds

LEMMA FaultTypes ==
  ASSUME TypesInv, NEW c \in Client, PutTimesOut(c) \/ TaskFails(c)
  PROVE  TypesInv'
<1>1. faults' \in 0..MaxFaults /\ BucketOK' /\ UNCHANGED <<pc, req, etag, lister, requests>>
  BY BoundAssumption DEF PutTimesOut, TaskFails, TypesInv, CountsOK, BucketOK, bucket
<1>2. PICK t \in tasks[c] : /\ tasks' = [tasks EXCEPT ![c] = @ \ {t}]
                            /\ \/ UNCHANGED outcome
                               \/ outcome' = [outcome EXCEPT ![c] = "failed"]
  BY DEF PutTimesOut, TaskFails
<1>3. LateOK'
  <2>1. CASE PutTimesOut(c)
    <3>1. req[c].path \in Doc /\ req[c].val \in Value
      BY <2>1 DEF PutTimesOut, TypesInv, HandlerOK, TaskOK, RequestOK
    <3> QED
      BY <2>1, <3>1 DEF PutTimesOut, TypesInv, LateOK
  <2>2. CASE TaskFails(c)
    BY <2>2 DEF TaskFails, TypesInv, LateOK
  <2> QED
    BY <2>1, <2>2
<1> QED
  BY <1>1, <1>2, <1>3, TaskEndTypes

LEMMA NotCachedTypes ==
  ASSUME TypesInv, NEW c \in Client, GetNotCached(c)
  PROVE  TypesInv' /\ \A d \in Client \ {c} : SameLocals(d)
<1>1. /\ pc[c] = "get" /\ pc' = [pc EXCEPT ![c] = "list"]
      /\ UNCHANGED <<bucket, req, etag, tasks, outcome, lister, late, bounds>>
  BY DEF GetNotCached, Goto, bounds
<1>2. Locals' /\ (\A d \in Client \ {c} : SameLocals(d)) /\ pc'[c] = "list"
  BY <1>1 DEF TypesInv, Locals, SameLocals, lister
<1>3. BucketOK' /\ LateOK' /\ CountsOK'
  BY <1>1 DEF TypesInv, BucketOK, LateOK, CountsOK, bucket, bounds
<1>4. HandlerOK(c)'
  BY <1>1, <1>2 DEF TypesInv, HandlerOK, PlaceOK, ListOK, RequestOK, TaskOK, lister
<1> QED
  BY <1>2, <1>3, <1>4, OneMoves

LEMMA KeysTypes ==
  ASSUME NoSiblings, TypesInv, NEW c \in Client, ListKeys(c)
  PROVE  TypesInv' /\ \A d \in Client \ {c} : SameLocals(d)
<1> DEFINE f == req[c].path
           shown == {e[1] : e \in OwnItems(f)}
           found == {g \in UNION {FoldersAbove(e[1]) : e \in OwnItems(f) \cup OwnCaches(f)} :
                       IsPrefix(f, g)}
<1>1. /\ pc[c] = "list" /\ pc' = [pc EXCEPT ![c] = "heads"]
      /\ items' = [items EXCEPT ![c] = Listing(f)]
      /\ nodes' = [nodes EXCEPT ![c] = {f} \cup found]
      /\ UNCHANGED <<bucket, req, etag, tasks, outcome, failed, late, bounds>>
  BY DEF ListKeys, Goto
<1>2. PICK s \in SUBSET shown : heads' = [heads EXCEPT ![c] = s]
  BY DEF ListKeys
<1>3. f \in Folder /\ failed[c] = {} /\ tasks[c] = {}
  BY <1>1 DEF TypesInv, HandlerOK, PlaceOK, ListOK, RequestOK
<1>4. \A e \in OwnItems(f) : e \in ItemsBelow(f) /\ e[1] \in Doc
  <2>1. \A e \in OwnItems(f) : \E d \in Doc : e = <<d, blob[d]>> /\ blob[d] # NoBlob
                                              /\ IsStrictPrefix(f, d)
    BY DocsBelow DEF OwnItems
  <2>2. \A d \in Doc : blob[d] # NoBlob => blob[d] \in Value
    BY DEF TypesInv, BucketOK
  <2> QED
    BY <2>1, <2>2 DEF ItemsBelow, Items
<1>5. \A e \in OwnCaches(f) : e[1] \in Folder /\ FromCache(e) \subseteq ItemsBelow(f)
  <2> SUFFICES ASSUME NEW e \in OwnCaches(f)
               PROVE  e[1] \in Folder /\ FromCache(e) \subseteq ItemsBelow(f)
    OBVIOUS
  <2>1. PICK g \in Folder : e = <<g, g>> /\ IsStrictPrefix(f, g)
    BY CachesBelow DEF OwnCaches
  <2>2. FromCache(e) = cache[g] /\ cache[g] \subseteq ItemsBelow(g)
    BY <2>1, CopiedItems DEF TypesInv, BucketOK, ItemsBelow
  <2>3. \A d \in Doc : IsStrictPrefix(g, d) => IsStrictPrefix(f, d)
    BY <1>3, <2>1, Chain, Paths DEF IsStrictPrefix
  <2> QED
    BY <2>1, <2>2, <2>3 DEF ItemsBelow, Items
<1>6. Listing(f) \subseteq ItemsBelow(f) /\ shown \subseteq {e[1] : e \in Listing(f)}
  BY <1>4, <1>5 DEF Listing
<1>7. {f} \cup found \subseteq {g \in Folder : IsPrefix(f, g)}
  <2>1. \A e \in OwnItems(f) \cup OwnCaches(f) : FoldersAbove(e[1]) \subseteq Folder
    BY <1>4, <1>5, FoldersAboveFolders DEF Folder, FoldersAbove
  <2>2. IsPrefix(f, f)
    BY <1>3, Paths, PrefixElements
  <2> QED
    BY <1>3, <2>1, <2>2
<1> HIDE DEF shown, found
<1>8. /\ Locals' /\ (\A d \in Client \ {c} : SameLocals(d)) /\ pc'[c] = "heads"
      /\ items'[c] = Listing(f) /\ nodes'[c] = {f} \cup found /\ heads'[c] = s
  BY <1>1, <1>2 DEF TypesInv, Locals, SameLocals
<1>9. BucketOK' /\ LateOK' /\ CountsOK'
  BY <1>1 DEF TypesInv, BucketOK, LateOK, CountsOK, bucket, bounds
<1>10. ListOK(c)'
  BY <1>1, <1>3, <1>6, <1>7, <1>8 DEF ListOK, ItemsBelow
<1>11. HandlerOK(c)'
  BY <1>1, <1>3, <1>8, <1>10 DEF TypesInv, HandlerOK, PlaceOK, RequestOK
<1> QED
  BY <1>8, <1>9, <1>11, OneMoves

LEMMA HeadTypes ==
  ASSUME TypesInv, NEW c \in Client, NEW q \in heads[c], HeadObject(c, q)
  PROVE  TypesInv' /\ \A d \in Client \ {c} : SameLocals(d)
<1> DEFINE others == {e \in items[c] : e[1] # q}
<1>1. /\ pc[c] = "heads" /\ heads' = [heads EXCEPT ![c] = @ \ {q}]
      /\ UNCHANGED <<bucket, pc, req, etag, tasks, outcome, nodes, late, bounds>>
  BY DEF HeadObject
<1>2. \/ /\ blob[q] # NoBlob /\ items' = [items EXCEPT ![c] = others \cup {<<q, blob[q]>>}]
         /\ UNCHANGED failed
      \/ failed' = [failed EXCEPT ![c] = @ \cup {Front(q)}] /\ UNCHANGED items
  BY DEF HeadObject
<1>3. q \in Doc /\ IsStrictPrefix(req[c].path, q) /\ Front(q) \in Folder
  BY FrontOfDoc DEF TypesInv, HandlerOK, ListOK, ItemsBelow, Items
<1>4. /\ Locals' /\ (\A d \in Client \ {c} : SameLocals(d))
      /\ pc'[c] = "heads" /\ heads'[c] = heads[c] \ {q} /\ nodes'[c] = nodes[c]
      /\ items'[c] \in {items[c], others \cup {<<q, blob[q]>>}}
      /\ items'[c] # items[c] => blob[q] # NoBlob
      /\ failed'[c] \in {failed[c], failed[c] \cup {Front(q)}}
  BY <1>1, <1>2 DEF TypesInv, Locals, SameLocals
<1>5. BucketOK' /\ LateOK' /\ CountsOK'
  BY <1>1 DEF TypesInv, BucketOK, LateOK, CountsOK, bucket, bounds
<1>6. items'[c] \subseteq ItemsBelow(req[c].path) /\ heads'[c] \subseteq {e[1] : e \in items'[c]}
  <2>1. items[c] \subseteq ItemsBelow(req[c].path) /\ heads[c] \subseteq {e[1] : e \in items[c]}
    BY DEF TypesInv, HandlerOK, ListOK
  <2>2. CASE items'[c] = items[c]
    BY <1>4, <2>1, <2>2
  <2>3. CASE items'[c] # items[c]
    <3>1. blob[q] \in Value
      BY <1>3, <1>4, <2>3 DEF TypesInv, BucketOK
    <3> QED
      BY <1>3, <1>4, <2>1, <2>3, <3>1 DEF ItemsBelow, Items
  <2> QED
    BY <2>2, <2>3
<1>7. HandlerOK(c)'
  BY <1>1, <1>3, <1>4, <1>6 DEF TypesInv, HandlerOK, PlaceOK, ListOK, RequestOK, TaskOK
<1> QED
  BY <1>4, <1>5, <1>7, OneMoves

LEMMA AbandonTypes ==
  ASSUME TypesInv, NEW c \in Client, HeadsAbandoned(c)
  PROVE  TypesInv' /\ \A d \in Client \ {c} : SameLocals(d)
<1>1. PICK q \in heads[c] : failed' = [failed EXCEPT ![c] = @ \cup {Front(q)}]
  BY DEF HeadsAbandoned
<1>2. /\ pc[c] = "heads" /\ heads' = [heads EXCEPT ![c] = {}]
      /\ UNCHANGED <<bucket, pc, req, etag, tasks, outcome, items, nodes, late, bounds>>
  BY DEF HeadsAbandoned
<1>3. Front(q) \in Folder
  BY FrontOfDoc DEF TypesInv, HandlerOK, ListOK, ItemsBelow, Items
<1>4. /\ Locals' /\ (\A d \in Client \ {c} : SameLocals(d))
      /\ heads'[c] = {} /\ failed'[c] = failed[c] \cup {Front(q)}
  BY <1>1, <1>2 DEF TypesInv, Locals, SameLocals
<1>5. BucketOK' /\ LateOK' /\ CountsOK'
  BY <1>2 DEF TypesInv, BucketOK, LateOK, CountsOK, bucket, bounds
<1>6. HandlerOK(c)'
  BY <1>2, <1>3, <1>4 DEF TypesInv, HandlerOK, PlaceOK, ListOK, RequestOK, TaskOK
<1> QED
  BY <1>4, <1>5, <1>6, OneMoves

LEMMA HeadsDoneTypes ==
  ASSUME TypesInv, NEW c \in Client, HeadsDone(c)
  PROVE  TypesInv' /\ \A d \in Client \ {c} : SameLocals(d)
<1> DEFINE incomplete == UNION {Prefixes(g) : g \in failed[c]}
           complete == {g \in nodes[c] \ incomplete : Below(g, items[c]) # {}}
           ts == {<<"cache", g>> : g \in complete} \cup {<<"drop", g>> : g \in incomplete}
<1>1. /\ pc[c] = "heads" /\ Send(c, ts)
      /\ UNCHANGED <<bucket, req, etag, outcome, lister, late, bounds>>
  BY DEF HeadsDone
<1>2. /\ req[c].op = "list" /\ failed[c] \subseteq Folder
      /\ nodes[c] \subseteq {g \in Folder : IsPrefix(req[c].path, g)}
  BY <1>1 DEF TypesInv, HandlerOK, PlaceOK, ListOK
<1>3. incomplete \subseteq Folder
  BY <1>2, FoldersAboveFolders
<1> HIDE DEF incomplete
<1>4. \A t \in ts : TaskOK(c, t)'
  BY <1>1, <1>2, <1>3 DEF TaskOK, Tasks
<1> HIDE DEF ts
<1>5. Locals' /\ (\A d \in Client \ {c} : SameLocals(d)) /\ pc'[c] = "work" /\ tasks'[c] = ts
  BY <1>1 DEF Send, Goto, TypesInv, Locals, SameLocals, lister
<1>6. BucketOK' /\ LateOK' /\ CountsOK'
  BY <1>1 DEF TypesInv, BucketOK, LateOK, CountsOK, bucket, bounds
<1>7. HandlerOK(c)'
  BY <1>1, <1>4, <1>5 DEF TypesInv, HandlerOK, PlaceOK, ListOK, RequestOK, lister
<1> QED
  BY <1>5, <1>6, <1>7, OneMoves

LEMMA RestartTypes ==
  ASSUME TypesInv, Restart, faults' \in 0..MaxFaults
  PROVE  TypesInv'
<1>1. Locals' /\ BucketOK' /\ LateOK' /\ CountsOK'
  BY DEF Restart, TypesInv, Locals, BucketOK, LateOK, CountsOK, bucket
<1>2. ASSUME NEW c \in Client PROVE HandlerOK(c)'
  BY DEF Restart, HandlerOK, RequestOK, PlaceOK, ListOK, TaskOK, NoRequest
<1> QED
  BY <1>1, <1>2 DEF TypesInv

LEMMA StepTypes == NoSiblings /\ TypesInv /\ [Next]_vars => TypesInv'
<1> SUFFICES ASSUME NoSiblings, TypesInv, [Next]_vars PROVE TypesInv'
  OBVIOUS
<1>1. ASSUME NEW c \in Client,
             \/ PutRefused(c) \/ PutAnswer(c) \/ DeleteRefused(c) \/ DeleteAnswer(c)
             \/ GetCached(c) \/ ListRefused(c) \/ ListAnswer(c)
      PROVE  TypesInv'
  <2>1. Answer(c)
    BY <1>1 DEF PutRefused, PutAnswer, DeleteRefused, DeleteAnswer, GetCached, ListRefused,
                ListAnswer
  <2> QED
    BY <2>1, AnswerTypes
<1>2. ASSUME NEW c \in Client, Step(c)
      PROVE  TypesInv'
  <2>1. PutConflict(c) => TypesInv'
    BY RestartTypes DEF PutConflict, TypesInv, CountsOK
  <2> QED
    BY <1>1, <1>2, <2>1, StartTypes, PutObjectTypes, RemoveTypes, DropTypes, StoreTypes,
       NotCachedTypes, KeysTypes, HeadTypes, HeadsDoneTypes DEF Step
<1>3. ASSUME NEW r \in late, LatePut(r)
      PROVE  TypesInv'
  <2>1. BucketOK' /\ LateOK'
    BY <1>3 DEF LatePut, TypesInv, BucketOK, LateOK
  <2>2. Locals' /\ CountsOK' /\ \A c \in Client : HandlerOK(c)'
    BY <1>3 DEF LatePut, TypesInv, Locals, CountsOK, HandlerOK, RequestOK, PlaceOK, ListOK,
                TaskOK, lister, bounds
  <2> QED
    BY <2>1, <2>2 DEF TypesInv
<1>4. ASSUME Crash
      PROVE  TypesInv'
  BY <1>4, RestartTypes, BoundAssumption DEF Crash, TypesInv, CountsOK
<1>5. CASE UNCHANGED vars
  BY <1>5 DEF vars, bucket, lister, bounds, TypesInv, Locals, BucketOK, LateOK, CountsOK,
              HandlerOK, RequestOK, PlaceOK, ListOK, TaskOK
<1> QED
  BY <1>2, <1>3, <1>4, <1>5, RequestTypes, FaultTypes, AbandonTypes DEF Next, Trouble

-----------------------------------------------------------------------------
(* Caches while no lister runs beside a writer.                            *)

Alone == \A c, d \in Client : ~(Writer(c) /\ Lister(d))

\* Writer c is about to drop the cache of f.
Drops(c, f) == Writer(c) /\ <<"drop", f>> \in tasks[c]

\* A cache that is wrong is about to be dropped.
CachesOK ==
  \A f \in Folder : cache[f] # {} /\ cache[f] # TrueListing(f) => \E c \in Client : Drops(c, f)

\* Before a writer changes its document, each cache above is gone or about to.
ClearsAbove(c) ==
  LET p == req[c].path
  IN  tasks[c] \cap {<<"put", p>>, <<"remove", p>>} # {} =>
        \A f \in FoldersAbove(p) : cache[f] = {} \/ Drops(c, f)

\* What a lister has put together is exact.
ItemsExact(c) == pc[c] \in {"heads", "work"} /\ Lister(c) => items[c] = TrueListing(req[c].path)

CalmInv ==
  ~disturbed => /\ late = {} /\ Alone /\ CachesOK
                /\ \A c \in Client : ClearsAbove(c) /\ ItemsExact(c)

\* What a handler is does not change but by accepting or answering a request.
LEMMA SameRoles ==
  ASSUME TypesInv, NEW c \in Client, \A d \in Client \ {c} : SameLocals(d),
         req'[c] = req[c], pc[c] # "idle", pc'[c] # "idle"
  PROVE  \A d \in Client : (Writer(d)' <=> Writer(d)) /\ (Lister(d)' <=> Lister(d))
BY DEF Writer, Lister, SameLocals

\* A step of handler c that leaves the bucket alone.
LEMMA QuietStep ==
  ASSUME TypesInv, CalmInv, ~disturbed, NEW c \in Client, \A d \in Client \ {c} : SameLocals(d),
         UNCHANGED <<bucket, late>>, Alone',
         \A f \in Folder : Drops(c, f) => Drops(c, f)',
         ClearsAbove(c)', ItemsExact(c)'
  PROVE  CalmInv'
<1>1. ASSUME NEW d \in Client, d # c
      PROVE  /\ Writer(d)' <=> Writer(d)
             /\ Lister(d)' <=> Lister(d)
             /\ \A f \in Folder : Drops(d, f)' <=> Drops(d, f)
  BY <1>1 DEF SameLocals, Writer, Lister, Drops
<1>2. \A f : TrueListing(f)' = TrueListing(f)
  BY DEF TrueListing, bucket
<1>3. CachesOK'
  BY <1>1, <1>2 DEF CalmInv, CachesOK, bucket
<1>4. ASSUME NEW d \in Client, d # c
      PROVE  ClearsAbove(d)' /\ ItemsExact(d)'
  BY <1>1, <1>2, <1>4 DEF CalmInv, ClearsAbove, ItemsExact, SameLocals, bucket, Drops, Writer, Lister
<1> QED
  BY <1>3, <1>4 DEF CalmInv

LEMMA AcceptCalm ==
  ASSUME TypesInv, CalmInv, ~disturbed', NEW c \in Client, NEW r, NEW l \in {"check", "get"},
         Accept(c, r, l), \A d \in Client \ {c} : SameLocals(d),
         r.op \in {"put", "delete", "list"}
  PROVE  CalmInv'
<1>1. /\ ~disturbed /\ pc[c] = "idle" /\ pc'[c] = l /\ req'[c] = r
      /\ IF r.op = "list" THEN ~\E d \in Client : Writer(d) ELSE ~\E d \in Client : Lister(d)
      /\ UNCHANGED <<bucket, late, tasks>> /\ tasks[c] = {}
  BY DEF Accept, Goto, TypesInv, Locals, HandlerOK, PlaceOK
<1>2. \A d \in Client \ {c} : (Writer(d)' <=> Writer(d)) /\ (Lister(d)' <=> Lister(d))
  BY DEF SameLocals, Writer, Lister
<1>3. Alone'
  BY <1>1, <1>2 DEF Alone, CalmInv, Writer, Lister
<1>4. ClearsAbove(c)' /\ ItemsExact(c)' /\ \A f \in Folder : ~Drops(c, f)
  BY <1>1 DEF ClearsAbove, ItemsExact, Drops
<1> QED
  BY <1>1, <1>3, <1>4, QuietStep

LEMMA RequestCalm ==
  ASSUME TypesInv, CalmInv, ~disturbed', NEW c \in Client, Request(c)
  PROVE  CalmInv'
<1>1. \A d \in Client \ {c} : SameLocals(d)
  BY RequestTypes
<1>2. CASE RequestPut(c)
  <2>1. PICK p \in Doc, v \in Value, cond \in Conditions, ver \in Value \cup {NoBlob},
             small \in BOOLEAN :
          Accept(c, [op |-> "put", path |-> p, val |-> v,
                     cond |-> cond, version |-> ver, small |-> small], "check")
    BY <1>2 DEF RequestPut
  <2> QED
    BY <1>1, <2>1, AcceptCalm
<1>3. CASE RequestDelete(c)
  <2>1. PICK p \in Doc, cond \in Conditions, ver \in Value \cup {NoBlob} :
          Accept(c, [op |-> "delete", path |-> p, val |-> NoBlob,
                     cond |-> cond, version |-> ver, small |-> TRUE], "check")
    BY <1>3 DEF RequestDelete
  <2> QED
    BY <1>1, <2>1, AcceptCalm
<1>4. CASE RequestList(c)
  BY <1>1, <1>4, AcceptCalm DEF RequestList
<1> QED
  BY <1>2, <1>3, <1>4 DEF Request

\* A handler answers when no task of its is left.
LEMMA AnswerCalm ==
  ASSUME TypesInv, CalmInv, ~disturbed', NEW c \in Client, Answer(c), tasks[c] = {}
  PROVE  CalmInv'
<1>1. (\A d \in Client \ {c} : SameLocals(d)) /\ pc'[c] = "idle" /\ tasks'[c] = {}
  BY AnswerTypes
<1>2. ~disturbed /\ UNCHANGED <<bucket, late>>
  BY DEF Answer
<1>3. Alone'
  BY <1>1, <1>2 DEF CalmInv, Alone, Writer, Lister, SameLocals
<1>4. ClearsAbove(c)' /\ ItemsExact(c)' /\ \A f \in Folder : ~Drops(c, f)
  BY <1>1 DEF ClearsAbove, ItemsExact, Drops, Lister
<1> QED
  BY <1>1, <1>2, <1>3, <1>4, QuietStep

\* A writer sends its tasks: with the change of its document, the drops of all
\* caches above.
LEMMA StartCalm ==
  ASSUME TypesInv, CalmInv, ~disturbed', NEW c \in Client, PutStart(c) \/ DeleteStart(c)
  PROVE  CalmInv'
<1> DEFINE p == req[c].path
<1>1. /\ ~disturbed /\ pc[c] = "check" /\ req[c].op \in {"put", "delete"}
      /\ UNCHANGED <<bucket, late, req>>
  BY DEF PutStart, DeleteStart
<1>2. PICK ts : /\ Send(c, ts)
                /\ ts \cap {<<"put", p>>, <<"remove", p>>} # {} =>
                     \A f \in FoldersAbove(p) : <<"drop", f>> \in ts
  <2>1. CASE PutStart(c)
    BY <2>1 DEF PutStart
  <2>2. CASE DeleteStart(c)
    <3>1. CASE blob[p] = NoBlob
      BY <2>2, <3>1 DEF DeleteStart
    <3>2. CASE blob[p] # NoBlob
      BY <2>2, <3>2 DEF DeleteStart
    <3> QED
      BY <3>1, <3>2
  <2> QED
    BY <2>1, <2>2
<1>3. (\A d \in Client \ {c} : SameLocals(d)) /\ pc'[c] = "work" /\ tasks'[c] = ts
  BY <1>2, StartTypes DEF Send, Goto, TypesInv, Locals
<1>4. Writer(c) /\ Writer(c)' /\ Alone' /\ \A f \in Folder : ~Drops(c, f)
  BY <1>1, <1>3, SameRoles DEF CalmInv, Alone, Writer, Drops, TypesInv, HandlerOK, PlaceOK
<1>5. ItemsExact(c)'
  BY <1>1 DEF ItemsExact, Lister
<1>6. ClearsAbove(c)'
  BY <1>1, <1>2, <1>3, <1>4 DEF ClearsAbove, Drops
<1> QED
  BY <1>1, <1>3, <1>4, <1>5, <1>6, QuietStep

\* A change of a document shows in the folders above it and nowhere else.
LEMMA OtherListings ==
  ASSUME NEW p \in Doc, \A d \in Doc \ {p} : blob'[d] = blob[d],
         NEW f \in Folder, f \notin FoldersAbove(p)
  PROVE  TrueListing(f)' = TrueListing(f)
<1>1. ASSUME NEW d \in Doc, IsStrictPrefix(f, d)
      PROVE  d # p /\ Front(p) # d
  <2>1. ~IsStrictPrefix(f, p)
    BY Folders
  <2>2. Front(p) = d => IsStrictPrefix(f, p)
    BY <1>1, FrontOfDoc, Chain, Paths DEF IsStrictPrefix
  <2> QED
    BY <1>1, <2>1, <2>2
<1>2. \A d \in Doc : IsStrictPrefix(f, d) => blob'[d] = blob[d] /\ (Hidden(d)' <=> Hidden(d))
  BY <1>1 DEF Hidden
<1> QED
  BY <1>2 DEF TrueListing, Hidden

\* A writer changes its document when the caches above are gone or about to be
\* dropped by it.
LEMMA ChangeCalm ==
  ASSUME TypesInv, CalmInv, ~disturbed, NEW c \in Client, NEW t \in tasks[c],
         t \in {<<"put", req[c].path>>, <<"remove", req[c].path>>},
         tasks' = [tasks EXCEPT ![c] = @ \ {t}],
         \A d \in Doc \ {req[c].path} : blob'[d] = blob[d],
         UNCHANGED <<cache, pc, req, lister, late, disturbed>>
  PROVE  CalmInv'
<1> DEFINE p == req[c].path
<1>1. Writer(c) /\ p \in Doc
  BY DEF TypesInv, HandlerOK, TaskOK, PlaceOK, RequestOK, Writer
<1>2. ASSUME NEW d \in Client
      PROVE  /\ Writer(d)' <=> Writer(d)
             /\ Lister(d)' <=> Lister(d)
             /\ tasks'[d] \subseteq tasks[d]
             /\ \A f \in Folder : Drops(d, f)' <=> Drops(d, f)
  BY DEF TypesInv, Locals, Writer, Lister, Drops
<1>3. \A f \in FoldersAbove(p) : cache[f] = {} \/ Drops(c, f)
  BY DEF CalmInv, ClearsAbove
<1>4. ASSUME NEW f \in Folder, cache'[f] # {}, cache'[f] # TrueListing(f)'
      PROVE  \E d \in Client : Drops(d, f)'
  <2>1. CASE f \in FoldersAbove(p)
    BY <1>2, <1>3, <1>4, <2>1
  <2>2. CASE f \notin FoldersAbove(p)
    <3>1. TrueListing(f)' = TrueListing(f)
      BY <1>1, <2>2, OtherListings
    <3> QED
      BY <1>2, <1>4, <3>1 DEF CalmInv, CachesOK
  <2> QED
    BY <2>1, <2>2
<1>5. ASSUME NEW d \in Client
      PROVE  ClearsAbove(d)' /\ ItemsExact(d)'
  <2>1. ~Lister(d)'
    BY <1>1, <1>2 DEF CalmInv, Alone
  <2>2. req[d].path \in Doc \/ tasks[d] \cap {<<"put", req[d].path>>, <<"remove", req[d].path>>} = {}
    BY DEF TypesInv, HandlerOK, TaskOK, RequestOK
  <2>3. req[d].path \in Doc => FoldersAbove(req[d].path) \subseteq Folder
    BY DEF Folder
  <2>4. ClearsAbove(d)
    BY DEF CalmInv
  <2> QED
    BY <1>2, <2>1, <2>2, <2>3, <2>4 DEF ClearsAbove, ItemsExact
<1> QED
  BY <1>2, <1>4, <1>5 DEF CalmInv, Alone, CachesOK

LEMMA WriteCalm ==
  ASSUME TypesInv, CalmInv, ~disturbed', NEW c \in Client, PutObject(c) \/ RemoveObject(c)
  PROVE  CalmInv'
<1> DEFINE p == req[c].path
<1>1. CASE PutObject(c)
  <2>1. /\ <<"put", p>> \in tasks[c] /\ tasks' = [tasks EXCEPT ![c] = @ \ {<<"put", p>>}]
        /\ blob' = blob \/ blob' = [blob EXCEPT ![p] = req[c].val]
        /\ UNCHANGED <<cache, pc, req, lister, late, disturbed>>
    BY <1>1 DEF PutObject
  <2>2. \A d \in Doc \ {p} : blob'[d] = blob[d]
    BY <2>1 DEF TypesInv, BucketOK
  <2> QED
    BY <2>1, <2>2, ChangeCalm
<1>2. CASE RemoveObject(c)
  <2>1. /\ <<"remove", p>> \in tasks[c] /\ tasks' = [tasks EXCEPT ![c] = @ \ {<<"remove", p>>}]
        /\ blob' = [blob EXCEPT ![p] = NoBlob]
        /\ UNCHANGED <<cache, pc, req, lister, late, disturbed>>
    BY <1>2 DEF RemoveObject
  <2>2. \A d \in Doc \ {p} : blob'[d] = blob[d]
    BY <2>1 DEF TypesInv, BucketOK
  <2> QED
    BY <2>1, <2>2, ChangeCalm
<1> QED
  BY <1>1, <1>2

\* A cache blob changes, the documents do not: it is gone or as it should be.
LEMMA CacheCalm ==
  ASSUME TypesInv, CalmInv, ~disturbed, NEW c \in Client, NEW t \in tasks[c],
         NEW f \in Folder, t \in {<<"drop", f>>, <<"cache", f>>},
         tasks' = [tasks EXCEPT ![c] = @ \ {t}],
         \A g \in Folder \ {f} : cache'[g] = cache[g],
         cache'[f] = {} \/ (cache'[f] = TrueListing(f) /\ Lister(c)),
         UNCHANGED <<blob, pc, req, lister, late, disturbed>>
  PROVE  CalmInv'
<1>1. ASSUME NEW d \in Client
      PROVE  /\ Writer(d)' <=> Writer(d)
             /\ Lister(d)' <=> Lister(d)
             /\ tasks'[d] \subseteq tasks[d]
             /\ \A g \in Folder \ {f} : Drops(d, g)' <=> Drops(d, g)
  BY DEF TypesInv, Locals, Writer, Lister, Drops
<1>2. \A g : TrueListing(g)' = TrueListing(g)
  BY DEF TrueListing
<1>3. CachesOK'
  BY <1>1, <1>2 DEF CalmInv, CachesOK
<1>4. ASSUME NEW d \in Client
      PROVE  ClearsAbove(d)' /\ ItemsExact(d)'
  <2>1. ItemsExact(d)'
    BY <1>1, <1>2 DEF CalmInv, ItemsExact, lister
  <2> DEFINE changes == {<<"put", req[d].path>>, <<"remove", req[d].path>>}
  <2>2. ClearsAbove(d)' <=>
          (tasks'[d] \cap changes # {} =>
             \A g \in FoldersAbove(req[d].path) : cache'[g] = {} \/ Drops(d, g)')
    BY DEF ClearsAbove
  <2>3. CASE tasks[d] \cap changes = {}
    <3>1. tasks'[d] \cap changes = {}
      BY <1>1, <2>3
    <3> QED
      BY <2>1, <2>2, <3>1
  <2>4. CASE tasks[d] \cap changes # {}
    <3>1. Writer(d) /\ req[d].path \in Doc
      BY <2>4 DEF TypesInv, HandlerOK, TaskOK, PlaceOK, RequestOK, Writer
    <3>2. cache'[f] = {}
      BY <3>1 DEF CalmInv, Alone
    <3>3. FoldersAbove(req[d].path) \subseteq Folder
      BY <3>1 DEF Folder
    <3>4. \A g \in FoldersAbove(req[d].path) : cache[g] = {} \/ Drops(d, g)
      BY <2>4 DEF CalmInv, ClearsAbove
    <3>5. \A g \in FoldersAbove(req[d].path) : cache'[g] = {} \/ Drops(d, g)'
      BY <1>1, <3>2, <3>3, <3>4
    <3> QED
      BY <2>1, <2>2, <3>5
  <2> QED
    BY <2>3, <2>4
<1> QED
  BY <1>1, <1>3, <1>4 DEF CalmInv, Alone

LEMMA DropCalm ==
  ASSUME TypesInv, CalmInv, ~disturbed', NEW c \in Client, NEW f \in Folder, DropCache(c, f)
  PROVE  CalmInv'
<1>1. /\ <<"drop", f>> \in tasks[c] /\ tasks' = [tasks EXCEPT ![c] = @ \ {<<"drop", f>>}]
      /\ cache' = [cache EXCEPT ![f] = {}]
      /\ UNCHANGED <<blob, pc, req, lister, late, disturbed>>
  BY DEF DropCache
<1>2. cache'[f] = {} /\ \A g \in Folder \ {f} : cache'[g] = cache[g]
  BY <1>1 DEF TypesInv, BucketOK
<1> QED
  BY <1>1, <1>2, CacheCalm

\* A lister stores what its exact listing shows below a folder.
LEMMA StoreCalm ==
  ASSUME TypesInv, CalmInv, ~disturbed', NEW c \in Client, NEW g \in Folder, StoreCache(c, g)
  PROVE  CalmInv'
<1>1. /\ <<"cache", g>> \in tasks[c] /\ tasks' = [tasks EXCEPT ![c] = @ \ {<<"cache", g>>}]
      /\ cache' = [cache EXCEPT ![g] = Below(g, items[c])]
      /\ UNCHANGED <<blob, pc, req, lister, late, disturbed>>
  BY DEF StoreCache
<1>2. /\ Lister(c) /\ pc[c] = "work" /\ IsPrefix(req[c].path, g) /\ req[c].path \in Folder
  BY <1>1 DEF TypesInv, HandlerOK, TaskOK, PlaceOK, RequestOK, Lister
<1>3. items[c] = TrueListing(req[c].path)
  BY <1>1, <1>2 DEF CalmInv, ItemsExact
<1>4. \A d \in Doc : IsStrictPrefix(g, d) => IsStrictPrefix(req[c].path, d)
  BY <1>2, Chain, Paths
<1>5. Below(g, items[c]) = TrueListing(g)
  BY <1>3, <1>4 DEF Below, TrueListing
<1>6. cache'[g] = TrueListing(g) /\ \A f \in Folder \ {g} : cache'[f] = cache[f]
  BY <1>1, <1>5 DEF TypesInv, BucketOK
<1> QED
  BY <1>1, <1>2, <1>6, CacheCalm

\* A lister goes on; its listing is exact if its step makes it so.
LEMMA ListerCalm ==
  ASSUME TypesInv, TypesInv', CalmInv, ~disturbed, NEW c \in Client,
         \A d \in Client \ {c} : SameLocals(d), pc[c] \in {"get", "list", "heads"}, pc'[c] \in {"list", "heads", "work"},
         UNCHANGED <<bucket, req, late>>,
         pc'[c] \in {"heads", "work"} => items'[c] = TrueListing(req[c].path)
  PROVE  CalmInv'
<1>1. Lister(c) /\ ~Writer(c)
  BY DEF TypesInv, HandlerOK, PlaceOK, Lister, Writer
<1>2. Alone' /\ ~Writer(c)'
  BY <1>1, SameRoles DEF CalmInv, Alone
<1>3. \A f : TrueListing(f)' = TrueListing(f)
  BY DEF TrueListing, bucket
<1>4. ItemsExact(c)'
  BY <1>3 DEF ItemsExact
<1>5. ClearsAbove(c)'
  <2>1. req'[c].op = "list" /\ \A t \in tasks'[c] : TaskOK(c, t)'
    BY DEF TypesInv, HandlerOK, PlaceOK
  <2>2. tasks'[c] \cap {<<"put", req'[c].path>>, <<"remove", req'[c].path>>} = {}
    BY <2>1 DEF TaskOK
  <2> QED
    BY <2>2 DEF ClearsAbove
<1>6. \A f \in Folder : ~Drops(c, f)
  BY <1>1 DEF Drops
<1> QED
  BY <1>2, <1>4, <1>5, <1>6, QuietStep

LEMMA ListCalm ==
  ASSUME NoSiblings, TypesInv, TypesInv', CalmInv, ~disturbed', NEW c \in Client,
         GetNotCached(c) \/ ListKeys(c) \/ HeadsDone(c) \/ HeadsAbandoned(c)
  PROVE  CalmInv'
<1>1. \A d \in Client \ {c} : SameLocals(d)
  BY NotCachedTypes, KeysTypes, HeadsDoneTypes, AbandonTypes
<1>2. /\ ~disturbed /\ pc[c] \in {"get", "list", "heads"} /\ UNCHANGED <<bucket, req, late>>
  BY DEF GetNotCached, ListKeys, HeadsDone, HeadsAbandoned
<1>3. CASE GetNotCached(c)
  <2>1. pc'[c] = "list"
    BY <1>3 DEF GetNotCached, Goto, TypesInv, Locals
  <2> QED
    BY <1>1, <1>2, <2>1, ListerCalm
<1>4. CASE ListKeys(c)
  <2>1. pc[c] = "list" /\ pc'[c] = "heads" /\ items'[c] = Listing(req[c].path)
    BY <1>4 DEF ListKeys, Goto, TypesInv, Locals
  <2>2. Lister(c) /\ req[c].path \in Folder
    BY <2>1 DEF TypesInv, HandlerOK, PlaceOK, RequestOK, Lister
  <2>3. CacheIsExact
    BY <1>2, <2>2 DEF CalmInv, Alone, CachesOK, Drops, CacheIsExact
  <2>4. \A g \in Folder : cache[g] \subseteq {e \in Items : IsStrictPrefix(g, e[1])}
    BY DEF TypesInv, BucketOK, ItemsBelow
  <2>5. Listing(req[c].path) = TrueListing(req[c].path)
    BY <2>2, <2>3, <2>4, ListingExact
  <2> QED
    BY <1>1, <1>2, <2>1, <2>5, ListerCalm
<1>5. CASE HeadsDone(c) \/ HeadsAbandoned(c)
  <2>1. pc[c] = "heads" /\ items' = items /\ pc'[c] \in {"heads", "work"}
    BY <1>5 DEF HeadsDone, HeadsAbandoned, Send, Goto, TypesInv, Locals, lister
  <2>2. items[c] = TrueListing(req[c].path)
    BY <1>2, <2>1 DEF CalmInv, ItemsExact, TypesInv, HandlerOK, PlaceOK, Lister
  <2> QED
    BY <1>1, <1>2, <2>1, <2>2, ListerCalm
<1> QED
  BY <1>3, <1>4, <1>5

\* No writer runs: the document is there, with the ETag that was listed.
LEMMA HeadCalm ==
  ASSUME TypesInv, TypesInv', CalmInv, ~disturbed', NEW c \in Client, NEW q \in heads[c],
         HeadObject(c, q)
  PROVE  CalmInv'
<1>1. \A d \in Client \ {c} : SameLocals(d)
  BY HeadTypes
<1>2. pc[c] = "heads" /\ ~disturbed /\ UNCHANGED <<bucket, pc, req, late>>
  BY DEF HeadObject
<1>3. items[c] = TrueListing(req[c].path)
  BY <1>2 DEF CalmInv, ItemsExact, TypesInv, HandlerOK, PlaceOK, Lister
<1>4. PICK e \in items[c] : e[1] = q
  BY DEF TypesInv, HandlerOK, ListOK
<1>5. q \in Doc /\ blob[q] # NoBlob /\ e = <<q, blob[q]>>
  BY <1>3, <1>4, TrueItems
<1>6. \A i \in items[c] : i[1] = q => i = <<q, blob[q]>>
  BY <1>3, TrueItems
<1>7. items'[c] = {i \in items[c] : i[1] # q} \cup {<<q, blob[q]>>}
  BY <1>5 DEF HeadObject, TypesInv, Locals
<1>8. items'[c] = items[c]
  BY <1>4, <1>5, <1>6, <1>7
<1> QED
  BY <1>1, <1>2, <1>3, <1>8, ListerCalm

LEMMA InitCalm == Init => CalmInv
BY DEF Init, CalmInv, Alone, CachesOK, ClearsAbove, ItemsExact, Writer, Lister

LEMMA StepCalm == NoSiblings /\ TypesInv /\ TypesInv' /\ CalmInv /\ [Next]_vars => CalmInv'
<1> SUFFICES ASSUME NoSiblings, TypesInv, TypesInv', CalmInv, [Next]_vars, ~disturbed'
             PROVE  CalmInv'
  BY DEF CalmInv
<1>1. ASSUME NEW c \in Client,
             \/ PutRefused(c) \/ PutAnswer(c) \/ DeleteRefused(c) \/ DeleteAnswer(c)
             \/ GetCached(c) \/ ListRefused(c) \/ ListAnswer(c)
      PROVE  CalmInv'
  <2>1. Answer(c) /\ tasks[c] = {}
    BY <1>1 DEF PutRefused, PutAnswer, DeleteRefused, DeleteAnswer, GetCached, ListRefused,
                ListAnswer, TypesInv, HandlerOK, PlaceOK
  <2> QED
    BY <2>1, AnswerCalm
<1>2. ASSUME NEW c \in Client, Step(c)
      PROVE  CalmInv'
  <2>1. ~PutConflict(c)
    BY DEF PutConflict, Restart
  <2> QED
    BY <1>1, <1>2, <2>1, StartCalm, WriteCalm, DropCalm, StoreCalm, ListCalm, HeadCalm DEF Step
<1>3. ASSUME NEW c \in Client, Trouble(c)
      PROVE  CalmInv'
  <2>1. HeadsAbandoned(c)
    BY <1>3 DEF Trouble, PutTimesOut, TaskFails
  <2> QED
    BY <2>1, ListCalm
<1>4. ASSUME NEW r \in late, LatePut(r)
      PROVE  FALSE
  BY <1>4 DEF LatePut, CalmInv
<1>5. ~Crash
  BY DEF Crash, Restart
<1>6. CASE UNCHANGED vars
  BY <1>6 DEF vars, bucket, lister, bounds, CalmInv, Alone, CachesOK, ClearsAbove, ItemsExact,
              Drops, Writer, Lister, TrueListing
<1> QED
  BY <1>2, <1>3, <1>4, <1>5, <1>6, RequestCalm DEF Next

LEMMA CalmImplies == CalmInv => UndisturbedCache
BY DEF CalmInv, CachesOK, Drops, UndisturbedCache, NoWriter, CacheIsExact

-----------------------------------------------------------------------------
(* The theorems.                                                           *)

\* Blobs, caches and the handlers' locals have their types: PUT, DELETE and
\* listFolder store under a folder only what is below it, and a handler's S3
\* requests are about its own document and folders.
THEOREM TypeCorrect == ASSUME NoSiblings PROVE Spec => []TypeOK
<1>1. TypesInv /\ [Next]_vars => TypesInv'
  BY StepTypes
<1> QED
  BY <1>1, InitTypes, TypesImply, PTL DEF Spec

\* When no lister ever ran beside a writer and no writer is under way, each
\* cached listing is that of the documents below its folder.
THEOREM CacheCorrect == ASSUME NoSiblings PROVE Spec => []UndisturbedCache
<1>1. TypesInv /\ [Next]_vars => TypesInv'
  BY StepTypes
<1>2. TypesInv /\ TypesInv' /\ CalmInv /\ [Next]_vars => CalmInv'
  BY StepCalm
<1> QED
  BY <1>1, <1>2, InitTypes, InitCalm, CalmImplies, PTL DEF Spec

\* As long as no lister ran beside a writer, every answer to a GET of a folder is
\* the listing of the documents below it: from its cache blob, from listFolder, or
\* the refusal of a name that has nothing below it.
THEOREM ListedCorrect == ASSUME NoSiblings PROVE Spec => ListedExactly
<1> DEFINE Exact(c) == ~disturbed =>
             LET listing == TrueListing(req[c].path)
             IN  /\ GetCached(c) => cache[req[c].path] = listing
                 /\ ListRefused(c) => listing = {}
                 /\ ListAnswer(c) => items[c] = listing
<1>1. TypesInv /\ [Next]_vars => TypesInv'
  BY StepTypes
<1>2. TypesInv /\ TypesInv' /\ CalmInv /\ [Next]_vars => CalmInv'
  BY StepCalm
<1>3. ASSUME TypesInv, CalmInv, NEW c \in Client
      PROVE  Exact(c)
  <2> SUFFICES ASSUME ~disturbed
               PROVE  /\ GetCached(c) => cache[req[c].path] = TrueListing(req[c].path)
                      /\ ListRefused(c) => TrueListing(req[c].path) = {}
                      /\ ListAnswer(c) => items[c] = TrueListing(req[c].path)
    OBVIOUS
  <2>1. ASSUME GetCached(c)
        PROVE  cache[req[c].path] = TrueListing(req[c].path)
    <3>1. Lister(c) /\ req[c].path \in Folder
      BY <1>3, <2>1 DEF GetCached, TypesInv, HandlerOK, PlaceOK, RequestOK, Lister
    <3>2. \A d \in Client, f \in Folder : ~Drops(d, f)
      BY <1>3, <3>1 DEF CalmInv, Alone, Drops
    <3> QED
      BY <1>3, <2>1, <3>1, <3>2 DEF CalmInv, CachesOK, GetCached
  <2>2. ListRefused(c) => TrueListing(req[c].path) = {}
    BY DEF ListRefused, HasChild, TrueListing
  <2>3. ListAnswer(c) => items[c] = TrueListing(req[c].path)
    BY <1>3 DEF ListAnswer, CalmInv, ItemsExact, Lister
  <2> QED
    BY <2>1, <2>2, <2>3
<1>4. TypesInv /\ CalmInv => [\A c \in Client : Exact(c)]_vars
  BY <1>3
<1> QED
  BY <1>1, <1>2, <1>4, InitTypes, InitCalm, PTL DEF Spec, ListedExactly
=============================================================================
