------------------------------ MODULE S3Store ------------------------------
(***************************************************************************)
(* The S3 store of the modular server (lib/routes/S3_store_router.js): PUT *)
(* and DELETE of documents and the listing of folders, in one user's       *)
(* bucket.                                                                 *)
(*                                                                         *)
(* A document is a blob.  A folder is nothing but the keys below it; its   *)
(* listing, once put together from them, is stored in a cache blob (key    *)
(* ".../folder/") that the next GET of the folder answers with.  PUT and   *)
(* DELETE delete the cache blobs of all folders above the document.  There *)
(* is no lock: each handler sends S3 requests, some of them at once, and   *)
(* every request takes effect at one instant, a DeleteObjects request one  *)
(* key at a time.                                                          *)
(*                                                                         *)
(* A pathname is the sequence of its names.  An ETag is the MD5 of the     *)
(* content, so a document's ETag stands for its content, and a subfolder's *)
(* for the whole listing below it: a listing is the set of the documents   *)
(* below, each with its ETag, and the empty set where there is no cache    *)
(* blob, since an empty listing is never cached.                           *)
(* Left out: content types and the blobs that cache them (whether a        *)
(* listing must ask for a type is a choice here), result pages, and GET of *)
(* a document, which is a single S3 request.                               *)
(***************************************************************************)
EXTENDS Naturals, SequencesExt

CONSTANTS
  Client,       \* request handlers; each serves one request at a time
  Name,         \* names of documents and folders
  Beyond,       \* Beyond[n, m] = r if m is n, one character and then r
  Doc,          \* the pathnames of documents that requests name
  Value,        \* document contents, and their ETags
  NoBlob,       \* no such key; no ETag
  Operations,   \* the operations clients request
  Conditions,   \* "always", If-None-Match: * ("absent") or ETag ("isnot"),
                \* If-Match: ETag ("is")
  MaxRequests,  \* bound on the requests of a behaviour
  MaxFaults     \* bound on S3 failures, timeouts and crashes

\* PUT answers 409 for a document in the root folder.
ASSUME DocAssumption == Doc \subseteq {p \in Seq(Name) : Len(p) >= 2}
ASSUME BeyondAssumption == /\ DOMAIN Beyond \subseteq Name \X Name
                         /\ \A e \in DOMAIN Beyond : Beyond[e] \in Name /\ e[1] # e[2]
ASSUME ValueAssumption == NoBlob \notin Value
ASSUME OperationsAssumption == /\ Operations \subseteq {"put", "delete", "list"}
                               /\ Conditions \subseteq {"always", "absent", "is", "isnot"}
ASSUME BoundAssumption == {MaxRequests, MaxFaults} \subseteq Nat

VARIABLES
  blob,      \* the ETag of each document in the bucket
  cache,     \* the listing in each folder's cache blob
  pc,        \* where each handler is
  req,       \* the request each handler serves
  etag,      \* currentETag: what a writer's listing says of its document
  tasks,     \* S3 requests that each handler has sent and waits for
  outcome,   \* how a PUT's PutObject ended
  items,     \* the listing a lister has put together
  nodes,     \* the folders it lists: those not found in a cache blob
  heads,     \* documents whose content type it has to ask for
  failed,    \* folders for which it could not: incompleteFolders
  late,      \* PutObject requests that their handlers no longer wait for
  requests, faults,  \* how much of the bounds is used
  disturbed  \* has a lister met a writer, or anything failed?

bucket == <<blob, cache>>
lister == <<items, nodes, heads, failed>>
bounds == <<requests, faults>>
vars == <<bucket, pc, req, etag, tasks, outcome, lister, late, bounds, disturbed>>

-----------------------------------------------------------------------------
(* Paths, keys and listings.                                               *)

FoldersAbove(p) == Prefixes(p) \ {p}

Folder == UNION {FoldersAbove(p) : p \in Doc}

\* In a listing, the documents below g.
Below(g, listing) == {e \in listing : IsStrictPrefix(g, e[1])}

\* The key of e continues that of f with another name: f is .../foo, e is
\* .../food or below it.
Sibling(f, e) ==
  /\ f # <<>> /\ Len(e) >= Len(f)
  /\ Front(f) = SubSeq(e, 1, Len(f) - 1)
  /\ <<Last(f), e[Len(f)]>> \in DOMAIN Beyond

\* Where the listing of f shows key e (nowhere, or in one place).  S3 is asked
\* for the keys that begin with f, without its final slash; what follows the
\* length of "f/" is taken for the relative path.
Shown(f, e) ==
  IF Sibling(f, e)
  THEN {f \o <<Beyond[Last(f), e[Len(f)]]>> \o SubSeq(e, Len(f) + 1, Len(e))}
  ELSE IF IsStrictPrefix(f, e) THEN {e} ELSE {}

NoRequest == [op |-> "none", path |-> <<>>, val |-> NoBlob,
              cond |-> "always", version |-> NoBlob, small |-> TRUE]

Init ==
  /\ blob = [p \in Doc |-> NoBlob]
  /\ cache = [f \in Folder |-> {}]
  /\ pc = [c \in Client |-> "idle"]
  /\ req = [c \in Client |-> NoRequest]
  /\ etag = [c \in Client |-> NoBlob]
  /\ tasks = [c \in Client |-> {}]
  /\ outcome = [c \in Client |-> "pending"]
  /\ items = [c \in Client |-> {}]
  /\ nodes = [c \in Client |-> {}]
  /\ heads = [c \in Client |-> {}]
  /\ failed = [c \in Client |-> {}]
  /\ late = {}
  /\ requests = 0
  /\ faults = 0
  /\ disturbed = FALSE

-----------------------------------------------------------------------------
(* Requests and answers.                                                   *)

Goto(c, l) == pc' = [pc EXCEPT ![c] = l]

Writer(c) == pc[c] # "idle" /\ req[c].op \in {"put", "delete"}
Lister(c) == pc[c] # "idle" /\ req[c].op = "list"

Accept(c, r, l) ==
  /\ pc[c] = "idle"
  /\ requests < MaxRequests
  /\ r.op \in Operations
  /\ requests' = requests + 1
  /\ req' = [req EXCEPT ![c] = r]
  /\ Goto(c, l)
  /\ disturbed' = (disturbed \/ IF r.op = "list" THEN \E d \in Client : Writer(d)
                                ELSE \E d \in Client : Lister(d))
  /\ UNCHANGED <<bucket, etag, tasks, outcome, lister, late, faults>>

\* small: Content-Length is given and at most 300,000,000.
RequestPut(c) ==
  \E p \in Doc, v \in Value, cond \in Conditions, ver \in Value \cup {NoBlob},
     small \in BOOLEAN :
    /\ ver = NoBlob <=> cond \in {"always", "absent"}
    /\ Accept(c, [op |-> "put", path |-> p, val |-> v,
                  cond |-> cond, version |-> ver, small |-> small], "check")

RequestDelete(c) ==
  \E p \in Doc, cond \in Conditions, ver \in Value \cup {NoBlob} :
    /\ ver = NoBlob <=> cond \in {"always", "absent"}
    /\ Accept(c, [op |-> "delete", path |-> p, val |-> NoBlob,
                  cond |-> cond, version |-> ver, small |-> TRUE], "check")

RequestList(c) ==
  \E f \in Folder :
    Accept(c, [op |-> "list", path |-> f, val |-> NoBlob,
               cond |-> "always", version |-> NoBlob, small |-> TRUE], "get")

\* The response is sent and the handler's locals are gone.
Answer(c) ==
  /\ Goto(c, "idle")
  /\ req' = [req EXCEPT ![c] = NoRequest]
  /\ etag' = [etag EXCEPT ![c] = NoBlob]
  /\ tasks' = [tasks EXCEPT ![c] = {}]
  /\ outcome' = [outcome EXCEPT ![c] = "pending"]
  /\ items' = [items EXCEPT ![c] = {}]
  /\ nodes' = [nodes EXCEPT ![c] = {}]
  /\ heads' = [heads EXCEPT ![c] = {}]
  /\ failed' = [failed EXCEPT ![c] = {}]
  /\ UNCHANGED <<bucket, late, bounds, disturbed>>

\* The conditions that PUT and DELETE test against the ETag in their listing.
Precondition(c, current) ==
  CASE req[c].cond = "absent" -> req[c].op = "delete" \/ current = NoBlob
    [] req[c].cond = "is" -> current = req[c].version
    [] req[c].cond = "isnot" -> current # req[c].version
    [] OTHER -> TRUE

\* The handler goes on to send S3 requests ts.
Send(c, ts) ==
  /\ tasks' = [tasks EXCEPT ![c] = ts]
  /\ Goto(c, "work")

-----------------------------------------------------------------------------
(* PUT.                                                                    *)

\* A document above, or anything below, a cache blob included.
PutBlocked(p) ==
  \/ \E q \in Doc : blob[q] # NoBlob /\ (IsStrictPrefix(q, p) \/ IsStrictPrefix(p, q))
  \/ \E f \in Folder : cache[f] # {} /\ IsPrefix(p, f)

PutRefused(c) ==
  /\ pc[c] = "check" /\ req[c].op = "put"
  /\ PutBlocked(req[c].path) \/ ~Precondition(c, blob[req[c].path])
  /\ Answer(c)

\* PutObject and the DeleteObjects of the caches above are sent at once.
PutStart(c) ==
  LET p == req[c].path IN
  /\ pc[c] = "check" /\ req[c].op = "put"
  /\ ~PutBlocked(p) /\ Precondition(c, blob[p])
  /\ etag' = [etag EXCEPT ![c] = blob[p]]
  /\ Send(c, {<<"put", p>>} \cup {<<"drop", f>> : f \in FoldersAbove(p)})
  /\ UNCHANGED <<bucket, req, outcome, lister, late, bounds, disturbed>>

\* Mutant of Unchanged: PutObject is sent without If-Match.
NeverGuarded(p, tag, small) == TRUE

\* putBlob: If-Match guards the PUT of a document that was listed.  Without an
\* ETag there is no condition, nor with Upload.
Unchanged(p, tag, small) == small /\ tag # NoBlob => blob[p] = tag

\* S3 answers 412 for another version, which is the 409 below.  For a document
\* that is gone it answers 404, which the catch block answers like any failure.
PutObject(c) ==
  LET p == req[c].path
      stored == Unchanged(p, etag[c], req[c].small)
  IN  /\ <<"put", p>> \in tasks[c]
      /\ blob' = IF stored THEN [blob EXCEPT ![p] = req[c].val] ELSE blob
      /\ outcome' = [outcome EXCEPT ![c] = CASE stored -> "stored"
                                              [] ~stored /\ blob[p] # NoBlob -> "conflict"
                                              [] OTHER -> "failed"]
      /\ tasks' = [tasks EXCEPT ![c] = @ \ {<<"put", p>>}]
      /\ UNCHANGED <<cache, pc, req, etag, lister, late, bounds, disturbed>>

\* PUT_TIMEOUT: the handler gives up on a request that S3 may still execute.  The
\* version that the client's If-Match names (named) is kept for ConditionalPut.
PutTimesOut(c) ==
  LET p == req[c].path
      named == IF req[c].cond = "is" THEN req[c].version ELSE NoBlob
  IN
  /\ faults < MaxFaults
  /\ <<"put", p>> \in tasks[c] /\ req[c].small
  /\ late' = late \cup {[path |-> p, val |-> req[c].val, tag |-> etag[c],
                         named |-> named]}
  /\ outcome' = [outcome EXCEPT ![c] = "failed"]
  /\ tasks' = [tasks EXCEPT ![c] = @ \ {<<"put", p>>}]
  /\ faults' = faults + 1
  /\ disturbed' = TRUE
  /\ UNCHANGED <<bucket, pc, req, etag, lister, requests>>

LatePut(r) ==
  /\ r \in late
  /\ blob' = IF Unchanged(r.path, r.tag, TRUE) THEN [blob EXCEPT ![r.path] = r.val] ELSE blob
  /\ late' = late \ {r}
  /\ UNCHANGED <<cache, pc, req, etag, tasks, outcome, lister, bounds, disturbed>>

PutAnswer(c) ==
  /\ pc[c] = "work" /\ req[c].op = "put"
  /\ tasks[c] = {}
  /\ outcome[c] # "conflict"
  /\ Answer(c)

-----------------------------------------------------------------------------
(* DELETE.                                                                 *)

\* Cache blobs whose keys begin with the document's.
CachesListed(p) == {f \in Folder : cache[f] # {} /\ (IsPrefix(p, f) \/ Sibling(p, f))}

HasChild(p) == \E q \in Doc : blob[q] # NoBlob /\ IsStrictPrefix(p, q)

DeleteRefused(c) ==
  LET p == req[c].path IN
  /\ pc[c] = "check" /\ req[c].op = "delete"
  /\ HasChild(p) \/ (blob[p] # NoBlob /\ ~Precondition(c, blob[p]))
  /\ Answer(c)

\* Mutant of DeleteStart: the loop over the folders above ends before the root.
KeepsRootCache(c) ==
  LET p == req[c].path
      above == IF blob[p] = NoBlob THEN {} ELSE FoldersAbove(p) \ {<<>>}
      doc == IF blob[p] = NoBlob THEN {} ELSE {<<"remove", p>>}
  IN  /\ pc[c] = "check" /\ req[c].op = "delete"
      /\ ~HasChild(p) /\ (blob[p] # NoBlob => Precondition(c, blob[p]))
      /\ etag' = [etag EXCEPT ![c] = blob[p]]
      /\ Send(c, doc \cup {<<"drop", f>> : f \in above \cup CachesListed(p)})
      /\ UNCHANGED <<bucket, req, outcome, lister, late, bounds, disturbed>>

\* Nothing there: only stray caches are deleted, and the answer is 404.
DeleteStart(c) ==
  LET p == req[c].path
      above == IF blob[p] = NoBlob THEN {} ELSE FoldersAbove(p)
      doc == IF blob[p] = NoBlob THEN {} ELSE {<<"remove", p>>}
  IN  /\ pc[c] = "check" /\ req[c].op = "delete"
      /\ ~HasChild(p) /\ (blob[p] # NoBlob => Precondition(c, blob[p]))
      /\ etag' = [etag EXCEPT ![c] = blob[p]]
      /\ Send(c, doc \cup {<<"drop", f>> : f \in above \cup CachesListed(p)})
      /\ UNCHANGED <<bucket, req, outcome, lister, late, bounds, disturbed>>

RemoveObject(c) ==
  LET p == req[c].path IN
  /\ <<"remove", p>> \in tasks[c]
  /\ blob' = [blob EXCEPT ![p] = NoBlob]
  /\ tasks' = [tasks EXCEPT ![c] = @ \ {<<"remove", p>>}]
  /\ UNCHANGED <<cache, pc, req, etag, outcome, lister, late, bounds, disturbed>>

\* One key of a DeleteObjects request, of a writer or a lister.
DropCache(c, f) ==
  /\ <<"drop", f>> \in tasks[c]
  /\ cache' = [cache EXCEPT ![f] = {}]
  /\ tasks' = [tasks EXCEPT ![c] = @ \ {<<"drop", f>>}]
  /\ UNCHANGED <<blob, pc, req, etag, outcome, lister, late, bounds, disturbed>>

DeleteAnswer(c) ==
  /\ pc[c] = "work" /\ req[c].op = "delete"
  /\ tasks[c] = {}
  /\ Answer(c)

-----------------------------------------------------------------------------
(* GET of a folder: listFolder.                                            *)

GetCached(c) ==
  /\ pc[c] = "get"
  /\ cache[req[c].path] # {}
  /\ Answer(c)

GetNotCached(c) ==
  /\ pc[c] = "get"
  /\ cache[req[c].path] = {}
  /\ Goto(c, "list")
  /\ UNCHANGED <<bucket, req, etag, tasks, outcome, lister, late, bounds, disturbed>>

\* The documents, and the other folders' caches, that the keys S3 lists show.
DocsShown(f) ==
  UNION {{<<q, blob[p]>> : q \in Shown(f, p)} : p \in {d \in Doc : blob[d] # NoBlob}}
CachesShown(f) ==
  UNION {{<<q, g>> : q \in Shown(f, g)} : g \in {h \in Folder : cache[h] # {}}}

\* Keys below a cached folder are not examined.
UnderCache(f, q) == \E e \in CachesShown(f) : IsStrictPrefix(e[1], q)

\* Mutant of OwnItems: a document in a folder of its name does not replace it.
ListsBoth(f) == {e \in DocsShown(f) : ~UnderCache(f, e[1])}

\* A document gives way to a document in a folder of its name.
OwnItems(f) ==
  {e \in DocsShown(f) : ~UnderCache(f, e[1]) /\ ~\E d \in DocsShown(f) : Front(d[1]) = e[1]}

OwnCaches(f) == {e \in CachesShown(f) : ~UnderCache(f, e[1])}

FromCache(e) ==
  {<<e[1] \o SubSeq(d[1], Len(e[2]) + 1, Len(d[1])), d[2]>> : d \in cache[e[2]]}

Listing(f) == OwnItems(f) \cup UNION {FromCache(e) : e \in OwnCaches(f)}

ListRefused(c) ==
  LET f == req[c].path IN
  /\ pc[c] = "list"
  /\ f \in Doc /\ blob[f] # NoBlob
  /\ ~HasChild(f) /\ \A g \in Folder : IsPrefix(f, g) => cache[g] = {}
  /\ Answer(c)

ListKeys(c) ==
  LET f == req[c].path IN
  /\ pc[c] = "list"
  /\ ~(f \in Doc /\ blob[f] # NoBlob
         /\ ~HasChild(f) /\ \A g \in Folder : IsPrefix(f, g) => cache[g] = {})
  /\ items' = [items EXCEPT ![c] = Listing(f)]
  /\ nodes' = [nodes EXCEPT ![c] = {f} \cup
       {g \in UNION {FoldersAbove(e[1]) : e \in OwnItems(f) \cup OwnCaches(f)} : IsPrefix(f, g)}]
  /\ \E s \in SUBSET {e[1] : e \in OwnItems(f)} : heads' = [heads EXCEPT ![c] = s]
  /\ Goto(c, "heads")
  /\ UNCHANGED <<bucket, req, etag, tasks, outcome, failed, late, bounds, disturbed>>

\* Mutant of HeadObject: a document that is gone gets an item without an ETag.
ItemOfNothing(c, q) ==
  /\ pc[c] = "heads" /\ q \in heads[c]
  /\ heads' = [heads EXCEPT ![c] = @ \ {q}]
  /\ items' = [items EXCEPT ![c] = {e \in @ : e[1] # q} \cup {<<q, blob[q]>>}]
  /\ UNCHANGED <<bucket, pc, req, etag, tasks, outcome, nodes, failed, late, bounds, disturbed>>

\* A HEAD returns the ETag of its moment.  A document that is gone by then keeps
\* its item; its folder, and those above, are incomplete and not cached.
HeadObject(c, q) ==
  /\ pc[c] = "heads" /\ q \in heads[c]
  /\ heads' = [heads EXCEPT ![c] = @ \ {q}]
  /\ IF q \in Doc /\ blob[q] # NoBlob
     THEN /\ items' = [items EXCEPT ![c] = {e \in @ : e[1] # q} \cup {<<q, blob[q]>>}]
          /\ UNCHANGED failed
     ELSE /\ failed' = [failed EXCEPT ![c] = @ \cup {Front(q)}]
          /\ UNCHANGED items
  /\ UNCHANGED <<bucket, pc, req, etag, tasks, outcome, nodes, late, bounds, disturbed>>

\* After nine seconds no more HEAD requests are sent.
HeadsAbandoned(c) ==
  /\ pc[c] = "heads"
  /\ \E q \in heads[c] : failed' = [failed EXCEPT ![c] = @ \cup {Front(q)}]
  /\ heads' = [heads EXCEPT ![c] = {}]
  /\ UNCHANGED <<bucket, pc, req, etag, tasks, outcome, items, nodes, late, bounds, disturbed>>

\* A cache blob for each folder that is complete and has items; the caches of
\* the others, and of all folders above, are deleted.
HeadsDone(c) ==
  LET incomplete == UNION {Prefixes(g) : g \in failed[c]}
      complete == {g \in nodes[c] \ incomplete : Below(g, items[c]) # {}}
  IN  /\ pc[c] = "heads" /\ heads[c] = {}
      /\ Send(c, {<<"cache", g>> : g \in complete} \cup {<<"drop", g>> : g \in incomplete})
      /\ UNCHANGED <<bucket, req, etag, outcome, lister, late, bounds, disturbed>>

StoreCache(c, g) ==
  /\ <<"cache", g>> \in tasks[c]
  /\ cache' = [cache EXCEPT ![g] = Below(g, items[c])]
  /\ tasks' = [tasks EXCEPT ![c] = @ \ {<<"cache", g>>}]
  /\ UNCHANGED <<blob, pc, req, etag, outcome, lister, late, bounds, disturbed>>

ListAnswer(c) ==
  /\ pc[c] = "work" /\ req[c].op = "list"
  /\ tasks[c] = {}
  /\ Answer(c)

-----------------------------------------------------------------------------
(* Failures.                                                               *)

\* An S3 request fails, or a key of it.  Only PutObject's failure is looked at.
TaskFails(c) ==
  /\ faults < MaxFaults
  /\ \E t \in tasks[c] :
       /\ tasks' = [tasks EXCEPT ![c] = @ \ {t}]
       /\ outcome' = IF t[1] = "put" THEN [outcome EXCEPT ![c] = "failed"] ELSE outcome
  /\ faults' = faults + 1
  /\ disturbed' = TRUE
  /\ UNCHANGED <<bucket, pc, req, etag, lister, late, requests>>

\* The process ends and is started again; S3 requests under way are lost.
Restart ==
  /\ pc' = [c \in Client |-> "idle"]
  /\ req' = [c \in Client |-> NoRequest]
  /\ etag' = [c \in Client |-> NoBlob]
  /\ tasks' = [c \in Client |-> {}]
  /\ outcome' = [c \in Client |-> "pending"]
  /\ items' = [c \in Client |-> {}]
  /\ nodes' = [c \in Client |-> {}]
  /\ heads' = [c \in Client |-> {}]
  /\ failed' = [c \in Client |-> {}]
  /\ late' = {}
  /\ disturbed' = TRUE
  /\ UNCHANGED <<bucket, requests>>

\* PutObject found another version: the 409 is sent without a return, and the
\* headers set after it throw, in the catch block too.  Nothing handles the
\* rejected promise, so the process ends.
PutConflict(c) ==
  /\ pc[c] = "work" /\ req[c].op = "put"
  /\ tasks[c] = {}
  /\ outcome[c] = "conflict"
  /\ Restart
  /\ UNCHANGED faults

Crash ==
  /\ faults < MaxFaults
  /\ faults' = faults + 1
  /\ Restart

Step(c) ==
  \/ PutRefused(c) \/ PutStart(c) \/ PutObject(c) \/ PutAnswer(c) \/ PutConflict(c)
  \/ DeleteRefused(c) \/ DeleteStart(c) \/ RemoveObject(c) \/ DeleteAnswer(c)
  \/ GetCached(c) \/ GetNotCached(c) \/ ListRefused(c) \/ ListKeys(c)
  \/ (\E q \in heads[c] : HeadObject(c, q)) \/ HeadsDone(c) \/ ListAnswer(c)
  \/ \E f \in Folder : DropCache(c, f) \/ StoreCache(c, f)

Trouble(c) == PutTimesOut(c) \/ HeadsAbandoned(c) \/ TaskFails(c)

Request(c) == RequestPut(c) \/ RequestDelete(c) \/ RequestList(c)

Next ==
  \/ \E c \in Client : Request(c) \/ Step(c) \/ Trouble(c)
  \/ \E r \in late : LatePut(r)
  \/ Crash

Spec == Init /\ [][Next]_vars

-----------------------------------------------------------------------------
(* Properties.                                                             *)

Tasks == ({"put", "remove"} \X Doc) \cup ({"drop", "cache"} \X Folder)

\* Every variable has its type (the bucket and the locals of the handlers).
TypeOK ==
  /\ blob \in [Doc -> Value \cup {NoBlob}]
  /\ \A f \in Folder : \A e \in cache[f] : IsStrictPrefix(f, e[1]) /\ e[2] \in Value
  /\ pc \in [Client -> {"idle", "check", "get", "list", "heads", "work"}]
  /\ \A c \in Client : /\ req[c].op \in Operations \cup {"none"}
                       /\ req[c].path \in Doc \cup Folder \cup {<<>>}
                       /\ tasks[c] \subseteq Tasks
                       /\ nodes[c] \subseteq Folder
                       /\ \A e \in items[c] : IsStrictPrefix(req[c].path, e[1]) /\ e[2] \in Value
                       /\ heads[c] \subseteq {e[1] : e \in items[c]}
  /\ etag \in [Client -> Value \cup {NoBlob}]
  /\ outcome \in [Client -> {"pending", "stored", "conflict", "failed"}]
  /\ requests \in 0..MaxRequests /\ faults \in 0..MaxFaults

\* The documents below a folder, as listFolder would show them.
TrueListing(f) ==
  {<<p, blob[p]>> : p \in {d \in Doc : /\ blob[d] # NoBlob /\ IsStrictPrefix(f, d)
                                       /\ ~\E q \in Doc : blob[q] # NoBlob /\ Front(q) = d}}

CacheIsExact == \A f \in Folder : cache[f] # {} => cache[f] = TrueListing(f)

NoWriter == \A c \in Client : ~Writer(c)

\* When no lister ever ran beside a writer, no cache blob outlives a change of
\* the documents below it, whichever writers ran side by side and whatever
\* listings found in other caches (PUT, DELETE and listFolder).
UndisturbedCache == ~disturbed /\ NoWriter => CacheIsExact

\* As long as no lister ran beside a writer, the answer to a GET of a folder is
\* exact, be it a cache blob, a listing put together from keys and the caches of
\* subfolders, one without content types, or the refusal of a document's name.
ListedExactly ==
  [][\A c \in Client : ~disturbed =>
       LET listing == TrueListing(req[c].path)
       IN  /\ GetCached(c) => cache[req[c].path] = listing
           /\ ListRefused(c) => listing = {}
           /\ ListAnswer(c) => items[c] = listing]_vars

\* A PUT with If-Match and a known length replaces the version it names or
\* nothing, though other writers come between its listing and its PutObject, and
\* though S3 executes the PutObject long after the handler gave it up and the
\* client was answered (the PUT handler and putBlob).
ConditionalPut ==
  [][/\ \A c \in Client : PutObject(c) /\ req[c].cond = "is" /\ req[c].small
          => blob[req[c].path] = req[c].version \/ UNCHANGED blob
     /\ \A r \in late : LatePut(r) /\ r.named # NoBlob
          => blob[r.path] = r.named \/ UNCHANGED blob]_vars

\* notes/S3-store-router.md:3, "this store only offers eventual consistency": once
\* every request has been answered and nothing failed, the cached listings are
\* those of the documents.
EventuallyConsistent ==
  faults = 0 /\ (\A c \in Client : pc[c] = "idle") => CacheIsExact
=============================================================================
