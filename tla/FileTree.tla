------------------------------ MODULE FileTree ------------------------------
(***************************************************************************)
(* The file_tree store of the monolithic server (lib/stores/file_tree.js)  *)
(* behind the storage controller (lib/controllers/storage.js), for one     *)
(* user: the trees and the lock file of two users share nothing.           *)
(*                                                                         *)
(* Each document is a file; each folder keeps a metadata file (".~meta")   *)
(* with the folder's ETag and one entry per child.  PUT and DELETE hold    *)
(* the user's lock file; GET takes no lock and re-reads the folder's ETag  *)
(* to notice that it raced a writer.                                       *)
(*                                                                         *)
(* A pathname is the sequence of its names: /a/b is <<"a", "b">> and the   *)
(* root folder is <<>>.  Between two awaits a handler runs alone, so an    *)
(* action is what one handler does from one await to the next.  fs's       *)
(* writeFile truncates the file and then fills it, two steps that a        *)
(* reader, an I/O error or a crash can come between.  readMeta turns a     *)
(* missing, truncated or half-written metadata file into { items: {} }, so *)
(* meta[f] is what readMeta returns and truncating it makes it EmptyMeta.  *)
(* Left out: the ".~meta" that PUT also writes above the storage root      *)
(* (currentPath ''), which no GET reads.                                   *)
(***************************************************************************)
EXTENDS Naturals, SequencesExt

CONSTANTS
  Client,      \* request handlers; each serves one request at a time
  Name,        \* names of documents and folders
  Doc,         \* the pathnames of documents that requests name
  Value,       \* document contents
  NoFile,      \* content of a file that does not exist
  Torn,        \* content of a file that was truncated and not yet filled
  Star,        \* the version '*' of a conditional request
  Operations,  \* the operations clients request
  ClockSteps,  \* milliseconds Date.now() may advance between two stamps
  MaxWrites,   \* bound on the PUTs and DELETEs of a behaviour
  MaxTries,    \* attempts of a GET before lock_timeout_ms has passed
  MaxCrashes,  \* bound on the crashes of a behaviour
  IOErrors     \* may a write, an unlink or a read fail?

ASSUME DocAssumption == Doc \subseteq Seq(Name) \ {<<>>}
ASSUME ContentAssumption == NoFile \notin Value /\ Torn \notin Value /\ NoFile # Torn
ASSUME StarAssumption == Star \notin Nat
ASSUME OperationsAssumption == Operations \subseteq {"put", "delete", "get", "head", "list"}
ASSUME ClockAssumption == ClockSteps \subseteq Nat
ASSUME BoundAssumption == /\ {MaxWrites, MaxTries, MaxCrashes} \subseteq Nat
                          /\ IOErrors \in BOOLEAN

VARIABLES
  locked,   \* does the lock file exist?
  dirs,     \* the folders that exist as directories
  file,     \* content of each document's file
  meta,     \* metadata of each folder, as readMeta returns it
  now,      \* Date.now()
  pc,       \* where each handler is
  req,      \* the request each handler serves
  buf,      \* the metadata objects each handler holds in memory
  todo,     \* folders above whose metadata is still to be updated
  open,     \* folders above whose metadata file is truncated, not yet filled
  ans,      \* the answer each handler has ready or has sent
  tries,    \* attempts a GET has made
  writes, crashes   \* how much of the bounds is used

disk == <<locked, dirs, file, meta>>
bounds == <<writes, crashes>>
vars == <<disk, now, pc, req, buf, todo, open, ans, tries, bounds>>

-----------------------------------------------------------------------------
(* Paths and metadata.                                                     *)

\* core.traversePath: the folders above p, the one that holds p included.
traversePath(p) == Prefixes(p) \ {p}

Folder == UNION {traversePath(p) : p \in Doc}

\* An item that is absent, an ETag that is undefined and a request without a
\* version are all 0; ETags are milliseconds and never 0.
None == 0

NoItems == [n \in Name |-> None]

\* { items: {} }: docs are the entries "n", subs the entries "n/".
EmptyMeta == [ETag |-> None, docs |-> NoItems, subs |-> NoItems]

\* The entry of document p in metadata m of its folder.
Item(m, p) == m.docs[Last(p)]

\* Mutant of WithDoc: only the first document of a folder gives it its ETag.
KeepsOldTag(m, n, entry, t) ==
  [m EXCEPT !.docs[n] = entry, !.ETag = IF m.ETag = None THEN t ELSE m.ETag]

\* Metadata m with another entry for document or subfolder n, and folder ETag t.
WithDoc(m, n, entry, t) == [m EXCEPT !.docs[n] = entry, !.ETag = t]
WithSub(m, n, entry, t) == [m EXCEPT !.subs[n] = entry, !.ETag = t]

\* The name, in folder g, of what lies below g on the way to p.
Toward(g, p) == p[Len(g) + 1]

NoRequest == [op |-> "none", path |-> <<>>, val |-> NoFile, version |-> None]
NoAnswer == [status |-> 0, tag |-> None, val |-> NoFile]
Status(s) == [status |-> s, tag |-> None, val |-> NoFile]

\* Where a handler is inside _lock ... _unlock.
Critical == {"check", "open", "fill", "own", "ownfill", "above"}

Init ==
  /\ locked = FALSE
  /\ dirs = {}
  /\ file = [p \in Doc |-> NoFile]
  /\ meta = [f \in Folder |-> EmptyMeta]
  /\ now = 1
  /\ pc = [c \in Client |-> "idle"]
  /\ req = [c \in Client |-> NoRequest]
  /\ buf = [c \in Client |-> [f \in Folder |-> EmptyMeta]]
  /\ todo = [c \in Client |-> {}]
  /\ open = [c \in Client |-> {}]
  /\ ans = [c \in Client |-> NoAnswer]
  /\ tries = [c \in Client |-> 0]
  /\ writes = 0
  /\ crashes = 0

-----------------------------------------------------------------------------
(* Requests, answers and the lock.                                         *)

Goto(c, l) == pc' = [pc EXCEPT ![c] = l]

\* The handler ends with answer a; its response is written.
Answer(c, a) == Goto(c, "answered") /\ ans' = [ans EXCEPT ![c] = a]

Accept(c, r, l) ==
  /\ pc[c] = "idle"
  /\ r.op \in Operations
  /\ req' = [req EXCEPT ![c] = r]
  /\ Goto(c, l)

\* getVersion: If-Match, or else If-None-Match, taken alike.
Versions == {None, Star} \cup 1..now

RequestPut(c) ==
  /\ writes < MaxWrites
  /\ \E p \in Doc, v \in Value, ver \in Versions :
       Accept(c, [op |-> "put", path |-> p, val |-> v, version |-> ver], "lock")
  /\ writes' = writes + 1
  /\ UNCHANGED <<disk, now, buf, todo, open, ans, tries, crashes>>

RequestDelete(c) ==
  /\ writes < MaxWrites
  /\ \E p \in Doc, ver \in Versions :
       Accept(c, [op |-> "delete", path |-> p, val |-> NoFile, version |-> ver], "lock")
  /\ writes' = writes + 1
  /\ UNCHANGED <<disk, now, buf, todo, open, ans, tries, crashes>>

\* A GET or HEAD of a document, or a GET of a folder ("list").
RequestGet(c) ==
  /\ \E op \in {"get", "head", "list"}, p \in Doc \cup Folder, ver \in Versions \ {Star} :
       /\ p \in IF op = "list" THEN Folder ELSE Doc
       /\ Accept(c, [op |-> op, path |-> p, val |-> NoFile, version |-> ver], "read")
  /\ UNCHANGED <<disk, now, buf, todo, open, ans, tries, bounds>>

\* The handler's locals are gone once its response is out.
Return(c) ==
  /\ pc[c] = "answered"
  /\ Goto(c, "idle")
  /\ req' = [req EXCEPT ![c] = NoRequest]
  /\ buf' = [buf EXCEPT ![c] = [f \in Folder |-> EmptyMeta]]
  /\ ans' = [ans EXCEPT ![c] = NoAnswer]
  /\ tries' = [tries EXCEPT ![c] = 0]
  /\ UNCHANGED <<disk, now, todo, open, bounds>>

AcquireLock(c) ==
  /\ pc[c] = "lock"
  /\ ~locked
  /\ locked' = TRUE
  /\ Goto(c, "check")
  /\ UNCHANGED <<dirs, file, meta, now, req, buf, todo, open, ans, tries, bounds>>

\* Mutant of LockIsStale: a lock is taken for stale while its owner works.
AnyLock == locked

\* A lock file older than lock_stale_after_ms.  Timing assumption: an operation
\* ends sooner than that, so a stale lock is one its owner will never remove.
LockIsStale == locked /\ \A d \in Client : pc[d] \notin Critical

StealLock(c) ==
  /\ pc[c] = "lock"
  /\ LockIsStale
  /\ Goto(c, "check")
  /\ UNCHANGED <<disk, now, req, buf, todo, open, ans, tries, bounds>>

\* Mutant of LockTimeout: the handler that did not get the lock removes it.
TimeoutUnlocks(c) ==
  /\ pc[c] = "lock"
  /\ locked
  /\ locked' = FALSE
  /\ Answer(c, Status(500))
  /\ UNCHANGED <<dirs, file, meta, now, req, buf, todo, open, tries, bounds>>

\* lock_timeout_ms passed without the lock.
LockTimeout(c) ==
  /\ pc[c] = "lock"
  /\ locked
  /\ Answer(c, Status(500))
  /\ UNCHANGED <<disk, now, req, buf, todo, open, tries, bounds>>

\* _unlock and the answer that follows it.
UnlockAndAnswer(c, a) == locked' = FALSE /\ Answer(c, a)

-----------------------------------------------------------------------------
(* put.                                                                    *)

Own(c) == Front(req[c].path)       \* the folder that holds the request's document

Checks(c, op) == pc[c] = "check" /\ req[c].op = op

\* Mutant of PutConflict: '*' is taken for no version at all.
StarIsNoVersion(c) ==
  req[c].version \notin {None, Star, Item(meta[Own(c)], req[c].path)}

PutConflict(c) ==
  LET item == Item(meta[Own(c)], req[c].path)
      v == req[c].version
  IN  v # None /\ IF v = Star THEN item # None ELSE v # item

\* A folder has the document's name, or a document the name of a folder above.
\* The second test skips every folder that is named like the document.
PutIsDir(c) ==
  LET p == req[c].path IN
  \/ meta[Own(c)].subs[Last(p)] # None
  \/ \E g \in traversePath(p) : Toward(g, p) # Last(p) /\ meta[g].docs[Toward(g, p)] # None

\* Mutant of MkdirFails: a file in the way is replaced by a directory.
MkdirNeverFails(c) == FALSE

\* mkdirp meets a file where it needs a directory.
MkdirFails(c) == \E g \in traversePath(req[c].path) \cap Doc : file[g] # NoFile

PutRefused(c) ==
  /\ Checks(c, "put")
  /\ PutConflict(c) \/ PutIsDir(c)
  /\ UnlockAndAnswer(c, Status(IF PutConflict(c) THEN 412 ELSE 409))
  /\ UNCHANGED <<dirs, file, meta, now, req, buf, todo, open, tries, bounds>>

\* mkdirp is outside the try block: the exception leaves the lock file behind.
PutMkdirThrows(c) ==
  /\ Checks(c, "put")
  /\ ~PutConflict(c) /\ ~PutIsDir(c)
  /\ meta[Own(c)].ETag = None
  /\ MkdirFails(c) \/ IOErrors
  /\ Answer(c, Status(500))
  /\ UNCHANGED <<disk, now, req, buf, todo, open, tries, bounds>>

PutStart(c) ==
  /\ Checks(c, "put")
  /\ ~PutConflict(c) /\ ~PutIsDir(c)
  /\ IF meta[Own(c)].ETag = None
     THEN ~MkdirFails(c) /\ dirs' = dirs \cup traversePath(req[c].path)
     ELSE UNCHANGED dirs
  /\ buf' = [buf EXCEPT ![c][Own(c)] = meta[Own(c)]]
  /\ Goto(c, "open")
  /\ UNCHANGED <<locked, file, meta, now, req, todo, open, ans, tries, bounds>>

PutOpen(c) ==
  /\ pc[c] = "open"
  /\ req[c].path \notin dirs
  /\ file' = [file EXCEPT ![req[c].path] = Torn]
  /\ Goto(c, "fill")
  /\ UNCHANGED <<locked, dirs, meta, now, req, buf, todo, open, ans, tries, bounds>>

\* modified = Date.now()
Stamp == \E d \in ClockSteps : now' = now + d

\* Mutant of PutAnswer: setVersion is given the version the client sent.
EchoesVersion(c) == [status |-> 200, tag |-> req[c].version, val |-> NoFile]

PutAnswer(c) ==
  [status |-> IF Item(buf[c][Own(c)], req[c].path) = None THEN 201 ELSE 200,
   tag |-> now', val |-> NoFile]

PutFill(c) ==
  /\ pc[c] = "fill"
  /\ Stamp
  /\ file' = [file EXCEPT ![req[c].path] = req[c].val]
  /\ buf' = [buf EXCEPT ![c][Own(c)] = WithDoc(@, Last(req[c].path), now', now')]
  /\ ans' = [ans EXCEPT ![c] = PutAnswer(c)]
  /\ Goto(c, "own")
  /\ UNCHANGED <<locked, dirs, meta, req, todo, open, tries, bounds>>

\* The catch block of put: no error, no conflict, so the controller sends 200.
PutFails(c) ==
  /\ req[c].op = "put"
  /\ \/ pc[c] = "open" /\ (req[c].path \in dirs \/ IOErrors)
     \/ pc[c] \in {"fill", "own", "ownfill"} /\ IOErrors
  /\ UnlockAndAnswer(c, Status(200))
  /\ UNCHANGED <<dirs, file, meta, now, req, buf, todo, open, tries, bounds>>

-----------------------------------------------------------------------------
(* delete.                                                                 *)

DeleteRefused(c) ==
  LET item == Item(meta[Own(c)], req[c].path)
      v == req[c].version
  IN  /\ Checks(c, "delete")
      /\ item = None \/ v \notin {None, item}
      /\ UnlockAndAnswer(c, Status(IF v = None THEN 404 ELSE 412))
      /\ UNCHANGED <<dirs, file, meta, now, req, buf, todo, open, tries, bounds>>

\* Mutant of DeleteAllowed: the version is not compared.
AnyVersionDeleted(c) == Checks(c, "delete") /\ Item(meta[Own(c)], req[c].path) # None

DeleteAllowed(c) ==
  LET item == Item(meta[Own(c)], req[c].path)
  IN  Checks(c, "delete") /\ item # None /\ req[c].version \in {None, item}

\* Mutant of DeleteUnlink: the entry stays in the folder's metadata.
EntryStays(c) ==
  /\ DeleteAllowed(c)
  /\ file[req[c].path] # NoFile
  /\ file' = [file EXCEPT ![req[c].path] = NoFile]
  /\ Stamp
  /\ buf' = [buf EXCEPT ![c][Own(c)] = [meta[Own(c)] EXCEPT !.ETag = now']]
  /\ ans' = [ans EXCEPT ![c] = Status(200)]
  /\ Goto(c, "own")
  /\ UNCHANGED <<locked, dirs, meta, req, todo, open, tries, bounds>>

DeleteUnlink(c) ==
  /\ DeleteAllowed(c)
  /\ file[req[c].path] # NoFile
  /\ file' = [file EXCEPT ![req[c].path] = NoFile]
  /\ Stamp
  /\ buf' = [buf EXCEPT ![c][Own(c)] = WithDoc(meta[Own(c)], Last(req[c].path), None, now')]
  /\ ans' = [ans EXCEPT ![c] = [status |-> 200, val |-> NoFile,
                                tag |-> Item(meta[Own(c)], req[c].path)]]
  /\ Goto(c, "own")
  /\ UNCHANGED <<locked, dirs, meta, req, todo, open, tries, bounds>>

\* The catch block of delete: deleted is false and conflict undefined, a 404.
DeleteFails(c) ==
  /\ req[c].op = "delete"
  /\ \/ DeleteAllowed(c) /\ (file[req[c].path] = NoFile \/ IOErrors)
     \/ pc[c] \in {"own", "ownfill", "above"} /\ IOErrors
  /\ UnlockAndAnswer(c, Status(404))
  /\ todo' = [todo EXCEPT ![c] = {}]
  /\ open' = [open EXCEPT ![c] = {}]
  /\ UNCHANGED <<dirs, file, meta, now, req, buf, tries, bounds>>

-----------------------------------------------------------------------------
(* The metadata files, for put and delete.                                 *)

OpenOwn(c) ==
  /\ pc[c] = "own"
  /\ meta' = [meta EXCEPT ![Own(c)] = EmptyMeta]
  /\ Goto(c, "ownfill")
  /\ UNCHANGED <<locked, dirs, file, now, req, buf, todo, open, ans, tries, bounds>>

\* Mutant of FillOwn: the loop over the folders above stops short of the root.
SkipsRoot(c) ==
  /\ pc[c] = "ownfill"
  /\ meta' = [meta EXCEPT ![Own(c)] = buf[c][Own(c)]]
  /\ todo' = [todo EXCEPT ![c] = traversePath(req[c].path) \ {Own(c), <<>>}]
  /\ Goto(c, "above")
  /\ UNCHANGED <<locked, dirs, file, now, req, buf, open, ans, tries, bounds>>

FillOwn(c) ==
  /\ pc[c] = "ownfill"
  /\ meta' = [meta EXCEPT ![Own(c)] = buf[c][Own(c)]]
  /\ todo' = [todo EXCEPT ![c] = traversePath(req[c].path) \ {Own(c)}]
  /\ Goto(c, "above")
  /\ UNCHANGED <<locked, dirs, file, now, req, buf, open, ans, tries, bounds>>

\* put updates the folders above in any order, at once (Promise.all); delete
\* one after the other, the deepest first.
NextAbove(c, g) ==
  /\ g \in todo[c]
  /\ req[c].op = "delete" => open[c] = {} /\ \A h \in todo[c] : Len(h) <= Len(g)

\* Mutant of NothingBelow: a folder that holds folders only counts as empty.
NoDocBelow(c, g) == buf[c][SubSeq(req[c].path, 1, Len(g) + 1)].docs = NoItems

\* delete: upperMeta, the folder below g, has no items left.
NothingBelow(c, g) ==
  LET m == buf[c][SubSeq(req[c].path, 1, Len(g) + 1)] IN m.docs = NoItems /\ m.subs = NoItems

\* readMeta of folder g, its new entry, and writeFile up to the truncation.
OpenAbove(c, g) ==
  LET modified == buf[c][Own(c)].ETag
      entry == IF req[c].op = "put" THEN modified ELSE None
  IN  /\ pc[c] \in {"above", "detached"}
      /\ NextAbove(c, g)
      /\ req[c].op = "delete" => NothingBelow(c, g)
      /\ buf' = [buf EXCEPT ![c][g] =
                   WithSub(meta[g], Toward(g, req[c].path), entry, modified)]
      /\ meta' = [meta EXCEPT ![g] = EmptyMeta]
      /\ todo' = [todo EXCEPT ![c] = @ \ {g}]
      /\ open' = [open EXCEPT ![c] = @ \cup {g}]
      /\ UNCHANGED <<locked, dirs, file, now, pc, req, ans, tries, bounds>>

\* delete reads the folder above a folder that keeps items, and leaves it alone.
SkipAbove(c, g) ==
  /\ pc[c] = "above"
  /\ req[c].op = "delete"
  /\ NextAbove(c, g)
  /\ ~NothingBelow(c, g)
  /\ buf' = [buf EXCEPT ![c][g] = meta[g]]
  /\ todo' = [todo EXCEPT ![c] = @ \ {g}]
  /\ UNCHANGED <<disk, now, pc, req, open, ans, tries, bounds>>

\* Once the last task of a put that has already failed is over, it is gone.
Settle(c, rest) == IF rest = {} THEN Goto(c, "answered") ELSE Goto(c, "detached")

FillAbove(c, g) ==
  /\ g \in open[c]
  /\ meta' = [meta EXCEPT ![g] = buf[c][g]]
  /\ open' = [open EXCEPT ![c] = @ \ {g}]
  /\ IF pc[c] = "detached" THEN Settle(c, todo[c] \cup open'[c]) ELSE UNCHANGED pc
  /\ UNCHANGED <<locked, dirs, file, now, req, buf, todo, ans, tries, bounds>>

\* One of put's concurrent tasks fails: Promise.all rejects, put unlocks and
\* answers, and the other tasks go on writing without the lock.
AboveFails(c, g) ==
  /\ IOErrors
  /\ req[c].op = "put"
  /\ g \in todo[c] \cup open[c]
  /\ todo' = [todo EXCEPT ![c] = @ \ {g}]
  /\ open' = [open EXCEPT ![c] = @ \ {g}]
  /\ IF pc[c] = "above"
     THEN locked' = FALSE /\ ans' = [ans EXCEPT ![c] = Status(200)]
     ELSE UNCHANGED <<locked, ans>>
  /\ Settle(c, todo'[c] \cup open'[c])
  /\ UNCHANGED <<dirs, file, meta, now, req, buf, tries, bounds>>

Finish(c) ==
  /\ pc[c] = "above"
  /\ todo[c] = {} /\ open[c] = {}
  /\ UnlockAndAnswer(c, ans[c])
  /\ UNCHANGED <<dirs, file, meta, now, req, buf, todo, open, tries, bounds>>

-----------------------------------------------------------------------------
(* get, without the lock.                                                  *)

\* The folder whose metadata a read depends on, and the version it finds there.
ReadFrom(c) == IF req[c].op = "list" THEN req[c].path ELSE Front(req[c].path)

TagIn(c, m) == IF req[c].op = "list" THEN m.ETag ELSE Item(m, req[c].path)

\* The first readMeta of _lockfree_get: 404, 304, or content to be read.  The
\* item of a 304 is the folder's metadata, also when the request names a document:
\* setVersion then answers the folder's ETag.
GetMeta(c) ==
  LET m == meta[ReadFrom(c)]
      tag == TagIn(c, m)
      match == tag # None /\ req[c].version = tag
  IN  /\ pc[c] = "read"
      /\ buf' = [buf EXCEPT ![c][ReadFrom(c)] = m]
      /\ IF req[c].op # "list" /\ (m.ETag = None \/ tag = None)
         THEN Answer(c, Status(404))
         ELSE /\ ans' = [ans EXCEPT ![c] = [status |-> IF match THEN 304 ELSE 200,
                                            tag |-> IF match THEN m.ETag ELSE tag,
                                            val |-> NoFile]]
              /\ Goto(c, IF match \/ req[c].op # "get" THEN "recheck" ELSE "content")
      /\ UNCHANGED <<disk, now, req, todo, open, tries, bounds>>

GetContent(c) ==
  /\ pc[c] = "content"
  /\ file[req[c].path] # NoFile
  /\ ans' = [ans EXCEPT ![c].val = file[req[c].path]]
  /\ Goto(c, "recheck")
  /\ UNCHANGED <<disk, now, req, buf, todo, open, tries, bounds>>

\* readFile throws (ENOENT when a DELETE came first); get throws it on.
GetThrows(c) ==
  /\ pc[c] = "content"
  /\ file[req[c].path] = NoFile \/ IOErrors
  /\ Answer(c, Status(500))
  /\ UNCHANGED <<disk, now, req, buf, todo, open, tries, bounds>>

\* Mutant of SameFolderTag: the ETag is not compared after the read.
NeverCompared(c) == TRUE

\* _etagMatchOrThrow, and the loop of get around it.
SameFolderTag(c) == meta[ReadFrom(c)].ETag = buf[c][ReadFrom(c)].ETag

GetAnswer(c) ==
  /\ pc[c] = "recheck"
  /\ SameFolderTag(c)
  /\ Answer(c, ans[c])
  /\ UNCHANGED <<disk, now, req, buf, todo, open, tries, bounds>>

GetRetry(c) ==
  /\ pc[c] = "recheck"
  /\ ~SameFolderTag(c)
  /\ tries[c] < MaxTries
  /\ tries' = [tries EXCEPT ![c] = @ + 1]
  /\ Goto(c, "read")
  /\ UNCHANGED <<disk, now, req, buf, todo, open, ans, bounds>>

\* Mutant of GetGivesUp: off by one, it waits for an attempt never made.
GivesUpTooLate(c) ==
  /\ pc[c] = "recheck"
  /\ ~SameFolderTag(c)
  /\ tries[c] > MaxTries
  /\ Answer(c, Status(500))
  /\ UNCHANGED <<disk, now, req, buf, todo, open, tries, bounds>>

GetGivesUp(c) ==
  /\ pc[c] = "recheck"
  /\ ~SameFolderTag(c)
  /\ tries[c] = MaxTries
  /\ Answer(c, Status(500))
  /\ UNCHANGED <<disk, now, req, buf, todo, open, tries, bounds>>

-----------------------------------------------------------------------------
(* The process dies and is started again.  Files stay as they are; the     *)
(* lockfile package removes the lock file if the process exits in order.   *)

Crash ==
  /\ crashes < MaxCrashes
  /\ crashes' = crashes + 1
  /\ locked' \in {locked, FALSE}
  /\ pc' = [c \in Client |-> "idle"]
  /\ req' = [c \in Client |-> NoRequest]
  /\ buf' = [c \in Client |-> [f \in Folder |-> EmptyMeta]]
  /\ todo' = [c \in Client |-> {}]
  /\ open' = [c \in Client |-> {}]
  /\ ans' = [c \in Client |-> NoAnswer]
  /\ tries' = [c \in Client |-> 0]
  /\ UNCHANGED <<dirs, file, meta, now, writes>>

\* What handler c does of itself, once a request has come in.
Step(c) ==
  \/ Return(c) \/ AcquireLock(c) \/ StealLock(c) \/ LockTimeout(c)
  \/ PutRefused(c) \/ PutMkdirThrows(c) \/ PutStart(c) \/ PutOpen(c) \/ PutFill(c) \/ PutFails(c)
  \/ DeleteRefused(c) \/ DeleteUnlink(c) \/ DeleteFails(c)
  \/ OpenOwn(c) \/ FillOwn(c) \/ Finish(c)
  \/ \E g \in Folder : OpenAbove(c, g) \/ SkipAbove(c, g) \/ FillAbove(c, g) \/ AboveFails(c, g)
  \/ GetMeta(c) \/ GetContent(c) \/ GetThrows(c) \/ GetAnswer(c) \/ GetRetry(c) \/ GetGivesUp(c)

Request(c) == RequestPut(c) \/ RequestDelete(c) \/ RequestGet(c)

Next == (\E c \in Client : Request(c) \/ Step(c)) \/ Crash

Spec == Init /\ [][Next]_vars

\* Node runs every callback that is due; lock, retry and I/O timers expire.
FairSpec == Spec /\ \A c \in Client : WF_vars(Step(c))

-----------------------------------------------------------------------------
(* Properties.                                                             *)

Meta == [ETag : Nat, docs : [Name -> Nat], subs : [Name -> Nat]]

Content == Value \cup {NoFile, Torn}

RequestType == [op : Operations \cup {"none"}, path : Doc \cup Folder \cup {<<>>},
                val : Value \cup {NoFile}, version : Nat \cup {Star}]

AnswerType == [status : Nat, tag : Nat, val : Content]

Label == Critical \cup {"idle", "answered", "detached", "lock", "read", "content", "recheck"}

\* Every variable has its type (state kept by file_tree.js and its handlers).
TypeOK ==
  /\ locked \in BOOLEAN
  /\ dirs \subseteq Folder
  /\ file \in [Doc -> Content]
  /\ meta \in [Folder -> Meta]
  /\ now \in Nat
  /\ pc \in [Client -> Label]
  /\ req \in [Client -> RequestType]
  /\ buf \in [Client -> [Folder -> Meta]]
  /\ todo \in [Client -> SUBSET Folder]
  /\ open \in [Client -> SUBSET Folder]
  /\ ans \in [Client -> AnswerType]
  /\ tries \in [Client -> Nat]
  /\ writes \in Nat /\ crashes \in Nat

\* The lock file, its time-out, its theft when stale and its loss in a crash or
\* an exception never let two writers work on one user's tree (_lock, _unlock).
MutualExclusion ==
  \A c, d \in Client : pc[c] \in Critical /\ pc[d] \in Critical => c = d

\* No write is under way, none ever failed half way, and none was cut short.
Quiet == /\ ~IOErrors /\ crashes = 0
         /\ \A c \in Client : pc[c] \notin Critical

\* Folders whose metadata file handler c has truncated and not yet filled.
Rewriting(c) == open[c] \cup (IF pc[c] = "ownfill" THEN {Own(c)} ELSE {})

\* Between two writes the index and the disk agree: a document is listed in its
\* folder exactly if its file exists, and no file is left half written (put and
\* delete write the file and its folder's metadata one after the other).
IndexMatchesDisk ==
  Quiet => \A p \in Doc : /\ file[p] # Torn
                          /\ Item(meta[Front(p)], p) # None <=> file[p] # NoFile

\* Between two writes a folder is listed in the folder above exactly if some
\* document is left below it (put's parent loop, delete's emptied folders).
FoldersListed ==
  Quiet => \A q \in Folder \ {<<>>} :
             meta[Front(q)].subs[Last(q)] # None
               <=> \E p \in Doc : q \in traversePath(p) /\ file[p] # NoFile

\* A document and a folder never share a path, though put skips its test for
\* folders named like the document (lines 253-270).
DocXorFolder ==
  Quiet => \A p \in Doc \cap Folder :
             file[p] = NoFile \/ meta[Front(p)].subs[Last(p)] = None

\* A handler of op answers in this step.
Ends(c, op) == /\ req[c].op = op
               /\ pc[c] \notin {"answered", "detached"}
               /\ pc'[c] \in {"answered", "detached"}

\* Its document and the folders above are what its answer says.
Stored(c) ==
  LET p == req[c].path IN
  /\ file'[p] = req[c].val
  /\ Item(meta'[Front(p)], p) = ans'[c].tag
  /\ \A g \in traversePath(p) : meta'[g].ETag = ans'[c].tag

\* A PUT that answers with an ETag has stored its content under that ETag, and
\* every folder above carries that ETag too, whatever other handlers did.
TaggedPutIsStored ==
  [][\A c \in Client : Ends(c, "put") /\ ans'[c].tag # None => Stored(c)]_vars

NamesTheVersion(c) ==
  LET item == Item(meta[Own(c)], req[c].path) IN
  req[c].version = None \/ item = req[c].version \/ (req[c].version = Star /\ item = None)

\* A conditional PUT or DELETE overwrites no version but the one it names: when
\* the document's file is truncated or unlinked, the index still holds it.
ConditionalWrite ==
  [][\A c \in Client : PutOpen(c) \/ DeleteUnlink(c) => NamesTheVersion(c)]_vars

\* The answer a belongs to metadata m: a 304, with the folder's ETag, exactly if
\* the client names the version that m holds, and that version's ETag otherwise.
AnswerFits(c, a, m) ==
  LET held == TagIn(c, m) IN
  /\ a.status = 304 <=> held # None /\ req[c].version = held
  /\ a.tag = IF a.status = 304 THEN m.ETag ELSE held

\* What a GET answers is so when it answers: a 304 says that the version the
\* client names is the current one, the ETag of a 200 is the current one, that of
\* a 304 the folder's current one, and a listing is the folder's.  Comparing the
\* folder's ETag before and after (_etagMatchOrThrow) makes up for the missing lock.
AnswerIsCurrent ==
  [][\A c \in Client : GetAnswer(c) =>
       LET m == meta[ReadFrom(c)] IN
       AnswerFits(c, ans'[c], m) /\ (req[c].op = "list" => buf[c][ReadFrom(c)] = m)]_vars

\* Every request is answered, or its process crashed: neither a lock left behind
\* nor writers that keep changing the folder hold a request for ever.
Answered == \A c \in Client : pc[c] # "idle" ~> pc[c] \in {"answered", "idle"}

\* notes/protocol.md:233, "2xx: successful request, e.g. 201 when PUT creates a
\* document": a PUT that answers 2xx has stored its content.
SuccessfulPutIsStored ==
  [][\A c \in Client : Ends(c, "put") /\ ans'[c].status \in {200, 201} => Stored(c)]_vars

Untouched(p) == \A c \in Client : pc[c] \in Critical => req[c].path # p

\* notes/protocol.md:223, "200 if present, 404 if absent": a GET of a document
\* that exists and that nobody is writing does not answer 404.
AbsentIs404 ==
  [][\A c \in Client : Ends(c, "get") /\ ans'[c].status = 404
        => file[req[c].path] = NoFile \/ ~Untouched(req[c].path)]_vars
=============================================================================
