--------------------------- MODULE DocumentStore ---------------------------
(***************************************************************************)
(* What a store of remoteStorage documents promises to its clients.  Every *)
(* PUT and DELETE takes effect at one instant between request and answer,  *)
(* on the document versions (ETags) of that instant; it respects the       *)
(* version the client names, it never makes a name both a document and a   *)
(* folder, and a PUT's ETag is newer than any in the store.  Before that   *)
(* instant, and only if nothing can refuse it any more, it writes the      *)
(* content, one writer at a time.  A GET or HEAD of a document answers     *)
(* with the version of one instant, and with that version's content unless *)
(* the document is being written then, or with a 304 exactly if the client *)
(* names that version; only a 404 may be wrong, while the answer of a      *)
(* write beside the document is due.  What ETag a 304 carries is left open *)
(* (file_tree answers the folder's).                                       *)
(***************************************************************************)
EXTENDS Naturals, SequencesExt

CONSTANTS Client, Doc, Star, NoFile

VARIABLES
  version,  \* the ETag of each document, 0 if it does not exist
  content,  \* the content of each document, NoFile if it does not exist
  phase,    \* "idle", "pending", "writing" or "done": the request of each client
  req,      \* op, path, val and version of that request
  ans       \* status, tag and val of its answer, once done

storeVars == <<version, content, phase, req, ans>>

NoRequest == [op |-> "none", path |-> <<>>, val |-> NoFile, version |-> 0]
NoAnswer == [status |-> 0, tag |-> 0, val |-> NoFile]

StoreInit ==
  /\ version = [p \in Doc |-> 0]
  /\ content = [p \in Doc |-> NoFile]
  /\ phase = [c \in Client |-> "idle"]
  /\ req = [c \in Client |-> NoRequest]
  /\ ans = [c \in Client |-> NoAnswer]

Writes(c) == req[c].op \in {"put", "delete"}
Reads(c) == req[c].op \in {"get", "head"}

Call(c) ==
  /\ phase[c] = "idle"
  /\ phase' = [phase EXCEPT ![c] = "pending"]
  /\ req'[c].op \in {"put", "delete", "get", "head"}
  /\ req'[c].path \in Doc
  /\ req' = [req EXCEPT ![c] = req'[c]]
  /\ UNCHANGED <<version, content, ans>>

\* The request that was in phase l is answered.
Done(c, l, status, tag, val) ==
  /\ phase[c] = l
  /\ phase' = [phase EXCEPT ![c] = "done"]
  /\ ans' = [ans EXCEPT ![c] = [status |-> status, tag |-> tag, val |-> val]]
  /\ UNCHANGED <<content, req>>

Current(c) == version[req[c].path]

\* The version the client names is the document's; '*' names no document to a
\* PUT, and nothing that a DELETE could remove.
Matches(c) ==
  \/ req[c].version = 0
  \/ req[c].version = Star /\ req[c].op = "put" /\ Current(c) = 0
  \/ req[c].version = Current(c)

NameClash(p) ==
  \E q \in Doc : version[q] # 0 /\ (IsStrictPrefix(p, q) \/ IsStrictPrefix(q, p))

Admitted(c) ==
  /\ Matches(c)
  /\ \/ req[c].op = "put" /\ ~NameClash(req[c].path)
     \/ req[c].op = "delete" /\ Current(c) # 0

\* Writing the content begins, and goes on.
Begin(c) ==
  /\ phase[c] = "pending" /\ Admitted(c)
  /\ \A d \in Client : phase[d] # "writing"
  /\ phase' = [phase EXCEPT ![c] = "writing"]
  /\ content' = [content EXCEPT ![req[c].path] = content'[req[c].path]]
  /\ UNCHANGED <<version, req, ans>>

Write(c) ==
  /\ phase[c] = "writing"
  /\ content' = [content EXCEPT ![req[c].path] = content'[req[c].path]]
  /\ UNCHANGED <<version, phase, req, ans>>

Put(c) ==
  LET p == req[c].path IN
  /\ req[c].op = "put" /\ Admitted(c)
  /\ content[p] = req[c].val
  /\ \A q \in Doc : version'[p] > version[q]
  /\ version' = [version EXCEPT ![p] = version'[p]]
  /\ Done(c, "writing", IF Current(c) = 0 THEN 201 ELSE 200, version'[p], NoFile)

Delete(c) ==
  /\ req[c].op = "delete" /\ Admitted(c)
  /\ content[req[c].path] = NoFile
  /\ version' = [version EXCEPT ![req[c].path] = 0]
  /\ Done(c, "writing", 200, Current(c), NoFile)

BeingWritten(p) == \E d \in Client : phase[d] = "writing" /\ req[d].path = p

Get(c) ==
  LET p == req[c].path
      status == IF req[c].version = Current(c) THEN 304 ELSE 200
      tag == IF status = 304 THEN ans'[c].tag ELSE Current(c)
      val == ans'[c].val
  IN  /\ Reads(c) /\ Current(c) # 0
      /\ IF req[c].op = "get" /\ status = 200
         THEN val = content[p] \/ BeingWritten(p)
         ELSE val = NoFile
      /\ Done(c, "pending", status, tag, val)
      /\ UNCHANGED version

\* A PUT or DELETE that has taken effect somewhere below the folder of document
\* p and that its client has no answer to yet.
Unsettled(p) ==
  \E d \in Client : phase[d] = "done" /\ Writes(d) /\ IsStrictPrefix(Front(p), req[d].path)

Absent(c) ==
  /\ Reads(c)
  /\ Current(c) = 0 \/ Unsettled(req[c].path)
  /\ Done(c, "pending", 404, 0, NoFile)
  /\ UNCHANGED version

Refuse(c) ==
  /\ \/ Writes(c) /\ ~Matches(c) /\ Done(c, "pending", 412, 0, NoFile)
     \/ req[c].op = "put" /\ NameClash(req[c].path) /\ Done(c, "pending", 409, 0, NoFile)
     \/ req[c].op = "delete" /\ Current(c) = 0
          /\ Done(c, "pending", IF req[c].version = 0 THEN 404 ELSE 412, 0, NoFile)
  /\ UNCHANGED version

\* A request may fail without effect.  The 200 is put's catch block.
Fail(c) ==
  /\ \/ Done(c, "pending", 500, 0, NoFile)
     \/ req[c].op = "put" /\ Done(c, "pending", 200, 0, NoFile)
  /\ UNCHANGED version

Forget(c) ==
  /\ phase[c] = "done"
  /\ phase' = [phase EXCEPT ![c] = "idle"]
  /\ req' = [req EXCEPT ![c] = NoRequest]
  /\ ans' = [ans EXCEPT ![c] = NoAnswer]
  /\ UNCHANGED <<version, content>>

StoreNext ==
  \E c \in Client : \/ Call(c) \/ Begin(c) \/ Write(c) \/ Put(c) \/ Delete(c)
                    \/ Get(c) \/ Absent(c) \/ Refuse(c) \/ Fail(c) \/ Forget(c)

StoreSpec == StoreInit /\ [][StoreNext]_storeVars
=============================================================================
