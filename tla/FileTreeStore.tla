--------------------------- MODULE FileTreeStore ---------------------------
(***************************************************************************)
(* FileTree implements DocumentStore, in a behaviour without crashes and   *)
(* I/O errors.  A write takes effect when the folder's metadata file is    *)
(* truncated to take the new entry (OpenOwn); from then on until the file  *)
(* is filled, its content is in the writer's memory.  A GET or HEAD takes  *)
(* effect when it compares the folder's ETag, or answers without doing so. *)
(* GETs of folders are not DocumentStore's and do nothing in it.           *)
(***************************************************************************)
EXTENDS FileTree

CommittedVersion(p) ==
  LET f == Front(p)
      writers == {c \in Client : f \in Rewriting(c)}
  IN  Item(IF writers = {} THEN meta[f] ELSE buf[CHOOSE c \in writers : TRUE][f], p)

\* A GET of a folder is nothing that DocumentStore sees.
Phase(c) ==
  IF pc[c] = "idle" \/ req[c].op = "list" THEN "idle"
  ELSE IF pc[c] \in {"fill", "own"} THEN "writing"
  ELSE IF pc[c] \in {"ownfill", "above", "detached", "answered"} THEN "done" ELSE "pending"

AbsVersion == [p \in Doc |-> CommittedVersion(p)]
AbsPhase == [c \in Client |-> Phase(c)]
AbsReq == [c \in Client |-> IF AbsPhase[c] = "idle" THEN NoRequest ELSE req[c]]
AbsAns == [c \in Client |-> IF AbsPhase[c] = "done" THEN ans[c] ELSE NoAnswer]

Store == INSTANCE DocumentStore WITH
  version <- AbsVersion, content <- file, phase <- AbsPhase, req <- AbsReq, ans <- AbsAns

\* PUT and DELETE of concurrent clients, with their lock, their several writes
\* and their refusals, and the GETs that read beside them without the lock, act
\* like the instantaneous operations of DocumentStore.
ImplementsStore == Store!StoreSpec
=============================================================================
