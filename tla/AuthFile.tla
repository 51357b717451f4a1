------------------------------ MODULE AuthFile ------------------------------
(***************************************************************************)
(* The account of one user of the monolithic server: auth.json, which      *)
(* holds the password and the sessions that OAuth granted to apps          *)
(* (lib/stores/file_tree.js, createUser to permissions), behind the        *)
(* signup page, the OAuth page and the storage controller's checkToken.    *)
(*                                                                         *)
(* createUser, authorize and revokeAccess read the whole file, change it   *)
(* in memory and write it back.  Only revokeAccess takes the user's lock.  *)
(* readAuth returns null for a missing file, one that is truncated or half *)
(* written, and one that says null: auth is what readAuth returns, and     *)
(* truncating the file makes it NoUser.                                    *)
(*                                                                         *)
(* A path is the sequence of its names and whether it ends in a slash; a   *)
(* permission is a category, the path of a folder, with a mode.            *)
(***************************************************************************)
EXTENDS Naturals, SequencesExt

CONSTANTS
  Client,       \* request handlers; each serves one request at a time
  Password,
  Token,        \* access tokens; generateToken returns none of them twice
  NoUser,       \* no account: null
  Scopes,       \* the sets of permissions that apps ask for
  Paths,        \* the paths of storage requests
  Public,       \* the name "public"
  MaxRequests,  \* bound on the requests of a behaviour
  MaxFaults     \* bound on its I/O errors and crashes

Mode == {"r", "w"}

ASSUME ScopesAssumption == Scopes \subseteq (SUBSET (Seq(STRING) \X Mode)) \ {{}}
ASSUME PathsAssumption ==
  /\ Public \in STRING
  /\ \A p \in Paths : p.names \in Seq(STRING) /\ p.isdir \in BOOLEAN
ASSUME BoundAssumption == {MaxRequests, MaxFaults} \subseteq Nat

VARIABLES
  dir,       \* does the user's directory exist?
  auth,      \* the record in auth.json, as readAuth returns it
  locked,    \* does the lock file exist?
  pc,        \* where each handler is
  req,       \* the request each handler serves
  buf,       \* the record each handler is about to write
  account,   \* what the requests that took effect add up to
  issued,    \* the permissions each token was generated for
  disturbed, \* did two changes of the record overlap, or one fail?
  requests, faults  \* how much of the bounds is used

vars == <<dir, auth, locked, pc, req, buf, account, issued, disturbed, requests, faults>>

-----------------------------------------------------------------------------
(* Records, and what a token permits.                                      *)

NoSessions == [t \in Token |-> {}]

NewUser(key) == [key |-> key, sessions |-> NoSessions]

WithSession(user, t, scope) == [user EXCEPT !.sessions[t] = scope]

\* permissions: of the session with this token, if any.
Permissions(user, t) == IF user = NoUser THEN {} ELSE user.sessions[t]

\* Below /public/, whose name is not part of the category.
IsPublic(p) == p.names # <<>> /\ p.names[1] = Public /\ (p.isdir \/ Len(p.names) > 1)

\* Mutant of Parents: a document's own name counts as a folder.
ParentsAndSelf(p) == Prefixes(IF IsPublic(p) THEN Tail(p.names) ELSE p.names)

\* The folders whose permissions apply to p: core.parents of its category.
Parents(p) ==
  LET category == IF IsPublic(p) THEN Tail(p.names) ELSE p.names
  IN  IF p.isdir THEN Prefixes(category) ELSE Prefixes(category) \ {category}

Covers(perms, p, mode) == \E f \in Parents(p) : <<f, mode>> \in perms

\* Documents below /public/ are read without a token.
FreeToRead(p, mode) == mode = "r" /\ IsPublic(p) /\ ~p.isdir

NoRequest == [op |-> "none", key |-> NoUser, token |-> NoUser, scope |-> {},
              path |-> [names |-> <<>>, isdir |-> TRUE], mode |-> "r"]

Init ==
  /\ dir = FALSE
  /\ auth = NoUser
  /\ locked = FALSE
  /\ pc = [c \in Client |-> "idle"]
  /\ req = [c \in Client |-> NoRequest]
  /\ buf = [c \in Client |-> NoUser]
  /\ account = NoUser
  /\ issued = NoSessions
  /\ disturbed = FALSE
  /\ requests = 0
  /\ faults = 0

-----------------------------------------------------------------------------
(* Requests, answers and the lock.                                         *)

Goto(c, l) == pc' = [pc EXCEPT ![c] = l]

Accept(c, r, l) ==
  /\ pc[c] = "idle"
  /\ requests < MaxRequests
  /\ requests' = requests + 1
  /\ req' = [req EXCEPT ![c] = r]
  /\ Goto(c, l)
  /\ UNCHANGED <<dir, auth, locked, buf, account, disturbed, faults>>

\* The response is sent and the handler's locals are gone.
Answer(c) ==
  /\ Goto(c, "idle")
  /\ req' = [req EXCEPT ![c] = NoRequest]
  /\ buf' = [buf EXCEPT ![c] = NoUser]

\* POST /signup
RequestRegister(c) ==
  /\ \E k \in Password : Accept(c, [NoRequest EXCEPT !.op = "register", !.key = k], "read")
  /\ UNCHANGED issued

\* POST /oauth; t is the token that authorize will generate.
RequestGrant(c) ==
  \E k \in Password, t \in Token, s \in Scopes :
    /\ issued[t] = {}
    /\ issued' = [issued EXCEPT ![t] = s]
    /\ Accept(c, [NoRequest EXCEPT !.op = "grant", !.key = k, !.token = t, !.scope = s], "login")

\* GET, HEAD, PUT or DELETE below /storage; over plain HTTP where HTTPS is
\* forced, the token is revoked.
RequestAccess(c) ==
  /\ \E t \in Token, p \in Paths, m \in Mode, op \in {"access", "revoke"} :
       Accept(c, [NoRequest EXCEPT !.op = op, !.token = t, !.path = p, !.mode = m],
              IF op = "access" THEN "permissions" ELSE "lock")
  /\ UNCHANGED issued

\* Between its read of the record and the end of its write.
Changing(c) == pc[c] \in {"open", "fill"}

AcquireLock(c) ==
  /\ pc[c] = "lock"
  /\ dir /\ ~locked
  /\ locked' = TRUE
  /\ Goto(c, "read")
  /\ UNCHANGED <<dir, auth, req, buf, account, issued, disturbed, requests, faults>>

\* Timing assumption, as in FileTree: no operation takes lock_stale_after_ms.
LockIsStale ==
  locked /\ \A d \in Client : req[d].op = "revoke" => pc[d] \in {"idle", "lock"}

StealLock(c) ==
  /\ pc[c] = "lock"
  /\ LockIsStale
  /\ Goto(c, "read")
  /\ UNCHANGED <<dir, auth, locked, req, buf, account, issued, disturbed, requests, faults>>

\* No directory to put the lock file in, or lock_timeout_ms passed.
LockFails(c) ==
  /\ pc[c] = "lock"
  /\ ~dir \/ locked
  /\ Answer(c)
  /\ UNCHANGED <<dir, auth, locked, account, issued, disturbed, requests, faults>>

-----------------------------------------------------------------------------
(* createUser, authorize and revokeAccess.                                 *)

\* The handler has read the record and will write user.
Change(c, user) ==
  /\ buf' = [buf EXCEPT ![c] = user]
  /\ Goto(c, "open")
  /\ disturbed' = (disturbed \/ \E d \in Client : Changing(d))
  /\ UNCHANGED <<auth, locked, req, account, issued, requests, faults>>

Refuse(c) ==
  /\ Answer(c)
  /\ UNCHANGED <<dir, auth, locked, account, issued, disturbed, requests, faults>>

\* createUser makes the directory, then hashes the password.
RegisterRead(c) ==
  /\ pc[c] = "read" /\ req[c].op = "register"
  /\ IF auth = NoUser THEN Change(c, NewUser(req[c].key)) /\ dir' = TRUE
     ELSE Refuse(c)

\* authenticate
GrantLogin(c) ==
  /\ pc[c] = "login"
  /\ IF auth # NoUser /\ auth.key = req[c].key
     THEN /\ Goto(c, "read")
          /\ UNCHANGED <<dir, auth, locked, req, buf, account, issued, disturbed, requests, faults>>
     ELSE Refuse(c)

\* Mutant of GrantRead: a new session replaces those of other apps.
OnlySession(c) ==
  /\ pc[c] = "read" /\ req[c].op = "grant"
  /\ auth # NoUser
  /\ Change(c, WithSession(NewUser(auth.key), req[c].token, req[c].scope))
  /\ UNCHANGED dir

\* authorize reads the record again; without one it throws.
GrantRead(c) ==
  /\ pc[c] = "read" /\ req[c].op = "grant"
  /\ IF auth = NoUser THEN Refuse(c)
     ELSE Change(c, WithSession(auth, req[c].token, req[c].scope)) /\ UNCHANGED dir

\* Mutant of RevokeRead: an account that is not there becomes an empty one.
EmptyAccount(c) ==
  /\ pc[c] = "read" /\ req[c].op = "revoke"
  /\ Change(c, WithSession(IF auth = NoUser THEN NewUser(NoUser) ELSE auth, req[c].token, {}))
  /\ UNCHANGED dir

RevokeRead(c) ==
  /\ pc[c] = "read" /\ req[c].op = "revoke"
  /\ Change(c, IF auth = NoUser THEN NoUser ELSE WithSession(auth, req[c].token, {}))
  /\ UNCHANGED dir

\* writeFile truncates the file.
Open(c) ==
  /\ pc[c] = "open"
  /\ auth' = NoUser
  /\ Goto(c, "fill")
  /\ UNCHANGED <<dir, locked, req, buf, account, issued, disturbed, requests, faults>>

\* What the request does to the account.
Effect(c) ==
  IF account = NoUser
  THEN IF req[c].op = "register" THEN NewUser(req[c].key) ELSE NoUser
  ELSE CASE req[c].op = "register" -> account
         [] req[c].op = "grant" -> WithSession(account, req[c].token, req[c].scope)
         [] OTHER -> WithSession(account, req[c].token, {})

Fill(c) ==
  /\ pc[c] = "fill"
  /\ auth' = buf[c]
  /\ account' = Effect(c)
  /\ locked' = (locked /\ req[c].op # "revoke")
  /\ Answer(c)
  /\ UNCHANGED <<dir, issued, disturbed, requests, faults>>

\* revokeAccess unlocks only after its write.
WriteFails(c) ==
  /\ faults < MaxFaults
  /\ Changing(c)
  /\ faults' = faults + 1
  /\ disturbed' = TRUE
  /\ Answer(c)
  /\ UNCHANGED <<dir, auth, locked, account, issued, requests>>

-----------------------------------------------------------------------------
(* checkToken.                                                             *)

Permitted(c) ==
  \/ FreeToRead(req[c].path, req[c].mode)
  \/ /\ Covers(Permissions(auth, req[c].token), req[c].path, req[c].mode)
     /\ ~(req[c].path.isdir /\ req[c].mode = "w")

AccessAllowed(c) ==
  /\ pc[c] = "permissions"
  /\ Permitted(c)
  /\ Refuse(c)

AccessRefused(c) ==
  /\ pc[c] = "permissions"
  /\ ~Permitted(c)
  /\ Refuse(c)

Crash ==
  /\ faults < MaxFaults
  /\ faults' = faults + 1
  /\ disturbed' = TRUE
  /\ locked' \in {locked, FALSE}
  /\ pc' = [c \in Client |-> "idle"]
  /\ req' = [c \in Client |-> NoRequest]
  /\ buf' = [c \in Client |-> NoUser]
  /\ UNCHANGED <<dir, auth, account, issued, requests>>

Step(c) ==
  \/ AcquireLock(c) \/ StealLock(c) \/ LockFails(c)
  \/ RegisterRead(c) \/ GrantLogin(c) \/ GrantRead(c) \/ RevokeRead(c)
  \/ Open(c) \/ Fill(c) \/ WriteFails(c)
  \/ AccessAllowed(c) \/ AccessRefused(c)

Request(c) == RequestRegister(c) \/ RequestGrant(c) \/ RequestAccess(c)

Next == (\E c \in Client : Request(c) \/ Step(c)) \/ Crash

Spec == Init /\ [][Next]_vars

-----------------------------------------------------------------------------
(* Properties.                                                             *)

Permission == UNION Scopes

User == [key : Password, sessions : [Token -> SUBSET Permission]]

RequestType == [op : {"none", "register", "grant", "access", "revoke"},
                key : Password \cup {NoUser}, token : Token \cup {NoUser},
                scope : SUBSET Permission, path : Paths \cup {NoRequest.path}, mode : Mode]

\* Every variable has its type (auth.json, and the handlers that use it).
TypeOK ==
  /\ dir \in BOOLEAN /\ locked \in BOOLEAN /\ disturbed \in BOOLEAN
  /\ auth \in User \cup {NoUser}
  /\ account \in User \cup {NoUser}
  /\ pc \in [Client -> {"idle", "lock", "login", "read", "open", "fill", "permissions"}]
  /\ req \in [Client -> RequestType]
  /\ buf \in [Client -> User \cup {NoUser}]
  /\ issued \in [Token -> SUBSET Permission]
  /\ requests \in Nat /\ faults \in Nat

\* Unless two changes of the record overlapped or one failed, auth.json holds the
\* account that the requests so far add up to: the first registration, and the
\* sessions granted and not revoked (createUser, authorize, revokeAccess).
UndisturbedAuth ==
  ~disturbed => \/ auth = account
                \/ auth = NoUser /\ \E c \in Client : pc[c] = "fill"

\* What a permission means: it holds for everything in its folder and in the
\* folder of that name below /public/.
InFolder(p, f) ==
  LET folder == IF IsPublic(p) THEN <<Public>> \o f ELSE f
  IN  IsPrefix(folder, p.names) /\ (p.isdir \/ folder # p.names)

Opens(perms, p, mode) == \E e \in perms : e[2] = mode /\ InFolder(p, e[1])

\* A token opens nothing that it was not generated for, whichever writes of
\* auth.json overlapped or were lost; and while none did, it opens exactly what
\* the account grants it, but for moments when the file is being written
\* (permissions, checkToken).  Nothing opens a folder for writing.
AccessAsGranted ==
  [][\A c \in Client :
       LET p == req[c].path
           mode == req[c].mode
           granted == Opens(Permissions(account, req[c].token), p, mode)
       IN  /\ AccessAllowed(c) /\ ~FreeToRead(p, mode) =>
                /\ Opens(issued[req[c].token], p, mode)
                /\ disturbed \/ granted
                /\ ~(p.isdir /\ mode = "w")
           /\ AccessRefused(c) /\ granted =>
                \/ disturbed
                \/ p.isdir /\ mode = "w"
                \/ \E d \in Client : pc[d] = "fill"]_vars
=============================================================================
