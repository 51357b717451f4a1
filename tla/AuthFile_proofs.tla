-------------------------- MODULE AuthFile_proofs --------------------------
(***************************************************************************)
(* Theorems about AuthFile for every set of clients, passwords, tokens,    *)
(* scopes, paths and bounds, with I/O errors and crashes.                  *)
(***************************************************************************)
EXTENDS AuthFile, TLAPS

-----------------------------------------------------------------------------
(* Type correctness.  Its strengthening says which request each place      *)
(* serves.                                                                 *)

\* Registering, granting and revoking change the record; checking a token
\* does not.
ServesOK ==
  \A c \in Client :
    /\ req[c].op = "register" => req[c].key \in Password
    /\ req[c].op \in {"grant", "access", "revoke"} => req[c].token \in Token
    /\ pc[c] = "login" => req[c].op = "grant"
    /\ pc[c] = "lock" => req[c].op = "revoke"
    /\ pc[c] = "permissions" => req[c].op = "access"
    /\ pc[c] \in {"read", "open", "fill"} => req[c].op \in {"register", "grant", "revoke"}

TypeInv == TypeOK /\ ServesOK

LEMMA Values ==
  /\ NoSessions \in [Token -> SUBSET Permission]
  /\ NoRequest \in RequestType /\ NoRequest.op = "none"
  /\ \A k \in Password : NewUser(k) \in User
  /\ \A t : \A u \in User, s \in SUBSET Permission : WithSession(u, t, s) \in User
  /\ Scopes \subseteq SUBSET Permission
BY DEF NoSessions, NoRequest, RequestType, NewUser, User, WithSession, Permission, Mode

LEMMA InitType == Init => TypeInv
<1> SUFFICES ASSUME Init
             PROVE  TypeInv
  OBVIOUS
<1>1. TypeOK
  BY Values DEF Init, TypeOK
<1>2. ServesOK
  BY Values DEF Init, ServesOK
<1> QED
  BY <1>1, <1>2 DEF TypeInv

\* One handler moves and the others stay as they are.
LEMMA MoveKeepsType ==
  ASSUME TypeInv, NEW c \in Client, NEW l, NEW r \in RequestType, NEW b \in User \cup {NoUser},
         pc' = [pc EXCEPT ![c] = l], req' = [req EXCEPT ![c] = r], buf' = [buf EXCEPT ![c] = b],
         l \in {"idle", "lock", "login", "read", "open", "fill", "permissions"},
         r.op = "register" => r.key \in Password,
         r.op \in {"grant", "access", "revoke"} => r.token \in Token,
         l = "login" => r.op = "grant",
         l = "lock" => r.op = "revoke",
         l = "permissions" => r.op = "access",
         l \in {"read", "open", "fill"} => r.op \in {"register", "grant", "revoke"},
         dir' \in BOOLEAN, locked' \in BOOLEAN, disturbed' \in BOOLEAN,
         auth' \in User \cup {NoUser}, account' \in User \cup {NoUser},
         issued' \in [Token -> SUBSET Permission], requests' \in Nat, faults' \in Nat
  PROVE  TypeInv'
<1>1. TypeOK'
  BY DEF TypeInv, TypeOK
<1>2. ServesOK'
  BY DEF TypeInv, TypeOK, ServesOK
<1> QED
  BY <1>1, <1>2 DEF TypeInv

LEMMA AnswerKeepsType ==
  ASSUME TypeInv, NEW c \in Client, Answer(c),
         dir' \in BOOLEAN, locked' \in BOOLEAN, disturbed' \in BOOLEAN,
         auth' \in User \cup {NoUser}, account' \in User \cup {NoUser},
         issued' \in [Token -> SUBSET Permission], requests' \in Nat, faults' \in Nat
  PROVE  TypeInv'
BY Values, MoveKeepsType DEF Answer, Goto

LEMMA RefuseKeepsType == ASSUME TypeInv, NEW c \in Client, Refuse(c) PROVE TypeInv'
BY AnswerKeepsType DEF Refuse, TypeInv, TypeOK

LEMMA ChangeKeepsType ==
  ASSUME TypeInv, NEW c \in Client, pc[c] = "read", NEW u \in User \cup {NoUser},
         Change(c, u), dir' \in BOOLEAN
  PROVE  TypeInv'
<1>1. /\ pc' = [pc EXCEPT ![c] = "open"] /\ buf' = [buf EXCEPT ![c] = u]
      /\ UNCHANGED <<auth, locked, req, account, issued, requests, faults>>
      /\ disturbed' \in BOOLEAN
  BY DEF Change, Goto
<1>2. req[c] \in RequestType /\ req' = [req EXCEPT ![c] = req[c]]
  BY <1>1 DEF TypeInv, TypeOK
<1> QED
  BY <1>1, <1>2, MoveKeepsType DEF TypeInv, TypeOK, ServesOK

\* A step that only moves a handler (and locks or truncates the file).
LEMMA GotoKeepsType ==
  ASSUME TypeInv, NEW c \in Client, NEW l, Goto(c, l),
         UNCHANGED <<dir, req, buf, account, issued, disturbed, requests, faults>>,
         auth' \in {auth, NoUser}, locked' \in BOOLEAN,
         \/ l = "read" /\ req[c].op \in {"register", "grant", "revoke"}
         \/ l = "fill" /\ pc[c] = "open"
  PROVE  TypeInv'
<1>1. req[c] \in RequestType /\ req' = [req EXCEPT ![c] = req[c]]
      /\ buf[c] \in User \cup {NoUser} /\ buf' = [buf EXCEPT ![c] = buf[c]]
  BY DEF TypeInv, TypeOK
<1> QED
  BY <1>1, MoveKeepsType DEF TypeInv, TypeOK, ServesOK, Goto

LEMMA RequestKeepsType == ASSUME TypeInv, NEW c \in Client, Request(c) PROVE TypeInv'
<1>1. ASSUME NEW r \in RequestType, NEW l, Accept(c, r, l),
             issued' \in [Token -> SUBSET Permission],
             \/ l = "read" /\ r.op = "register" /\ r.key \in Password
             \/ r.token \in Token /\ \/ l = "login" /\ r.op = "grant"
                                     \/ l = "permissions" /\ r.op = "access"
                                     \/ l = "lock" /\ r.op = "revoke"
      PROVE  TypeInv'
  <2>1. /\ pc' = [pc EXCEPT ![c] = l] /\ req' = [req EXCEPT ![c] = r]
        /\ UNCHANGED <<dir, auth, locked, buf, account, disturbed, faults>>
        /\ requests' = requests + 1
    BY <1>1 DEF Accept, Goto
  <2>2. buf[c] \in User \cup {NoUser} /\ buf' = [buf EXCEPT ![c] = buf[c]]
    BY <2>1 DEF TypeInv, TypeOK
  <2>3. requests' \in Nat
    BY <2>1 DEF TypeInv, TypeOK
  <2> QED
    BY <1>1, <2>1, <2>2, <2>3, MoveKeepsType DEF TypeInv, TypeOK
<1>2. CASE RequestRegister(c)
  <2>1. PICK k \in Password : Accept(c, [NoRequest EXCEPT !.op = "register", !.key = k], "read")
    BY <1>2 DEF RequestRegister
  <2>2. /\ [NoRequest EXCEPT !.op = "register", !.key = k] \in RequestType
        /\ [NoRequest EXCEPT !.op = "register", !.key = k].op = "register"
        /\ [NoRequest EXCEPT !.op = "register", !.key = k].key = k
    BY DEF NoRequest, RequestType, Mode
  <2>3. issued' \in [Token -> SUBSET Permission]
    BY <1>2 DEF RequestRegister, TypeInv, TypeOK
  <2> QED
    BY <1>1, <2>1, <2>2, <2>3
<1>3. CASE RequestGrant(c)
  <2>1. PICK k \in Password, t \in Token, s \in Scopes :
          /\ issued' = [issued EXCEPT ![t] = s]
          /\ Accept(c, [NoRequest EXCEPT !.op = "grant", !.key = k, !.token = t, !.scope = s],
                    "login")
    BY <1>3 DEF RequestGrant
  <2> DEFINE r == [NoRequest EXCEPT !.op = "grant", !.key = k, !.token = t, !.scope = s]
  <2>2. r \in RequestType /\ r.op = "grant" /\ r.token = t
    BY Values DEF NoRequest, RequestType, Mode
  <2>3. issued' \in [Token -> SUBSET Permission]
    BY <2>1, Values DEF TypeInv, TypeOK
  <2> HIDE DEF r
  <2>4. Accept(c, r, "login")
    BY <2>1 DEF r
  <2> QED
    BY <1>1, <2>2, <2>3, <2>4
<1>4. CASE RequestAccess(c)
  <2>1. PICK t \in Token, p \in Paths, m \in Mode, op \in {"access", "revoke"} :
          Accept(c, [NoRequest EXCEPT !.op = op, !.token = t, !.path = p, !.mode = m],
                 IF op = "access" THEN "permissions" ELSE "lock")
    BY <1>4 DEF RequestAccess
  <2> DEFINE r == [NoRequest EXCEPT !.op = op, !.token = t, !.path = p, !.mode = m]
             l == IF op = "access" THEN "permissions" ELSE "lock"
  <2>2. /\ r \in RequestType /\ r.token = t
        /\ \/ l = "permissions" /\ r.op = "access"
           \/ l = "lock" /\ r.op = "revoke"
    <3>1. r \in RequestType /\ r.token = t /\ r.op = op
      BY DEF NoRequest, RequestType, Mode
    <3> QED
      BY <2>1, <3>1
  <2>3. issued' \in [Token -> SUBSET Permission]
    BY <1>4 DEF RequestAccess, TypeInv, TypeOK
  <2> HIDE DEF r, l
  <2>4. Accept(c, r, l)
    BY <2>1 DEF r, l
  <2> QED
    BY <1>1, <2>2, <2>3, <2>4
<1> QED
  BY <1>2, <1>3, <1>4 DEF Request

LEMMA EffectType == ASSUME TypeInv, NEW c \in Client PROVE Effect(c) \in User \cup {NoUser}
<1>1. /\ account \in User \cup {NoUser} /\ req[c].scope \in SUBSET Permission
      /\ req[c].op = "register" => NewUser(req[c].key) \in User
  BY Values DEF TypeInv, TypeOK, ServesOK, RequestType
<1>2. account # NoUser => /\ WithSession(account, req[c].token, req[c].scope) \in User
                          /\ WithSession(account, req[c].token, {}) \in User
  BY <1>1, Values
<1>3. CASE account = NoUser
  BY <1>1, <1>3 DEF Effect
<1>4. CASE account # NoUser /\ req[c].op = "register"
  BY <1>1, <1>4 DEF Effect
<1>5. CASE account # NoUser /\ req[c].op = "grant"
  BY <1>2, <1>5 DEF Effect
<1>6. CASE account # NoUser /\ req[c].op \notin {"register", "grant"}
  BY <1>2, <1>6 DEF Effect
<1> QED
  BY <1>3, <1>4, <1>5, <1>6

LEMMA StepKeepsType == ASSUME TypeInv, NEW c \in Client, Step(c) PROVE TypeInv'
<1>1. CASE AcquireLock(c) \/ StealLock(c)
  BY <1>1, GotoKeepsType DEF AcquireLock, StealLock, TypeInv, TypeOK, ServesOK
<1>2. CASE LockFails(c)
  BY <1>2, AnswerKeepsType DEF LockFails, TypeInv, TypeOK
<1>3. CASE RegisterRead(c)
  <2>1. NewUser(req[c].key) \in User
    BY <1>3, Values DEF RegisterRead, TypeInv, ServesOK
  <2> QED
    BY <1>3, <2>1, RefuseKeepsType, ChangeKeepsType DEF RegisterRead
<1>4. CASE GrantLogin(c)
  BY <1>4, RefuseKeepsType, GotoKeepsType DEF GrantLogin, TypeInv, TypeOK, ServesOK
<1>5. CASE GrantRead(c)
  <2>1. ASSUME auth # NoUser PROVE WithSession(auth, req[c].token, req[c].scope) \in User
    BY <2>1, Values DEF TypeInv, TypeOK, RequestType
  <2>2. dir \in BOOLEAN
    BY DEF TypeInv, TypeOK
  <2> QED
    BY <1>5, <2>1, <2>2, RefuseKeepsType, ChangeKeepsType DEF GrantRead
<1>6. CASE RevokeRead(c)
  <2>1. (IF auth = NoUser THEN NoUser ELSE WithSession(auth, req[c].token, {}))
          \in User \cup {NoUser}
    BY Values DEF TypeInv, TypeOK
  <2>2. dir \in BOOLEAN
    BY DEF TypeInv, TypeOK
  <2> QED
    BY <1>6, <2>1, <2>2, ChangeKeepsType DEF RevokeRead
<1>7. CASE Open(c)
  BY <1>7, GotoKeepsType DEF Open, TypeInv, TypeOK
<1>8. CASE Fill(c)
  BY <1>8, AnswerKeepsType, EffectType DEF Fill, TypeInv, TypeOK
<1>9. CASE WriteFails(c)
  BY <1>9, AnswerKeepsType DEF WriteFails, TypeInv, TypeOK
<1>10. CASE AccessAllowed(c) \/ AccessRefused(c)
  BY <1>10, RefuseKeepsType DEF AccessAllowed, AccessRefused
<1> QED
  BY <1>1, <1>2, <1>3, <1>4, <1>5, <1>6, <1>7, <1>8, <1>9, <1>10 DEF Step

LEMMA NextType == TypeInv /\ [Next]_vars => TypeInv'
<1> SUFFICES ASSUME TypeInv, [Next]_vars
             PROVE  TypeInv'
  OBVIOUS
<1>1. CASE Crash
  <2>1. /\ dir' \in BOOLEAN /\ locked' \in BOOLEAN /\ disturbed' \in BOOLEAN
        /\ auth' \in User \cup {NoUser} /\ account' \in User \cup {NoUser}
        /\ issued' \in [Token -> SUBSET Permission] /\ requests' \in Nat /\ faults' \in Nat
    <3>1. locked' \in BOOLEAN /\ disturbed' \in BOOLEAN /\ dir' \in BOOLEAN
      BY <1>1, Zenon DEF Crash, TypeInv, TypeOK
    <3> QED
      BY <1>1, <3>1 DEF Crash, TypeInv, TypeOK
  <2>2. /\ pc' = [c \in Client |-> "idle"] /\ req' = [c \in Client |-> NoRequest]
        /\ buf' = [c \in Client |-> NoUser]
    BY <1>1 DEF Crash
  <2>3. TypeOK'
    BY <2>1, <2>2, Values DEF TypeOK
  <2>4. ServesOK'
    BY <2>2, Values DEF ServesOK
  <2> QED
    BY <2>3, <2>4 DEF TypeInv
<1>2. CASE UNCHANGED vars
  BY <1>2 DEF vars, TypeInv, TypeOK, ServesOK, RequestType
<1> QED
  BY <1>1, <1>2, RequestKeepsType, StepKeepsType DEF Next

\* Every variable has its type, for every set of clients, passwords, tokens and
\* scopes (createUser, authenticate, authorize, revokeAccess, checkToken).
THEOREM TypeCorrect == Spec => []TypeOK
<1>1. TypeInv => TypeOK
  BY DEF TypeInv
<1> QED
  BY <1>1, InitType, NextType, PTL DEF Spec

-----------------------------------------------------------------------------
(* The file and the account.  The invariant says where the changes are     *)
(* that the file does not hold yet: with the only handler that is changing *)
(* it, whose record is the account with its request's effect.              *)

OneChange == \A c, d \in Client : Changing(c) /\ Changing(d) => c = d

Buffered == \A c \in Client : Changing(c) => buf[c] = Effect(c)

Filling == \E c \in Client : pc[c] = "fill"

FileOK == auth = IF Filling THEN NoUser ELSE account

AuthInv == ~disturbed => OneChange /\ Buffered /\ FileOK

LEMMA InitAuth == Init => AuthInv
BY DEF Init, AuthInv, OneChange, Buffered, FileOK, Filling, Changing

\* A step that leaves the file alone, of a handler that changes nothing before
\* and after it.
LEMMA OtherKeepsAuth ==
  ASSUME TypeInv, AuthInv, NEW c \in Client, NEW l, l \notin {"open", "fill"},
         ~Changing(c), Goto(c, l),
         \A d \in Client \ {c} : req'[d] = req[d] /\ buf'[d] = buf[d],
         UNCHANGED <<auth, account, disturbed>>
  PROVE  AuthInv'
<1>1. \A d \in Client : Changing(d)' <=> Changing(d) /\ d # c
  BY DEF TypeInv, TypeOK, Goto, Changing
<1>2. \A d \in Client : pc'[d] = "fill" <=> pc[d] = "fill"
  BY DEF TypeInv, TypeOK, Goto, Changing
<1>3. \A d \in Client \ {c} : Effect(d)' = Effect(d)
  BY DEF Effect
<1> QED
  BY <1>1, <1>2, <1>3 DEF AuthInv, OneChange, Buffered, FileOK, Filling

LEMMA AnswerKeepsAuth ==
  ASSUME TypeInv, AuthInv, NEW c \in Client, ~Changing(c), Answer(c),
         UNCHANGED <<auth, account, disturbed>>
  PROVE  AuthInv'
BY OtherKeepsAuth DEF Answer, TypeInv, TypeOK

\* The step that reads the record: nobody is changing it, or two changes overlap.
LEMMA ChangeKeepsAuth ==
  ASSUME TypeInv, AuthInv, NEW c \in Client, pc[c] = "read", NEW u, Change(c, u),
         auth = account => u = Effect(c)
  PROVE  AuthInv'
<1>1. /\ disturbed' = (disturbed \/ \E d \in Client : Changing(d))
      /\ buf' = [buf EXCEPT ![c] = u] /\ pc' = [pc EXCEPT ![c] = "open"]
      /\ UNCHANGED <<auth, account, req>>
  BY DEF Change, Goto
<1> SUFFICES ASSUME ~disturbed'
             PROVE  OneChange' /\ Buffered' /\ FileOK'
  BY DEF AuthInv
<1>2. ~disturbed /\ \A d \in Client : ~Changing(d)
  BY <1>1
<1>3. auth = account
  BY <1>2 DEF AuthInv, FileOK, Filling, Changing
<1>4. \A d \in Client : Changing(d)' <=> d = c
  BY <1>1, <1>2 DEF TypeInv, TypeOK, Changing
<1>5. buf'[c] = u /\ Effect(c)' = Effect(c)
  BY <1>1 DEF TypeInv, TypeOK, Effect
<1>6. OneChange' /\ Buffered'
  BY <1>3, <1>4, <1>5 DEF OneChange, Buffered
<1>7. FileOK'
  <2>1. ~Filling'
    BY <1>1, <1>2 DEF Filling, Changing, TypeInv, TypeOK
  <2> QED
    BY <1>1, <1>3, <2>1 DEF FileOK
<1> QED
  BY <1>6, <1>7

LEMMA OpenKeepsAuth ==
  ASSUME TypeInv, AuthInv, NEW c \in Client, Open(c)
  PROVE  AuthInv'
<1>1. /\ pc[c] = "open" /\ pc' = [pc EXCEPT ![c] = "fill"] /\ auth' = NoUser
      /\ UNCHANGED <<req, buf, account, disturbed>>
  BY DEF Open, Goto
<1>2. pc'[c] = "fill" /\ \A d \in Client : Changing(d)' <=> Changing(d)
  BY <1>1 DEF TypeInv, TypeOK, Changing
<1>3. \A d \in Client : Effect(d)' = Effect(d)
  BY <1>1 DEF Effect
<1>4. FileOK'
  BY <1>1, <1>2 DEF FileOK, Filling
<1> QED
  BY <1>1, <1>2, <1>3, <1>4 DEF AuthInv, OneChange, Buffered

LEMMA FillKeepsAuth ==
  ASSUME TypeInv, AuthInv, NEW c \in Client, Fill(c)
  PROVE  AuthInv'
<1>1. /\ pc[c] = "fill" /\ pc' = [pc EXCEPT ![c] = "idle"]
      /\ auth' = buf[c] /\ account' = Effect(c) /\ disturbed' = disturbed
  BY DEF Fill, Answer, Goto
<1> SUFFICES ASSUME ~disturbed
             PROVE  OneChange' /\ Buffered' /\ FileOK'
  BY <1>1 DEF AuthInv
<1>2. \A d \in Client : Changing(d) <=> d = c
  BY <1>1 DEF AuthInv, OneChange, Changing
<1>3. \A d \in Client : ~Changing(d)' /\ pc'[d] # "fill"
  BY <1>1, <1>2 DEF TypeInv, TypeOK, Changing
<1>4. auth' = account'
  BY <1>1, <1>2 DEF AuthInv, Buffered
<1> QED
  BY <1>3, <1>4 DEF OneChange, Buffered, FileOK, Filling

LEMMA StepKeepsAuth == ASSUME TypeInv, AuthInv, NEW c \in Client, Step(c) PROVE AuthInv'
<1>1. CASE AcquireLock(c) \/ StealLock(c)
  BY <1>1, OtherKeepsAuth DEF AcquireLock, StealLock, Changing
<1>2. CASE LockFails(c)
  BY <1>2, AnswerKeepsAuth DEF LockFails, Changing
<1>3. ASSUME Refuse(c), ~Changing(c) PROVE AuthInv'
  BY <1>3, AnswerKeepsAuth DEF Refuse
<1>4. CASE RegisterRead(c)
  <2>1. auth = account /\ auth = NoUser => NewUser(req[c].key) = Effect(c)
    BY <1>4 DEF RegisterRead, Effect
  <2> QED
    BY <1>3, <1>4, <2>1, ChangeKeepsAuth DEF RegisterRead, Changing
<1>5. CASE GrantLogin(c)
  BY <1>3, <1>5, OtherKeepsAuth DEF GrantLogin, Changing
<1>6. CASE GrantRead(c)
  <2>1. auth = account /\ auth # NoUser
          => WithSession(auth, req[c].token, req[c].scope) = Effect(c)
    BY <1>6 DEF GrantRead, Effect
  <2> QED
    BY <1>3, <1>6, <2>1, ChangeKeepsAuth DEF GrantRead, Changing
<1>7. CASE RevokeRead(c)
  <2>1. auth = account => (IF auth = NoUser THEN NoUser ELSE WithSession(auth, req[c].token, {}))
                             = Effect(c)
    BY <1>7 DEF RevokeRead, Effect
  <2> QED
    BY <1>7, <2>1, ChangeKeepsAuth DEF RevokeRead
<1>8. CASE WriteFails(c)
  BY <1>8 DEF WriteFails, AuthInv
<1>9. CASE AccessAllowed(c) \/ AccessRefused(c)
  BY <1>3, <1>9 DEF AccessAllowed, AccessRefused, Changing
<1> QED
  BY <1>1, <1>2, <1>4, <1>5, <1>6, <1>7, <1>8, <1>9, OpenKeepsAuth, FillKeepsAuth DEF Step

LEMMA RequestKeepsAuth ==
  ASSUME TypeInv, AuthInv, NEW c \in Client, Request(c)
  PROVE  AuthInv'
<1>1. ASSUME NEW r, NEW l, l \notin {"open", "fill"}, Accept(c, r, l)
      PROVE  AuthInv'
  BY <1>1, OtherKeepsAuth DEF Accept, Changing, TypeInv, TypeOK
<1>2. CASE RequestRegister(c)
  BY <1>1, <1>2 DEF RequestRegister
<1>3. CASE RequestGrant(c)
  BY <1>1, <1>3 DEF RequestGrant
<1>4. CASE RequestAccess(c)
  <2>1. \A l : l = "permissions" \/ l = "lock" => l \notin {"open", "fill"}
    OBVIOUS
  <2> QED
    BY <1>1, <1>4, <2>1 DEF RequestAccess
<1> QED
  BY <1>2, <1>3, <1>4 DEF Request

LEMMA NextAuth == TypeInv /\ AuthInv /\ [Next]_vars => AuthInv'
<1> SUFFICES ASSUME TypeInv, AuthInv, [Next]_vars
             PROVE  AuthInv'
  OBVIOUS
<1>1. CASE Crash
  BY <1>1 DEF Crash, AuthInv
<1>2. CASE UNCHANGED vars
  BY <1>2 DEF vars, AuthInv, OneChange, Buffered, FileOK, Filling, Changing, Effect
<1> QED
  BY <1>1, <1>2, StepKeepsAuth, RequestKeepsAuth DEF Next

\* Unless two changes of the record overlapped or one failed, auth.json holds
\* the account that the requests add up to (createUser, authorize, revokeAccess).
THEOREM AuthCorrect == Spec => []UndisturbedAuth
<1>1. AuthInv => UndisturbedAuth
  BY DEF AuthInv, FileOK, Filling, UndisturbedAuth
<1> QED
  BY <1>1, InitType, NextType, InitAuth, NextAuth, PTL DEF Spec

-----------------------------------------------------------------------------
(* What a token opens.  The folders that checkToken looks up are those that *)
(* the path is in, and no record gives a token more than it was made for.  *)

LEMMA PrefixElements ==
  ASSUME NEW f \in Seq(STRING), NEW s \in Seq(STRING)
  PROVE  IsPrefix(f, s) <=> Len(f) <= Len(s) /\ \A i \in 1..Len(f) : f[i] = s[i]
<1>1. Len(f) <= Len(s) => /\ Len(SubSeq(s, 1, Len(f))) = Len(f)
                          /\ \A i \in 1..Len(f) : SubSeq(s, 1, Len(f))[i] = s[i]
  OBVIOUS
<1>2. Len(f) <= Len(s) => SubSeq(s, 1, Len(f)) \in Seq(STRING)
  OBVIOUS
<1>3. SubSeq(f, 1, Len(f)) = f
  OBVIOUS
<1>4. ASSUME Len(f) <= Len(s), \A i \in 1..Len(f) : f[i] = s[i]
      PROVE  f = SubSeq(s, 1, Len(f))
  BY <1>1, <1>2, <1>4
<1> QED
  BY <1>1, <1>3, <1>4 DEF IsPrefix

LEMMA PrefixesOf ==
  ASSUME NEW f \in Seq(STRING), NEW s \in Seq(STRING)
  PROVE  f \in Prefixes(s) <=> IsPrefix(f, s)
<1>1. SubSeq(f, 1, Len(f)) = f /\ Len(f) \in Nat /\ Len(s) \in Nat
  OBVIOUS
<1>2. ASSUME NEW l \in 0..Len(s), f = SubSeq(s, 1, l)
      PROVE  IsPrefix(f, s)
  <2>1. Len(f) = l
    BY <1>2
  <2> QED
    BY <1>1, <1>2, <2>1 DEF IsPrefix
<1>3. ASSUME IsPrefix(f, s)
      PROVE  f = SubSeq(s, 1, Len(f)) /\ Len(f) \in 0..Len(s)
  BY <1>1, <1>3 DEF IsPrefix
<1>4. f \in Prefixes(s) <=> \E l \in 0..Len(s) : f = SubSeq(s, 1, l)
  BY DEF Prefixes
<1> QED
  BY <1>2, <1>3, <1>4

LEMMA BelowPublic ==
  ASSUME NEW f \in Seq(STRING), NEW s \in Seq(STRING), s # <<>>, s[1] = Public
  PROVE  /\ IsPrefix(<<Public>> \o f, s) <=> IsPrefix(f, Tail(s))
         /\ <<Public>> \o f = s <=> f = Tail(s)
<1> DEFINE g == <<Public>> \o f
           t == Tail(s)
<1>1. /\ t \in Seq(STRING) /\ Len(t) = Len(s) - 1
      /\ \A i \in 1..Len(s) - 1 : t[i] = s[i + 1]
  OBVIOUS
<1>2. /\ g \in Seq(STRING) /\ Len(g) = Len(f) + 1 /\ g[1] = Public
      /\ \A i \in 1..Len(f) : g[i + 1] = f[i]
  BY PathsAssumption
<1> HIDE DEF g, t
<1>3. Len(s) \in Nat /\ Len(s) > 0 /\ Len(f) \in Nat
  OBVIOUS
<1>4. ASSUME Len(f) <= Len(t)
      PROVE  (\A i \in 1..Len(g) : g[i] = s[i]) <=> (\A i \in 1..Len(f) : f[i] = t[i])
  <2>1. ASSUME \A i \in 1..Len(g) : g[i] = s[i], NEW i \in 1..Len(f)
        PROVE  f[i] = t[i]
    <3>1. i + 1 \in 1..Len(g) /\ i \in 1..Len(s) - 1
      BY <1>1, <1>2, <1>3, <1>4
    <3>2. g[i + 1] = s[i + 1] /\ g[i + 1] = f[i] /\ t[i] = s[i + 1]
      BY <1>1, <1>2, <2>1, <3>1
    <3> QED
      BY <3>2
  <2>2. ASSUME \A i \in 1..Len(f) : f[i] = t[i], NEW i \in 1..Len(g)
        PROVE  g[i] = s[i]
    <3>1. CASE i = 1
      BY <1>2, <3>1
    <3>2. CASE i # 1
      <4>1. i - 1 \in 1..Len(f) /\ i - 1 \in 1..Len(s) - 1 /\ (i - 1) + 1 = i
        BY <1>1, <1>2, <1>3, <1>4, <3>2
      <4>2. g[i] = f[i - 1] /\ t[i - 1] = s[i]
        BY <1>1, <1>2, <4>1
      <4> QED
        BY <2>2, <4>1, <4>2
    <3> QED
      BY <3>1, <3>2
  <2> QED
    BY <2>1, <2>2
<1>5. Len(g) <= Len(s) <=> Len(f) <= Len(t)
  BY <1>1, <1>2, <1>3
<1>6. IsPrefix(g, s) <=> IsPrefix(f, t)
  <2>1. IsPrefix(g, s) <=> Len(g) <= Len(s) /\ \A i \in 1..Len(g) : g[i] = s[i]
    BY <1>2, PrefixElements
  <2>2. IsPrefix(f, t) <=> Len(f) <= Len(t) /\ \A i \in 1..Len(f) : f[i] = t[i]
    BY <1>1, PrefixElements
  <2> QED
    BY <1>4, <1>5, <2>1, <2>2
<1>7. g = s <=> f = t
  <2>1. g = s <=> Len(g) = Len(s) /\ \A i \in 1..Len(g) : g[i] = s[i]
    BY <1>2
  <2>2. f = t <=> Len(f) = Len(t) /\ \A i \in 1..Len(f) : f[i] = t[i]
    BY <1>1
  <2>3. Len(g) = Len(s) <=> Len(f) = Len(t)
    BY <1>1, <1>2, <1>3
  <2>4. Len(f) = Len(t) => Len(f) <= Len(t)
    BY <1>1, <1>3
  <2> QED
    BY <1>4, <2>1, <2>2, <2>3, <2>4
<1> QED
  BY <1>6, <1>7 DEF g, t

LEMMA TailOfPath == ASSUME NEW s \in Seq(STRING), s # <<>> PROVE Tail(s) \in Seq(STRING)
OBVIOUS

PathOK(p) == p.names \in Seq(STRING) /\ p.isdir \in BOOLEAN

LEMMA FoldersOfPath ==
  ASSUME NEW p, PathOK(p), NEW f \in Seq(STRING)
  PROVE  f \in Parents(p) <=> InFolder(p, f)
<1>1. CASE IsPublic(p)
  <2>1. p.names \in Seq(STRING) /\ p.names # <<>> /\ p.names[1] = Public
    BY <1>1 DEF IsPublic, PathOK
  <2>2. Parents(p) = IF p.isdir THEN Prefixes(Tail(p.names))
                     ELSE Prefixes(Tail(p.names)) \ {Tail(p.names)}
    BY <1>1 DEF Parents
  <2>3. InFolder(p, f) <=> /\ IsPrefix(<<Public>> \o f, p.names)
                           /\ p.isdir \/ <<Public>> \o f # p.names
    BY <1>1 DEF InFolder
  <2>4. Tail(p.names) \in Seq(STRING)
    BY <2>1, TailOfPath
  <2>5. f \in Prefixes(Tail(p.names)) <=> IsPrefix(f, Tail(p.names))
    BY <2>4, PrefixesOf
  <2>6. /\ IsPrefix(<<Public>> \o f, p.names) <=> IsPrefix(f, Tail(p.names))
        /\ <<Public>> \o f = p.names <=> f = Tail(p.names)
    BY <2>1, BelowPublic
  <2> QED
    BY <2>2, <2>3, <2>5, <2>6 DEF PathOK
<1>2. CASE ~IsPublic(p)
  <2>1. Parents(p) = IF p.isdir THEN Prefixes(p.names) ELSE Prefixes(p.names) \ {p.names}
    BY <1>2 DEF Parents
  <2>2. InFolder(p, f) <=> IsPrefix(f, p.names) /\ (p.isdir \/ f # p.names)
    BY <1>2 DEF InFolder
  <2> QED
    BY <2>1, <2>2, PrefixesOf DEF PathOK
<1> QED
  BY <1>1, <1>2

LEMMA ElementsOfPermission ==
  \A e \in Permission : e[1] \in Seq(STRING) /\ e = <<e[1], e[2]>>
BY ScopesAssumption DEF Permission

LEMMA CoversIsOpens ==
  ASSUME NEW p, PathOK(p), NEW perms \in SUBSET Permission, NEW mode
  PROVE  Covers(perms, p, mode) <=> Opens(perms, p, mode)
<1>1. ASSUME NEW f \in Parents(p), <<f, mode>> \in perms PROVE Opens(perms, p, mode)
  <2>1. f \in Seq(STRING) /\ <<f, mode>>[2] = mode /\ <<f, mode>>[1] = f
    BY <1>1, ElementsOfPermission
  <2>2. InFolder(p, f)
    BY <1>1, <2>1, FoldersOfPath
  <2> QED
    BY <1>1, <2>1, <2>2 DEF Opens
<1>2. ASSUME NEW e \in perms, e[2] = mode, InFolder(p, e[1]) PROVE Covers(perms, p, mode)
  <2>1. e[1] \in Seq(STRING) /\ <<e[1], mode>> \in perms
    BY <1>2, ElementsOfPermission
  <2>2. e[1] \in Parents(p)
    BY <1>2, <2>1, FoldersOfPath
  <2> QED
    BY <2>1, <2>2 DEF Covers
<1> QED
  BY <1>1, <1>2 DEF Covers, Opens

\* A record's sessions have no permission that their tokens were not made for.
Within(user) == user # NoUser => \A t \in Token : user.sessions[t] \subseteq issued[t]

Granting(c) == req[c].op = "grant" => req[c].scope \subseteq issued[req[c].token]

TokenInv == /\ Within(auth) /\ Within(account)
            /\ \A c \in Client : Within(buf[c]) /\ Granting(c)

LEMMA InitTokens == Init => TokenInv
<1> SUFFICES ASSUME Init
             PROVE  TokenInv
  OBVIOUS
<1>1. auth = NoUser /\ account = NoUser
  BY DEF Init
<1>2. \A c \in Client : buf[c] = NoUser /\ req[c].op = "none"
  BY Values DEF Init
<1> QED
  BY <1>1, <1>2 DEF TokenInv, Within, Granting

\* Registering makes a record without sessions, and a session that a handler
\* adds or removes has no permission that its token was not made for.
LEMMA NewRecordWithin == \A k : Within(NewUser(k))
BY DEF Within, NewUser, NoSessions

LEMMA SessionWithin ==
  ASSUME NEW user \in User, user # NoUser, Within(user), NEW t, NEW s, s \subseteq issued[t]
  PROVE  Within(WithSession(user, t, s))
<1>1. /\ user.sessions \in [Token -> SUBSET Permission]
      /\ WithSession(user, t, s).sessions = [user.sessions EXCEPT ![t] = s]
  BY DEF User, WithSession
<1> QED
  BY <1>1 DEF Within

LEMMA EffectWithin ==
  ASSUME TypeInv, TokenInv, NEW c \in Client
  PROVE  Within(Effect(c))
<1>1. CASE account = NoUser
  BY <1>1, NewRecordWithin DEF Effect, Within
<1>2. CASE account # NoUser
  <2>1. account \in User /\ Within(account)
    BY <1>2 DEF TypeInv, TypeOK, TokenInv
  <2>2. CASE req[c].op = "register"
    BY <1>2, <2>1, <2>2 DEF Effect
  <2>3. CASE req[c].op = "grant"
    <3>1. req[c].scope \subseteq issued[req[c].token]
      BY <2>3 DEF TokenInv, Granting
    <3> QED
      BY <1>2, <2>1, <2>3, <3>1, SessionWithin DEF Effect
  <2>4. CASE req[c].op \notin {"register", "grant"}
    BY <1>2, <2>1, <2>4, SessionWithin DEF Effect
  <2> QED
    BY <2>2, <2>3, <2>4
<1> QED
  BY <1>1, <1>2

\* A step that issues no token and changes one handler's request and record.
LEMMA MoveKeepsTokens ==
  ASSUME TypeInv, TokenInv, NEW c \in Client, UNCHANGED issued,
         \A d \in Client \ {c} : req'[d] = req[d] /\ buf'[d] = buf[d],
         Within(auth'), Within(account'), Within(buf'[c]), Granting(c)'
  PROVE  TokenInv'
BY DEF TokenInv, Within, Granting

LEMMA AnswerKeepsTokens ==
  ASSUME TypeInv, TokenInv, NEW c \in Client, Answer(c), UNCHANGED issued,
         Within(auth'), Within(account')
  PROVE  TokenInv'
<1>1. /\ req'[c].op = "none" /\ buf'[c] = NoUser
      /\ \A d \in Client \ {c} : req'[d] = req[d] /\ buf'[d] = buf[d]
  BY Values DEF Answer, TypeInv, TypeOK
<1>2. Within(buf'[c]) /\ Granting(c)'
  BY <1>1 DEF Within, Granting
<1> QED
  BY <1>1, <1>2, MoveKeepsTokens

LEMMA ChangeKeepsTokens ==
  ASSUME TypeInv, TokenInv, NEW c \in Client, NEW u, Change(c, u), Within(u)
  PROVE  TokenInv'
<1>1. /\ buf'[c] = u /\ UNCHANGED <<auth, account, issued, req>>
      /\ \A d \in Client \ {c} : buf'[d] = buf[d]
  BY DEF Change, TypeInv, TypeOK
<1>2. Granting(c)' /\ Within(auth') /\ Within(account')
  BY <1>1 DEF TokenInv, Granting
<1> QED
  BY <1>1, <1>2, MoveKeepsTokens

LEMMA StepKeepsTokens ==
  ASSUME TypeInv, TokenInv, NEW c \in Client, Step(c)
  PROVE  TokenInv'
<1>1. ASSUME UNCHANGED <<auth, account, issued, req, buf>>
      PROVE  TokenInv'
  BY <1>1 DEF TokenInv, Within, Granting
<1>2. Within(NoUser) /\ Within(auth) /\ Within(account) /\ Within(buf[c])
  BY DEF TokenInv, Within
<1>3. ASSUME Answer(c), UNCHANGED issued, auth' \in {auth, buf[c]},
             account' \in {account, Effect(c)}
      PROVE  TokenInv'
  BY <1>2, <1>3, AnswerKeepsTokens, EffectWithin
<1>4. CASE AcquireLock(c) \/ StealLock(c)
  BY <1>1, <1>4 DEF AcquireLock, StealLock
<1>5. ASSUME Refuse(c) PROVE TokenInv'
  BY <1>3, <1>5 DEF Refuse
<1>6. CASE LockFails(c) \/ WriteFails(c) \/ Fill(c)
  BY <1>3, <1>6 DEF LockFails, WriteFails, Fill
<1>7. CASE AccessAllowed(c) \/ AccessRefused(c)
  BY <1>5, <1>7 DEF AccessAllowed, AccessRefused
<1>8. CASE RegisterRead(c)
  BY <1>5, <1>8, ChangeKeepsTokens, NewRecordWithin DEF RegisterRead
<1>9. CASE GrantLogin(c)
  BY <1>1, <1>5, <1>9 DEF GrantLogin
<1>10. CASE GrantRead(c)
  <2>1. ASSUME auth # NoUser
        PROVE  Within(WithSession(auth, req[c].token, req[c].scope))
    <3>1. auth \in User /\ req[c].scope \subseteq issued[req[c].token]
      BY <1>10, <2>1 DEF GrantRead, TypeInv, TypeOK, TokenInv, Granting
    <3> QED
      BY <1>2, <2>1, <3>1, SessionWithin
  <2> QED
    BY <1>5, <1>10, <2>1, ChangeKeepsTokens DEF GrantRead
<1>11. CASE RevokeRead(c)
  <2>1. ASSUME auth # NoUser
        PROVE  Within(WithSession(auth, req[c].token, {}))
    BY <1>2, <2>1, SessionWithin DEF TypeInv, TypeOK
  <2> QED
    BY <1>2, <1>11, <2>1, ChangeKeepsTokens DEF RevokeRead
<1>12. CASE Open(c)
  <2>1. /\ auth' = NoUser /\ UNCHANGED <<account, issued, req, buf>>
    BY <1>12 DEF Open
  <2> QED
    BY <1>2, <2>1 DEF TokenInv, Within, Granting
<1> QED
  BY <1>4, <1>6, <1>7, <1>8, <1>9, <1>10, <1>11, <1>12 DEF Step

\* Issuing a token takes nothing away from one that was issued.
LEMMA RequestKeepsTokens ==
  ASSUME TypeInv, TokenInv, NEW c \in Client, Request(c)
  PROVE  TokenInv'
<1>1. ASSUME NEW r, NEW l, Accept(c, r, l), issued' \in [Token -> SUBSET Permission],
             \A t \in Token : issued[t] \subseteq issued'[t],
             r.op = "grant" => r.scope \subseteq issued'[r.token]
      PROVE  TokenInv'
  <2>1. /\ req'[c] = r /\ UNCHANGED <<auth, account, buf>>
        /\ \A d \in Client \ {c} : req'[d] = req[d]
    BY <1>1 DEF Accept, TypeInv, TypeOK
  <2>2. \A user : Within(user) => (user # NoUser
                                   => \A t \in Token : user.sessions[t] \subseteq issued'[t])
    BY <1>1 DEF Within
  <2>3. \A d \in Client : Granting(d)'
    BY <1>1, <2>1 DEF TokenInv, Granting, TypeInv, ServesOK
  <2>4. Within(auth)' /\ Within(account)' /\ \A d \in Client : Within(buf[d])'
    BY <2>1, <2>2 DEF TokenInv, Within
  <2> QED
    BY <2>3, <2>4 DEF TokenInv
<1>2. CASE RequestRegister(c)
  <2>1. issued' = issued
    BY <1>2 DEF RequestRegister
  <2>2. PICK k \in Password : Accept(c, [NoRequest EXCEPT !.op = "register", !.key = k], "read")
    BY <1>2 DEF RequestRegister
  <2>3. [NoRequest EXCEPT !.op = "register", !.key = k].op = "register"
    BY DEF NoRequest
  <2> QED
    BY <1>1, <2>1, <2>2, <2>3 DEF TypeInv, TypeOK
<1>3. CASE RequestGrant(c)
  <2>1. PICK k \in Password, t \in Token, s \in Scopes :
          /\ issued[t] = {}
          /\ issued' = [issued EXCEPT ![t] = s]
          /\ Accept(c, [NoRequest EXCEPT !.op = "grant", !.key = k, !.token = t, !.scope = s],
                    "login")
    BY <1>3 DEF RequestGrant
  <2> DEFINE r == [NoRequest EXCEPT !.op = "grant", !.key = k, !.token = t, !.scope = s]
  <2>2. r.token = t /\ r.scope = s
    BY DEF NoRequest
  <2>3. /\ issued' \in [Token -> SUBSET Permission] /\ issued'[t] = s
        /\ \A u \in Token : issued[u] \subseteq issued'[u]
    BY <2>1, Values DEF TypeInv, TypeOK
  <2> HIDE DEF r
  <2>4. Accept(c, r, "login")
    BY <2>1 DEF r
  <2> QED
    BY <1>1, <2>2, <2>3, <2>4
<1>4. CASE RequestAccess(c)
  <2>1. issued' = issued
    BY <1>4 DEF RequestAccess
  <2>2. PICK t \in Token, p \in Paths, m \in Mode, op \in {"access", "revoke"} :
          Accept(c, [NoRequest EXCEPT !.op = op, !.token = t, !.path = p, !.mode = m],
                 IF op = "access" THEN "permissions" ELSE "lock")
    BY <1>4 DEF RequestAccess
  <2>3. [NoRequest EXCEPT !.op = op, !.token = t, !.path = p, !.mode = m].op = op
    BY DEF NoRequest
  <2> QED
    BY <1>1, <2>1, <2>2, <2>3 DEF TypeInv, TypeOK
<1> QED
  BY <1>2, <1>3, <1>4 DEF Request

LEMMA NextTokens == TypeInv /\ TokenInv /\ [Next]_vars => TokenInv'
<1> SUFFICES ASSUME TypeInv, TokenInv, [Next]_vars
             PROVE  TokenInv'
  OBVIOUS
<1>1. CASE Crash
  <2>1. /\ UNCHANGED <<auth, account, issued>>
        /\ \A c \in Client : buf'[c] = NoUser /\ req'[c].op = "none"
    BY <1>1, Values DEF Crash
  <2> QED
    BY <2>1 DEF TokenInv, Within, Granting
<1>2. CASE UNCHANGED vars
  BY <1>2 DEF vars, TokenInv, Within, Granting
<1> QED
  BY <1>1, <1>2, StepKeepsTokens, RequestKeepsTokens DEF Next

\* What checkToken answers follows from the three invariants.
LEMMA AllowedIsGranted ==
  ASSUME TypeInv, AuthInv, TokenInv, NEW c \in Client, pc[c] = "permissions"
  PROVE  LET p == req[c].path
             mode == req[c].mode
             granted == Opens(Permissions(account, req[c].token), p, mode)
         IN  /\ Permitted(c) /\ ~FreeToRead(p, mode) =>
                  /\ Opens(issued[req[c].token], p, mode)
                  /\ disturbed \/ granted
                  /\ ~(p.isdir /\ mode = "w")
             /\ ~Permitted(c) /\ granted =>
                  \/ disturbed
                  \/ p.isdir /\ mode = "w"
                  \/ \E d \in Client : pc[d] = "fill"
<1> DEFINE p == req[c].path
           mode == req[c].mode
           found == Permissions(auth, req[c].token)
           granted == Permissions(account, req[c].token)
<1>1. req[c].token \in Token /\ PathOK(p)
  <2>1. req[c].op = "access" /\ req[c].path \in Paths \cup {NoRequest.path}
    BY DEF TypeInv, TypeOK, ServesOK, RequestType
  <2>2. NoRequest.path.names = <<>> /\ NoRequest.path.isdir = TRUE
    BY DEF NoRequest
  <2>3. req[c].token \in Token
    BY <2>1 DEF TypeInv, ServesOK
  <2>4. CASE req[c].path \in Paths
    BY <2>3, <2>4, PathsAssumption DEF PathOK
  <2>5. CASE req[c].path = NoRequest.path
    <3>1. <<>> \in Seq(STRING)
      OBVIOUS
    <3> QED
      BY <2>2, <2>3, <2>5, <3>1 DEF PathOK
  <2> QED
    BY <2>1, <2>4, <2>5
<1>2. found \in SUBSET Permission /\ granted \in SUBSET Permission
  BY <1>1 DEF TypeInv, TypeOK, User, Permissions
<1>3. found \subseteq issued[req[c].token]
  BY <1>1 DEF TokenInv, Within, Permissions
<1>4. ~disturbed /\ ~Filling => found = granted
  BY DEF AuthInv, FileOK
<1>5. ~disturbed /\ Filling => found = {}
  BY DEF AuthInv, FileOK, Permissions
<1> HIDE DEF found, granted, p, mode
<1>6. Covers(found, p, mode) <=> Opens(found, p, mode)
  BY <1>1, <1>2, CoversIsOpens
<1>7. /\ Opens(found, p, mode) => Opens(issued[req[c].token], p, mode)
      /\ ~Opens({}, p, mode)
  BY <1>3 DEF Opens
<1>8. Permitted(c) <=> \/ FreeToRead(p, mode)
                       \/ Covers(found, p, mode) /\ ~(p.isdir /\ mode = "w")
  BY DEF Permitted, found, p, mode
<1>9. /\ Permitted(c) /\ ~FreeToRead(p, mode) =>
           /\ Opens(issued[req[c].token], p, mode)
           /\ disturbed \/ Opens(granted, p, mode)
           /\ ~(p.isdir /\ mode = "w")
      /\ ~Permitted(c) /\ Opens(granted, p, mode) =>
           disturbed \/ (p.isdir /\ mode = "w") \/ Filling
  BY <1>4, <1>5, <1>6, <1>7, <1>8
<1> QED
  BY <1>9 DEF found, granted, p, mode, Filling

\* A token opens nothing that it was not generated for and, while no writes of
\* auth.json overlap, exactly what the account grants it (checkToken).
THEOREM AccessCorrect == Spec => AccessAsGranted
<1>1. TypeInv /\ AuthInv /\ TokenInv /\ [Next]_vars =>
        [\A c \in Client :
           LET p == req[c].path
               mode == req[c].mode
               granted == Opens(Permissions(account, req[c].token), p, mode)
           IN  /\ AccessAllowed(c) /\ ~FreeToRead(p, mode) =>
                    /\ Opens(issued[req[c].token], p, mode)
                    /\ disturbed \/ granted
                    /\ ~(p.isdir /\ mode = "w")
               /\ AccessRefused(c) /\ granted =>
                    \/ disturbed
                    \/ p.isdir /\ mode = "w"
                    \/ \E d \in Client : pc[d] = "fill"]_vars
  BY AllowedIsGranted DEF AccessAllowed, AccessRefused
<1> QED
  BY <1>1, InitType, NextType, InitAuth, NextAuth, InitTokens, NextTokens, PTL
  DEF Spec, AccessAsGranted
=============================================================================
