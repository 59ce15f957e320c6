---------------------------- MODULE IdentityProofs ----------------------------
(***************************************************************************)
(* Proofs about Identity, for any requests, members and invitations.       *)
(*                                                                         *)
(* The inductive invariant says what a transaction knows under the locks   *)
(* it holds: a member's row under its lock, the other administrators under *)
(* the tenant's, a session that is not revoked under the session's.  What  *)
(* an acceptance read of its invitation before it held any lock stands as  *)
(* long as the invitation's token does.  A second invariant says what a    *)
(* mailer knows under its lease of a delivery.                             *)
(***************************************************************************)
EXTENDS Identity, FiniteSetTheorems, TLAPS

Ids == 1..CastSize
Steps == {"new", "tenant", "target", "caller", "session", "count", "apply", "callback", "enter", "insert",
          "invitation", "person", "inviter", "done"}
Emails == {FirstInvite.email} \cup {Req[c].email : c \in DOMAIN Req}

MemberRow == [admin : BOOLEAN, active : BOOLEAN, version : Nat, from : {Nil} \cup DOMAIN inv]
SessionRecord ==
    [owner : DOMAIN member, under : Nat, login : {Nil} \cup DOMAIN logins, revoked : BOOLEAN, expired : BOOLEAN]
LoginRow == [state : {"open", "used"}, token : {Nil} \cup mailed]
InviteRow ==
    [email : Emails, admin : BOOLEAN, inviter : DOMAIN member, grant : Nat, version : Nat,
     status : {"pending", "accepted", "cancelled"}, expired : BOOLEAN, token : Nat, used : {Nil} \cup Nat]
DeliveryRow ==
    [gen : Nat, payload : {Nil} \cup Nat, state : {"queued", "sending", "sent", "failed", "cancelled"},
     attempts : Nat, lease : {Nil} \cup (Nat \X Nat), leased : BOOLEAN]
Posting ==
    [id : DOMAIN inv, token : {Nil} \cup Nat, lease : Nat \X Nat, result : {Nil, "sent", "error", "lost"}]
Transaction ==
    [pc : Steps, seen : Nat, token : {Nil} \cup mailed, inviter : {Nil} \cup DOMAIN member,
     answer : {Nil, "ok", "denied", "conflict", "error"}]

AccountTypes ==
    /\ member \in [DOMAIN member -> MemberRow]
    /\ sess \in [DOMAIN sess -> SessionRecord] /\ DOMAIN FirstSessions \subseteq DOMAIN sess
    /\ logins \in [DOMAIN logins -> LoginRow]
    /\ inv \in [DOMAIN inv -> InviteRow]
    /\ del \in [DOMAIN inv -> DeliveryRow]
PostTypes ==
    /\ mailed \subseteq (DOMAIN inv) \X ({Nil} \cup Nat)
    /\ mailer \in [Mailers -> {Nil} \cup Posting]
RequestTypes ==
    /\ cast \in [Ids -> DOMAIN Req]
    /\ st \in [Ids -> Transaction]
    /\ \A i \in Ids : st[i].pc # "done" => st[i].answer = Nil

\* Which requests come where.
Reached(i) ==
    /\ st[i].pc \in {"callback", "enter", "insert"} => Kind(i) \in {"login", "accept"}
    /\ st[i].pc = "callback" => R(i).login \in DOMAIN logins
    /\ st[i].pc = "invitation" => Kind(i) = "accept" /\ st[i].token # Nil
    /\ st[i].pc \in {"person", "inviter"} => Kind(i) = "accept"
    /\ st[i].pc = "tenant" => Kind(i) \in {"change", "invite", "cancel", "resend", "accept"}
    /\ st[i].pc \in {"target", "count"} => Kind(i) = "change"
    /\ st[i].pc = "caller" => Kind(i) \in {"invite", "cancel", "resend", "revoke", "write"}
    /\ st[i].pc = "session" => Kind(i) \in {"change", "invite", "cancel", "resend", "revoke", "write"}
LoginKinds ==
    \A i \in Ids : Kind(i) \in {"login", "accept"} /\ R(i).login \in DOMAIN logins
                   /\ logins[R(i).login].token # Nil => Kind(i) = "accept"

\* Locks on one thing by two requests are shared.
Compatible ==
    \A l, k \in rowLocks : l.on = k.on /\ l.by # k.by => l.mode = "share" /\ k.mode = "share"

RowHeld(i, x, mode) == \E l \in rowLocks : l.on = x /\ l.by = i /\ l.mode = mode

\* Changes and acceptances hold the tenant's lock.
TenantHeld(i) ==
    Kind(i) = "change" /\ st[i].pc \in {"target", "session", "count", "apply"} => RowHeld(i, TenantLock(i), "update")

\* A change holds its target, and once it has counted the administrators leaves
\* one of them.
TargetHeld(i) ==
    Kind(i) = "change" /\ st[i].pc \in {"session", "count", "apply"} =>
      /\ R(i).who \in DOMAIN member /\ RowHeld(i, Row(R(i).who), "update")
      /\ st[i].pc = "apply" =>
           (R(i).active /\ R(i).admin) \/ \E q \in DOMAIN member : q # R(i).who /\ IsAdmin(q)

\* A login that is about to insert its session.
EntryHeld(i) ==
    st[i].pc = "insert" =>
      /\ R(i).who \in DOMAIN member /\ RowHeld(i, Row(R(i).who), "share")
      /\ member[R(i).who].active /\ member[R(i).who].version = st[i].seen

\* A write that has been allowed.
WriteHeld(i) ==
    Kind(i) = "write" =>
      /\ st[i].pc \in {"session", "apply"} =>
           /\ RowHeld(i, Row(Caller(i)), "share")
           /\ member[Caller(i)].active /\ member[Caller(i)].version = st[i].seen
      /\ st[i].pc = "apply" => RowHeld(i, SessionRow(R(i).ses), "share") /\ ~sess[R(i).ses].revoked

\* An acceptance: its invitation is for it, and unless it was sent again its
\* inviter and grant are those that were read; the inviter is an administrator.
AcceptHeld(i) ==
    Kind(i) = "accept" =>
      /\ st[i].pc \in {"tenant", "person", "inviter", "apply"} =>
           LET x == st[i].token[1]
           IN /\ x \in DOMAIN inv /\ inv[x].email = EmailOf[R(i).who]
              /\ st[i].token[2] \in Nat /\ st[i].token[2] <= inv[x].version
              /\ inv[x].token = st[i].token[2] => inv[x].inviter = st[i].inviter /\ inv[x].grant = st[i].seen
      /\ st[i].pc = "apply" =>
           /\ RowHeld(i, Row(st[i].inviter), "share")
           /\ IsAdmin(st[i].inviter) /\ member[st[i].inviter].version = st[i].seen

Knows(i) == Reached(i) /\ TenantHeld(i) /\ TargetHeld(i) /\ EntryHeld(i) /\ WriteHeld(i) /\ AcceptHeld(i)

\* A login is consumed by one request, and makes one session.
PastLogin(i) == Kind(i) \in {"login", "accept"} /\ st[i].pc \notin {"new", "callback", "done"}
LoginsOnce ==
    /\ \A s \in DOMAIN sess : sess[s].login # Nil => logins[sess[s].login].state = "used"
    /\ \A s, t \in DOMAIN sess : sess[s].login = sess[t].login => s = t \/ sess[s].login = Nil
    /\ \A i \in Ids : PastLogin(i) =>
         /\ R(i).login \in DOMAIN logins /\ logins[R(i).login].state = "used"
         /\ \A s \in DOMAIN sess : sess[s].login = R(i).login => sess[s].login = Nil
         /\ \A j \in Ids : PastLogin(j) /\ R(j).login = R(i).login => i = j

\* An invitation that made a member is not pending any more.
InvitesOnce ==
    /\ \A p \in DOMAIN member : member[p].from # Nil => inv[member[p].from].status # "pending"
    /\ \A p, q \in DOMAIN member : member[p].from = member[q].from => p = q \/ member[p].from = Nil

SessionsCurrent ==
    \A s \in DOMAIN sess : ~sess[s].revoked =>
      member[sess[s].owner].active /\ member[sess[s].owner].version = sess[s].under

SomeAdmin == \E p \in DOMAIN member : IsAdmin(p)

IdentityTypes == AccountTypes /\ PostTypes /\ RequestTypes
TokensBounded == \A x \in DOMAIN inv : inv[x].token <= inv[x].version

IdentityInv ==
    /\ IdentityTypes /\ Compatible /\ \A i \in Ids : Knows(i)
    /\ LoginKinds /\ LoginsOnce /\ InvitesOnce /\ SessionsCurrent /\ SomeAdmin /\ TokensBounded

-----------------------------------------------------------------------------
\* What a step of request i does to the accounts: members change under the locks of
\* their row and the tenant, sessions are revoked when nobody has locked them, and
\* an invitation that is sent again gets a later token.
Careful(i) ==
    /\ \A p \in DOMAIN member :
         /\ p \in DOMAIN member'
         /\ member'[p] = member[p] \/ (RowHeld(i, Row(p), "update") /\ RowHeld(i, TenantLock(i), "update"))
    /\ \A s \in DOMAIN FirstSessions :
         /\ sess'[s].owner = sess[s].owner
         /\ sess'[s].revoked = sess[s].revoked \/ Free(SessionRow(s), "update", i)
    /\ \A x \in DOMAIN inv :
         /\ x \in DOMAIN inv' /\ inv'[x].email = inv[x].email
         /\ inv'[x].version \in Nat /\ inv'[x].token \in Nat /\ inv[x].version <= inv'[x].version
         /\ \/ inv'[x].token = inv[x].token /\ inv'[x].inviter = inv[x].inviter /\ inv'[x].grant = inv[x].grant
            \/ inv'[x].token > inv[x].version
    /\ DOMAIN logins \subseteq DOMAIN logins'

\* It leaves the other requests and their locks alone.
Apart(i) ==
    /\ cast' = cast
    /\ \A q \in Ids \ {i} : st'[q] = st[q]
    /\ \A l \in rowLocks : l.by # i => l \in rowLocks'
    /\ Careful(i)

\* A request that works with a session has one of the first, whose owner is a
\* member.
LEMMA CallerIsMember ==
    ASSUME AccountTypes, RequestTypes, NEW i \in Ids,
           Kind(i) \in {"change", "invite", "cancel", "resend", "revoke", "write", "logout"}
    PROVE  R(i).ses \in DOMAIN FirstSessions /\ R(i).ses \in DOMAIN sess /\ Caller(i) \in DOMAIN member
<1>1. cast[i] \in DOMAIN Req /\ R(i).ses \in DOMAIN FirstSessions
  BY IdentityAssumption DEF RequestTypes, Kind, R
<1>2. R(i).ses \in DOMAIN sess
  BY <1>1 DEF AccountTypes
<1>3. sess[R(i).ses].owner \in DOMAIN member
  BY <1>2 DEF AccountTypes, SessionRecord
<1> QED
  BY <1>1, <1>2, <1>3 DEF Caller

\* A step that stays apart takes nothing from what the others know.
LEMMA OthersKnow ==
    ASSUME IdentityInv, NEW i, Apart(i), NEW q \in Ids \ {i}
    PROVE  Knows(q)'
<1>1. /\ st'[q] = st[q] /\ Kind(q)' = Kind(q) /\ R(q)' = R(q) /\ Knows(q) /\ AccountTypes /\ RequestTypes
      /\ TenantLock(q)' = TenantLock(q) /\ TenantLock(q) = TenantLock(i)
  BY DEF Apart, Careful, IdentityInv, IdentityTypes, Kind, R, TenantLock
\* its locks stay
<1>2. ASSUME NEW x, NEW m, RowHeld(q, x, m) PROVE RowHeld(q, x, m)'
  BY <1>2 DEF RowHeld, Apart, Careful
\* a member whose row it has locked stays as it is
<1>3. ASSUME NEW p \in DOMAIN member, NEW m, RowHeld(q, Row(p), m) PROVE p \in DOMAIN member' /\ member'[p] = member[p]
  BY <1>3 DEF RowHeld, Apart, Careful, IdentityInv, Compatible
\* and so do all members, if it has locked the tenant
<1>4. ASSUME NEW m, RowHeld(q, TenantLock(q), "update"), NEW p \in DOMAIN member
      PROVE  p \in DOMAIN member' /\ member'[p] = member[p]
  BY <1>1, <1>4 DEF RowHeld, Apart, Careful, IdentityInv, Compatible
<1>5. Reached(q)'
  BY <1>1 DEF Knows, Reached, Apart, Careful
<1>6. TenantHeld(q)'
  BY <1>1, <1>2 DEF Knows, TenantHeld
<1>7. TargetHeld(q)'
  <2> SUFFICES ASSUME Kind(q) = "change", st[q].pc \in {"session", "count", "apply"}
               PROVE  /\ R(q).who \in DOMAIN member' /\ RowHeld(q, Row(R(q).who), "update")'
                      /\ st[q].pc = "apply" =>
                           (R(q).active /\ R(q).admin) \/ \E p \in DOMAIN member' : p # R(q).who /\ IsAdmin(p)'
    BY <1>1 DEF TargetHeld, Row
  <2>1. /\ R(q).who \in DOMAIN member /\ RowHeld(q, Row(R(q).who), "update") /\ RowHeld(q, TenantLock(q), "update")
        /\ st[q].pc = "apply" =>
             (R(q).active /\ R(q).admin) \/ \E p \in DOMAIN member : p # R(q).who /\ IsAdmin(p)
    BY <1>1 DEF Knows, TargetHeld, TenantHeld
  <2>2. R(q).who \in DOMAIN member' /\ RowHeld(q, Row(R(q).who), "update")'
    BY <2>1, <1>1, <1>2, <1>4 DEF Row
  <2>3. ASSUME st[q].pc = "apply", NEW p \in DOMAIN member, p # R(q).who, IsAdmin(p)
        PROVE  p \in DOMAIN member' /\ IsAdmin(p)'
    BY <2>1, <2>3, <1>4 DEF IsAdmin
  <2> QED
    BY <2>1, <2>2, <2>3
<1>8. EntryHeld(q)'
  BY <1>1, <1>2, <1>3 DEF Knows, EntryHeld, Row
<1>9. WriteHeld(q)'
  <2> SUFFICES ASSUME Kind(q) = "write" PROVE WriteHeld(q)'
    BY <1>1 DEF WriteHeld
  <2>1. R(q).ses \in DOMAIN FirstSessions /\ Caller(q) \in DOMAIN member /\ Caller(q)' = Caller(q)
    BY <1>1, CallerIsMember DEF Apart, Careful, Caller, R
  <2>2. ASSUME st[q].pc \in {"session", "apply"}
        PROVE  /\ RowHeld(q, Row(Caller(q)), "share")' /\ member'[Caller(q)].active
               /\ member'[Caller(q)].version = st[q].seen
    BY <2>1, <2>2, <1>1, <1>2, <1>3 DEF Knows, WriteHeld, Row
  <2>3. ASSUME st[q].pc = "apply" PROVE RowHeld(q, SessionRow(R(q).ses), "share")' /\ ~sess'[R(q).ses].revoked
    <3>1. RowHeld(q, SessionRow(R(q).ses), "share") /\ ~sess[R(q).ses].revoked
      BY <2>3, <1>1 DEF Knows, WriteHeld
    <3>2. ~Free(SessionRow(R(q).ses), "update", i)
      BY <3>1 DEF RowHeld, Free
    <3>3. sess'[R(q).ses].revoked = sess[R(q).ses].revoked
      BY <3>2, <2>1 DEF Apart, Careful
    <3> QED
      BY <3>1, <3>3, <1>1, <1>2 DEF SessionRow
  <2> QED
    BY <2>1, <2>2, <2>3, <1>1 DEF WriteHeld, Row, SessionRow
<1>10. AcceptHeld(q)'
  <2> SUFFICES ASSUME Kind(q) = "accept" PROVE AcceptHeld(q)'
    BY <1>1 DEF AcceptHeld
  <2>1. ASSUME st[q].pc \in {"tenant", "person", "inviter", "apply"}
        PROVE  LET x == st[q].token[1]
               IN /\ x \in DOMAIN inv' /\ inv'[x].email = EmailOf[R(q).who]
                  /\ st[q].token[2] \in Nat /\ st[q].token[2] <= inv'[x].version
                  /\ inv'[x].token = st[q].token[2] => inv'[x].inviter = st[q].inviter /\ inv'[x].grant = st[q].seen
    <3> DEFINE x == st[q].token[1]
    <3>1. /\ x \in DOMAIN inv /\ inv[x].email = EmailOf[R(q).who]
          /\ st[q].token[2] \in Nat /\ st[q].token[2] <= inv[x].version
          /\ inv[x].token = st[q].token[2] => inv[x].inviter = st[q].inviter /\ inv[x].grant = st[q].seen
      BY <2>1, <1>1 DEF Knows, AcceptHeld
    <3>2. /\ x \in DOMAIN inv' /\ inv'[x].email = inv[x].email
          /\ inv'[x].version \in Nat /\ inv'[x].token \in Nat /\ inv[x].version <= inv'[x].version
          /\ \/ inv'[x].token = inv[x].token /\ inv'[x].inviter = inv[x].inviter /\ inv'[x].grant = inv[x].grant
             \/ inv'[x].token > inv[x].version
      BY <3>1 DEF Apart, Careful
    <3>3. inv[x].version \in Nat
      BY <3>1, <1>1 DEF AccountTypes, InviteRow
    <3> HIDE DEF x
    <3>4. st[q].token[2] <= inv'[x].version /\ (inv'[x].token > inv[x].version => inv'[x].token # st[q].token[2])
      BY <3>1, <3>2, <3>3
    <3> QED
      BY <3>1, <3>2, <3>4 DEF x
  <2>2. ASSUME st[q].pc = "apply"
        PROVE  /\ RowHeld(q, Row(st[q].inviter), "share")'
               /\ st[q].inviter \in DOMAIN member' /\ member'[st[q].inviter] = member[st[q].inviter]
               /\ IsAdmin(st[q].inviter) /\ member[st[q].inviter].version = st[q].seen
    BY <2>2, <1>1, <1>2, <1>3 DEF Knows, AcceptHeld, IsAdmin
  <2> QED
    BY <2>1, <2>2, <1>1 DEF AcceptHeld, IsAdmin, Row
<1> QED
  BY <1>5, <1>6, <1>7, <1>8, <1>9, <1>10 DEF Knows

-----------------------------------------------------------------------------
\* What a request holds, it holds on when it goes on, and what it locks it holds.
LEMMA GoHolds ==
    ASSUME NEW i, NEW s, NEW xs, Go(i, s, xs)
    PROVE  /\ \A x, m : RowHeld(i, x, m) => \E l \in rowLocks' : l.on = x /\ l.by = i /\ l.mode = m
           /\ \A x, m : <<x, m>> \in xs => \E l \in rowLocks' : l.on = x /\ l.by = i /\ l.mode = m
<1>1. rowLocks' = rowLocks \cup {[on |-> x[1], by |-> i, mode |-> x[2]] : x \in xs}
  BY DEF Go
<1>2. ASSUME NEW x, NEW m, <<x, m>> \in xs PROVE \E l \in rowLocks' : l.on = x /\ l.by = i /\ l.mode = m
  <2>1. [on |-> x, by |-> i, mode |-> m] \in rowLocks'
    BY <1>1, <1>2
  <2> QED
    BY <2>1
<1> QED
  BY <1>1, <1>2 DEF RowHeld

\* Free locks can be taken.
LEMMA GoCompatible ==
    ASSUME NEW i, NEW s, NEW xs, Go(i, s, xs), Compatible, \A x \in xs : Free(x[1], x[2], i)
    PROVE  Compatible'
<1>1. rowLocks' = rowLocks \cup {[on |-> x[1], by |-> i, mode |-> x[2]] : x \in xs}
  BY DEF Go
<1> SUFFICES ASSUME NEW l \in rowLocks', NEW k \in rowLocks', l.on = k.on, l.by # k.by
             PROVE  l.mode = "share" /\ k.mode = "share"
  BY DEF Compatible
<1>2. CASE l \in rowLocks /\ k \in rowLocks
  BY <1>2 DEF Compatible
<1>3. CASE l \notin rowLocks
  <2>1. PICK x \in xs : l = [on |-> x[1], by |-> i, mode |-> x[2]]
    BY <1>1, <1>3
  <2>2. k \in rowLocks
    BY <1>1, <2>1
  <2> QED
    BY <2>1, <2>2 DEF Free
<1>4. CASE k \notin rowLocks
  <2>1. PICK x \in xs : k = [on |-> x[1], by |-> i, mode |-> x[2]]
    BY <1>1, <1>4
  <2>2. l \in rowLocks
    BY <1>1, <2>1
  <2> QED
    BY <2>1, <2>2 DEF Free
<1> QED
  BY <1>2, <1>3, <1>4

\* When a transaction is over, it knows nothing and what the others hold stays.
Over(i) == st'[i] = [NewRequest EXCEPT !.pc = "done", !.answer = st'[i].answer]

LEMMA OverKnows ==
    ASSUME NEW i \in Ids, Over(i)
    PROVE  Knows(i)' /\ st'[i].pc = "done" /\ ~PastLogin(i)'
<1>1. st'[i].pc = "done"
  BY DEF Over, NewRequest
<1> QED
  BY <1>1 DEF Knows, Reached, TenantHeld, TargetHeld, EntryHeld, WriteHeld, AcceptHeld, PastLogin

\* The accounts stay as they are: what is known of them stays.
LEMMA AccountsStay ==
    ASSUME IdentityInv, UNCHANGED <<accounts, cast>>, NEW i \in Ids,
           \A q \in Ids \ {i} : st'[q] = st[q], PastLogin(i)' => PastLogin(i)
    PROVE  LoginKinds' /\ LoginsOnce' /\ InvitesOnce' /\ SessionsCurrent' /\ SomeAdmin' /\ TokensBounded'
<1>1. /\ member' = member /\ sess' = sess /\ logins' = logins /\ inv' = inv /\ del' = del /\ cast' = cast
      /\ \A q \in Ids : Kind(q)' = Kind(q) /\ R(q)' = R(q)
  BY DEF accounts, Kind, R
<1>2. LoginKinds' /\ InvitesOnce' /\ SessionsCurrent' /\ SomeAdmin' /\ TokensBounded'
  BY <1>1 DEF IdentityInv, LoginKinds, InvitesOnce, SessionsCurrent, SomeAdmin, TokensBounded, IsAdmin
<1>3. \A q \in Ids : PastLogin(q)' => PastLogin(q)
  BY <1>1 DEF PastLogin
<1>4. LoginsOnce'
  BY <1>1, <1>3 DEF IdentityInv, LoginsOnce
<1> QED
  BY <1>2, <1>4
\* Steps that leave the accounts alone keep their types.
LEMMA TypesStay ==
    ASSUME IdentityTypes, UNCHANGED <<accounts, posts, cast>>, st' \in [Ids -> Transaction],
           \A i \in Ids : st'[i].pc # "done" => st'[i].answer = Nil
    PROVE  IdentityTypes'
<1>1. /\ member' = member /\ sess' = sess /\ logins' = logins /\ inv' = inv /\ del' = del /\ cast' = cast
      /\ mailed' = mailed /\ mailer' = mailer
  BY DEF accounts, posts
<1>2. AccountTypes'
  BY <1>1 DEF IdentityTypes, AccountTypes, MemberRow, SessionRecord, LoginRow, InviteRow, DeliveryRow
<1>3. PostTypes'
  BY <1>1 DEF IdentityTypes, PostTypes, Posting
<1>4. RequestTypes'
  BY <1>1 DEF IdentityTypes, RequestTypes, Transaction
<1> QED
  BY <1>2, <1>3, <1>4 DEF IdentityTypes

\* So do they stay apart from the other requests.
LEMMA ApartStays ==
    ASSUME IdentityInv, UNCHANGED <<accounts, cast>>, NEW i,
           \A q \in Ids \ {i} : st'[q] = st[q],
           \A l \in rowLocks : l.by # i => l \in rowLocks'
    PROVE  Apart(i)
<1>1. member' = member /\ sess' = sess /\ logins' = logins /\ inv' = inv /\ cast' = cast
  BY DEF accounts
<1>2. \A x \in DOMAIN inv : inv[x].version \in Nat /\ inv[x].token \in Nat
  BY DEF IdentityInv, IdentityTypes, AccountTypes, InviteRow
<1> QED
  BY <1>1, <1>2 DEF Apart, Careful

LEMMA QuietGo ==
    ASSUME IdentityInv, NEW i \in Ids, UNCHANGED accounts, NEW s \in Transaction, NEW xs, Go(i, s, xs),
           \A x \in xs : Free(x[1], x[2], i), s.answer = Nil, Knows(i)', PastLogin(i)' => PastLogin(i)
    PROVE  IdentityInv'
<1>1. /\ st' = [st EXCEPT ![i] = s] /\ rowLocks \subseteq rowLocks' /\ UNCHANGED <<cast, posts>>
      /\ st \in [Ids -> Transaction]
  BY DEF Go, IdentityInv, IdentityTypes, RequestTypes
<1>2. st' \in [Ids -> Transaction] /\ \A q \in Ids \ {i} : st'[q] = st[q]
  BY <1>1
<1>3. \A q \in Ids : st'[q].pc # "done" => st'[q].answer = Nil
  BY <1>1 DEF IdentityInv, IdentityTypes, RequestTypes
<1>4. IdentityTypes'
  BY <1>1, <1>2, <1>3, TypesStay DEF IdentityInv
<1>5. Apart(i)
  BY <1>1, <1>2, ApartStays
<1>6. \A q \in Ids : Knows(q)'
  BY <1>5, OthersKnow
<1>7. Compatible'
  BY GoCompatible DEF IdentityInv
<1>8. LoginKinds' /\ LoginsOnce' /\ InvitesOnce' /\ SessionsCurrent' /\ SomeAdmin' /\ TokensBounded'
  BY <1>1, <1>2, AccountsStay
<1> QED
  BY <1>4, <1>6, <1>7, <1>8 DEF IdentityInv

Answers == {"ok", "denied", "conflict", "error"}

\* A transaction that ends leaves the locks of the others.
LEMMA EndLocks ==
    ASSUME IdentityInv, NEW i \in Ids, NEW answer \in Answers,
           st' = [st EXCEPT ![i] = [NewRequest EXCEPT !.pc = "done", !.answer = answer]],
           rowLocks' = {l \in rowLocks : l.by # i}, cast' = cast
    PROVE  /\ \A q \in Ids \ {i} : st'[q] = st[q]
           /\ \A l \in rowLocks : l.by # i => l \in rowLocks'
           /\ Compatible' /\ Knows(i)' /\ ~PastLogin(i)'
           /\ st' \in [Ids -> Transaction]
           /\ \A q \in Ids : st'[q].pc # "done" => st'[q].answer = Nil
           /\ st'[i].answer = answer
<1>1. st \in [Ids -> Transaction]
  BY DEF IdentityInv, IdentityTypes, RequestTypes
<1>2. st'[i] = [NewRequest EXCEPT !.pc = "done", !.answer = answer] /\ st'[i].answer = answer /\ st'[i].pc = "done"
  BY <1>1 DEF NewRequest
<1>3. Over(i)
  BY <1>2 DEF Over
<1>4. [NewRequest EXCEPT !.pc = "done", !.answer = answer] \in Transaction
  BY DEF NewRequest, Transaction, Answers, Steps
<1>5. Compatible'
  BY DEF IdentityInv, Compatible
<1>6. \A q \in Ids : st'[q].pc # "done" => st'[q].answer = Nil
  BY <1>1, <1>2 DEF IdentityInv, IdentityTypes, RequestTypes
<1> QED
  BY <1>1, <1>2, <1>3, <1>4, <1>5, <1>6, OverKnows

LEMMA QuietEnd ==
    ASSUME IdentityInv, NEW i \in Ids, NEW answer \in Answers, UNCHANGED <<accounts, posts, cast>>,
           st' = [st EXCEPT ![i] = [NewRequest EXCEPT !.pc = "done", !.answer = answer]],
           rowLocks' = {l \in rowLocks : l.by # i}
    PROVE  IdentityInv'
<1>1. /\ \A q \in Ids \ {i} : st'[q] = st[q]
      /\ \A l \in rowLocks : l.by # i => l \in rowLocks'
      /\ Compatible' /\ Knows(i)' /\ ~PastLogin(i)'
      /\ st' \in [Ids -> Transaction]
      /\ \A q \in Ids : st'[q].pc # "done" => st'[q].answer = Nil
  BY EndLocks
<1>2. IdentityTypes'
  BY <1>1, TypesStay DEF IdentityInv
<1>3. \A q \in Ids : Knows(q)'
  BY <1>1, ApartStays, OthersKnow
<1>4. LoginKinds' /\ LoginsOnce' /\ InvitesOnce' /\ SessionsCurrent' /\ SomeAdmin' /\ TokensBounded'
  BY <1>1, AccountsStay
<1> QED
  BY <1>1, <1>2, <1>3, <1>4 DEF IdentityInv

LEMMA RefusedStep ==
    ASSUME IdentityInv, NEW i \in Ids, NEW answer \in Answers, Refuse(i, answer)
    PROVE  IdentityInv'
BY QuietEnd DEF Refuse, Ended
-----------------------------------------------------------------------------
\* Where a request is after it has gone on.
LEMMA GoneOn ==
    ASSUME IdentityInv, NEW i \in Ids, UNCHANGED accounts, NEW s, NEW xs, Go(i, s, xs)
    PROVE  /\ st'[i] = s /\ Kind(i)' = Kind(i) /\ R(i)' = R(i) /\ Caller(i)' = Caller(i)
           /\ member' = member /\ sess' = sess /\ logins' = logins /\ inv' = inv
           /\ st[i] \in Transaction /\ Knows(i)
BY DEF Go, IdentityInv, IdentityTypes, RequestTypes, Kind, R, Caller, accounts

LEMMA OpenStep ==
    ASSUME IdentityInv, NEW i \in Ids, Open(i)
    PROVE  IdentityInv'
<1> DEFINE s == [st[i] EXCEPT !.pc = IF Kind(i) \in {"revoke", "write"} THEN "caller" ELSE "tenant", !.seen = Seen(i)]
<1>1. CASE Refuse(i, "denied")
  BY <1>1, RefusedStep DEF Answers
<1>2. CASE Go(i, s, {})
  <2>1. /\ st[i].pc = "new" /\ Kind(i) \in {"change", "invite", "cancel", "resend", "revoke", "write"}
        /\ UNCHANGED accounts
    BY DEF Open
  <2>2. Caller(i) \in DOMAIN member /\ st[i] \in Transaction /\ st[i].answer = Nil
    BY <2>1, CallerIsMember DEF IdentityInv, IdentityTypes, RequestTypes
  <2>3. Seen(i) \in Nat
    BY <2>1, <2>2 DEF Seen, IdentityInv, IdentityTypes, AccountTypes, MemberRow, InviteRow
  <2>4. /\ s \in Transaction /\ s.answer = Nil
        /\ s.pc = IF Kind(i) \in {"revoke", "write"} THEN "caller" ELSE "tenant"
    BY <2>2, <2>3 DEF Transaction, Steps
  <2> HIDE DEF s
  <2>5. st'[i] = s /\ Kind(i)' = Kind(i) /\ R(i)' = R(i)
    BY <1>2, <2>1, GoneOn
  <2>6. Knows(i)' /\ ~PastLogin(i)'
    BY <2>1, <2>4, <2>5 DEF Knows, Reached, TenantHeld, TargetHeld, EntryHeld, WriteHeld, AcceptHeld, PastLogin
  <2> QED
    BY <1>2, <2>1, <2>4, <2>6, QuietGo
<1> QED
  BY <1>1, <1>2 DEF Open

LEMMA LockTenantStep ==
    ASSUME IdentityInv, NEW i \in Ids, LockTenant(i)
    PROVE  IdentityInv'
<1> DEFINE s == [st[i] EXCEPT !.pc = CASE Kind(i) = "change" -> "target"
                                       [] Kind(i) = "accept" -> "person"
                                       [] OTHER -> "caller"]
           xs == {<<TenantLock(i), "update">>}
<1>1. CASE Refuse(i, "denied")
  BY <1>1, RefusedStep DEF Answers
<1>2. CASE Go(i, s, xs)
  <2>1. st[i].pc = "tenant" /\ UNCHANGED accounts /\ Free(TenantLock(i), "update", i)
    BY DEF LockTenant
  <2>2. st[i] \in Transaction /\ st[i].answer = Nil /\ Knows(i)
    BY <2>1, <1>2, GoneOn DEF IdentityInv, IdentityTypes, RequestTypes
  <2>3. Kind(i) \in {"change", "invite", "cancel", "resend", "accept"}
    BY <2>1, <2>2 DEF Knows, Reached
  <2>4. /\ s \in Transaction /\ s.answer = Nil /\ s.token = st[i].token /\ s.seen = st[i].seen /\ s.inviter = st[i].inviter
        /\ s.pc = CASE Kind(i) = "change" -> "target" [] Kind(i) = "accept" -> "person" [] OTHER -> "caller"
    BY <2>2, <2>3 DEF Transaction, Steps
  <2> HIDE DEF s
  <2>5. st'[i] = s /\ Kind(i)' = Kind(i) /\ R(i)' = R(i) /\ inv' = inv
    BY <1>2, <2>1, GoneOn
  <2>6. \E l \in rowLocks' : l.on = TenantLock(i) /\ l.by = i /\ l.mode = "update"
    <3>1. <<TenantLock(i), "update">> \in xs
      OBVIOUS
    <3> HIDE DEF xs
    <3> QED
      BY <1>2, <3>1, GoHolds
  <2>7. TenantHeld(i)'
    BY <2>6 DEF TenantHeld, RowHeld, TenantLock
  <2>8. AcceptHeld(i)'
    BY <2>1, <2>2, <2>3, <2>4, <2>5 DEF AcceptHeld, Knows
  <2>9. Knows(i)' /\ (PastLogin(i)' => PastLogin(i))
    BY <2>1, <2>3, <2>4, <2>5, <2>7, <2>8 DEF Knows, Reached, TargetHeld, EntryHeld, WriteHeld, PastLogin
  <2> QED
    BY <1>2, <2>1, <2>4, <2>9, QuietGo
<1> QED
  BY <1>1, <1>2 DEF LockTenant

LEMMA LockTargetStep ==
    ASSUME IdentityInv, NEW i \in Ids, LockTarget(i)
    PROVE  IdentityInv'
<1> DEFINE s == [st[i] EXCEPT !.pc = "session"]
           xs == {<<Row(R(i).who), "update">>}
<1>1. CASE Refuse(i, "denied")
  BY <1>1, RefusedStep DEF Answers
<1>2. CASE Refuse(i, "conflict")
  BY <1>2, RefusedStep DEF Answers
<1>3. CASE R(i).who \in DOMAIN member /\ Free(Row(R(i).who), "update", i) /\ Go(i, s, xs)
  <2>1. st[i].pc = "target" /\ UNCHANGED accounts
    BY DEF LockTarget
  <2>2. st[i] \in Transaction /\ st[i].answer = Nil /\ Knows(i)
    BY <2>1, <1>3, GoneOn DEF IdentityInv, IdentityTypes, RequestTypes
  <2>3. Kind(i) = "change"
    BY <2>1, <2>2 DEF Knows, Reached
  <2>4. s \in Transaction /\ s.answer = Nil /\ s.pc = "session"
    BY <2>2 DEF Transaction, Steps
  <2> HIDE DEF s
  <2>5. st'[i] = s /\ Kind(i)' = Kind(i) /\ R(i)' = R(i) /\ member' = member
    BY <1>3, <2>1, GoneOn
  <2>6. /\ \E l \in rowLocks' : l.on = TenantLock(i) /\ l.by = i /\ l.mode = "update"
        /\ \E l \in rowLocks' : l.on = Row(R(i).who) /\ l.by = i /\ l.mode = "update"
    <3>1. <<Row(R(i).who), "update">> \in xs /\ RowHeld(i, TenantLock(i), "update")
      BY <2>1, <2>2, <2>3 DEF Knows, TenantHeld
    <3> HIDE DEF xs
    <3> QED
      BY <1>3, <3>1, GoHolds
  <2>7. TenantHeld(i)' /\ TargetHeld(i)'
    BY <1>3, <2>4, <2>5, <2>6 DEF TenantHeld, TargetHeld, RowHeld, TenantLock, Row
  <2>8. Knows(i)' /\ ~PastLogin(i)'
    BY <2>3, <2>4, <2>5, <2>7 DEF Knows, Reached, EntryHeld, WriteHeld, AcceptHeld, PastLogin
  <2> QED
    BY <1>3, <2>1, <2>4, <2>8, QuietGo
<1> QED
  BY <1>1, <1>2, <1>3 DEF LockTarget
LEMMA LockCallerStep ==
    ASSUME IdentityInv, NEW i \in Ids, LockCaller(i)
    PROVE  IdentityInv'
<1> DEFINE mode == IF Kind(i) = "revoke" THEN "update" ELSE "share"
           s == [st[i] EXCEPT !.pc = "session"]
           xs == Taken(i, Row(Caller(i)), mode)
<1>1. CASE Refuse(i, "denied")
  BY <1>1, RefusedStep DEF Answers
<1>2. ASSUME Free(Row(Caller(i)), mode, i), Go(i, s, xs),
             Kind(i) = "write" => member[Caller(i)].active /\ member[Caller(i)].version = st[i].seen
      PROVE  IdentityInv'
  <2>1. st[i].pc = "caller" /\ UNCHANGED accounts
    BY DEF LockCaller
  <2>2. st[i] \in Transaction /\ st[i].answer = Nil /\ Knows(i)
    BY <2>1, <1>2, GoneOn DEF IdentityInv, IdentityTypes, RequestTypes
  <2>3. Kind(i) \in {"invite", "cancel", "resend", "revoke", "write"}
    BY <2>1, <2>2 DEF Knows, Reached
  <2>4. s \in Transaction /\ s.answer = Nil /\ s.pc = "session" /\ s.seen = st[i].seen
    BY <2>2 DEF Transaction, Steps
  <2>5. <<Row(Caller(i)), mode>> \in xs /\ \A x \in xs : Free(x[1], x[2], i)
    BY <1>2 DEF Taken
  <2> HIDE DEF s, xs
  <2>6. st'[i] = s /\ Kind(i)' = Kind(i) /\ R(i)' = R(i) /\ Caller(i)' = Caller(i) /\ member' = member
    BY <1>2, <2>1, GoneOn
  <2>7. \E l \in rowLocks' : l.on = Row(Caller(i)) /\ l.by = i /\ l.mode = mode
    BY <1>2, <2>5, GoHolds
  <2>8. WriteHeld(i)'
    BY <1>2, <2>4, <2>6, <2>7 DEF WriteHeld, RowHeld, Row
  <2>9. Knows(i)' /\ ~PastLogin(i)'
    BY <2>3, <2>4, <2>6, <2>8 DEF Knows, Reached, TenantHeld, TargetHeld, EntryHeld, AcceptHeld, PastLogin
  <2> QED
    BY <1>2, <2>1, <2>4, <2>5, <2>9, QuietGo
<1> QED
  BY <1>1, <1>2 DEF LockCaller

LEMMA LockSessionStep ==
    ASSUME IdentityInv, NEW i \in Ids, LockSession(i)
    PROVE  IdentityInv'
<1> DEFINE mode == IF Kind(i) = "revoke" THEN "update" ELSE "share"
           s == [st[i] EXCEPT !.pc = IF Kind(i) = "change" THEN "count" ELSE "apply"]
           xs == Taken(i, SessionRow(R(i).ses), mode)
<1>1. CASE Refuse(i, "denied")
  BY <1>1, RefusedStep DEF Answers
<1>2. CASE Free(SessionRow(R(i).ses), mode, i) /\ Go(i, s, xs) /\ Live(R(i).ses)
  <2>1. st[i].pc = "session" /\ UNCHANGED accounts
    BY DEF LockSession
  <2>2. st[i] \in Transaction /\ st[i].answer = Nil /\ Knows(i)
    BY <2>1, <1>2, GoneOn DEF IdentityInv, IdentityTypes, RequestTypes
  <2>3. Kind(i) \in {"change", "invite", "cancel", "resend", "revoke", "write"}
    BY <2>1, <2>2 DEF Knows, Reached
  <2>4. /\ s \in Transaction /\ s.answer = Nil /\ s.seen = st[i].seen
        /\ s.pc = IF Kind(i) = "change" THEN "count" ELSE "apply"
    BY <2>2 DEF Transaction, Steps
  <2>5. <<SessionRow(R(i).ses), mode>> \in xs /\ \A x \in xs : Free(x[1], x[2], i)
    BY <1>2 DEF Taken
  <2> HIDE DEF s, xs
  <2>6. /\ st'[i] = s /\ Kind(i)' = Kind(i) /\ R(i)' = R(i) /\ Caller(i)' = Caller(i)
        /\ member' = member /\ sess' = sess
    BY <1>2, <2>1, GoneOn
  <2>7. /\ \E l \in rowLocks' : l.on = SessionRow(R(i).ses) /\ l.by = i /\ l.mode = mode
        /\ \A x, m : RowHeld(i, x, m) => \E l \in rowLocks' : l.on = x /\ l.by = i /\ l.mode = m
    BY <1>2, <2>5, GoHolds
  <2>8. TenantHeld(i)'
    BY <2>1, <2>2, <2>6, <2>7 DEF Knows, TenantHeld, RowHeld, TenantLock
  <2>9. TargetHeld(i)'
    BY <2>1, <2>2, <2>4, <2>6, <2>7 DEF Knows, TargetHeld, RowHeld, Row
  <2>10. WriteHeld(i)'
    <3> SUFFICES ASSUME Kind(i) = "write" PROVE WriteHeld(i)'
      BY <2>6 DEF WriteHeld
    <3>1. /\ RowHeld(i, Row(Caller(i)), "share") /\ member[Caller(i)].active /\ member[Caller(i)].version = st[i].seen
          /\ mode = "share" /\ ~sess[R(i).ses].revoked
      BY <2>1, <2>2, <1>2 DEF Knows, WriteHeld, Live
    <3>2. RowHeld(i, Row(Caller(i)), "share")' /\ RowHeld(i, SessionRow(R(i).ses), "share")'
      BY <3>1, <2>6, <2>7 DEF RowHeld, Row, SessionRow
    <3> QED
      BY <3>1, <3>2, <2>4, <2>6 DEF WriteHeld
  <2>11. Knows(i)' /\ ~PastLogin(i)'
    BY <2>3, <2>4, <2>6, <2>8, <2>9, <2>10 DEF Knows, Reached, EntryHeld, AcceptHeld, PastLogin
  <2> QED
    BY <1>2, <2>1, <2>4, <2>5, <2>11, QuietGo
<1> QED
  BY <1>1, <1>2 DEF LockSession

\* If the target is the last administrator and would not stay one, the change is
\* refused; if it is not the last, another one is there.
LEMMA CountAdminsStep ==
    ASSUME IdentityInv, NEW i \in Ids, CountAdmins(i)
    PROVE  IdentityInv'
<1> DEFINE s == [st[i] EXCEPT !.pc = "apply"]
<1>1. CASE Refuse(i, "conflict")
  BY <1>1, RefusedStep DEF Answers
<1>2. CASE ~(LastAdmin(R(i).who) /\ ~(R(i).active /\ R(i).admin)) /\ Go(i, s, {})
  <2>1. st[i].pc = "count" /\ UNCHANGED accounts
    BY DEF CountAdmins
  <2>2. st[i] \in Transaction /\ st[i].answer = Nil /\ Knows(i)
    BY <2>1, <1>2, GoneOn DEF IdentityInv, IdentityTypes, RequestTypes
  <2>3. Kind(i) = "change"
    BY <2>1, <2>2 DEF Knows, Reached
  <2>4. s \in Transaction /\ s.answer = Nil /\ s.pc = "apply"
    BY <2>2 DEF Transaction, Steps
  <2> HIDE DEF s
  <2>5. st'[i] = s /\ Kind(i)' = Kind(i) /\ R(i)' = R(i) /\ member' = member
    BY <1>2, <2>1, GoneOn
  <2>6. \A x, m : RowHeld(i, x, m) => \E l \in rowLocks' : l.on = x /\ l.by = i /\ l.mode = m
    BY <1>2, GoHolds
  <2>7. TenantHeld(i)'
    BY <2>1, <2>2, <2>5, <2>6 DEF Knows, TenantHeld, RowHeld, TenantLock
  <2>8. (R(i).active /\ R(i).admin) \/ \E q \in DOMAIN member : q # R(i).who /\ IsAdmin(q)
    <3> SUFFICES ASSUME ~LastAdmin(R(i).who), \A q \in DOMAIN member : IsAdmin(q) => q = R(i).who PROVE FALSE
      BY <1>2
    <3>1. PICK q \in DOMAIN member : IsAdmin(q)
      BY DEF IdentityInv, SomeAdmin
    <3>2. {p \in DOMAIN member : IsAdmin(p)} = {R(i).who}
      BY <3>1
    <3>3. Cardinality({p \in DOMAIN member : IsAdmin(p)}) = 1
      BY <3>2, FS_Singleton
    <3> QED
      BY <3>1, <3>3 DEF LastAdmin
  <2>9. TargetHeld(i)'
    BY <2>1, <2>2, <2>3, <2>4, <2>5, <2>6, <2>8 DEF Knows, TargetHeld, RowHeld, Row, IsAdmin
  <2>10. Knows(i)' /\ ~PastLogin(i)'
    BY <2>3, <2>4, <2>5, <2>7, <2>9 DEF Knows, Reached, EntryHeld, WriteHeld, AcceptHeld, PastLogin
  <2> QED
    BY <1>2, <2>1, <2>4, <2>10, QuietGo
<1> QED
  BY <1>1, <1>2 DEF CountAdmins
LEMMA EnterStep ==
    ASSUME IdentityInv, NEW i \in Ids, Enter(i)
    PROVE  IdentityInv'
<1> DEFINE s == [st[i] EXCEPT !.pc = "insert", !.seen = member[R(i).who].version]
           xs == {<<Row(R(i).who), "share">>}
<1>1. CASE Refuse(i, "denied")
  BY <1>1, RefusedStep DEF Answers
<1>2. CASE R(i).who \in DOMAIN member /\ member[R(i).who].active /\ Go(i, s, xs)
  <2>1. st[i].pc = "enter" /\ UNCHANGED accounts /\ Free(Row(R(i).who), "share", i)
    BY DEF Enter
  <2>2. st[i] \in Transaction /\ st[i].answer = Nil /\ Knows(i)
    BY <2>1, <1>2, GoneOn DEF IdentityInv, IdentityTypes, RequestTypes
  <2>3. Kind(i) \in {"login", "accept"}
    BY <2>1, <2>2 DEF Knows, Reached
  <2>4. /\ s \in Transaction /\ s.answer = Nil /\ s.pc = "insert" /\ s.seen = member[R(i).who].version
    <3>1. member[R(i).who].version \in Nat
      BY <1>2 DEF IdentityInv, IdentityTypes, AccountTypes, MemberRow
    <3> QED
      BY <2>2, <3>1 DEF Transaction, Steps
  <2>5. <<Row(R(i).who), "share">> \in xs /\ \A x \in xs : Free(x[1], x[2], i)
    BY <2>1
  <2> HIDE DEF s, xs
  <2>6. st'[i] = s /\ Kind(i)' = Kind(i) /\ R(i)' = R(i) /\ member' = member
    BY <1>2, <2>1, GoneOn
  <2>7. \E l \in rowLocks' : l.on = Row(R(i).who) /\ l.by = i /\ l.mode = "share"
    BY <1>2, <2>5, GoHolds
  <2>8. EntryHeld(i)'
    BY <1>2, <2>4, <2>6, <2>7 DEF EntryHeld, RowHeld, Row
  <2>9. Knows(i)' /\ PastLogin(i)
    BY <2>1, <2>3, <2>4, <2>6, <2>8 DEF Knows, Reached, TenantHeld, TargetHeld, WriteHeld, AcceptHeld, PastLogin
  <2> QED
    BY <1>2, <2>1, <2>4, <2>5, <2>9, QuietGo
<1> QED
  BY <1>1, <1>2 DEF Enter

\* The invitation of a mail: its token is its latest.
LEMMA ReadInvitationStep ==
    ASSUME IdentityInv, NEW i \in Ids, ReadInvitation(i)
    PROVE  IdentityInv'
<1> DEFINE x == st[i].token[1]
           s == [st[i] EXCEPT !.pc = "tenant", !.inviter = inv[x].inviter, !.seen = inv[x].grant]
<1>1. CASE Refuse(i, "denied")
  BY <1>1, RefusedStep DEF Answers
<1>2. CASE Usable(st[i].token) /\ inv[x].email = EmailOf[R(i).who] /\ Go(i, s, {})
  <2>1. st[i].pc = "invitation" /\ UNCHANGED accounts
    BY DEF ReadInvitation
  <2>2. st[i] \in Transaction /\ st[i].answer = Nil /\ Knows(i)
    BY <2>1, <1>2, GoneOn DEF IdentityInv, IdentityTypes, RequestTypes
  <2>3. Kind(i) = "accept" /\ st[i].token \in mailed
    BY <2>1, <2>2 DEF Knows, Reached, Transaction
  <2>4. x \in DOMAIN inv /\ inv[x] \in InviteRow /\ inv[x].token = st[i].token[2] /\ inv[x].token <= inv[x].version
    BY <2>3, <1>2 DEF Usable, IdentityInv, IdentityTypes, AccountTypes, PostTypes, TokensBounded
  <2>5. inv[x].inviter \in DOMAIN member /\ inv[x].grant \in Nat /\ inv[x].token \in Nat
    BY <2>4 DEF InviteRow
  <2>6. /\ s \in Transaction /\ s.answer = Nil /\ s.pc = "tenant" /\ s.token = st[i].token
        /\ s.inviter = inv[x].inviter /\ s.seen = inv[x].grant
    BY <2>2, <2>5 DEF Transaction, Steps
  <2> HIDE DEF s
  <2>7. st'[i] = s /\ Kind(i)' = Kind(i) /\ R(i)' = R(i) /\ member' = member /\ inv' = inv
    BY <1>2, <2>1, GoneOn
  <2>8. AcceptHeld(i)'
    BY <1>2, <2>4, <2>5, <2>6, <2>7 DEF AcceptHeld
  <2>9. Knows(i)' /\ PastLogin(i)
    BY <2>1, <2>3, <2>6, <2>7, <2>8 DEF Knows, Reached, TenantHeld, TargetHeld, EntryHeld, WriteHeld, PastLogin
  <2> QED
    BY <1>2, <2>1, <2>6, <2>9, QuietGo
<1> QED
  BY <1>1, <1>2 DEF ReadInvitation

LEMMA LockPersonStep ==
    ASSUME IdentityInv, NEW i \in Ids, LockPerson(i)
    PROVE  IdentityInv'
<1> DEFINE s == [st[i] EXCEPT !.pc = "inviter"]
           xs == {<<Person(R(i).who), "update">>}
<1>1. /\ st[i].pc = "person" /\ UNCHANGED accounts /\ Free(Person(R(i).who), "update", i)
      /\ Go(i, s, xs)
  BY DEF LockPerson
<1>2. st[i] \in Transaction /\ st[i].answer = Nil /\ Knows(i)
  BY <1>1, GoneOn DEF IdentityInv, IdentityTypes, RequestTypes
<1>3. Kind(i) = "accept"
  BY <1>1, <1>2 DEF Knows, Reached
<1>4. /\ s \in Transaction /\ s.answer = Nil /\ s.pc = "inviter" /\ s.token = st[i].token
      /\ s.inviter = st[i].inviter /\ s.seen = st[i].seen
  BY <1>2 DEF Transaction, Steps
<1>5. \A x \in xs : Free(x[1], x[2], i)
  BY <1>1
<1> HIDE DEF s, xs
<1>6. st'[i] = s /\ Kind(i)' = Kind(i) /\ R(i)' = R(i) /\ member' = member /\ inv' = inv
  BY <1>1, GoneOn
<1>7. AcceptHeld(i)'
  BY <1>1, <1>2, <1>3, <1>4, <1>6 DEF AcceptHeld, Knows
<1>8. Knows(i)' /\ PastLogin(i)
  BY <1>1, <1>3, <1>4, <1>6, <1>7 DEF Knows, Reached, TenantHeld, TargetHeld, EntryHeld, WriteHeld, PastLogin
<1> QED
  BY <1>1, <1>4, <1>5, <1>8, QuietGo

LEMMA LockInviterStep ==
    ASSUME IdentityInv, NEW i \in Ids, LockInviter(i)
    PROVE  IdentityInv'
<1> DEFINE s == [st[i] EXCEPT !.pc = "apply"]
           xs == {<<Row(st[i].inviter), "share">>}
<1>1. CASE Refuse(i, "denied")
  BY <1>1, RefusedStep DEF Answers
<1>2. CASE IsAdmin(st[i].inviter) /\ member[st[i].inviter].version = st[i].seen /\ Go(i, s, xs)
  <2>1. st[i].pc = "inviter" /\ UNCHANGED accounts /\ Free(Row(st[i].inviter), "share", i)
    BY DEF LockInviter
  <2>2. st[i] \in Transaction /\ st[i].answer = Nil /\ Knows(i)
    BY <2>1, <1>2, GoneOn DEF IdentityInv, IdentityTypes, RequestTypes
  <2>3. Kind(i) = "accept"
    BY <2>1, <2>2 DEF Knows, Reached
  <2>4. /\ s \in Transaction /\ s.answer = Nil /\ s.pc = "apply" /\ s.token = st[i].token
        /\ s.inviter = st[i].inviter /\ s.seen = st[i].seen
    BY <2>2 DEF Transaction, Steps
  <2>5. <<Row(st[i].inviter), "share">> \in xs /\ \A x \in xs : Free(x[1], x[2], i)
    BY <2>1
  <2> HIDE DEF s, xs
  <2>6. st'[i] = s /\ Kind(i)' = Kind(i) /\ R(i)' = R(i) /\ member' = member /\ inv' = inv
    BY <1>2, <2>1, GoneOn
  <2>7. \E l \in rowLocks' : l.on = Row(st[i].inviter) /\ l.by = i /\ l.mode = "share"
    BY <1>2, <2>5, GoHolds
  <2>8. AcceptHeld(i)'
    BY <1>2, <2>1, <2>2, <2>3, <2>4, <2>6, <2>7 DEF AcceptHeld, Knows, RowHeld, Row, IsAdmin
  <2>9. Knows(i)' /\ PastLogin(i)
    BY <2>1, <2>3, <2>4, <2>6, <2>8 DEF Knows, Reached, TenantHeld, TargetHeld, EntryHeld, WriteHeld, PastLogin
  <2> QED
    BY <1>2, <2>1, <2>4, <2>5, <2>9, QuietGo
<1> QED
  BY <1>1, <1>2 DEF LockInviter
\* A login is begun under an id that nobody has used, with the token of a mail if
\* it is to accept an invitation.
LEMMA BeginLoginStep ==
    ASSUME IdentityInv, NEW i \in Ids, BeginLogin(i)
    PROVE  IdentityInv'
<1> DEFINE s == [st[i] EXCEPT !.pc = "callback"]
<1>1. st[i].pc = "new" /\ Kind(i) \in {"login", "accept"}
  BY DEF BeginLogin
<1>2. st[i] \in Transaction /\ st[i].answer = Nil /\ Knows(i) /\ IdentityTypes /\ cast \in [Ids -> DOMAIN Req]
  BY <1>1 DEF IdentityInv, IdentityTypes, RequestTypes
<1>3. s \in Transaction /\ s.answer = Nil /\ s.pc = "callback"
  BY <1>2 DEF Transaction, Steps
<1>4. ASSUME NEW answer \in Answers, Refuse(i, answer) PROVE IdentityInv'
  BY <1>4, RefusedStep
<1>5. CASE R(i).login \in DOMAIN logins /\ Go(i, s, {}) /\ UNCHANGED accounts
  <2> HIDE DEF s
  <2>1. st'[i] = s /\ Kind(i)' = Kind(i) /\ R(i)' = R(i) /\ logins' = logins
    BY <1>5, GoneOn
  <2>2. Knows(i)' /\ ~PastLogin(i)'
    BY <1>1, <1>3, <1>5, <2>1 DEF Knows, Reached, TenantHeld, TargetHeld, EntryHeld, WriteHeld, AcceptHeld, PastLogin
  <2> QED
    BY <1>3, <1>5, <2>2, QuietGo
<1>6. ASSUME R(i).login \notin DOMAIN logins, NEW t \in {Nil} \cup mailed, Kind(i) = "login" => t = Nil,
             logins' = Added(logins, R(i).login, [state |-> "open", token |-> t]),
             Go(i, s, {}), UNCHANGED <<member, sess, inv, del>>
      PROVE  IdentityInv'
  <2> HIDE DEF s
  <2>1. /\ st' = [st EXCEPT ![i] = s] /\ rowLocks \subseteq rowLocks' /\ cast' = cast /\ mailed' = mailed /\ mailer' = mailer
        /\ st \in [Ids -> Transaction]
    BY <1>2, <1>6 DEF Go, IdentityTypes, RequestTypes, posts
  <2>2. \A q \in Ids : Kind(q)' = Kind(q) /\ R(q)' = R(q)
    BY <2>1 DEF Kind, R
  <2>3. /\ DOMAIN logins' = DOMAIN logins \cup {R(i).login}
        /\ \A l \in DOMAIN logins : logins'[l] = logins[l]
        /\ logins'[R(i).login] = [state |-> "open", token |-> t]
        /\ logins' = [l \in DOMAIN logins' |-> logins'[l]]
    BY <1>6 DEF Added
  <2>4. st'[i] = s /\ st' \in [Ids -> Transaction] /\ \A q \in Ids \ {i} : st'[q] = st[q]
    BY <2>1, <1>3
  <2>5. IdentityTypes'
    <3>1. \A l \in DOMAIN logins' : logins'[l] \in LoginRow'
      BY <1>2, <1>6, <2>1, <2>3 DEF IdentityTypes, AccountTypes, LoginRow
    <3>2. logins' \in [DOMAIN logins' -> LoginRow']
      BY <2>3, <3>1
    <3>3. sess' \in [DOMAIN sess' -> SessionRecord']
      <4>1. SessionRecord \subseteq SessionRecord'
        BY <1>6, <2>3 DEF SessionRecord
      <4> QED
        BY <1>2, <1>6, <4>1 DEF IdentityTypes, AccountTypes
    <3>4. AccountTypes'
      BY <1>2, <1>6, <3>2, <3>3 DEF IdentityTypes, AccountTypes, MemberRow, InviteRow, DeliveryRow
    <3>5. PostTypes'
      BY <1>2, <1>6, <2>1 DEF IdentityTypes, PostTypes, Posting
    <3>6. RequestTypes'
      BY <1>2, <1>3, <1>6, <2>1, <2>4 DEF IdentityTypes, RequestTypes, Transaction
    <3> QED
      BY <3>4, <3>5, <3>6 DEF IdentityTypes
  <2>6. Apart(i)
    <3>1. \A x \in DOMAIN inv : inv[x].version \in Nat /\ inv[x].token \in Nat
      BY <1>2 DEF IdentityTypes, AccountTypes, InviteRow
    <3> QED
      BY <1>6, <2>1, <2>3, <2>4, <3>1 DEF Apart, Careful
  <2>7. Knows(i)' /\ ~PastLogin(i)'
    BY <1>1, <1>3, <2>2, <2>3, <2>4
       DEF Knows, Reached, TenantHeld, TargetHeld, EntryHeld, WriteHeld, AcceptHeld, PastLogin
  <2>8. \A q \in Ids : Knows(q)'
    BY <2>6, <2>7, OthersKnow
  <2>9. Compatible'
    BY <1>6, GoCompatible DEF IdentityInv
  <2>10. LoginKinds'
    <3> SUFFICES ASSUME NEW q \in Ids, Kind(q) \in {"login", "accept"}, R(q).login \in DOMAIN logins',
                        logins'[R(q).login].token # Nil
                 PROVE  Kind(q) = "accept"
      BY <2>2 DEF LoginKinds
    <3>1. CASE R(q).login \in DOMAIN logins
      BY <3>1, <2>3 DEF IdentityInv, LoginKinds
    <3>2. CASE R(q).login = R(i).login
      <4>1. Kind(i) = "accept"
        BY <1>1, <1>6, <3>2, <2>3
      <4>2. Kind(q) = "login" => {Req[cast[q]].kind, Req[cast[i]].kind} = {"login", "accept"}
        BY <4>1 DEF Kind, R
      <4>3. cast[q] \in DOMAIN Req /\ cast[i] \in DOMAIN Req
        BY <1>2
      <4>4. {Req[cast[q]].kind, Req[cast[i]].kind} = {"login", "accept"} => Req[cast[q]].login # Req[cast[i]].login
        BY <4>3, IdentityAssumption
      <4> QED
        BY <3>2, <4>2, <4>4 DEF R
    <3> QED
      BY <3>1, <3>2, <2>3
  <2>11. LoginsOnce'
    <3>1. \A q \in Ids : PastLogin(q)' => PastLogin(q)
      BY <2>2, <2>4, <2>7 DEF PastLogin
    <3>2. \A u \in DOMAIN sess : sess[u].login = Nil \/ sess[u].login \in DOMAIN logins
      BY <1>2 DEF IdentityTypes, AccountTypes, SessionRecord
    <3> QED
      BY <1>6, <2>2, <2>3, <3>1, <3>2 DEF IdentityInv, LoginsOnce
  <2>12. InvitesOnce' /\ SessionsCurrent' /\ SomeAdmin' /\ TokensBounded'
    BY <1>6 DEF IdentityInv, InvitesOnce, SessionsCurrent, SomeAdmin, TokensBounded, IsAdmin
  <2> QED
    BY <2>5, <2>8, <2>9, <2>10, <2>11, <2>12 DEF IdentityInv
<1> QED
  BY <1>1, <1>4, <1>5, <1>6 DEF BeginLogin, Answers

\* Of the requests that share a login one consumes it.
LEMMA ConsumeLoginStep ==
    ASSUME IdentityInv, NEW i \in Ids, ConsumeLogin(i)
    PROVE  IdentityInv'
<1> DEFINE l == R(i).login
           s == [st[i] EXCEPT !.pc = IF logins[l].token = Nil THEN "enter" ELSE "invitation", !.token = logins[l].token]
<1>1. st[i].pc = "callback"
  BY DEF ConsumeLogin
<1>2. st[i] \in Transaction /\ st[i].answer = Nil /\ Knows(i) /\ IdentityTypes
  BY <1>1 DEF IdentityInv, IdentityTypes, RequestTypes
<1>3. Kind(i) \in {"login", "accept"} /\ l \in DOMAIN logins /\ logins[l] \in LoginRow
  BY <1>1, <1>2 DEF Knows, Reached, IdentityTypes, AccountTypes
<1>4. CASE Refuse(i, "denied")
  BY <1>4, RefusedStep DEF Answers
<1>5. ASSUME logins[l].state = "open", logins' = [logins EXCEPT ![l].state = "used"], Go(i, s, {}),
             UNCHANGED <<member, sess, inv, del>>
      PROVE  IdentityInv'
  <2>1. /\ s \in Transaction /\ s.answer = Nil /\ s.pc = (IF logins[l].token = Nil THEN "enter" ELSE "invitation")
        /\ s.token = logins[l].token
    BY <1>2, <1>3 DEF Transaction, Steps, LoginRow
  <2> HIDE DEF s
  <2>2. /\ st' = [st EXCEPT ![i] = s] /\ rowLocks \subseteq rowLocks' /\ cast' = cast /\ mailed' = mailed /\ mailer' = mailer
        /\ st \in [Ids -> Transaction]
    BY <1>2, <1>5 DEF Go, IdentityTypes, RequestTypes, posts
  <2>3. \A q \in Ids : Kind(q)' = Kind(q) /\ R(q)' = R(q)
    BY <2>2 DEF Kind, R
  <2>4. st'[i] = s /\ st' \in [Ids -> Transaction] /\ \A q \in Ids \ {i} : st'[q] = st[q]
    BY <2>1, <2>2
  <2>5. /\ DOMAIN logins' = DOMAIN logins /\ logins' \in [DOMAIN logins -> LoginRow]
        /\ \A k \in DOMAIN logins : logins'[k].token = logins[k].token /\ (k # l => logins'[k] = logins[k])
        /\ logins'[l].state = "used"
    BY <1>2, <1>3, <1>5 DEF IdentityTypes, AccountTypes, LoginRow
  <2>6. IdentityTypes'
    <3>1. AccountTypes'
      BY <1>2, <1>5, <2>2, <2>5
         DEF IdentityTypes, AccountTypes, MemberRow, SessionRecord, LoginRow, InviteRow, DeliveryRow
    <3>2. PostTypes'
      BY <1>2, <1>5, <2>2 DEF IdentityTypes, PostTypes, Posting
    <3>3. RequestTypes'
      BY <1>2, <1>5, <2>1, <2>2, <2>4 DEF IdentityTypes, RequestTypes, Transaction
    <3> QED
      BY <3>1, <3>2, <3>3 DEF IdentityTypes
  <2>7. Apart(i)
    <3>1. \A x \in DOMAIN inv : inv[x].version \in Nat /\ inv[x].token \in Nat
      BY <1>2 DEF IdentityTypes, AccountTypes, InviteRow
    <3> QED
      BY <1>5, <2>2, <2>4, <2>5, <3>1 DEF Apart, Careful
  <2>8. Knows(i)'
    <3>1. logins[l].token # Nil => Kind(i) = "accept"
      BY <1>3 DEF IdentityInv, LoginKinds
    <3> QED
      BY <1>3, <2>1, <2>3, <2>4, <3>1 DEF Knows, Reached, TenantHeld, TargetHeld, EntryHeld, WriteHeld, AcceptHeld
  <2>9. \A q \in Ids : Knows(q)'
    BY <2>7, <2>8, OthersKnow
  <2>10. Compatible'
    BY <1>5, GoCompatible DEF IdentityInv
  <2>11. LoginKinds'
    BY <2>3, <2>5 DEF IdentityInv, LoginKinds
  <2>12. LoginsOnce'
    <3>1. \A q \in Ids \ {i} : PastLogin(q)' = PastLogin(q)
      BY <2>3, <2>4 DEF PastLogin
    <3>2. /\ \A u \in DOMAIN sess : sess[u].login = l => sess[u].login = Nil
          /\ \A q \in Ids : PastLogin(q) => R(q).login # l
      BY <1>5 DEF IdentityInv, LoginsOnce
    <3>3. \A u \in DOMAIN sess : sess[u].login = Nil \/ sess[u].login \in DOMAIN logins
      BY <1>2 DEF IdentityTypes, AccountTypes, SessionRecord
    <3>4. \A u \in DOMAIN sess' : sess'[u].login # Nil => logins'[sess'[u].login].state = "used"
      BY <1>5, <2>5, <3>2, <3>3 DEF IdentityInv, LoginsOnce
    <3>5. ASSUME NEW q \in Ids, PastLogin(q)'
          PROVE  /\ R(q)'.login \in DOMAIN logins' /\ logins'[R(q)'.login].state = "used"
                 /\ \A u \in DOMAIN sess' : sess'[u].login = R(q)'.login => sess'[u].login = Nil
                 /\ \A j \in Ids : PastLogin(j)' /\ R(j)'.login = R(q)'.login => q = j
      <4>1. CASE q = i
        BY <1>3, <1>5, <2>3, <2>5, <3>1, <3>2, <4>1
      <4>2. CASE q # i
        BY <1>5, <2>3, <2>5, <3>1, <3>2, <3>5, <4>2 DEF IdentityInv, LoginsOnce
      <4> QED
        BY <4>1, <4>2
    <3> QED
      BY <1>5, <3>4, <3>5 DEF IdentityInv, LoginsOnce
  <2>13. InvitesOnce' /\ SessionsCurrent' /\ SomeAdmin' /\ TokensBounded'
    BY <1>5 DEF IdentityInv, InvitesOnce, SessionsCurrent, SomeAdmin, TokensBounded, IsAdmin
  <2> QED
    BY <2>6, <2>9, <2>10, <2>11, <2>12, <2>13 DEF IdentityInv
<1> QED
  BY <1>4, <1>5 DEF ConsumeLogin
-----------------------------------------------------------------------------
\* A transaction that has written and commits.  The sessions keep their logins,
\* and a new one has that of the request.
LEMMA Committed ==
    ASSUME IdentityInv, NEW i \in Ids, Ended(i, "ok"), Careful(i), AccountTypes', logins' = logins,
           \A u \in DOMAIN sess' :
             \/ u \in DOMAIN sess /\ sess'[u].login = sess[u].login
             \/ u = cast[i] /\ PastLogin(i) /\ sess'[u].login = R(i).login,
           InvitesOnce', SessionsCurrent', SomeAdmin', TokensBounded'
    PROVE  IdentityInv'
<1>1. /\ \A q \in Ids \ {i} : st'[q] = st[q]
      /\ \A l \in rowLocks : l.by # i => l \in rowLocks'
      /\ Compatible' /\ Knows(i)' /\ ~PastLogin(i)'
      /\ st' \in [Ids -> Transaction]
      /\ \A q \in Ids : st'[q].pc # "done" => st'[q].answer = Nil
      /\ cast' = cast /\ mailed' = mailed /\ mailer' = mailer
  BY EndLocks DEF Ended, Answers, posts
<1>2. \A q \in Ids : Kind(q)' = Kind(q) /\ R(q)' = R(q)
  BY <1>1 DEF Kind, R
<1>3. DOMAIN member \subseteq DOMAIN member' /\ DOMAIN inv \subseteq DOMAIN inv'
  BY DEF Careful
<1>4. IdentityTypes'
  <2>1. PostTypes'
    <3>1. Posting \subseteq Posting'
      BY <1>3 DEF Posting
    <3>2. mailed' \subseteq (DOMAIN inv') \X ({Nil} \cup Nat)
      BY <1>1, <1>3 DEF IdentityInv, IdentityTypes, PostTypes
    <3> QED
      BY <1>1, <3>1, <3>2 DEF IdentityInv, IdentityTypes, PostTypes
  <2>2. RequestTypes'
    <3>1. Transaction \subseteq Transaction'
      BY <1>1, <1>3 DEF Transaction
    <3> QED
      BY <1>1, <3>1 DEF IdentityInv, IdentityTypes, RequestTypes
  <2> QED
    BY <2>1, <2>2 DEF IdentityTypes
<1>5. \A q \in Ids : Knows(q)'
  <2>1. Apart(i)
    BY <1>1 DEF Apart
  <2> QED
    BY <1>1, <2>1, OthersKnow
<1>6. LoginKinds'
  BY <1>2 DEF IdentityInv, LoginKinds
<1>7. LoginsOnce'
  <2>1. \A q \in Ids : PastLogin(q)' => PastLogin(q) /\ q # i
    BY <1>1, <1>2 DEF PastLogin
  <2>2. \A u \in DOMAIN sess' : sess'[u].login # Nil => logins'[sess'[u].login].state = "used"
    BY DEF IdentityInv, LoginsOnce
  <2>3. \A u, t \in DOMAIN sess' : sess'[u].login = sess'[t].login => u = t \/ sess'[u].login = Nil
    BY DEF IdentityInv, LoginsOnce
  <2>4. ASSUME NEW q \in Ids, PastLogin(q)'
        PROVE  /\ R(q)'.login \in DOMAIN logins' /\ logins'[R(q)'.login].state = "used"
               /\ \A u \in DOMAIN sess' : sess'[u].login = R(q)'.login => sess'[u].login = Nil
               /\ \A j \in Ids : PastLogin(j)' /\ R(j)'.login = R(q)'.login => q = j
    BY <1>2, <2>1, <2>4 DEF IdentityInv, LoginsOnce
  <2> QED
    BY <2>2, <2>3, <2>4 DEF LoginsOnce
<1> QED
  BY <1>1, <1>4, <1>5, <1>6, <1>7 DEF IdentityInv

\* Sessions are revoked and nothing else happens to them.
LEMMA RevokedSessions ==
    ASSUME AccountTypes, NEW S, sess' = Revoked(S)
    PROVE  /\ sess' \in [DOMAIN sess -> SessionRecord] /\ DOMAIN sess' = DOMAIN sess
           /\ \A u \in DOMAIN sess :
                /\ sess'[u].owner = sess[u].owner /\ sess'[u].under = sess[u].under /\ sess'[u].login = sess[u].login
                /\ sess'[u].expired = sess[u].expired /\ (u \in S => sess'[u].revoked) /\ (u \notin S => sess'[u].revoked = sess[u].revoked)
<1>1. sess' = [u \in DOMAIN sess |-> IF u \in S THEN [sess[u] EXCEPT !.revoked = TRUE] ELSE sess[u]]
  BY DEF Revoked
<1>2. \A u \in DOMAIN sess : sess[u] \in SessionRecord
  BY DEF AccountTypes
<1>3. ASSUME NEW u \in DOMAIN sess
      PROVE  /\ sess'[u] \in SessionRecord
             /\ sess'[u].owner = sess[u].owner /\ sess'[u].under = sess[u].under /\ sess'[u].login = sess[u].login
             /\ sess'[u].expired = sess[u].expired /\ (u \in S => sess'[u].revoked) /\ (u \notin S => sess'[u].revoked = sess[u].revoked)
  BY <1>1, <1>2 DEF SessionRecord
<1> QED
  BY <1>1, <1>3
\* Rows stay what they are when there are more of those they refer to.
LEMMA RowsGrow ==
    ASSUME DOMAIN member \subseteq DOMAIN member', DOMAIN inv \subseteq DOMAIN inv',
           DOMAIN logins \subseteq DOMAIN logins', mailed \subseteq mailed'
    PROVE  /\ MemberRow \subseteq MemberRow' /\ SessionRecord \subseteq SessionRecord' /\ LoginRow \subseteq LoginRow'
           /\ InviteRow \subseteq InviteRow' /\ DeliveryRow \subseteq DeliveryRow'
           /\ Posting \subseteq Posting' /\ Transaction \subseteq Transaction'
<1>1. MemberRow \subseteq MemberRow'
  BY DEF MemberRow
<1>2. SessionRecord \subseteq SessionRecord'
  BY DEF SessionRecord
<1>3. LoginRow \subseteq LoginRow'
  BY DEF LoginRow
<1>4. InviteRow \subseteq InviteRow'
  BY DEF InviteRow
<1>5. DeliveryRow \subseteq DeliveryRow'
  BY DEF DeliveryRow
<1>6. Posting \subseteq Posting'
  BY DEF Posting
<1>7. Transaction \subseteq Transaction'
  BY DEF Transaction
<1> QED
  BY <1>1, <1>2, <1>3, <1>4, <1>5, <1>6, <1>7

\* What the invitations are when they stay as they are.
LEMMA InvitationsApart ==
    ASSUME AccountTypes, inv' = inv
    PROVE  \A x \in DOMAIN inv : x \in DOMAIN inv' /\ inv'[x].version \in Nat /\ inv'[x].token \in Nat /\ inv'[x] = inv[x]
BY DEF AccountTypes, InviteRow

LEMMA ChangeMemberStep ==
    ASSUME IdentityInv, NEW i \in Ids, ChangeMember(i)
    PROVE  IdentityInv'
<1> DEFINE p == R(i).who
           S == Unrevoked(p)
<1>1. /\ st[i].pc = "apply" /\ Kind(i) = "change" /\ \A s \in S : Free(SessionRow(s), "update", i)
      /\ member' = [member EXCEPT ![p] = [admin |-> R(i).admin, active |-> R(i).active,
                                          version |-> member[p].version + 1, from |-> member[p].from]]
      /\ sess' = Revoked(S) /\ Ended(i, "ok") /\ logins' = logins /\ inv' = inv /\ del' = del
  BY DEF ChangeMember
<1>2. AccountTypes /\ RequestTypes /\ Knows(i) /\ cast[i] \in DOMAIN Req
  BY DEF IdentityInv, IdentityTypes, RequestTypes
<1>3. /\ p \in DOMAIN member /\ RowHeld(i, Row(p), "update") /\ RowHeld(i, TenantLock(i), "update")
      /\ (R(i).active /\ R(i).admin) \/ \E q \in DOMAIN member : q # p /\ IsAdmin(q)
  BY <1>1, <1>2 DEF Knows, TenantHeld, TargetHeld
<1>4. /\ member' \in [DOMAIN member -> MemberRow] /\ DOMAIN member' = DOMAIN member
      /\ \A q \in DOMAIN member \ {p} : member'[q] = member[q]
      /\ member'[p].from = member[p].from /\ member'[p].admin = R(i).admin /\ member'[p].active = R(i).active
  <2>1. member[p] \in MemberRow /\ R(i).admin \in BOOLEAN /\ R(i).active \in BOOLEAN
    BY <1>2, <1>3, IdentityAssumption DEF AccountTypes, R
  <2> DEFINE m == [admin |-> R(i).admin, active |-> R(i).active,
                   version |-> member[p].version + 1, from |-> member[p].from]
  <2>2. m \in MemberRow /\ m.from = member[p].from /\ m.admin = R(i).admin /\ m.active = R(i).active
    BY <2>1 DEF MemberRow
  <2>3. member' = [member EXCEPT ![p] = m]
    BY <1>1
  <2> HIDE DEF m
  <2> QED
    BY <1>2, <1>3, <2>2, <2>3 DEF AccountTypes
<1>5. /\ sess' \in [DOMAIN sess -> SessionRecord] /\ DOMAIN sess' = DOMAIN sess
      /\ \A u \in DOMAIN sess :
           /\ sess'[u].owner = sess[u].owner /\ sess'[u].under = sess[u].under /\ sess'[u].login = sess[u].login
           /\ (u \in S => sess'[u].revoked) /\ (u \notin S => sess'[u].revoked = sess[u].revoked)
  BY <1>1, <1>2, RevokedSessions
<1>6. AccountTypes'
  <2>1. mailed' = mailed
    BY <1>1 DEF Ended, posts
  <2> QED
    BY <1>1, <1>2, <1>4, <1>5, <2>1, RowsGrow DEF AccountTypes
<1>7. Careful(i)
  <2>1. \A u \in DOMAIN FirstSessions : u \in DOMAIN sess /\ sess[u].revoked \in BOOLEAN
    BY <1>2 DEF AccountTypes, SessionRecord
  <2>2. \A u \in DOMAIN FirstSessions : sess'[u].revoked = sess[u].revoked \/ Free(SessionRow(u), "update", i)
    BY <1>1, <1>5, <2>1
  <2> QED
    BY <1>1, <1>2, <1>3, <1>4, <1>5, <2>1, <2>2, InvitationsApart DEF Careful
<1>8. InvitesOnce' /\ TokensBounded'
  BY <1>1, <1>3, <1>4 DEF IdentityInv, InvitesOnce, TokensBounded
<1>9. SessionsCurrent'
  <2> SUFFICES ASSUME NEW u \in DOMAIN sess, ~sess'[u].revoked
               PROVE  member'[sess'[u].owner].active /\ member'[sess'[u].owner].version = sess'[u].under
    BY <1>5 DEF SessionsCurrent
  <2>1. ~sess[u].revoked /\ sess[u].owner # p /\ sess[u].owner \in DOMAIN member
    BY <1>2, <1>5 DEF Unrevoked, AccountTypes, SessionRecord
  <2> QED
    BY <1>4, <1>5, <2>1 DEF IdentityInv, SessionsCurrent
<1>10. SomeAdmin'
  <2>1. CASE R(i).active /\ R(i).admin
    BY <1>3, <1>4, <2>1 DEF SomeAdmin, IsAdmin
  <2>2. ASSUME NEW q \in DOMAIN member, q # p, IsAdmin(q) PROVE SomeAdmin'
    BY <1>4, <2>2 DEF SomeAdmin, IsAdmin
  <2> QED
    BY <1>3, <2>1, <2>2
<1> QED
  BY <1>1, <1>5, <1>6, <1>7, <1>8, <1>9, <1>10, Committed

\* Sessions that nobody has locked are revoked and nothing else happens.
LEMMA RevokeStep ==
    ASSUME IdentityInv, NEW i \in Ids, Ended(i, "ok"), NEW S, sess' = Revoked(S),
           \A s \in S : Free(SessionRow(s), "update", i),
           UNCHANGED <<member, logins, inv, del>>
    PROVE  IdentityInv'
<1>1. AccountTypes /\ RequestTypes /\ member' = member /\ logins' = logins /\ inv' = inv /\ del' = del
  BY DEF IdentityInv, IdentityTypes
<1>2. /\ sess' \in [DOMAIN sess -> SessionRecord] /\ DOMAIN sess' = DOMAIN sess
      /\ \A u \in DOMAIN sess :
           /\ sess'[u].owner = sess[u].owner /\ sess'[u].under = sess[u].under /\ sess'[u].login = sess[u].login
           /\ (u \in S => sess'[u].revoked) /\ (u \notin S => sess'[u].revoked = sess[u].revoked)
  BY <1>1, RevokedSessions
<1>3. AccountTypes'
  <2>1. mailed' = mailed
    BY DEF Ended, posts
  <2> QED
    BY <1>1, <1>2, <2>1, RowsGrow DEF AccountTypes
<1>4. Careful(i)
  <2>1. \A u \in DOMAIN FirstSessions : u \in DOMAIN sess /\ sess[u].revoked \in BOOLEAN
    BY <1>1 DEF AccountTypes, SessionRecord
  <2>2. \A u \in DOMAIN FirstSessions : sess'[u].revoked = sess[u].revoked \/ Free(SessionRow(u), "update", i)
    BY <1>2, <2>1
  <2> QED
    BY <1>1, <1>2, <2>1, <2>2, InvitationsApart DEF Careful
<1>5. InvitesOnce' /\ TokensBounded' /\ SomeAdmin'
  BY <1>1 DEF IdentityInv, InvitesOnce, TokensBounded, SomeAdmin, IsAdmin
<1>6. SessionsCurrent'
  BY <1>1, <1>2 DEF IdentityInv, SessionsCurrent
<1> QED
  BY <1>1, <1>2, <1>3, <1>4, <1>5, <1>6, Committed

LEMMA RevokeSessionsStep ==
    ASSUME IdentityInv, NEW i \in Ids, RevokeSessions(i)
    PROVE  IdentityInv'
<1>1. CASE Refuse(i, "denied")
  BY <1>1, RefusedStep DEF Answers
<1> DEFINE S == IF R(i).all THEN Unrevoked(Caller(i)) ELSE Unrevoked(Caller(i)) \cap {R(i).id}
<1>2. CASE (\A s \in S : Free(SessionRow(s), "update", i)) /\ sess' = Revoked(S) /\ Ended(i, "ok")
           /\ UNCHANGED <<member, logins, inv, del>>
  <2> HIDE DEF S
  <2> QED
    BY <1>2, RevokeStep
<1> QED
  BY <1>1, <1>2 DEF RevokeSessions

LEMMA LogoutStep ==
    ASSUME IdentityInv, NEW i \in Ids, Logout(i)
    PROVE  IdentityInv'
<1> DEFINE S == {R(i).ses}
<1>1. /\ \A s \in S : Free(SessionRow(s), "update", i)
      /\ sess' = Revoked(S) /\ Ended(i, "ok") /\ UNCHANGED <<member, logins, inv, del>>
  BY DEF Logout
<1> HIDE DEF S
<1> QED
  BY <1>1, RevokeStep
LEMMA ProvisionStep ==
    ASSUME IdentityInv, NEW i \in Ids, Provision(i)
    PROVE  IdentityInv'
<1> DEFINE p == R(i).who
           m == NewMember(R(i).admin, Nil)
<1>1. ASSUME NEW answer \in Answers, Refuse(i, answer) PROVE IdentityInv'
  BY <1>1, RefusedStep
<1>2. CASE p \notin DOMAIN member /\ member' = Added(member, p, m) /\ Ended(i, "ok") /\ UNCHANGED <<sess, logins, inv, del>>
  <2>1. AccountTypes /\ RequestTypes /\ cast[i] \in DOMAIN Req /\ mailed' = mailed
    BY <1>2 DEF IdentityInv, IdentityTypes, RequestTypes, Ended, posts
  <2>2. m \in MemberRow /\ m.from = Nil
    BY <2>1, IdentityAssumption DEF NewMember, MemberRow, R
  <2> HIDE DEF m
  <2>3. /\ member' = [q \in DOMAIN member \cup {p} |-> IF q = p THEN m ELSE member[q]]
        /\ DOMAIN member' = DOMAIN member \cup {p} /\ \A q \in DOMAIN member : member'[q] = member[q]
        /\ member' \in [DOMAIN member' -> MemberRow] /\ member'[p] = m
    BY <1>2, <2>1, <2>2 DEF Added, AccountTypes
  <2>4. AccountTypes'
    BY <1>2, <2>1, <2>3, RowsGrow DEF AccountTypes
  <2>5. Careful(i)
    BY <1>2, <2>1, <2>3, InvitationsApart DEF Careful
  <2>6. InvitesOnce'
    BY <1>2, <2>2, <2>3 DEF IdentityInv, InvitesOnce
  <2>7. SessionsCurrent'
    BY <1>2, <2>1, <2>3 DEF IdentityInv, SessionsCurrent, AccountTypes, SessionRecord
  <2>8. SomeAdmin' /\ TokensBounded'
    BY <1>2, <2>3 DEF IdentityInv, SomeAdmin, IsAdmin, TokensBounded
  <2> QED
    BY <1>2, <2>4, <2>5, <2>6, <2>7, <2>8, Committed
<1> QED
  BY <1>1, <1>2 DEF Provision, Answers

\* A session is inserted under the request's own id.
LEMMA NewSessions ==
    ASSUME AccountTypes, NEW i \in Ids, RequestTypes, NEW row, sess' = Added(sess, cast[i], row)
    PROVE  /\ DOMAIN sess' = DOMAIN sess \cup {cast[i]} /\ sess'[cast[i]] = row
           /\ \A u \in DOMAIN sess \ {cast[i]} : sess'[u] = sess[u]
           /\ sess' = [u \in DOMAIN sess' |-> sess'[u]]
           /\ cast[i] \notin DOMAIN FirstSessions
<1>1. cast[i] \in DOMAIN Req
  BY DEF RequestTypes
<1>2. cast[i] \notin DOMAIN FirstSessions
  BY <1>1, IdentityAssumption
<1> QED
  BY <1>2 DEF Added

LEMMA CreateSessionStep ==
    ASSUME IdentityInv, NEW i \in Ids, CreateSession(i)
    PROVE  IdentityInv'
<1> DEFINE row == NewSession(R(i).who, st[i].seen, R(i).login)
<1>1. /\ st[i].pc = "insert" /\ sess' = Added(sess, cast[i], row) /\ Ended(i, "ok")
      /\ member' = member /\ logins' = logins /\ inv' = inv /\ del' = del
  BY DEF CreateSession
<1>2. AccountTypes /\ RequestTypes /\ Knows(i) /\ st[i] \in Transaction /\ mailed' = mailed
  BY <1>1 DEF IdentityInv, IdentityTypes, RequestTypes, Ended, posts
<1>3. /\ R(i).who \in DOMAIN member /\ member[R(i).who].active /\ member[R(i).who].version = st[i].seen
      /\ Kind(i) \in {"login", "accept"} /\ PastLogin(i)
  BY <1>1, <1>2 DEF Knows, EntryHeld, Reached, PastLogin
<1>4. R(i).login \in DOMAIN logins
  BY <1>3 DEF IdentityInv, LoginsOnce
<1>5. row \in SessionRecord /\ row.owner = R(i).who /\ row.under = st[i].seen /\ row.login = R(i).login
  BY <1>2, <1>3, <1>4 DEF NewSession, SessionRecord, Transaction
<1> HIDE DEF row
<1>6. /\ DOMAIN sess' = DOMAIN sess \cup {cast[i]} /\ sess'[cast[i]] = row
      /\ \A u \in DOMAIN sess \ {cast[i]} : sess'[u] = sess[u]
      /\ sess' = [u \in DOMAIN sess' |-> sess'[u]]
      /\ cast[i] \notin DOMAIN FirstSessions
  BY <1>1, <1>2, NewSessions
<1>7. sess' \in [DOMAIN sess' -> SessionRecord]
  <2>1. \A u \in DOMAIN sess' : sess'[u] \in SessionRecord
    BY <1>2, <1>5, <1>6 DEF AccountTypes
  <2> QED
    BY <1>6, <2>1
<1>8. AccountTypes'
  BY <1>1, <1>2, <1>6, <1>7, RowsGrow DEF AccountTypes
<1>9. Careful(i)
  BY <1>1, <1>2, <1>6, InvitationsApart DEF Careful, AccountTypes
<1>10. InvitesOnce' /\ SomeAdmin' /\ TokensBounded'
  BY <1>1 DEF IdentityInv, InvitesOnce, SomeAdmin, IsAdmin, TokensBounded
<1>11. SessionsCurrent'
  BY <1>1, <1>3, <1>5, <1>6 DEF IdentityInv, SessionsCurrent
<1> QED
  BY <1>1, <1>3, <1>5, <1>6, <1>8, <1>9, <1>10, <1>11, Committed

LEMMA CreateInvitationStep ==
    ASSUME IdentityInv, NEW i \in Ids, CreateInvitation(i)
    PROVE  IdentityInv'
<1> DEFINE x == R(i).id
           row == NewInvite(R(i).email, R(i).admin, Caller(i), member[Caller(i)].version)
<1>1. ASSUME NEW answer \in Answers, Refuse(i, answer) PROVE IdentityInv'
  BY <1>1, RefusedStep
<1>2. CASE x \notin DOMAIN inv /\ inv' = Added(inv, x, row) /\ del' = Added(del, x, NewDelivery(1)) /\ Ended(i, "ok")
           /\ UNCHANGED <<member, sess, logins>>
  <2>1. AccountTypes /\ RequestTypes /\ cast[i] \in DOMAIN Req /\ mailed' = mailed /\ Kind(i) = "invite"
    BY <1>2 DEF IdentityInv, IdentityTypes, RequestTypes, Ended, posts, CreateInvitation
  <2>2. Caller(i) \in DOMAIN member
    BY <2>1, CallerIsMember
  <2>3. member[Caller(i)].version \in Nat
    BY <2>1, <2>2 DEF AccountTypes, MemberRow
  <2>4. row \in InviteRow /\ row.token = 1 /\ row.version = 1 /\ row.status = "pending"
    <3>1. R(i).email \in Emails /\ R(i).admin \in BOOLEAN
      BY <2>1, IdentityAssumption DEF Emails, R
    <3> QED
      BY <2>2, <2>3, <3>1 DEF NewInvite, InviteRow
  <2>5. NewDelivery(1) \in DeliveryRow
    BY DEF NewDelivery, DeliveryRow
  <2> HIDE DEF row
  <2>6. /\ DOMAIN inv' = DOMAIN inv \cup {x} /\ inv'[x] = row /\ \A y \in DOMAIN inv : inv'[y] = inv[y]
        /\ inv' \in [DOMAIN inv' -> InviteRow]
    BY <1>2, <2>1, <2>4 DEF Added, AccountTypes
  <2>7. del' \in [DOMAIN inv' -> DeliveryRow]
    BY <1>2, <2>1, <2>5, <2>6 DEF Added, AccountTypes
  <2>8. AccountTypes'
    BY <1>2, <2>1, <2>6, <2>7, RowsGrow DEF AccountTypes
  <2>9. Careful(i)
    <3>1. \A y \in DOMAIN inv : inv[y].version \in Nat /\ inv[y].token \in Nat
      BY <2>1 DEF AccountTypes, InviteRow
    <3> QED
      BY <1>2, <2>1, <2>6, <3>1 DEF Careful
  <2>10. InvitesOnce'
    BY <1>2, <2>1, <2>6 DEF IdentityInv, InvitesOnce, AccountTypes, MemberRow
  <2>11. SessionsCurrent' /\ SomeAdmin'
    BY <1>2 DEF IdentityInv, SessionsCurrent, SomeAdmin, IsAdmin
  <2>12. TokensBounded'
    BY <2>4, <2>6 DEF IdentityInv, TokensBounded
  <2> QED
    BY <1>2, <2>8, <2>9, <2>10, <2>11, <2>12, Committed
<1> QED
  BY <1>1, <1>2 DEF CreateInvitation, Answers
\* A delivery that is cancelled is a delivery.
LEMMA CancelledRow ==
    ASSUME NEW d \in DeliveryRow
    PROVE  Cancelled(d) \in DeliveryRow /\ [Cancelled(d) EXCEPT !.state = "sent"] \in DeliveryRow
           /\ [Cancelled(d) EXCEPT !.state = "failed"] \in DeliveryRow
BY DEF Cancelled, DeliveryRow

LEMMA ChangeInvitationStep ==
    ASSUME IdentityInv, NEW i \in Ids, ChangeInvitation(i)
    PROVE  IdentityInv'
<1> DEFINE x == R(i).id
           v == inv[x].version
<1>1. ASSUME NEW answer \in Answers, Refuse(i, answer) PROVE IdentityInv'
  BY <1>1, RefusedStep
<1>2. ASSUME x \in DOMAIN inv, inv[x].status = "pending", Ended(i, "ok"), UNCHANGED <<member, sess, logins>>,
             NEW row \in InviteRow, inv' = [inv EXCEPT ![x] = row], NEW d \in DeliveryRow, del' = [del EXCEPT ![x] = d],
             row.email = inv[x].email, row.version = v + 1,
             \/ row.token = inv[x].token /\ row.inviter = inv[x].inviter /\ row.grant = inv[x].grant
             \/ row.token = v + 1
      PROVE  IdentityInv'
  <2>1. AccountTypes /\ RequestTypes /\ mailed' = mailed
    BY <1>2 DEF IdentityInv, IdentityTypes, Ended, posts
  <2>2. /\ DOMAIN inv' = DOMAIN inv /\ inv'[x] = row /\ \A y \in DOMAIN inv \ {x} : inv'[y] = inv[y]
        /\ inv' \in [DOMAIN inv -> InviteRow] /\ del' \in [DOMAIN inv -> DeliveryRow]
    BY <1>2, <2>1 DEF AccountTypes
  <2>3. AccountTypes'
    BY <1>2, <2>1, <2>2, RowsGrow DEF AccountTypes
  <2>4. \A y \in DOMAIN inv : inv[y].version \in Nat /\ inv[y].token \in Nat /\ inv[y].token <= inv[y].version
    BY <2>1 DEF AccountTypes, InviteRow, IdentityInv, TokensBounded
  <2>5. row.version \in Nat /\ row.token \in Nat /\ v \in Nat /\ row.token <= row.version
    BY <1>2, <2>4 DEF InviteRow
  <2> HIDE DEF v
  <2>6. v <= row.version /\ (row.token = v + 1 => row.token > v)
    BY <1>2, <2>5
  <2> USE DEF v
  <2>7. Careful(i)
    BY <1>2, <2>1, <2>2, <2>4, <2>5, <2>6 DEF Careful
  <2>8. InvitesOnce'
    <3>1. \A p \in DOMAIN member : member[p].from # Nil => member[p].from # x
      BY <1>2 DEF IdentityInv, InvitesOnce
    <3> QED
      BY <1>2, <2>1, <2>2, <3>1 DEF IdentityInv, InvitesOnce, AccountTypes, MemberRow
  <2>9. SessionsCurrent' /\ SomeAdmin'
    BY <1>2 DEF IdentityInv, SessionsCurrent, SomeAdmin, IsAdmin
  <2>10. TokensBounded'
    BY <2>2, <2>4, <2>5 DEF TokensBounded
  <2> QED
    BY <1>2, <2>3, <2>7, <2>8, <2>9, <2>10, Committed
<1>3. AccountTypes /\ RequestTypes
  BY DEF IdentityInv, IdentityTypes
<1>4. x \in DOMAIN inv => inv[x] \in InviteRow /\ del[x] \in DeliveryRow /\ v \in Nat
  BY <1>3 DEF AccountTypes, InviteRow
<1>5. CASE /\ x \in DOMAIN inv /\ inv[x].status = "pending" /\ Ended(i, "ok") /\ UNCHANGED <<member, sess, logins>>
           /\ inv' = [inv EXCEPT ![x].status = "cancelled", ![x].version = v + 1]
           /\ del' = [del EXCEPT ![x] = Cancelled(@)]
  <2> DEFINE row == [inv[x] EXCEPT !.status = "cancelled", !.version = v + 1]
  <2>1. /\ row \in InviteRow /\ row.email = inv[x].email /\ row.version = v + 1
        /\ row.token = inv[x].token /\ row.inviter = inv[x].inviter /\ row.grant = inv[x].grant
    BY <1>4, <1>5 DEF InviteRow
  <2>2. inv' = [inv EXCEPT ![x] = row] /\ del' = [del EXCEPT ![x] = Cancelled(del[x])]
    BY <1>3, <1>5 DEF AccountTypes
  <2>3. Cancelled(del[x]) \in DeliveryRow
    BY <1>4, <1>5, CancelledRow
  <2> HIDE DEF row, v
  <2> QED
    BY <1>2, <1>5, <2>1, <2>2, <2>3
<1>6. CASE /\ x \in DOMAIN inv /\ inv[x].status = "pending" /\ Ended(i, "ok") /\ UNCHANGED <<member, sess, logins>>
           /\ inv' = [inv EXCEPT ![x].token = v + 1, ![x].version = v + 1, ![x].expired = FALSE,
                                 ![x].inviter = Caller(i), ![x].grant = member[Caller(i)].version]
           /\ del' = [del EXCEPT ![x] = NewDelivery(v + 1)]
           /\ Kind(i) = "resend"
  <2> DEFINE row == [inv[x] EXCEPT !.token = v + 1, !.version = v + 1, !.expired = FALSE,
                                   !.inviter = Caller(i), !.grant = member[Caller(i)].version]
  <2>1. Caller(i) \in DOMAIN member /\ member[Caller(i)].version \in Nat
    <3>1. Caller(i) \in DOMAIN member
      BY <1>3, <1>6, CallerIsMember
    <3> QED
      BY <1>3, <3>1 DEF AccountTypes, MemberRow
  <2>2. row \in InviteRow /\ row.email = inv[x].email /\ row.version = v + 1 /\ row.token = v + 1
    BY <1>4, <1>6, <2>1 DEF InviteRow
  <2>3. inv' = [inv EXCEPT ![x] = row]
    BY <1>3, <1>6 DEF AccountTypes
  <2>4. NewDelivery(v + 1) \in DeliveryRow
    BY <1>4, <1>6 DEF NewDelivery, DeliveryRow
  <2> HIDE DEF row, v
  <2> QED
    BY <1>2, <1>6, <2>2, <2>3, <2>4
<1>7. st[i].pc = "apply" /\ Kind(i) \in {"cancel", "resend"}
  BY DEF ChangeInvitation
<1> QED
  BY <1>1, <1>5, <1>6, <1>7 DEF ChangeInvitation, Answers

LEMMA AcceptStep ==
    ASSUME IdentityInv, NEW i \in Ids, Accept(i)
    PROVE  IdentityInv'
<1> DEFINE p == R(i).who
           x == st[i].token[1]
           m == NewMember(inv[x].admin, x)
           row == NewSession(p, 1, R(i).login)
           e == [inv[x] EXCEPT !.status = "accepted", !.version = inv[x].version + 1, !.used = st[i].token[2]]
           d == [Cancelled(del[x]) EXCEPT !.state = IF del[x].state = "sent" THEN "sent" ELSE "cancelled"]
<1>1. ASSUME NEW answer \in Answers, Refuse(i, answer) PROVE IdentityInv'
  BY <1>1, RefusedStep
<1>2. CASE /\ StillUsable(i) /\ p \notin DOMAIN member
           /\ member' = Added(member, p, m)
           /\ inv' = [inv EXCEPT ![x].status = "accepted", ![x].version = inv[x].version + 1, ![x].used = st[i].token[2]]
           /\ del' = [del EXCEPT ![x] = [Cancelled(@) EXCEPT !.state = IF del[x].state = "sent" THEN "sent" ELSE "cancelled"]]
           /\ sess' = Added(sess, cast[i], row)
           /\ Ended(i, "ok") /\ logins' = logins
  <2>1. AccountTypes /\ RequestTypes /\ Knows(i) /\ mailed' = mailed /\ st[i].pc = "apply" /\ Kind(i) = "accept"
    BY <1>2 DEF IdentityInv, IdentityTypes, Ended, posts, Accept
  <2>2. /\ x \in DOMAIN inv /\ st[i].token[2] \in Nat /\ inv[x].status = "pending"
        /\ inv[x] \in InviteRow /\ del[x] \in DeliveryRow /\ PastLogin(i)
    BY <1>2, <2>1 DEF Knows, AcceptHeld, StillUsable, Usable, AccountTypes, PastLogin
  <2>3. R(i).login \in DOMAIN logins
    BY <2>2 DEF IdentityInv, LoginsOnce
  <2>4. m \in MemberRow /\ m.from = x /\ m.active /\ m.version = 1
    BY <2>2 DEF NewMember, MemberRow, InviteRow
  <2>5. /\ e \in InviteRow /\ e.status = "accepted" /\ e.email = inv[x].email /\ e.token = inv[x].token
        /\ e.inviter = inv[x].inviter /\ e.grant = inv[x].grant /\ e.version = inv[x].version + 1
    <3> DEFINE v == inv[x].version + 1
    <3>1. v \in Nat
      BY <2>2 DEF InviteRow
    <3> HIDE DEF v
    <3>2. e = [inv[x] EXCEPT !.status = "accepted", !.version = v, !.used = st[i].token[2]]
      BY DEF v
    <3>3. /\ e \in InviteRow /\ e.status = "accepted" /\ e.email = inv[x].email /\ e.token = inv[x].token
          /\ e.inviter = inv[x].inviter /\ e.grant = inv[x].grant /\ e.version = v
      BY <2>2, <3>1, <3>2 DEF InviteRow
    <3> QED
      BY <3>3 DEF v
  <2>6. inv' = [inv EXCEPT ![x] = e]
    BY <1>2, <2>1 DEF AccountTypes
  <2>7. d \in DeliveryRow /\ del' = [del EXCEPT ![x] = d]
    <3>1. ASSUME del[x].state = "sent" PROVE d \in DeliveryRow
      BY <2>2, <3>1, CancelledRow
    <3>2. ASSUME del[x].state # "sent" PROVE d \in DeliveryRow
      <4>1. d = Cancelled(del[x])
        BY <2>2, <3>2 DEF Cancelled, DeliveryRow
      <4> QED
        BY <2>2, <4>1, CancelledRow
    <3>3. d \in DeliveryRow
      BY <3>1, <3>2
    <3> QED
      BY <1>2, <2>1, <3>3 DEF AccountTypes
  <2> HIDE DEF m, e, d
  <2>7a. /\ DOMAIN member' = DOMAIN member \cup {p} /\ member'[p] = m /\ \A q \in DOMAIN member : member'[q] = member[q]
         /\ member' \in [DOMAIN member' -> MemberRow]
    BY <1>2, <2>1, <2>4 DEF Added, AccountTypes
  <2>8. row.owner = p /\ row.under = 1 /\ row.login = R(i).login /\ row \in SessionRecord'
    BY <1>2, <2>3, <2>7a DEF NewSession, SessionRecord
  <2> HIDE DEF row
  <2>9. /\ DOMAIN sess' = DOMAIN sess \cup {cast[i]} /\ sess'[cast[i]] = row
        /\ \A u \in DOMAIN sess \ {cast[i]} : sess'[u] = sess[u]
        /\ sess' = [u \in DOMAIN sess' |-> sess'[u]]
        /\ cast[i] \notin DOMAIN FirstSessions
    BY <1>2, <2>1, NewSessions
  <2>10. /\ DOMAIN inv' = DOMAIN inv /\ inv'[x] = e /\ \A y \in DOMAIN inv \ {x} : inv'[y] = inv[y]
         /\ inv' \in [DOMAIN inv -> InviteRow] /\ del' \in [DOMAIN inv -> DeliveryRow]
    BY <2>1, <2>2, <2>5, <2>6, <2>7 DEF AccountTypes
  <2>11. AccountTypes'
    <3>1. MemberRow \subseteq MemberRow' /\ SessionRecord \subseteq SessionRecord' /\ LoginRow \subseteq LoginRow'
          /\ InviteRow \subseteq InviteRow' /\ DeliveryRow \subseteq DeliveryRow'
      BY <1>2, <2>1, <2>7a, <2>10, RowsGrow
    <3>2. \A u \in DOMAIN sess' : sess'[u] \in SessionRecord'
      BY <2>1, <2>8, <2>9, <3>1 DEF AccountTypes
    <3>3. sess' \in [DOMAIN sess' -> SessionRecord']
      BY <2>9, <3>2
    <3> QED
      BY <1>2, <2>1, <2>7a, <2>9, <2>10, <3>1, <3>3 DEF AccountTypes
  <2>12. \A y \in DOMAIN inv : inv[y].version \in Nat /\ inv[y].token \in Nat /\ inv[y].token <= inv[y].version
    BY <2>1 DEF AccountTypes, InviteRow, IdentityInv, TokensBounded
  <2>13. e.version \in Nat /\ e.token \in Nat /\ inv[x].version <= e.version /\ e.token <= e.version
    BY <2>2, <2>5, <2>12
  <2>14. Careful(i)
    <3>1. \A u \in DOMAIN FirstSessions : sess'[u].owner = sess[u].owner /\ sess'[u].revoked = sess[u].revoked
      BY <2>1, <2>9 DEF AccountTypes
    <3>2. \A y \in DOMAIN inv :
            /\ y \in DOMAIN inv' /\ inv'[y].email = inv[y].email
            /\ inv'[y].version \in Nat /\ inv'[y].token \in Nat /\ inv[y].version <= inv'[y].version
            /\ inv'[y].token = inv[y].token /\ inv'[y].inviter = inv[y].inviter /\ inv'[y].grant = inv[y].grant
      BY <2>2, <2>5, <2>10, <2>12, <2>13
    <3> QED
      BY <1>2, <2>7a, <3>1, <3>2 DEF Careful
  <2>15. InvitesOnce'
    <3>1. \A q \in DOMAIN member : member[q].from # Nil => member[q].from \in DOMAIN inv /\ member[q].from # x
      BY <2>1, <2>2 DEF IdentityInv, InvitesOnce, AccountTypes, MemberRow
    <3>2. \A q \in DOMAIN member' : member'[q].from # Nil => inv'[member'[q].from].status # "pending"
      BY <2>4, <2>5, <2>7a, <2>10, <3>1 DEF IdentityInv, InvitesOnce
    <3>3. \A q, r \in DOMAIN member' : member'[q].from = member'[r].from => q = r \/ member'[q].from = Nil
      BY <2>4, <2>7a, <3>1 DEF IdentityInv, InvitesOnce
    <3> QED
      BY <3>2, <3>3 DEF InvitesOnce
  <2>16. SessionsCurrent'
    <3>1. \A u \in DOMAIN sess : ~sess[u].revoked =>
            /\ sess[u].owner \in DOMAIN member
            /\ member[sess[u].owner].active /\ member[sess[u].owner].version = sess[u].under
      BY <2>1 DEF IdentityInv, SessionsCurrent, AccountTypes, SessionRecord
    <3>2. \A u \in DOMAIN sess' : u = cast[i] \/ (u \in DOMAIN sess /\ sess'[u] = sess[u])
      BY <2>9
    <3>3. member'[row.owner].active /\ member'[row.owner].version = row.under
      BY <2>4, <2>7a, <2>8
    <3> QED
      BY <2>7a, <2>9, <3>1, <3>2, <3>3 DEF SessionsCurrent
  <2>17. SomeAdmin'
    BY <2>7a DEF IdentityInv, SomeAdmin, IsAdmin
  <2>18. TokensBounded'
    BY <2>10, <2>12, <2>13 DEF TokensBounded
  <2> QED
    BY <1>2, <2>2, <2>8, <2>9, <2>11, <2>14, <2>15, <2>16, <2>17, <2>18, Committed
<1> QED
  BY <1>1, <1>2 DEF Accept, Answers
-----------------------------------------------------------------------------
\* Nobody's request goes on: what the requests know stays.
LEMMA AllKnow ==
    ASSUME IdentityInv, UNCHANGED <<cast, st, rowLocks>>, Careful(0), mailed \subseteq mailed'
    PROVE  (\A i \in Ids : Knows(i)') /\ Compatible' /\ RequestTypes' /\ DOMAIN inv \subseteq DOMAIN inv'
           /\ \A i \in Ids : Kind(i)' = Kind(i) /\ R(i)' = R(i) /\ PastLogin(i)' = PastLogin(i)
<1>1. Apart(0)
  BY DEF Apart
<1>2. \A i \in Ids : i \in Ids \ {0}
  BY IdentityAssumption DEF Ids
<1>3. \A i \in Ids : Knows(i)'
  BY <1>1, <1>2, OthersKnow
<1>4. RequestTypes'
  <2>1. Transaction \subseteq Transaction'
    BY DEF Careful, Transaction
  <2> QED
    BY <2>1 DEF IdentityInv, IdentityTypes, RequestTypes
<1>5. Compatible'
  BY DEF IdentityInv, Compatible
<1> QED
  BY <1>3, <1>4, <1>5 DEF Careful, Kind, R, PastLogin

\* A mailer's step changes deliveries and mails alone.
LEMMA MailStep ==
    ASSUME IdentityInv, UNCHANGED <<cast, member, sess, logins, inv, st, rowLocks>>, mailed \subseteq mailed',
           del' \in [DOMAIN inv -> DeliveryRow], PostTypes'
    PROVE  IdentityInv'
<1>1. AccountTypes
  BY DEF IdentityInv, IdentityTypes
<1>2. Careful(0)
  BY <1>1, InvitationsApart DEF Careful
<1>3. /\ (\A i \in Ids : Knows(i)') /\ Compatible' /\ RequestTypes'
      /\ \A i \in Ids : Kind(i)' = Kind(i) /\ R(i)' = R(i) /\ PastLogin(i)' = PastLogin(i)
  BY <1>2, AllKnow
<1>4. AccountTypes'
  BY <1>1, RowsGrow DEF AccountTypes
<1>5. LoginKinds' /\ LoginsOnce'
  BY <1>3 DEF IdentityInv, LoginKinds, LoginsOnce
<1>6. InvitesOnce' /\ SessionsCurrent' /\ SomeAdmin' /\ TokensBounded'
  BY DEF IdentityInv, InvitesOnce, SessionsCurrent, SomeAdmin, TokensBounded, IsAdmin
<1> QED
  BY <1>3, <1>4, <1>5, <1>6 DEF IdentityInv, IdentityTypes

LEMMA ClaimStep ==
    ASSUME IdentityInv, NEW w \in Mailers, NEW x \in DOMAIN del, Claim(w, x)
    PROVE  IdentityInv'
<1>1. /\ AccountTypes /\ PostTypes /\ x \in DOMAIN inv /\ del[x] \in DeliveryRow
      /\ UNCHANGED <<cast, member, sess, logins, inv, mailed, st, rowLocks>>
  BY DEF IdentityInv, IdentityTypes, AccountTypes, Claim
<1>2. CASE /\ \E s \in {"failed", "cancelled"} : del' = [del EXCEPT ![x] = [Cancelled(del[x]) EXCEPT !.state = s]]
           /\ mailer' = mailer
  <2>1. [Cancelled(del[x]) EXCEPT !.state = "cancelled"] = Cancelled(del[x])
    BY <1>1 DEF Cancelled, DeliveryRow
  <2>2. del' \in [DOMAIN inv -> DeliveryRow]
    <3>1. PICK s \in {"failed", "cancelled"} : del' = [del EXCEPT ![x] = [Cancelled(del[x]) EXCEPT !.state = s]]
      BY <1>2
    <3>2. [Cancelled(del[x]) EXCEPT !.state = s] \in DeliveryRow
      BY <1>1, <2>1, <3>1, CancelledRow
    <3> QED
      BY <1>1, <3>1, <3>2 DEF AccountTypes
  <2>3. PostTypes'
    BY <1>1, <1>2 DEF PostTypes, Posting
  <2> QED
    BY <1>1, <2>2, <2>3, MailStep
<1> DEFINE n == del[x].attempts + 1
           lease == <<del[x].gen, n>>
           d == [del[x] EXCEPT !.state = "sending", !.attempts = n, !.lease = lease, !.leased = TRUE]
           m == [id |-> x, token |-> del[x].payload, lease |-> lease, result |-> Nil]
<1>3. CASE del' = [del EXCEPT ![x] = d] /\ mailer' = [mailer EXCEPT ![w] = m]
  <2>1. n \in Nat /\ lease \in Nat \X Nat
    BY <1>1 DEF DeliveryRow
  <2> HIDE DEF n, lease
  <2>2. d \in DeliveryRow
    BY <1>1, <2>1 DEF DeliveryRow
  <2>3. m \in Posting
    BY <1>1, <2>1 DEF DeliveryRow, Posting
  <2> HIDE DEF d, m
  <2>4. del' \in [DOMAIN inv -> DeliveryRow]
    BY <1>1, <1>3, <2>2 DEF AccountTypes
  <2>5. PostTypes'
    <3>1. Posting' = Posting
      BY <1>1 DEF Posting
    <3>2. mailer' \in [Mailers -> {Nil} \cup Posting]
      BY <1>1, <1>3, <2>3 DEF PostTypes
    <3> QED
      BY <1>1, <3>1, <3>2 DEF PostTypes
  <2> QED
    BY <1>1, <2>4, <2>5, MailStep
<1> QED
  BY <1>1, <1>2, <1>3 DEF Claim, AccountTypes

LEMMA SendStep ==
    ASSUME IdentityInv, NEW w \in Mailers, NEW result \in {"sent", "error", "lost"}, Send(w, result)
    PROVE  IdentityInv'
<1>1. /\ AccountTypes /\ PostTypes /\ mailer[w] \in Posting
      /\ UNCHANGED <<cast, member, sess, logins, inv, del, st, rowLocks>>
      /\ mailed \subseteq mailed' /\ mailed' \subseteq mailed \cup {<<mailer[w].id, mailer[w].token>>}
      /\ mailer' = [mailer EXCEPT ![w].result = result]
  BY DEF IdentityInv, IdentityTypes, PostTypes, Send, accounts
<1>2. [mailer[w] EXCEPT !.result = result] \in Posting
  BY <1>1 DEF Posting
<1>3. mailer' \in [Mailers -> {Nil} \cup Posting]
  BY <1>1, <1>2 DEF PostTypes
<1>4. <<mailer[w].id, mailer[w].token>> \in (DOMAIN inv) \X ({Nil} \cup Nat)
  BY <1>1 DEF Posting
<1>5. PostTypes'
  <2>1. Posting' = Posting
    BY <1>1 DEF Posting
  <2> QED
    BY <1>1, <1>3, <1>4, <2>1 DEF PostTypes
<1> QED
  BY <1>1, <1>5, MailStep DEF AccountTypes

LEMMA FinishStep ==
    ASSUME IdentityInv, NEW w \in Mailers, Finish(w)
    PROVE  IdentityInv'
<1> DEFINE x == mailer[w].id
<1>1. /\ AccountTypes /\ PostTypes /\ mailer[w] \in Posting
      /\ UNCHANGED <<cast, member, sess, logins, inv, mailed, st, rowLocks>>
      /\ del' = del \/ del' = [del EXCEPT ![x] = Recorded(del[x], mailer[w])]
      /\ mailer' = [mailer EXCEPT ![w] = Nil]
  BY DEF IdentityInv, IdentityTypes, PostTypes, Finish
<1>2. x \in DOMAIN inv /\ del[x] \in DeliveryRow
  BY <1>1 DEF AccountTypes, Posting
<1>3. Recorded(del[x], mailer[w]) \in DeliveryRow
  <2> DEFINE state == CASE mailer[w].result = "sent" -> "sent" [] mailer[w].lease[2] >= MailAttempts -> "failed" [] OTHER -> "queued"
             payload == IF state = "queued" THEN del[x].payload ELSE Nil
  <2>1. state \in {"sent", "failed", "queued"}
    OBVIOUS
  <2>2. payload \in {Nil} \cup Nat
    BY <1>2 DEF DeliveryRow
  <2>3. Recorded(del[x], mailer[w]) = [del[x] EXCEPT !.state = state, !.payload = payload, !.lease = Nil, !.leased = FALSE]
    BY DEF Recorded
  <2> HIDE DEF state, payload
  <2> QED
    BY <1>2, <2>1, <2>2, <2>3 DEF DeliveryRow
<1>4. del' \in [DOMAIN inv -> DeliveryRow]
  BY <1>1, <1>2, <1>3 DEF AccountTypes
<1>5. PostTypes'
  BY <1>1 DEF PostTypes, Posting
<1> QED
  BY <1>1, <1>4, <1>5, MailStep

LEMMA ExpireMailLeaseStep ==
    ASSUME IdentityInv, NEW x \in DOMAIN del, ExpireMailLease(x)
    PROVE  IdentityInv'
<1>1. /\ AccountTypes /\ PostTypes /\ del[x] \in DeliveryRow
      /\ UNCHANGED <<cast, member, sess, logins, inv, mailed, mailer, st, rowLocks>>
      /\ del' = [del EXCEPT ![x].leased = FALSE]
  BY DEF IdentityInv, IdentityTypes, ExpireMailLease, posts, AccountTypes
<1>2. [del[x] EXCEPT !.leased = FALSE] \in DeliveryRow
  BY <1>1 DEF DeliveryRow
<1>3. del' \in [DOMAIN inv -> DeliveryRow]
  BY <1>1, <1>2 DEF AccountTypes
<1>4. PostTypes'
  BY <1>1 DEF PostTypes, Posting
<1> QED
  BY <1>1, <1>3, <1>4, MailStep
LEMMA CutOffStep ==
    ASSUME IdentityInv, NEW i \in Ids, CutOff(i)
    PROVE  IdentityInv'
BY QuietEnd DEF CutOff, Answers

LEMMA CrashStep ==
    ASSUME IdentityInv, NEW w \in Mailers, Crash(w)
    PROVE  IdentityInv'
<1>1. /\ AccountTypes /\ PostTypes
      /\ UNCHANGED <<cast, member, sess, logins, inv, del, mailed, st, rowLocks>>
      /\ mailer' = [mailer EXCEPT ![w] = Nil]
  BY DEF IdentityInv, IdentityTypes, Crash, accounts
<1>2. PostTypes'
  BY <1>1 DEF PostTypes, Posting
<1> QED
  BY <1>1, <1>2, MailStep DEF AccountTypes

\* Time passes over a session or an invitation.
LEMMA ExpireSessionStep ==
    ASSUME IdentityInv, NEW s \in DOMAIN sess, ExpireSession(s)
    PROVE  IdentityInv'
<1>1. /\ AccountTypes /\ PostTypes /\ sess[s] \in SessionRecord
      /\ cast' = cast /\ member' = member /\ logins' = logins /\ inv' = inv /\ del' = del /\ mailed' = mailed
      /\ mailer' = mailer /\ st' = st /\ rowLocks' = rowLocks
      /\ sess' = [sess EXCEPT ![s].expired = TRUE]
  BY DEF IdentityInv, IdentityTypes, ExpireSession, AccountTypes, posts
<1>2. /\ sess' \in [DOMAIN sess -> SessionRecord] /\ DOMAIN sess' = DOMAIN sess
      /\ \A u \in DOMAIN sess : /\ sess'[u].owner = sess[u].owner /\ sess'[u].under = sess[u].under
                                /\ sess'[u].login = sess[u].login /\ sess'[u].revoked = sess[u].revoked
  BY <1>1 DEF AccountTypes, SessionRecord
<1>3. Careful(0)
  BY <1>1, <1>2, InvitationsApart DEF Careful, AccountTypes
<1>4. /\ (\A i \in Ids : Knows(i)') /\ Compatible' /\ RequestTypes'
      /\ \A i \in Ids : Kind(i)' = Kind(i) /\ R(i)' = R(i) /\ PastLogin(i)' = PastLogin(i)
  BY <1>1, <1>3, AllKnow
<1>5. AccountTypes' /\ PostTypes'
  BY <1>1, <1>2, RowsGrow DEF AccountTypes, PostTypes
<1>6. LoginKinds' /\ LoginsOnce'
  BY <1>1, <1>2, <1>4 DEF IdentityInv, LoginKinds, LoginsOnce
<1>7. InvitesOnce' /\ SessionsCurrent' /\ SomeAdmin' /\ TokensBounded'
  BY <1>1, <1>2 DEF IdentityInv, InvitesOnce, SessionsCurrent, SomeAdmin, TokensBounded, IsAdmin
<1> QED
  BY <1>4, <1>5, <1>6, <1>7 DEF IdentityInv, IdentityTypes

LEMMA ExpireInvitationStep ==
    ASSUME IdentityInv, NEW x \in DOMAIN del, ExpireInvitation(x)
    PROVE  IdentityInv'
<1>1. /\ AccountTypes /\ PostTypes /\ x \in DOMAIN inv /\ inv[x] \in InviteRow
      /\ cast' = cast /\ member' = member /\ logins' = logins /\ sess' = sess /\ del' = del /\ mailed' = mailed
      /\ mailer' = mailer /\ st' = st /\ rowLocks' = rowLocks
      /\ inv' = [inv EXCEPT ![x].expired = TRUE]
  BY DEF IdentityInv, IdentityTypes, ExpireInvitation, AccountTypes, posts
<1>2. /\ inv' \in [DOMAIN inv -> InviteRow] /\ DOMAIN inv' = DOMAIN inv
      /\ \A y \in DOMAIN inv : /\ inv'[y].email = inv[y].email /\ inv'[y].inviter = inv[y].inviter
                               /\ inv'[y].grant = inv[y].grant /\ inv'[y].token = inv[y].token
                               /\ inv'[y].version = inv[y].version /\ inv'[y].status = inv[y].status
  BY <1>1 DEF AccountTypes, InviteRow
<1>3. \A y \in DOMAIN inv : inv[y].version \in Nat /\ inv[y].token \in Nat
  BY <1>1 DEF AccountTypes, InviteRow
<1>4. Careful(0)
  BY <1>1, <1>2, <1>3 DEF Careful, AccountTypes
<1>5. /\ (\A i \in Ids : Knows(i)') /\ Compatible' /\ RequestTypes'
      /\ \A i \in Ids : Kind(i)' = Kind(i) /\ R(i)' = R(i) /\ PastLogin(i)' = PastLogin(i)
  BY <1>1, <1>4, AllKnow
<1>6. AccountTypes' /\ PostTypes'
  BY <1>1, <1>2, RowsGrow DEF AccountTypes, PostTypes
<1>7. LoginKinds' /\ LoginsOnce'
  BY <1>1, <1>5 DEF IdentityInv, LoginKinds, LoginsOnce
<1>8. InvitesOnce' /\ SessionsCurrent' /\ SomeAdmin' /\ TokensBounded'
  BY <1>1, <1>2 DEF IdentityInv, AccountTypes, MemberRow, InvitesOnce, SessionsCurrent, SomeAdmin, TokensBounded, IsAdmin
<1> QED
  BY <1>5, <1>6, <1>7, <1>8 DEF IdentityInv, IdentityTypes

-----------------------------------------------------------------------------
LEMMA StepInv == IdentityInv /\ [IdentityNext]_identityVars => IdentityInv'
<1> SUFFICES ASSUME IdentityInv, [IdentityNext]_identityVars PROVE IdentityInv'
  OBVIOUS
<1>1. ASSUME NEW i \in Ids, Serve(i) PROVE IdentityInv'
  <2>1. CASE ServiceWrite(i)
    BY <2>1, RefusedStep DEF ServiceWrite, Answers
  <2>2. CASE Open(i) \/ LockTenant(i) \/ LockTarget(i) \/ LockCaller(i) \/ LockSession(i) \/ CountAdmins(i)
    BY <2>2, OpenStep, LockTenantStep, LockTargetStep, LockCallerStep, LockSessionStep, CountAdminsStep
  <2>3. CASE ChangeMember(i) \/ RevokeSessions(i) \/ Logout(i) \/ Provision(i)
    BY <2>3, ChangeMemberStep, RevokeSessionsStep, LogoutStep, ProvisionStep
  <2>4. CASE BeginLogin(i) \/ ConsumeLogin(i) \/ Enter(i) \/ CreateSession(i)
    BY <2>4, BeginLoginStep, ConsumeLoginStep, EnterStep, CreateSessionStep
  <2>5. CASE CreateInvitation(i) \/ ChangeInvitation(i)
    BY <2>5, CreateInvitationStep, ChangeInvitationStep
  <2>6. CASE ReadInvitation(i) \/ LockPerson(i) \/ LockInviter(i) \/ Accept(i)
    BY <2>6, ReadInvitationStep, LockPersonStep, LockInviterStep, AcceptStep
  <2> QED
    BY <1>1, <2>1, <2>2, <2>3, <2>4, <2>5, <2>6 DEF Serve
<1>2. ASSUME NEW w \in Mailers, Deliver(w) \/ Crash(w) PROVE IdentityInv'
  BY <1>2, ClaimStep, SendStep, FinishStep, CrashStep DEF Deliver
<1>3. ASSUME NEW x \in DOMAIN del, ExpireMailLease(x) \/ ExpireInvitation(x) PROVE IdentityInv'
  BY <1>3, ExpireMailLeaseStep, ExpireInvitationStep
<1>4. CASE UNCHANGED identityVars
  <2>1. UNCHANGED <<cast, member, sess, logins, inv, mailed, mailer, del, st, rowLocks>>
    BY <1>4 DEF identityVars, accounts, posts
  <2>2. PostTypes'
    BY <2>1 DEF IdentityInv, IdentityTypes, PostTypes, Posting
  <2> QED
    BY <2>1, <2>2, MailStep DEF IdentityInv, IdentityTypes, AccountTypes
<1> QED
  BY <1>1, <1>2, <1>3, <1>4, CutOffStep, ExpireSessionStep DEF IdentityNext, Progress, Ids

LEMMA InitInv == IdentityInit => IdentityInv
<1> SUFFICES ASSUME IdentityInit PROVE IdentityInv
  OBVIOUS
<1>1. /\ member = [p \in FirstMembers |-> NewMember(TRUE, Nil)]
      /\ sess = [s \in DOMAIN FirstSessions |-> NewSession(FirstSessions[s], 1, Nil)]
      /\ logins = <<>> /\ rowLocks = {} /\ mailer = [w \in Mailers |-> Nil]
      /\ inv = [x \in {FirstInvite.id} |-> NewInvite(FirstInvite.email, FirstInvite.admin, FirstInvite.inviter, 1)]
      /\ st = [i \in Ids |-> NewRequest]
  BY DEF IdentityInit, Ids
<1>2. PICK c \in Casts : /\ cast = c.requests
                         /\ LET d == NewDelivery(1)
                            IN del = [x \in {FirstInvite.id} |->
                                 IF c.sent THEN [d EXCEPT !.state = "sent", !.payload = Nil, !.attempts = 1] ELSE d]
                         /\ mailed = IF c.sent THEN {<<FirstInvite.id, 1>>} ELSE {}
  BY DEF IdentityInit
<1>3. cast \in [Ids -> DOMAIN Req]
  BY <1>2, IdentityAssumption DEF Ids
<1>4. member \in [DOMAIN member -> MemberRow] /\ DOMAIN member = FirstMembers
  BY <1>1 DEF NewMember, MemberRow
<1>5. sess \in [DOMAIN sess -> SessionRecord] /\ DOMAIN sess = DOMAIN FirstSessions
  BY <1>1, <1>4, IdentityAssumption DEF NewSession, SessionRecord
<1>6. logins \in [DOMAIN logins -> LoginRow] /\ DOMAIN logins = {}
  BY <1>1
<1>7. inv \in [DOMAIN inv -> InviteRow] /\ DOMAIN inv = {FirstInvite.id} /\ \A x \in DOMAIN inv : inv[x].token = 1 /\ inv[x].version = 1
  BY <1>1, <1>4, IdentityAssumption DEF NewInvite, InviteRow, Emails
<1>8. del \in [DOMAIN inv -> DeliveryRow]
  BY <1>2, <1>7 DEF NewDelivery, DeliveryRow
<1>9. mailed \subseteq (DOMAIN inv) \X ({Nil} \cup Nat)
  BY <1>2, <1>7
<1>10. PostTypes
  BY <1>1, <1>9 DEF PostTypes
<1>11. NewRequest \in Transaction /\ NewRequest.pc = "new" /\ NewRequest.answer = Nil
  BY DEF NewRequest, Transaction, Steps
<1>12. RequestTypes
  BY <1>1, <1>3, <1>11 DEF RequestTypes
<1>13. Compatible
  BY <1>1 DEF Compatible
<1>14. \A i \in Ids : Knows(i) /\ ~PastLogin(i)
  BY <1>1, <1>11 DEF Knows, Reached, TenantHeld, TargetHeld, EntryHeld, WriteHeld, AcceptHeld, PastLogin
<1>15. LoginKinds
  BY <1>6 DEF LoginKinds
<1>16. \A s \in DOMAIN sess : sess[s].login = Nil /\ sess[s].under = 1 /\ sess[s].owner \in FirstMembers
  BY <1>1, IdentityAssumption DEF NewSession
<1>17. LoginsOnce
  BY <1>14, <1>16 DEF LoginsOnce
<1>18. \A p \in FirstMembers : member[p].from = Nil /\ member[p].active /\ member[p].admin /\ member[p].version = 1
  BY <1>1 DEF NewMember
<1>19. InvitesOnce /\ SessionsCurrent
  BY <1>4, <1>16, <1>18 DEF InvitesOnce, SessionsCurrent
<1>20. SomeAdmin
  BY <1>4, <1>18, IdentityAssumption DEF SomeAdmin, IsAdmin
<1>21. TokensBounded
  BY <1>7 DEF TokensBounded
<1> QED
  BY <1>4, <1>5, <1>6, <1>7, <1>8, <1>10, <1>12, <1>13, <1>14, <1>15, <1>17, <1>19, <1>20, <1>21
     DEF IdentityInv, IdentityTypes, AccountTypes
-----------------------------------------------------------------------------
\* Every reachable state is well typed: a session belongs to a member, an
\* invitation to an inviter, and a request in flight to what it has read.
THEOREM AccountsTyped == IdentitySpec => []IdentityTypes
<1>1. IdentityInv => IdentityTypes
  BY DEF IdentityInv
<1> QED
  BY <1>1, InitInv, StepInv, PTL DEF IdentitySpec

\* For any requests that meet, and however many of them: the tenant keeps an
\* administrator, a session that is not revoked was opened under the membership
\* as it is, and an invitation or a login is used once (ChangeMember,
\* CreateSessionForTenant, Accept, ConsumeLogin).
THEOREM AccessCurrent == IdentitySpec => []AccessIsCurrent
<1>1. IdentityInv => AccessIsCurrent
  BY DEF IdentityInv, SomeAdmin, SessionsCurrent, InvitesOnce, LoginsOnce, AccessIsCurrent
<1> QED
  BY <1>1, InitInv, StepInv, PTL DEF IdentitySpec

\* A step of a request is its own.
LEMMA OwnStep ==
    ASSUME NEW i, Serve(i) \/ CutOff(i)
    PROVE  \E s : st' = [st EXCEPT ![i] = s]
BY DEF Serve, Open, LockTenant, LockTarget, LockCaller, LockSession, CountAdmins, ChangeMember, RevokeSessions,
       Logout, ServiceWrite, Provision, BeginLogin, ConsumeLogin, Enter, CreateSession, CreateInvitation,
       ChangeInvitation, ReadInvitation, LockPerson, LockInviter, Accept, CutOff, Refuse, Ended, Go

\* The steps of the mailers and of time leave the requests alone.
LEMMA QuietSteps ==
    ASSUME IdentityInv, IdentityNext
    PROVE  \/ \E i \in Ids : Serve(i) \/ CutOff(i)
           \/ st' = st /\ DOMAIN member' = DOMAIN member /\ \A x \in DOMAIN inv : inv'[x].status = inv[x].status
<1>1. inv \in [DOMAIN inv -> InviteRow] /\ DOMAIN del = DOMAIN inv
  BY DEF IdentityInv, IdentityTypes, AccountTypes
<1>2. ASSUME NEW w \in Mailers, Deliver(w) \/ Crash(w) PROVE st' = st /\ member' = member /\ inv' = inv
  BY <1>2 DEF Deliver, Claim, Send, Finish, Crash, accounts
<1>3. ASSUME NEW x \in DOMAIN del, ExpireMailLease(x) PROVE st' = st /\ member' = member /\ inv' = inv
  BY <1>3 DEF ExpireMailLease
<1>4. ASSUME NEW s \in DOMAIN sess, ExpireSession(s) PROVE st' = st /\ member' = member /\ inv' = inv
  BY <1>4 DEF ExpireSession
<1>5. ASSUME NEW x \in DOMAIN del, ExpireInvitation(x)
      PROVE  st' = st /\ member' = member /\ \A y \in DOMAIN inv : inv'[y].status = inv[y].status
  BY <1>1, <1>5 DEF ExpireInvitation, InviteRow
<1> QED
  BY <1>2, <1>3, <1>4, <1>5 DEF IdentityNext, Progress, Ids

\* A write is told that it was allowed by its own commit alone.
LEMMA WriteAnswered ==
    ASSUME IdentityInv, IdentityNext, NEW i \in Ids, Kind(i) = "write", st[i].pc # "done", st'[i].answer = "ok"
    PROVE  ServiceWrite(i)
<1>1. st \in [Ids -> Transaction] /\ st[i].answer = Nil /\ Nil # "ok" /\ Knows(i)
  BY IdentityAssumption DEF IdentityInv, IdentityTypes, RequestTypes
<1>2. PICK j \in Ids : Serve(j) \/ CutOff(j)
  BY <1>1, QuietSteps
<1>3. j = i
  BY <1>1, <1>2, OwnStep
<1>4. ASSUME NEW s, s.answer = Nil, NEW xs, Go(i, s, xs) PROVE FALSE
  BY <1>1, <1>4 DEF Go
<1>5. ASSUME NEW answer \in {"denied", "conflict"}, Refuse(i, answer) PROVE FALSE
  BY <1>1, <1>5 DEF Refuse, Ended, NewRequest
<1>6. ~CutOff(i)
  BY <1>1 DEF CutOff, NewRequest
<1>7. ~Open(i)
  <2> DEFINE s == [st[i] EXCEPT !.pc = IF Kind(i) \in {"revoke", "write"} THEN "caller" ELSE "tenant", !.seen = Seen(i)]
  <2>1. s.answer = Nil
    BY <1>1 DEF Transaction
  <2> HIDE DEF s
  <2>2. Open(i) => Refuse(i, "denied") \/ Go(i, s, {})
    BY DEF Open, s
  <2> QED
    BY <1>4, <1>5, <2>1, <2>2
<1>8. ~LockCaller(i)
  <2> DEFINE s == [st[i] EXCEPT !.pc = "session"]
  <2>1. s.answer = Nil
    BY <1>1 DEF Transaction
  <2> HIDE DEF s
  <2>2. LockCaller(i) => Refuse(i, "denied") \/ \E xs : Go(i, s, xs)
    BY DEF LockCaller, s
  <2> QED
    BY <1>4, <1>5, <2>1, <2>2
<1>9. ~LockSession(i)
  <2> DEFINE s == [st[i] EXCEPT !.pc = IF Kind(i) = "change" THEN "count" ELSE "apply"]
  <2>1. s.answer = Nil
    BY <1>1 DEF Transaction
  <2> HIDE DEF s
  <2>2. LockSession(i) => Refuse(i, "denied") \/ \E xs : Go(i, s, xs)
    BY DEF LockSession, s
  <2> QED
    BY <1>4, <1>5, <2>1, <2>2
<1>10. /\ ~LockTenant(i) /\ ~LockTarget(i) /\ ~CountAdmins(i) /\ ~ConsumeLogin(i) /\ ~Enter(i) /\ ~CreateSession(i)
       /\ ~ReadInvitation(i) /\ ~LockPerson(i) /\ ~LockInviter(i)
  BY <1>1 DEF Knows, Reached, LockTenant, LockTarget, CountAdmins, ConsumeLogin, Enter, CreateSession,
              ReadInvitation, LockPerson, LockInviter
<1>11. /\ ~ChangeMember(i) /\ ~RevokeSessions(i) /\ ~Logout(i) /\ ~Provision(i) /\ ~BeginLogin(i)
       /\ ~CreateInvitation(i) /\ ~ChangeInvitation(i) /\ ~Accept(i)
  BY DEF ChangeMember, RevokeSessions, Logout, Provision, BeginLogin, CreateInvitation, ChangeInvitation, Accept
<1> QED
  BY <1>2, <1>3, <1>6, <1>7, <1>8, <1>9, <1>10, <1>11 DEF Serve
\* Members come from the operator's command, or from an invitation with its grant.
LEMMA MembersCome ==
    ASSUME IdentityInv, IdentityNext, NEW p \in DOMAIN member' \ DOMAIN member, member'[p].from # Nil
    PROVE  LET x == inv[member'[p].from]
           IN /\ x.status = "pending" /\ ~x.expired
              /\ inv'[member'[p].from].used = x.token
              /\ x.email = EmailOf[p] /\ x.admin = member'[p].admin
              /\ IsAdmin(x.inviter) /\ member[x.inviter].version = x.grant
<1>1. AccountTypes /\ RequestTypes /\ \A i \in Ids : Knows(i)
  BY DEF IdentityInv, IdentityTypes
<1>2. PICK i \in Ids : Serve(i) \/ CutOff(i)
  BY QuietSteps
<1>3. member' # member
  OBVIOUS
<1>4. ~ChangeMember(i)
  BY <1>1 DEF ChangeMember, AccountTypes
<1>5. ~Provision(i)
  <2> SUFFICES ASSUME Provision(i) PROVE FALSE
    OBVIOUS
  <2>1. member' = Added(member, R(i).who, NewMember(R(i).admin, Nil))
    BY <1>3 DEF Provision, Refuse, accounts
  <2>2. member'[p] = NewMember(R(i).admin, Nil)
    BY <2>1 DEF Added
  <2> QED
    BY <2>2 DEF NewMember
<1>6. Accept(i)
  BY <1>2, <1>3, <1>4, <1>5
     DEF Serve, Open, LockTenant, LockTarget, LockCaller, LockSession, CountAdmins, RevokeSessions, Logout,
         ServiceWrite, BeginLogin, ConsumeLogin, Enter, CreateSession, CreateInvitation, ChangeInvitation,
         ReadInvitation, LockPerson, LockInviter, CutOff, Refuse, accounts
<1> DEFINE x == st[i].token[1]
           m == NewMember(inv[x].admin, x)
<1>7. /\ StillUsable(i) /\ member' = Added(member, R(i).who, m)
      /\ inv' = [inv EXCEPT ![x].status = "accepted", ![x].version = inv[x].version + 1, ![x].used = st[i].token[2]]
  BY <1>3, <1>6 DEF Accept, Refuse, accounts
<1>8. p = R(i).who /\ member'[p] = m /\ m.from = x /\ m.admin = inv[x].admin
  BY <1>7 DEF Added, NewMember
<1>9. /\ x \in DOMAIN inv /\ inv[x].email = EmailOf[R(i).who]
      /\ inv[x].token = st[i].token[2] => inv[x].inviter = st[i].inviter /\ inv[x].grant = st[i].seen
      /\ IsAdmin(st[i].inviter) /\ member[st[i].inviter].version = st[i].seen
  BY <1>1, <1>6 DEF Accept, Knows, AcceptHeld
<1>10. inv[x].token = st[i].token[2] /\ inv[x].status = "pending" /\ ~inv[x].expired
  BY <1>7 DEF StillUsable, Usable
<1>11. inv'[x].used = st[i].token[2]
  BY <1>1, <1>7, <1>9 DEF AccountTypes, InviteRow
<1> QED
  BY <1>8, <1>9, <1>10, <1>11

\* What was accepted or cancelled stays so.
LEMMA StatusStays ==
    ASSUME IdentityInv, IdentityNext, NEW x \in DOMAIN inv, inv[x].status # "pending"
    PROVE  inv'[x].status = inv[x].status
<1>1. AccountTypes
  BY DEF IdentityInv, IdentityTypes
<1>2. CASE inv' = inv
  BY <1>2
<1>3. CASE st' = st /\ DOMAIN member' = DOMAIN member /\ \A y \in DOMAIN inv : inv'[y].status = inv[y].status
  BY <1>3
<1>4. ASSUME NEW i \in Ids, Serve(i) \/ CutOff(i), inv' # inv PROVE inv'[x].status = inv[x].status
  <2>1. CreateInvitation(i) \/ ChangeInvitation(i) \/ Accept(i)
    BY <1>4
       DEF Serve, Open, LockTenant, LockTarget, LockCaller, LockSession, CountAdmins, ChangeMember, RevokeSessions,
           Logout, ServiceWrite, Provision, BeginLogin, ConsumeLogin, Enter, CreateSession,
           ReadInvitation, LockPerson, LockInviter, CutOff, Refuse, accounts
  <2>2. ASSUME CreateInvitation(i) PROVE inv'[x].status = inv[x].status
    BY <1>4, <2>2 DEF CreateInvitation, Added, Refuse, accounts
  <2>3. ASSUME ChangeInvitation(i) PROVE inv'[x].status = inv[x].status
    <3>1. inv[R(i).id].status = "pending"
      BY <1>4, <2>3 DEF ChangeInvitation, Refuse, accounts
    <3> QED
      BY <1>1, <1>4, <2>3, <3>1 DEF ChangeInvitation, AccountTypes, Refuse, accounts
  <2>4. ASSUME Accept(i) PROVE inv'[x].status = inv[x].status
    <3>1. inv[st[i].token[1]].status = "pending"
      BY <1>4, <2>4 DEF Accept, StillUsable, Usable, Refuse, accounts
    <3> QED
      BY <1>1, <1>4, <2>4, <3>1 DEF Accept, AccountTypes, Refuse, accounts
  <2> QED
    BY <2>1, <2>2, <2>3, <2>4
<1> QED
  BY <1>2, <1>3, <1>4, QuietSteps

\* For any requests that meet: a write that was checked commits under the session
\* and the membership it was checked with (authorize_case_v1), a member comes from
\* an invitation only as it stands, for its address and with its role, while its
\* inviter's grant does, and what became of an invitation is final (Accept).
THEOREM GrantsCurrent == IdentitySpec => GrantsAreCurrent
<1> DEFINE Writes == \A i \in 1..CastSize :
                       Kind(i) = "write" /\ st[i].pc # "done" /\ st'[i].answer = "ok" =>
                         /\ ~sess[R(i).ses].revoked
                         /\ member[Caller(i)].active /\ member[Caller(i)].version = st[i].seen
           Members == \A p \in DOMAIN member' \ DOMAIN member : member'[p].from # Nil =>
                        LET x == inv[member'[p].from]
                        IN /\ x.status = "pending" /\ ~x.expired
                           /\ inv'[member'[p].from].used = x.token
                           /\ x.email = EmailOf[p] /\ x.admin = member'[p].admin
                           /\ IsAdmin(x.inviter) /\ member[x.inviter].version = x.grant
           Ends == \A x \in DOMAIN inv : inv[x].status # "pending" => inv'[x].status = inv[x].status
<1>1. ASSUME IdentityInv, IdentityNext PROVE Writes /\ Members /\ Ends
  <2>1. ASSUME NEW i \in Ids, Kind(i) = "write", st[i].pc # "done", st'[i].answer = "ok"
        PROVE  ~sess[R(i).ses].revoked /\ member[Caller(i)].active /\ member[Caller(i)].version = st[i].seen
    <3>1. st[i].pc = "apply" /\ Knows(i)
      BY <1>1, <2>1, WriteAnswered DEF ServiceWrite, IdentityInv
    <3> QED
      BY <2>1, <3>1 DEF Knows, WriteHeld
  <2>2. Members
    BY <1>1, MembersCome
  <2>3. Ends
    BY <1>1, StatusStays
  <2> QED
    BY <2>1, <2>2, <2>3 DEF Ids
<1>2. IdentityInv /\ [IdentityNext]_identityVars => [Writes /\ Members /\ Ends]_identityVars
  BY <1>1
<1>3. IdentitySpec => [][Writes /\ Members /\ Ends]_identityVars
  BY <1>2, InitInv, StepInv, PTL DEF IdentitySpec
<1> QED
  BY <1>3, PTL DEF GrantsAreCurrent

-----------------------------------------------------------------------------
\* What is told of delivery d of invitation v, and what the lease of a claim is.
DeliveryTold(x, d, v, mails) ==
    /\ d.state = "sent" => <<x, d.gen>> \in mails
    /\ d.state = "failed" => d.attempts = MailAttempts
    /\ d.payload # Nil <=> d.state \in {"queued", "sending"}
    /\ v.status = "pending" => d.gen = v.token
    /\ d.payload # Nil => d.payload = d.gen
    /\ d.attempts <= MailAttempts
    /\ d.lease # Nil => d.state = "sending" /\ d.lease = <<d.gen, d.attempts>>

\* What a mailer has at hand.
MailerKnows(m, mails) ==
    m # Nil => /\ m.token = m.lease[1]
               /\ m.result # Nil /\ m.result = "sent" => <<m.id, m.token>> \in mails

MailInv ==
    /\ \A x \in DOMAIN inv : DeliveryTold(x, del[x], inv[x], mailed)
    /\ \A w \in Mailers : MailerKnows(mailer[w], mailed)

\* A step that changes one delivery.
LEMMA OneDelivery ==
    ASSUME IdentityTypes, MailInv, NEW x \in DOMAIN inv, NEW d, NEW v, del' = [del EXCEPT ![x] = d], inv' = [inv EXCEPT ![x] = v],
           mailed' = mailed, DeliveryTold(x, d, v, mailed), \A w \in Mailers : MailerKnows(mailer'[w], mailed)
    PROVE  MailInv'
<1>1. DOMAIN inv' = DOMAIN inv /\ del'[x] = d /\ inv'[x] = v
      /\ \A y \in DOMAIN inv : y # x => del'[y] = del[y] /\ inv'[y] = inv[y]
  BY DEF IdentityTypes, AccountTypes
<1>2. ASSUME NEW y \in DOMAIN inv' PROVE DeliveryTold(y, del'[y], inv'[y], mailed')
  <2>1. CASE y = x
    BY <1>1, <2>1
  <2>2. CASE y # x
    BY <1>1, <2>2 DEF MailInv
  <2> QED
    BY <2>1, <2>2
<1>3. \A w \in Mailers : MailerKnows(mailer'[w], mailed')
  OBVIOUS
<1> QED
  BY <1>2, <1>3 DEF MailInv, DeliveryTold, MailerKnows

LEMMA MailUntouched == ASSUME MailInv, UNCHANGED <<inv, del, posts>> PROVE MailInv'
BY DEF MailInv, DeliveryTold, MailerKnows, posts

LEMMA NewDeliveryTold ==
    ASSUME NEW g \in Nat, NEW x, NEW v, v.token = g
    PROVE  DeliveryTold(x, NewDelivery(g), v, mailed)
<1>1. /\ NewDelivery(g).state = "queued" /\ NewDelivery(g).gen = g /\ NewDelivery(g).payload = g
      /\ NewDelivery(g).attempts = 0 /\ NewDelivery(g).lease = Nil
  BY DEF NewDelivery
<1>2. g # Nil /\ 0 <= MailAttempts
  BY IdentityAssumption
<1> QED
  BY <1>1, <1>2 DEF DeliveryTold

LEMMA CreatedMail == ASSUME IdentityTypes, MailInv, NEW i \in Ids, CreateInvitation(i) PROVE MailInv'
<1> DEFINE x == R(i).id
           row == NewInvite(R(i).email, R(i).admin, Caller(i), member[Caller(i)].version)
<1>1. CASE UNCHANGED <<inv, del>>
  BY <1>1, MailUntouched DEF CreateInvitation, Refuse, Ended, posts
<1>2. CASE x \notin DOMAIN inv /\ inv' = Added(inv, x, row) /\ del' = Added(del, x, NewDelivery(1)) /\ UNCHANGED posts
  <2>1. row.token = 1
    BY DEF NewInvite
  <2> HIDE DEF row
  <2>2. DOMAIN inv' = DOMAIN inv \cup {x} /\ inv'[x] = row /\ del'[x] = NewDelivery(1)
        /\ \A y \in DOMAIN inv : del'[y] = del[y] /\ inv'[y] = inv[y]
    BY <1>2 DEF Added, IdentityTypes, AccountTypes
  <2>3. DeliveryTold(x, NewDelivery(1), row, mailed)
    BY <2>1, NewDeliveryTold
  <2>4. mailed' = mailed /\ mailer' = mailer
    BY <1>2 DEF posts
  <2>5. ASSUME NEW y \in DOMAIN inv' PROVE DeliveryTold(y, del'[y], inv'[y], mailed')
    BY <1>2, <2>2, <2>3, <2>4 DEF MailInv
  <2>6. \A w \in Mailers : MailerKnows(mailer'[w], mailed')
    BY <2>4 DEF MailInv
  <2> QED
    BY <2>5, <2>6 DEF MailInv, DeliveryTold, MailerKnows
<1> QED
  BY <1>1, <1>2 DEF CreateInvitation, Refuse, Ended, accounts

LEMMA CancelledTold ==
    ASSUME NEW x, NEW d \in DeliveryRow, NEW v, NEW t, NEW state \in {"cancelled", "sent", "failed"}, DeliveryTold(x, d, v, mailed),
           t.status = "pending" => v.status = "pending" /\ t.token = v.token,
           state = "sent" => d.state = "sent", state = "failed" => d.attempts = MailAttempts
    PROVE  DeliveryTold(x, [Cancelled(d) EXCEPT !.state = state], t, mailed)
<1> DEFINE c == [Cancelled(d) EXCEPT !.state = state]
<1>1. c.state = state /\ c.gen = d.gen /\ c.payload = Nil /\ c.attempts = d.attempts /\ c.lease = Nil
  BY DEF Cancelled, DeliveryRow
<1> HIDE DEF c
<1>2. DeliveryTold(x, c, t, mailed)
  BY <1>1 DEF DeliveryTold
<1> QED
  BY <1>2 DEF c

LEMMA ChangedMail == ASSUME IdentityTypes, MailInv, NEW i \in Ids, ChangeInvitation(i) PROVE MailInv'
<1> DEFINE x == R(i).id
           v == inv[x].version
<1>1. CASE UNCHANGED <<inv, del>>
  BY <1>1, MailUntouched DEF ChangeInvitation, Refuse, Ended, posts
<1>2. x \in DOMAIN inv => inv[x] \in InviteRow /\ del[x] \in DeliveryRow /\ v \in Nat
  BY DEF IdentityTypes, AccountTypes, InviteRow
<1>3. inv \in [DOMAIN inv -> InviteRow] /\ del \in [DOMAIN inv -> DeliveryRow]
  BY DEF IdentityTypes, AccountTypes
<1>4. CASE /\ x \in DOMAIN inv /\ UNCHANGED posts
           /\ inv' = [inv EXCEPT ![x].status = "cancelled", ![x].version = v + 1]
           /\ del' = [del EXCEPT ![x] = Cancelled(@)]
  <2> DEFINE row == [inv[x] EXCEPT !.status = "cancelled", !.version = v + 1]
  <2>1. row.status = "cancelled"
    BY <1>2, <1>4 DEF InviteRow
  <2>2. Cancelled(del[x]) = [Cancelled(del[x]) EXCEPT !.state = "cancelled"]
    BY DEF Cancelled
  <2>3. inv' = [inv EXCEPT ![x] = row] /\ del' = [del EXCEPT ![x] = [Cancelled(del[x]) EXCEPT !.state = "cancelled"]]
    BY <1>3, <1>4, <2>2
  <2> HIDE DEF row, v
  <2>4. DeliveryTold(x, [Cancelled(del[x]) EXCEPT !.state = "cancelled"], row, mailed)
    <3>1. DeliveryTold(x, del[x], inv[x], mailed) /\ del[x] \in DeliveryRow
      BY <1>2, <1>4 DEF MailInv
    <3> QED
      BY <2>1, <3>1, CancelledTold
  <2>5. mailed' = mailed /\ \A w \in Mailers : MailerKnows(mailer'[w], mailed)
    BY <1>4 DEF posts, MailInv
  <2> QED
    BY <1>4, <2>3, <2>4, <2>5, OneDelivery
<1>5. CASE /\ x \in DOMAIN inv /\ UNCHANGED posts
           /\ inv' = [inv EXCEPT ![x].token = v + 1, ![x].version = v + 1, ![x].expired = FALSE,
                                 ![x].inviter = Caller(i), ![x].grant = member[Caller(i)].version]
           /\ del' = [del EXCEPT ![x] = NewDelivery(v + 1)]
  <2> DEFINE row == [inv[x] EXCEPT !.token = v + 1, !.version = v + 1, !.expired = FALSE,
                                   !.inviter = Caller(i), !.grant = member[Caller(i)].version]
  <2>1. row.token = v + 1
    BY <1>2, <1>5 DEF InviteRow
  <2>2. inv' = [inv EXCEPT ![x] = row]
    BY <1>3, <1>5
  <2> HIDE DEF row
  <2>3. v + 1 \in Nat
    BY <1>2, <1>5
  <2>4. DeliveryTold(x, NewDelivery(v + 1), row, mailed)
    BY <2>1, <2>3, NewDeliveryTold
  <2>5. mailed' = mailed /\ \A w \in Mailers : MailerKnows(mailer'[w], mailed)
    BY <1>5 DEF posts, MailInv
  <2> HIDE DEF v
  <2> QED
    BY <1>5, <2>2, <2>4, <2>5, OneDelivery
<1> QED
  BY <1>1, <1>4, <1>5 DEF ChangeInvitation, Refuse, Ended, accounts

LEMMA AcceptedMail == ASSUME IdentityTypes, MailInv, NEW i \in Ids, Accept(i), AcceptHeld(i) PROVE MailInv'
<1> DEFINE x == st[i].token[1]
           state == IF del[x].state = "sent" THEN "sent" ELSE "cancelled"
           row == [inv[x] EXCEPT !.status = "accepted", !.version = inv[x].version + 1, !.used = st[i].token[2]]
<1>1. CASE UNCHANGED <<inv, del>>
  BY <1>1, MailUntouched DEF Accept, Refuse, Ended, posts
<1>2. CASE /\ inv' = [inv EXCEPT ![x].status = "accepted", ![x].version = inv[x].version + 1, ![x].used = st[i].token[2]]
           /\ del' = [del EXCEPT ![x] = [Cancelled(@) EXCEPT !.state = state]] /\ UNCHANGED posts
  <2>1. x \in DOMAIN inv
    BY DEF Accept, AcceptHeld
  <2>2. inv \in [DOMAIN inv -> InviteRow] /\ del[x] \in DeliveryRow /\ inv[x] \in InviteRow
    BY <2>1 DEF IdentityTypes, AccountTypes
  <2>3. inv' = [inv EXCEPT ![x] = row] /\ row.status = "accepted"
    BY <1>2, <2>1, <2>2 DEF InviteRow
  <2>4. del' = [del EXCEPT ![x] = [Cancelled(del[x]) EXCEPT !.state = state]]
    BY <1>2, <2>1 DEF IdentityTypes, AccountTypes
  <2>5. DeliveryTold(x, del[x], inv[x], mailed) /\ state \in {"cancelled", "sent", "failed"}
        /\ (state = "sent" => del[x].state = "sent") /\ state # "failed"
    BY <2>1 DEF MailInv
  <2> HIDE DEF row, state
  <2>6. DeliveryTold(x, [Cancelled(del[x]) EXCEPT !.state = state], row, mailed)
    BY <2>2, <2>3, <2>5, CancelledTold
  <2>7. mailed' = mailed /\ \A w \in Mailers : MailerKnows(mailer'[w], mailed)
    BY <1>2 DEF posts, MailInv
  <2> QED
    BY <2>1, <2>3, <2>4, <2>6, <2>7, OneDelivery
<1> QED
  BY <1>1, <1>2 DEF Accept, Refuse, Ended, accounts

LEMMA ClaimedMail == ASSUME IdentityTypes, MailInv, NEW w \in Mailers, NEW x \in DOMAIN del, Claim(w, x) PROVE MailInv'
<1>1. /\ x \in DOMAIN inv /\ del[x] \in DeliveryRow /\ inv' = [inv EXCEPT ![x] = inv[x]] /\ mailed' = mailed
      /\ mailer \in [Mailers -> {Nil} \cup Posting] /\ DeliveryTold(x, del[x], inv[x], mailed)
  BY DEF IdentityTypes, AccountTypes, PostTypes, Claim, MailInv
<1> DEFINE valid == inv[x].status = "pending" /\ ~inv[x].expired /\ inv[x].version = del[x].gen
           state == IF valid THEN "failed" ELSE "cancelled"
<1>0. MailAttempts \in Nat /\ del[x].attempts \in Nat /\ del[x].gen \in Nat /\ del[x].payload \in {Nil} \cup Nat
  BY <1>1, IdentityAssumption DEF DeliveryRow
<1>2. CASE ~valid \/ del[x].attempts >= MailAttempts
  <2>1. del' = [del EXCEPT ![x] = [Cancelled(del[x]) EXCEPT !.state = state]] /\ mailer' = mailer
    BY <1>2 DEF Claim
  <2>2. state \in {"cancelled", "sent", "failed"} /\ state # "sent" /\ (state = "failed" => del[x].attempts = MailAttempts)
    BY <1>0, <1>1, <1>2 DEF DeliveryTold
  <2> HIDE DEF state
  <2>3. DeliveryTold(x, [Cancelled(del[x]) EXCEPT !.state = state], inv[x], mailed)
    BY <1>1, <2>2, CancelledTold
  <2>4. \A v \in Mailers : MailerKnows(mailer'[v], mailed)
    BY <2>1 DEF MailInv
  <2> QED
    BY <1>1, <2>1, <2>3, <2>4, OneDelivery
<1>3. CASE ~(~valid \/ del[x].attempts >= MailAttempts)
  <2> DEFINE n == del[x].attempts + 1
             lease == <<del[x].gen, n>>
             d == [del[x] EXCEPT !.state = "sending", !.attempts = n, !.lease = lease, !.leased = TRUE]
             m == [id |-> x, token |-> del[x].payload, lease |-> lease, result |-> Nil]
  <2>1. del' = [del EXCEPT ![x] = d] /\ mailer' = [mailer EXCEPT ![w] = m]
    BY <1>1, <1>3 DEF Claim, IdentityTypes, AccountTypes
  <2>2. n \in Nat /\ n <= MailAttempts
    BY <1>0, <1>3
  <2>3. del[x].payload = del[x].gen
    BY DEF Claim, Due, MailInv, DeliveryTold, IdentityTypes, AccountTypes
  <2> HIDE DEF n
  <2>4. d.state = "sending" /\ d.attempts = n /\ d.lease = lease /\ d.gen = del[x].gen /\ d.payload = del[x].payload
    BY <1>1 DEF DeliveryRow
  <2>5. m.token = del[x].gen /\ m.lease = <<del[x].gen, n>> /\ m.result = Nil /\ m.lease[1] = del[x].gen
    BY <2>3
  <2> HIDE DEF d, m
  <2>6. DeliveryTold(x, d, inv[x], mailed)
    <3>1. del[x].gen # Nil
      BY <1>0, IdentityAssumption
    <3> QED
      BY <1>1, <2>2, <2>3, <2>4, <3>1 DEF DeliveryTold
  <2>7. ASSUME NEW v \in Mailers PROVE MailerKnows(mailer'[v], mailed)
    <3>1. CASE v = w
      BY <1>1, <2>1, <2>5, <3>1 DEF MailerKnows
    <3>2. CASE v # w
      BY <1>1, <2>1, <3>2 DEF MailInv
    <3> QED
      BY <3>1, <3>2
  <2> QED
    BY <1>1, <2>1, <2>6, <2>7, OneDelivery
<1> QED
  BY <1>2, <1>3

LEMMA SentMail ==
    ASSUME IdentityTypes, MailInv, NEW w \in Mailers, NEW result \in {"sent", "error", "lost"}, Send(w, result)
    PROVE  MailInv'
<1>1. /\ mailer[w] \in Posting /\ mailer' = [mailer EXCEPT ![w].result = result] /\ UNCHANGED <<inv, del>>
      /\ mailed' = IF result = "error" THEN mailed ELSE mailed \cup {<<mailer[w].id, mailer[w].token>>}
      /\ mailer \in [Mailers -> {Nil} \cup Posting] /\ mailer[w] # Nil /\ mailed \subseteq mailed'
  BY DEF Send, IdentityTypes, PostTypes, accounts
<1>2. ASSUME NEW v \in Mailers PROVE MailerKnows(mailer'[v], mailed')
  <2>1. CASE v # w
    BY <1>1, <2>1 DEF MailInv, MailerKnows
  <2>2. CASE v = w
    <3> DEFINE m == [mailer[w] EXCEPT !.result = result]
    <3>1. m.token = mailer[w].token /\ m.lease = mailer[w].lease /\ m.id = mailer[w].id /\ m.result = result
      BY <1>1 DEF Posting
    <3>2. mailer'[v] = m
      BY <1>1, <2>2
    <3> HIDE DEF m
    <3>3. mailer[w].token = mailer[w].lease[1]
      BY <1>1 DEF MailInv, MailerKnows
    <3> QED
      BY <1>1, <3>1, <3>2, <3>3 DEF MailerKnows
  <2> QED
    BY <2>1, <2>2
<1>3. \A x \in DOMAIN inv' : DeliveryTold(x, del'[x], inv'[x], mailed')
  BY <1>1 DEF MailInv, DeliveryTold
<1> QED
  BY <1>2, <1>3 DEF MailInv, DeliveryTold, MailerKnows

LEMMA FinishedMail == ASSUME IdentityTypes, MailInv, NEW w \in Mailers, Finish(w) PROVE MailInv'
<1> DEFINE x == mailer[w].id
           d == del[x]
           m == mailer[w]
<1>1. /\ m \in Posting /\ m # Nil /\ m.result # Nil /\ mailed' = mailed /\ inv' = inv
      /\ mailer' = [mailer EXCEPT ![w] = Nil] /\ mailer \in [Mailers -> {Nil} \cup Posting]
  BY DEF Finish, IdentityTypes, PostTypes
<1>2. x \in DOMAIN inv /\ d \in DeliveryRow /\ DeliveryTold(x, d, inv[x], mailed) /\ MailerKnows(m, mailed)
  BY <1>1 DEF Posting, IdentityTypes, AccountTypes, MailInv
<1>3. \A v \in Mailers : MailerKnows(mailer'[v], mailed)
  BY <1>1 DEF MailInv, MailerKnows
<1>4. inv' = [inv EXCEPT ![x] = inv[x]]
  BY <1>1, <1>2 DEF IdentityTypes, AccountTypes
<1>5. CASE del[x].lease # m.lease
  <2>1. del' = [del EXCEPT ![x] = d]
    BY <1>2, <1>5 DEF Finish, IdentityTypes, AccountTypes
  <2> QED
    BY <1>1, <1>2, <1>3, <1>4, <2>1, OneDelivery
<1>6. CASE del[x].lease = m.lease
  <2> DEFINE state == CASE m.result = "sent" -> "sent" [] m.lease[2] >= MailAttempts -> "failed" [] OTHER -> "queued"
             payload == IF state = "queued" THEN d.payload ELSE Nil
  <2>1. Recorded(d, m) = [d EXCEPT !.state = state, !.payload = payload, !.lease = Nil, !.leased = FALSE]
    BY DEF Recorded
  <2>2. del' = [del EXCEPT ![x] = Recorded(d, m)]
    BY <1>2, <1>6 DEF Finish, IdentityTypes, AccountTypes
  <2>3. m.lease \in Nat \X Nat /\ d.lease # Nil
    BY <1>1, <1>6, IdentityAssumption DEF Posting
  <2>4. d.state = "sending" /\ m.lease = <<d.gen, d.attempts>> /\ d.payload # Nil /\ d.payload = d.gen
        /\ m.lease[1] = d.gen /\ m.lease[2] = d.attempts
    BY <1>2, <1>6, <2>3 DEF DeliveryTold
  <2>5. state = "sent" => <<x, d.gen>> \in mailed
    BY <1>1, <1>2, <2>4 DEF MailerKnows
  <2>6. state = "failed" => d.attempts = MailAttempts
    <3>1. d.attempts \in Nat /\ MailAttempts \in Nat /\ d.attempts <= MailAttempts
      BY <1>2, IdentityAssumption DEF DeliveryTold, DeliveryRow
    <3> QED
      BY <2>4, <3>1
  <2>7. state \in {"sent", "failed", "queued"}
    OBVIOUS
  <2>8. payload # Nil <=> state = "queued"
    BY <2>4, <2>7
  <2>9. payload # Nil => payload = d.gen
    BY <2>4
  <2> HIDE DEF state, payload
  <2>10. Recorded(d, m).state = state /\ Recorded(d, m).payload = payload /\ Recorded(d, m).lease = Nil
         /\ Recorded(d, m).gen = d.gen /\ Recorded(d, m).attempts = d.attempts
    BY <1>2, <2>1 DEF DeliveryRow
  <2>11. DeliveryTold(x, Recorded(d, m), inv[x], mailed)
    BY <1>2, <2>5, <2>6, <2>7, <2>8, <2>9, <2>10 DEF DeliveryTold
  <2> QED
    BY <1>1, <1>2, <1>3, <1>4, <2>2, <2>11, OneDelivery
<1> QED
  BY <1>5, <1>6

LEMMA LeaseEnds == ASSUME IdentityTypes, MailInv, NEW x \in DOMAIN del, ExpireMailLease(x) PROVE MailInv'
<1>1. /\ x \in DOMAIN inv /\ del[x] \in DeliveryRow /\ inv' = [inv EXCEPT ![x] = inv[x]] /\ mailed' = mailed /\ mailer' = mailer
      /\ del' = [del EXCEPT ![x] = [del[x] EXCEPT !.leased = FALSE]] /\ DeliveryTold(x, del[x], inv[x], mailed)
  BY DEF ExpireMailLease, IdentityTypes, AccountTypes, MailInv, posts
<1>2. DeliveryTold(x, [del[x] EXCEPT !.leased = FALSE], inv[x], mailed)
  BY <1>1 DEF DeliveryTold, DeliveryRow
<1>3. \A w \in Mailers : MailerKnows(mailer'[w], mailed)
  BY <1>1 DEF MailInv
<1> QED
  BY <1>1, <1>2, <1>3, OneDelivery

LEMMA InvitationEnds == ASSUME IdentityTypes, MailInv, NEW x \in DOMAIN del, ExpireInvitation(x) PROVE MailInv'
<1>1. /\ x \in DOMAIN inv /\ inv[x] \in InviteRow /\ del' = [del EXCEPT ![x] = del[x]] /\ mailed' = mailed /\ mailer' = mailer
      /\ inv' = [inv EXCEPT ![x] = [inv[x] EXCEPT !.expired = TRUE]] /\ DeliveryTold(x, del[x], inv[x], mailed)
  BY DEF ExpireInvitation, IdentityTypes, AccountTypes, MailInv, posts
<1>2. DeliveryTold(x, del[x], [inv[x] EXCEPT !.expired = TRUE], mailed)
  BY <1>1 DEF DeliveryTold, InviteRow
<1>3. \A w \in Mailers : MailerKnows(mailer'[w], mailed)
  BY <1>1 DEF MailInv
<1> QED
  BY <1>1, <1>2, <1>3, OneDelivery

LEMMA MailStepInv == IdentityInv /\ MailInv /\ [IdentityNext]_identityVars => MailInv'
<1> SUFFICES ASSUME IdentityInv, MailInv, [IdentityNext]_identityVars PROVE MailInv'
  OBVIOUS
<1>1. IdentityTypes
  BY DEF IdentityInv
<1>2. ASSUME NEW i \in Ids, Serve(i) \/ CutOff(i) PROVE MailInv'
  <2>1. CASE CreateInvitation(i) \/ ChangeInvitation(i)
    BY <1>1, <2>1, CreatedMail, ChangedMail
  <2>2. CASE Accept(i)
    BY <1>1, <2>2, AcceptedMail DEF IdentityInv, Knows
  <2>3. CASE ~(CreateInvitation(i) \/ ChangeInvitation(i) \/ Accept(i))
    <3>1. UNCHANGED <<inv, del, posts>>
      <4>1. CASE Open(i) \/ LockTenant(i) \/ LockTarget(i) \/ LockCaller(i) \/ LockSession(i) \/ CountAdmins(i) \/ ServiceWrite(i)
                 \/ ReadInvitation(i) \/ LockPerson(i) \/ LockInviter(i) \/ Enter(i)
        BY <4>1 DEF Open, LockTenant, LockTarget, LockCaller, LockSession, CountAdmins, ServiceWrite,
           ReadInvitation, LockPerson, LockInviter, Enter, Refuse, Go, Ended, accounts
      <4>2. CASE ChangeMember(i) \/ RevokeSessions(i) \/ Logout(i) \/ Provision(i)
        BY <4>2 DEF ChangeMember, RevokeSessions, Logout, Provision, Refuse, Ended, accounts
      <4>3. CASE BeginLogin(i) \/ ConsumeLogin(i) \/ CreateSession(i)
        BY <4>3 DEF BeginLogin, ConsumeLogin, CreateSession, Refuse, Go, Ended, accounts
      <4>4. CASE CutOff(i)
        BY <4>4 DEF CutOff, accounts
      <4> QED
        BY <1>2, <2>3, <4>1, <4>2, <4>3, <4>4 DEF Serve
    <3> QED
      BY <3>1, MailUntouched
  <2> QED
    BY <2>1, <2>2, <2>3
<1>3. ASSUME NEW w \in Mailers, Deliver(w) PROVE MailInv'
  BY <1>1, <1>3, ClaimedMail, SentMail, FinishedMail DEF Deliver
<1>4. ASSUME NEW w \in Mailers, Crash(w) PROVE MailInv'
  <2>1. inv' = inv /\ del' = del /\ mailed' = mailed /\ mailer' = [mailer EXCEPT ![w] = Nil] /\ mailer \in [Mailers -> {Nil} \cup Posting]
    BY <1>1, <1>4 DEF Crash, accounts, IdentityTypes, PostTypes
  <2>2. \A v \in Mailers : MailerKnows(mailer'[v], mailed')
    BY <2>1 DEF MailInv, MailerKnows
  <2> QED
    BY <2>1, <2>2 DEF MailInv, DeliveryTold, MailerKnows
<1>5. ASSUME NEW s \in DOMAIN sess, ExpireSession(s) PROVE MailInv'
  BY <1>5, MailUntouched DEF ExpireSession
<1>6. CASE UNCHANGED identityVars
  BY <1>6, MailUntouched DEF identityVars, accounts
<1> QED
  BY <1>1, <1>2, <1>3, <1>4, <1>5, <1>6, LeaseEnds, InvitationEnds DEF IdentityNext, Progress, Ids

LEMMA FirstMail == IdentityInit => MailInv
<1> SUFFICES ASSUME IdentityInit PROVE MailInv
  OBVIOUS
<1> DEFINE x == FirstInvite.id
<1>1. PICK c \in Casts :
        /\ del = [y \in {x} |-> IF c.sent THEN [NewDelivery(1) EXCEPT !.state = "sent", !.payload = Nil, !.attempts = 1] ELSE NewDelivery(1)]
        /\ mailed = IF c.sent THEN {<<x, 1>>} ELSE {}
  BY DEF IdentityInit
<1>2. inv = [y \in {x} |-> NewInvite(FirstInvite.email, FirstInvite.admin, FirstInvite.inviter, 1)] /\ mailer = [w \in Mailers |-> Nil]
  BY DEF IdentityInit
<1>3. DOMAIN inv = {x} /\ inv[x].token = 1
  BY <1>2 DEF NewInvite
<1>4. CASE c.sent
  <2>1. /\ del[x].state = "sent" /\ del[x].payload = Nil /\ del[x].attempts = 1 /\ del[x].gen = 1 /\ del[x].lease = Nil
        /\ <<x, 1>> \in mailed
    BY <1>1, <1>4 DEF NewDelivery
  <2>2. 1 <= MailAttempts
    BY IdentityAssumption
  <2> QED
    BY <1>2, <1>3, <2>1, <2>2 DEF MailInv, DeliveryTold, MailerKnows
<1>5. CASE ~c.sent
  <2>1. del[x] = NewDelivery(1)
    BY <1>1, <1>5
  <2>2. DeliveryTold(x, del[x], inv[x], mailed)
    BY <1>3, <2>1, NewDeliveryTold
  <2> QED
    BY <1>2, <1>3, <2>2 DEF MailInv, MailerKnows
<1> QED
  BY <1>4, <1>5

LEMMA MailMeansTold == IdentityInv /\ MailInv => MailIsTold
  BY DEF IdentityInv, IdentityTypes, AccountTypes, MailInv, DeliveryTold, MailIsTold

\* For any requests, mailers and faults: a delivery says sent only when the relay
\* has accepted a mail with the latest token, and failed only when all attempts
\* are used; what is still to be sent has the latest token (DeliverOne).
THEOREM MailTold == IdentitySpec => []MailIsTold
<1>2. IdentityInit => IdentityInv /\ MailInv
  BY InitInv, FirstMail
<1>3. IdentityInv /\ MailInv /\ [IdentityNext]_identityVars => IdentityInv' /\ MailInv'
  BY StepInv, MailStepInv
<1> QED
  BY <1>2, <1>3, MailMeansTold, PTL DEF IdentitySpec
=============================================================================
