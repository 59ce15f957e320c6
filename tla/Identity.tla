------------------------------- MODULE Identity -------------------------------
(***************************************************************************)
(* The accounts of one tenant: memberships, sessions, invitations and the  *)
(* delivery of their mails, and the check of a session that the other      *)
(* services make before they write.                                        *)
(*                                                                         *)
(* Each request is one transaction at READ COMMITTED.  A step takes one    *)
(* lock, waiting for it, reads what is committed then, and goes on to the  *)
(* next lock; the last one writes and commits.  Advisory locks are         *)
(* exclusive, rows are locked FOR SHARE or FOR UPDATE.                     *)
(*                                                                         *)
(* The tenant is active, and so are the users: nothing in the repository   *)
(* changes them.  Of the roles only tenant_admin matters to this service.  *)
(***************************************************************************)
EXTENDS Naturals, FiniteSets, Sequences

CONSTANTS
    CastSize,
    Casts,         \* the requests that meet, the faults among them, and whether the
                   \* first mail has been sent
    Req,           \* per request: kind, ses, who, admin, active, id, email, all, login
    FirstMembers,  \* administrators of the tenant
    FirstSessions, \* per session: its owner
    FirstInvite,   \* an invitation: id, email, admin, inviter
    EmailOf,       \* per person, verified by the provider
    Mailers,
    Nil,
    MailAttempts,
    InviteLimit,   \* invitations per hour
    MaxFaults      \* failures, ends of leases and of validity in one behaviour

\* A login session gets an id of its own (uuid.New), and the requests that are
\* made with a session are made with one of the first.  Requests that share a login
\* are repeats of its callback.
ASSUME IdentityAssumption ==
    /\ CastSize \in Nat /\ MailAttempts \in Nat \ {0} /\ Nil \notin {"ok"} \cup Nat \cup (Nat \X Nat)
    /\ \A c \in Casts : c.requests \in [1..CastSize -> DOMAIN Req]
    /\ \A c \in DOMAIN Req :
         /\ c \notin DOMAIN FirstSessions
         /\ Req[c].kind \in {"change", "invite", "cancel", "resend", "revoke", "write", "logout"} =>
              Req[c].ses \in DOMAIN FirstSessions
         /\ Req[c].admin \in BOOLEAN /\ Req[c].active \in BOOLEAN
         /\ \A d \in DOMAIN Req :
              {Req[c].kind, Req[d].kind} = {"login", "accept"} => Req[c].login # Req[d].login
    /\ FirstMembers # {} /\ FirstInvite.inviter \in FirstMembers /\ FirstInvite.admin \in BOOLEAN
    /\ \A s \in DOMAIN FirstSessions : FirstSessions[s] \in FirstMembers

VARIABLES
    cast,
    member,    \* memberships: admin, active, version; from, the invitation it came from
    sess,      \* sessions: owner, revoked, expired; under, the membership's version, and login
    logins,    \* login_transactions: state, token
    inv,       \* invitations: email, admin, inviter, grant, version, status, expired, token, used
    del,       \* invitation_delivery: gen, payload, state, attempts, lease, leased
    mailed,    \* the mails that the relay has accepted, by invitation and token
    mailer,    \* per mailer: the delivery it is at
    st,        \* per request: its transaction
    rowLocks,  \* locks: on, by, mode
    faults

accounts == <<member, sess, logins, inv, del>>
posts == <<mailed, mailer>>
identityVars == <<cast, accounts, posts, st, rowLocks, faults>>

-----------------------------------------------------------------------------
\* Table t with a row inserted.
Added(t, k, row) == [x \in DOMAIN t \cup {k} |-> IF x = k THEN row ELSE t[x]]

NewMember(admin, from) == [admin |-> admin, active |-> TRUE, version |-> 1, from |-> from]
NewSession(owner, under, login) ==
    [owner |-> owner, under |-> under, login |-> login, revoked |-> FALSE, expired |-> FALSE]
NewInvite(email, admin, inviter, grant) ==
    [email |-> email, admin |-> admin, inviter |-> inviter, grant |-> grant, version |-> 1, status |-> "pending",
     expired |-> FALSE, token |-> 1, used |-> Nil]
NewDelivery(gen) ==
    [gen |-> gen, payload |-> gen, state |-> "queued", attempts |-> 0, lease |-> Nil, leased |-> FALSE]
NewRequest == [pc |-> "new", seen |-> 0, token |-> Nil, inviter |-> Nil, answer |-> Nil]

IdentityInit ==
    /\ \E c \in Casts :
         /\ cast = c.requests
         /\ faults = IF c.calm THEN MaxFaults ELSE 0
         /\ LET d == NewDelivery(1)
            IN del = [x \in {FirstInvite.id} |->
                        IF c.sent THEN [d EXCEPT !.state = "sent", !.payload = Nil, !.attempts = 1] ELSE d]
         /\ mailed = IF c.sent THEN {<<FirstInvite.id, 1>>} ELSE {}
    /\ member = [p \in FirstMembers |-> NewMember(TRUE, Nil)]
    /\ sess = [s \in DOMAIN FirstSessions |-> NewSession(FirstSessions[s], 1, Nil)]
    /\ logins = <<>>
    /\ inv = [x \in {FirstInvite.id} |-> NewInvite(FirstInvite.email, FirstInvite.admin, FirstInvite.inviter, 1)]
    /\ mailer = [w \in Mailers |-> Nil]
    /\ st = [i \in 1..CastSize |-> NewRequest]
    /\ rowLocks = {}

-----------------------------------------------------------------------------
R(i) == Req[cast[i]]
Kind(i) == R(i).kind
Caller(i) == sess[R(i).ses].owner
Started(i) == st[i].pc \notin {"new", "done"}

\* session: what a raw session secret stands for, if anything.
Live(s) == ~sess[s].revoked /\ ~sess[s].expired
Valid(s) == Live(s) /\ member[sess[s].owner].active
IsAdmin(p) == p \in DOMAIN member /\ member[p].active /\ member[p].admin

\* A lock for each administrator instead of one for the tenant.
TenantLockPerCaller(i) == <<"identity-admin", R(i).ses>>

TenantLock(i) == <<"identity-admin">>
Person(p) == <<"identity", p>>
Row(p) == <<"membership", p>>
SessionRow(s) == <<"session", s>>

\* authorize_case_v1 called with take_locks false.
TakenUnlessWrite(i, x, mode) == IF Kind(i) = "write" THEN {} ELSE {<<x, mode>>}

\* The lock that a read of a row takes.
Taken(i, x, mode) == {<<x, mode>>}

Free(x, mode, i) == \A l \in rowLocks : l.on = x /\ l.by # i => mode = "share" /\ l.mode = "share"

\* Request i goes on to pc, having locked xs.
Go(i, s, xs) ==
    /\ st' = [st EXCEPT ![i] = s]
    /\ rowLocks' = rowLocks \cup {[on |-> x[1], by |-> i, mode |-> x[2]] : x \in xs}
    /\ UNCHANGED <<cast, posts, faults>>

\* The transaction ends, and its locks with it.
Ended(i, answer) ==
    /\ st' = [st EXCEPT ![i] = [NewRequest EXCEPT !.pc = "done", !.answer = answer]]
    /\ rowLocks' = {l \in rowLocks : l.by # i}
    /\ UNCHANGED <<cast, posts, faults>>
Refuse(i, answer) == Ended(i, answer) /\ UNCHANGED accounts

-----------------------------------------------------------------------------
\* What a client has seen of the row it is about to change; the version in the
\* access token of a write.
Seen(i) ==
    CASE Kind(i) = "change" /\ R(i).who \in DOMAIN member -> member[R(i).who].version
      [] Kind(i) \in {"cancel", "resend"} /\ R(i).id \in DOMAIN inv -> inv[R(i).id].version
      [] Kind(i) = "write" -> member[Caller(i)].version
      [] OTHER -> 0

Open(i) ==
    /\ st[i].pc = "new" /\ Kind(i) \in {"change", "invite", "cancel", "resend", "revoke", "write"}
    /\ UNCHANGED accounts
    /\ IF ~Valid(R(i).ses) THEN Refuse(i, "denied")
       ELSE Go(i, [st[i] EXCEPT !.pc = IF Kind(i) \in {"revoke", "write"} THEN "caller" ELSE "tenant",
                                !.seen = Seen(i)], {})

\* Changes of members and invitations happen one at a time.
LockTenant(i) ==
    /\ st[i].pc = "tenant"
    /\ Free(TenantLock(i), "update", i)
    /\ UNCHANGED accounts
    /\ IF Kind(i) = "change" /\ (~Valid(R(i).ses) \/ ~IsAdmin(Caller(i))) THEN Refuse(i, "denied")
       ELSE Go(i, [st[i] EXCEPT !.pc = CASE Kind(i) = "change" -> "target"
                                         [] Kind(i) = "accept" -> "person"
                                         [] OTHER -> "caller"], {<<TenantLock(i), "update">>})

LockTarget(i) ==
    /\ st[i].pc = "target"
    /\ UNCHANGED accounts
    /\ IF R(i).who \notin DOMAIN member THEN Refuse(i, "denied")
       ELSE /\ Free(Row(R(i).who), "update", i)
            /\ IF member[R(i).who].version # st[i].seen THEN Refuse(i, "conflict")
               ELSE Go(i, [st[i] EXCEPT !.pc = "session"], {<<Row(R(i).who), "update">>})

\* The caller's own row: shared by invitationAdmin and authorize_case_v1, for
\* update by RevokeSessions.
LockCaller(i) ==
    /\ st[i].pc = "caller"
    /\ LET mode == IF Kind(i) = "revoke" THEN "update" ELSE "share"
           ok == CASE Kind(i) = "revoke" -> Valid(R(i).ses)
                   [] Kind(i) = "write" -> member[Caller(i)].active /\ member[Caller(i)].version = st[i].seen
                   [] OTHER -> IsAdmin(Caller(i))
       IN /\ Free(Row(Caller(i)), mode, i)
          /\ IF ok THEN Go(i, [st[i] EXCEPT !.pc = "session"], Taken(i, Row(Caller(i)), mode)) ELSE Refuse(i, "denied")
    /\ UNCHANGED accounts

LockSession(i) ==
    /\ st[i].pc = "session"
    /\ LET mode == IF Kind(i) = "revoke" THEN "update" ELSE "share"
       IN /\ Free(SessionRow(R(i).ses), mode, i)
          /\ IF Live(R(i).ses) /\ (Kind(i) \in {"invite", "cancel", "resend"} => IsAdmin(Caller(i)))
             THEN Go(i, [st[i] EXCEPT !.pc = IF Kind(i) = "change" THEN "count" ELSE "apply"],
                     Taken(i, SessionRow(R(i).ses), mode))
             ELSE Refuse(i, "denied")
    /\ UNCHANGED accounts

-----------------------------------------------------------------------------
Revoked(S) == [s \in DOMAIN sess |-> IF s \in S THEN [sess[s] EXCEPT !.revoked = TRUE] ELSE sess[s]]
Unrevoked(p) == {s \in DOMAIN sess : sess[s].owner = p /\ ~sess[s].revoked}

LastAdmin(p) == IsAdmin(p) /\ Cardinality({q \in DOMAIN member : IsAdmin(q)}) <= 1

CountAdmins(i) ==
    /\ st[i].pc = "count"
    /\ IF LastAdmin(R(i).who) /\ ~(R(i).active /\ R(i).admin) THEN Refuse(i, "conflict")
       ELSE Go(i, [st[i] EXCEPT !.pc = "apply"], {})
    /\ UNCHANGED accounts

ChangeMember(i) ==
    /\ st[i].pc = "apply" /\ Kind(i) = "change"
    /\ LET p == R(i).who
       IN /\ \A s \in Unrevoked(p) : Free(SessionRow(s), "update", i)
          /\ member' = [member EXCEPT ![p] = [admin |-> R(i).admin, active |-> R(i).active,
                                              version |-> @.version + 1, from |-> @.from]]
          /\ sess' = Revoked(Unrevoked(p))
    /\ Ended(i, "ok")
    /\ UNCHANGED <<logins, inv, del>>

RevokeSessions(i) ==
    /\ st[i].pc = "apply" /\ Kind(i) = "revoke"
    /\ LET p == Caller(i)
           S == IF R(i).all THEN Unrevoked(p) ELSE Unrevoked(p) \cap {R(i).id}
       IN IF ~R(i).all /\ ~(R(i).id \in DOMAIN sess /\ sess[R(i).id].owner = p) THEN Refuse(i, "denied")
          ELSE /\ \A s \in S : Free(SessionRow(s), "update", i)
               /\ sess' = Revoked(S)
               /\ Ended(i, "ok")
               /\ UNCHANGED <<member, logins, inv, del>>

Logout(i) ==
    /\ st[i].pc = "new" /\ Kind(i) = "logout"
    /\ Free(SessionRow(R(i).ses), "update", i)
    /\ sess' = Revoked({R(i).ses})
    /\ Ended(i, "ok")
    /\ UNCHANGED <<member, logins, inv, del>>

\* A service that has called CheckIdentity writes what it wanted to write.
ServiceWrite(i) == st[i].pc = "apply" /\ Kind(i) = "write" /\ Refuse(i, "ok")

\* The operator's command for a person's first membership.
Provision(i) ==
    /\ st[i].pc = "new" /\ Kind(i) = "provision"
    /\ Free(Person(R(i).who), "update", i)
    /\ IF R(i).who \in DOMAIN member
       THEN LET m == member[R(i).who]
            IN Refuse(i, IF m.active /\ m.admin = R(i).admin THEN "ok" ELSE "conflict")
       ELSE /\ member' = Added(member, R(i).who, NewMember(R(i).admin, Nil))
            /\ Ended(i, "ok")
            /\ UNCHANGED <<sess, logins, inv, del>>

-----------------------------------------------------------------------------
\* BeginLogin and, with the token of a mail, InvitationService.Begin.  The
\* browser may send the callback of a login twice.
Usable(t) == inv[t[1]].token = t[2] /\ inv[t[1]].status = "pending" /\ ~inv[t[1]].expired

BeginLogin(i) ==
    /\ st[i].pc = "new" /\ Kind(i) \in {"login", "accept"}
    /\ \/ /\ R(i).login \in DOMAIN logins
          /\ Go(i, [st[i] EXCEPT !.pc = "callback"], {})
          /\ UNCHANGED accounts
       \/ /\ R(i).login \notin DOMAIN logins
          /\ \E t \in IF Kind(i) = "login" THEN {Nil}
                      ELSE {m \in mailed : inv[m[1]].email = EmailOf[R(i).who]} :
               IF t # Nil /\ ~Usable(t) THEN Refuse(i, "denied")
               ELSE /\ logins' = Added(logins, R(i).login, [state |-> "open", token |-> t])
                    /\ Go(i, [st[i] EXCEPT !.pc = "callback"], {})
                    /\ UNCHANGED <<member, sess, inv, del>>

ConsumeLogin(i) ==
    /\ st[i].pc = "callback"
    /\ LET l == logins[R(i).login]
       IN IF l.state # "open" THEN Refuse(i, "denied")
          ELSE /\ logins' = [logins EXCEPT ![R(i).login].state = "used"]
               /\ Go(i, [st[i] EXCEPT !.pc = IF l.token = Nil THEN "enter" ELSE "invitation", !.token = l.token], {})
               /\ UNCHANGED <<member, sess, inv, del>>

\* CreateSessionForTenant without the lock on the membership.
EnterUnlocked(i) ==
    /\ st[i].pc = "enter"
    /\ IF R(i).who \in DOMAIN member /\ member[R(i).who].active
       THEN Go(i, [st[i] EXCEPT !.pc = "insert", !.seen = member[R(i).who].version], {})
       ELSE Refuse(i, "denied")
    /\ UNCHANGED accounts

Enter(i) ==
    /\ st[i].pc = "enter"
    /\ Free(Row(R(i).who), "share", i)
    /\ IF R(i).who \in DOMAIN member /\ member[R(i).who].active
       THEN Go(i, [st[i] EXCEPT !.pc = "insert", !.seen = member[R(i).who].version], {<<Row(R(i).who), "share">>})
       ELSE Refuse(i, "denied")
    /\ UNCHANGED accounts

CreateSession(i) ==
    /\ st[i].pc = "insert"
    /\ sess' = Added(sess, cast[i], NewSession(R(i).who, st[i].seen, R(i).login))
    /\ Ended(i, "ok")
    /\ UNCHANGED <<member, logins, inv, del>>

-----------------------------------------------------------------------------
CreateInvitation(i) ==
    /\ st[i].pc = "apply" /\ Kind(i) = "invite"
    /\ LET x == R(i).id
       IN IF x \in DOMAIN inv
          THEN Refuse(i, IF inv[x].email = R(i).email /\ inv[x].admin = R(i).admin THEN "ok" ELSE "conflict")
          ELSE IF \/ \E y \in DOMAIN inv : inv[y].email = R(i).email /\ inv[y].status = "pending"
                  \/ Cardinality(DOMAIN inv) >= InviteLimit
          THEN Refuse(i, "conflict")
          ELSE /\ inv' = Added(inv, x, NewInvite(R(i).email, R(i).admin, Caller(i), member[Caller(i)].version))
               /\ del' = Added(del, x, NewDelivery(1))
               /\ Ended(i, "ok")
               /\ UNCHANGED <<member, sess, logins>>

Cancelled(d) == [d EXCEPT !.state = "cancelled", !.payload = Nil, !.lease = Nil, !.leased = FALSE]

\* Change: the pause between two resends is over whenever one comes.
ChangeInvitation(i) ==
    /\ st[i].pc = "apply" /\ Kind(i) \in {"cancel", "resend"}
    /\ LET x == R(i).id
           v == inv[x].version
       IN IF x \notin DOMAIN inv THEN Refuse(i, "denied")
          ELSE IF inv[x].status # "pending" \/ v # st[i].seen THEN Refuse(i, "conflict")
          ELSE /\ IF Kind(i) = "cancel"
                  THEN /\ inv' = [inv EXCEPT ![x].status = "cancelled", ![x].version = v + 1]
                       /\ del' = [del EXCEPT ![x] = Cancelled(@)]
                  ELSE /\ inv' = [inv EXCEPT ![x].token = v + 1, ![x].version = v + 1, ![x].expired = FALSE,
                                             ![x].inviter = Caller(i), ![x].grant = member[Caller(i)].version]
                       /\ del' = [del EXCEPT ![x] = NewDelivery(v + 1)]
               /\ Ended(i, "ok")
               /\ UNCHANGED <<member, sess, logins>>

\* Accept: first without a lock, to learn which tenant and inviter to lock.
ReadInvitation(i) ==
    /\ st[i].pc = "invitation"
    /\ LET x == inv[st[i].token[1]]
       IN IF Usable(st[i].token) /\ x.email = EmailOf[R(i).who]
          THEN Go(i, [st[i] EXCEPT !.pc = "tenant", !.inviter = x.inviter, !.seen = x.grant], {})
          ELSE Refuse(i, "denied")
    /\ UNCHANGED accounts

LockPerson(i) ==
    /\ st[i].pc = "person"
    /\ Free(Person(R(i).who), "update", i)
    /\ Go(i, [st[i] EXCEPT !.pc = "inviter"], {<<Person(R(i).who), "update">>})
    /\ UNCHANGED accounts

LockInviter(i) ==
    /\ st[i].pc = "inviter"
    /\ Free(Row(st[i].inviter), "share", i)
    /\ IF IsAdmin(st[i].inviter) /\ member[st[i].inviter].version = st[i].seen
       THEN Go(i, [st[i] EXCEPT !.pc = "apply"], {<<Row(st[i].inviter), "share">>})
       ELSE Refuse(i, "denied")
    /\ UNCHANGED accounts

\* The invitation as it was first read is taken for granted.
StillUsableUnread(i) == TRUE

\* The invitation may have changed since it was first read.
StillUsable(i) == Usable(st[i].token)

Accept(i) ==
    /\ st[i].pc = "apply" /\ Kind(i) = "accept"
    /\ LET p == R(i).who
           x == st[i].token[1]
       IN IF ~StillUsable(i) THEN Refuse(i, "denied")
          ELSE IF p \in DOMAIN member THEN Refuse(i, "conflict")
          ELSE /\ member' = Added(member, p, NewMember(inv[x].admin, x))
               /\ inv' = [inv EXCEPT ![x].status = "accepted", ![x].version = inv[x].version + 1,
                                         ![x].used = st[i].token[2]]
               /\ del' = [del EXCEPT ![x] = [Cancelled(@) EXCEPT !.state = IF del[x].state = "sent" THEN "sent" ELSE "cancelled"]]
               /\ sess' = Added(sess, cast[i], NewSession(p, 1, R(i).login))
               /\ Ended(i, "ok")
               /\ UNCHANGED logins

-----------------------------------------------------------------------------
\* DeliverOne: a mailer claims a delivery and commits before it sends.  The lease
\* id is new: an attempt of a generation is claimed once.
Due(x) == del[x].state = "queued" \/ (del[x].state = "sending" /\ ~del[x].leased)

Claim(w, x) ==
    /\ mailer[w] = Nil /\ Due(x)
    /\ LET d == del[x]
           valid == inv[x].status = "pending" /\ ~inv[x].expired /\ inv[x].version = d.gen
       IN IF ~valid \/ d.attempts >= MailAttempts
          THEN /\ del' = [del EXCEPT ![x] = [Cancelled(d) EXCEPT !.state = IF valid THEN "failed" ELSE "cancelled"]]
               /\ UNCHANGED mailer
          ELSE LET lease == <<d.gen, d.attempts + 1>>
               IN /\ del' = [del EXCEPT ![x] = [d EXCEPT !.state = "sending", !.attempts = @ + 1,
                                                        !.lease = lease, !.leased = TRUE]]
                  /\ mailer' = [mailer EXCEPT ![w] = [id |-> x, token |-> d.payload, lease |-> lease, result |-> Nil]]
    /\ UNCHANGED <<cast, member, sess, logins, inv, mailed, st, rowLocks, faults>>

\* The relay may accept a mail and its answer be lost.
Send(w, result) ==
    /\ mailer[w] # Nil /\ mailer[w].result = Nil
    /\ result \in {"sent", "error", "lost"}
    /\ mailer' = [mailer EXCEPT ![w].result = result]
    /\ mailed' = IF result = "error" THEN mailed ELSE mailed \cup {<<mailer[w].id, mailer[w].token>>}
    /\ UNCHANGED <<cast, accounts, st, rowLocks, faults>>

Recorded(d, m) ==
    LET state == CASE m.result = "sent" -> "sent" [] m.lease[2] >= MailAttempts -> "failed" [] OTHER -> "queued"
    IN [d EXCEPT !.state = state, !.payload = IF state = "queued" THEN @ ELSE Nil, !.lease = Nil, !.leased = FALSE]

\* The update finds the row by the invitation alone.
FinishUnfenced(w) ==
    /\ mailer[w] # Nil /\ mailer[w].result # Nil
    /\ del' = [del EXCEPT ![mailer[w].id] = Recorded(@, mailer[w])]
    /\ mailer' = [mailer EXCEPT ![w] = Nil]
    /\ UNCHANGED <<cast, member, sess, logins, inv, mailed, st, rowLocks, faults>>

\* The result is recorded under the generation and the lease of the claim.
Finish(w) ==
    /\ mailer[w] # Nil /\ mailer[w].result # Nil
    /\ LET x == mailer[w].id
       IN del' = IF del[x].lease = mailer[w].lease THEN [del EXCEPT ![x] = Recorded(@, mailer[w])] ELSE del
    /\ mailer' = [mailer EXCEPT ![w] = Nil]
    /\ UNCHANGED <<cast, member, sess, logins, inv, mailed, st, rowLocks, faults>>

ExpireMailLease(x) ==
    /\ del[x].state = "sending" /\ del[x].leased
    /\ del' = [del EXCEPT ![x].leased = FALSE]
    /\ UNCHANGED <<cast, member, sess, logins, inv, posts, st, rowLocks, faults>>

-----------------------------------------------------------------------------
\* What goes wrong: a request is cut off, a mailer's process dies, and time
\* passes over a session or an invitation.
FaultHappens == faults < MaxFaults /\ faults' = faults + 1

CutOff(i) ==
    /\ Started(i) /\ FaultHappens
    /\ st' = [st EXCEPT ![i] = [NewRequest EXCEPT !.pc = "done", !.answer = "error"]]
    /\ rowLocks' = {l \in rowLocks : l.by # i}
    /\ UNCHANGED <<cast, accounts, posts>>

Crash(w) ==
    /\ mailer[w] # Nil /\ FaultHappens
    /\ mailer' = [mailer EXCEPT ![w] = Nil]
    /\ UNCHANGED <<cast, accounts, mailed, st, rowLocks>>

ExpireSession(s) ==
    /\ Live(s) /\ FaultHappens
    /\ sess' = [sess EXCEPT ![s].expired = TRUE]
    /\ UNCHANGED <<cast, member, logins, inv, del, posts, st, rowLocks>>

ExpireInvitation(x) ==
    /\ inv[x].status = "pending" /\ ~inv[x].expired /\ FaultHappens
    /\ inv' = [inv EXCEPT ![x].expired = TRUE]
    /\ UNCHANGED <<cast, member, sess, logins, del, posts, st, rowLocks>>

-----------------------------------------------------------------------------
Serve(i) ==
    \/ Open(i) \/ LockTenant(i) \/ LockTarget(i) \/ LockCaller(i) \/ LockSession(i)
    \/ CountAdmins(i) \/ ChangeMember(i) \/ RevokeSessions(i) \/ Logout(i) \/ ServiceWrite(i) \/ Provision(i)
    \/ BeginLogin(i) \/ ConsumeLogin(i) \/ Enter(i) \/ CreateSession(i)
    \/ CreateInvitation(i) \/ ChangeInvitation(i)
    \/ ReadInvitation(i) \/ LockPerson(i) \/ LockInviter(i) \/ Accept(i)

Deliver(w) == (\E x \in DOMAIN del : Claim(w, x)) \/ (\E result \in {"sent", "error", "lost"} : Send(w, result)) \/ Finish(w)

Progress ==
    \/ \E i \in 1..CastSize : Serve(i)
    \/ \E w \in Mailers : Deliver(w)
    \/ \E x \in DOMAIN del : ExpireMailLease(x)

IdentityNext ==
    \/ Progress
    \/ \E i \in 1..CastSize : CutOff(i)
    \/ \E w \in Mailers : Crash(w)
    \/ \E x \in DOMAIN del : ExpireInvitation(x)
    \/ \E s \in DOMAIN sess : ExpireSession(s)

\* Something goes on whenever it can: a goroutine of a request, RunDelivery on
\* its ticks, or the end of a lease.
IdentityFairness == WF_identityVars(Progress)

IdentitySpec == IdentityInit /\ [][IdentityNext]_identityVars

-----------------------------------------------------------------------------
\* The tenant keeps an active administrator, whatever two of them do to each
\* other at once (ChangeMember).  A session that is not revoked was opened under
\* the membership as it is, although logins race with changes and revocations
\* (CreateSessionForTenant).  An invitation makes one member at most, and a login
\* one session, although its callback is repeated (Accept, ConsumeLogin).
AccessIsCurrent ==
    /\ \E p \in DOMAIN member : IsAdmin(p)
    /\ \A s \in DOMAIN sess : ~sess[s].revoked =>
         LET m == member[sess[s].owner] IN m.active /\ m.version = sess[s].under
    /\ \A p, q \in DOMAIN member : member[p].from = member[q].from => p = q \/ member[p].from = Nil
    /\ \A s, t \in DOMAIN sess : sess[s].login = sess[t].login => s = t \/ sess[s].login = Nil

\* A write that was checked commits while its session and the membership it was
\* allowed under still stand (authorize_case_v1).  A member comes from an
\* invitation only while that is pending, by its latest token, for its address
\* and with its role, and while the grant of its inviter stands; and what was
\* accepted or cancelled stays so (Accept).
GrantsAreCurrent ==
    [][/\ \A i \in 1..CastSize :
            Kind(i) = "write" /\ st[i].pc # "done" /\ st'[i].answer = "ok" =>
              /\ ~sess[R(i).ses].revoked
              /\ member[Caller(i)].active /\ member[Caller(i)].version = st[i].seen
       /\ \A p \in DOMAIN member' \ DOMAIN member : member'[p].from # Nil =>
            LET x == inv[member'[p].from]
            IN /\ x.status = "pending" /\ ~x.expired
               /\ inv'[member'[p].from].used = x.token
               /\ x.email = EmailOf[p] /\ x.admin = member'[p].admin
               /\ IsAdmin(x.inviter) /\ member[x.inviter].version = x.grant
       /\ \A x \in DOMAIN inv : inv[x].status # "pending" => inv'[x].status = inv[x].status]_identityVars

\* The state of a delivery is told truly: sent means that the relay has accepted
\* a mail with the latest token, failed that all attempts are used, a mail that
\* is still to be sent has the latest token, and the secret is kept no longer
\* than that (DeliverOne).
MailIsTold ==
    \A x \in DOMAIN del :
      LET d == del[x]
      IN /\ d.state = "sent" => <<x, d.gen>> \in mailed
         /\ d.state = "failed" => d.attempts = MailAttempts
         /\ d.payload # Nil <=> d.state \in {"queued", "sending"}
         /\ inv[x].status = "pending" => d.gen = inv[x].token /\ d.payload \in {Nil, inv[x].token}

\* Every request is answered: nobody waits in a circle of locks, except an accept
\* for its mail; and every delivery comes to an end.
RequestsServed == \A i \in 1..CastSize : ~Started(i)
MailSettled == \A x \in DOMAIN del : del[x].state \notin {"queued", "sending"}
=============================================================================
