------------------------------- MODULE Sessions -------------------------------
(***************************************************************************)
(* The sessions of one user: login admission, rotation of refresh tokens,  *)
(* the revocations, removal of a device and change of the password, and    *)
(* the publication of revoked sessions to the Redis deny cache.            *)
(*                                                                         *)
(* A transaction that locks the family rows it changes is one action.      *)
(* Those that revoke a session without a family are two: their token       *)
(* update takes its snapshot before they hold any family, so a rotation    *)
(* may commit in between (READ COMMITTED).  So is a change of password:    *)
(* a login may commit between its statements.  Expiry is not modelled.     *)
(***************************************************************************)
EXTENDS Naturals, FiniteSets

CONSTANTS
    Fam,        \* refresh families
    Device,     \* known devices, by their fingerprint
    Request,    \* requests that may run at the same time
    Job,        \* repair jobs: npm run auth:revocations:repair
    Cred,       \* bound: the credentials that may be issued, <<family, turn>>
    BatchLimit  \* rows of one publication; 200 in the code

ASSUME SessionAssumption ==
    /\ Cred \subseteq Fam \X Nat
    /\ "none" \notin Device
    /\ BatchLimit \in Nat \ {0}

Handler == Request \cup Job

VARIABLES
    family,   \* refresh_token_families.status; "none" and "unbound" have no row
    device,   \* refresh_token_families.known_device_id; "none" is NULL
    active,   \* known_devices that are active
    token,    \* refresh_tokens, by credential
    session,  \* user_sessions: the access session of the credential
    outbox,   \* session_revocation_outbox
    deny,     \* sessions with a deny key in Redis
    request   \* what each request and job is doing

vars == <<family, device, active, token, session, outbox, deny, request>>
rows == <<family, device, active, token, session, outbox>>

Of(S) == {c \in Cred : c[1] \in S}
Live(table) == {c \in Cred : table[c] = "live"}
Pending == {c \in Cred : outbox[c] = "pending"}

(* A credential is the session and the token of one login or rotation.  A  *)
(* password change issues a token whose family has no row and a session    *)
(* bound to none; saving a profile issues such a session and no token.     *)
Bound(c) == family[c[1]] # "unbound"

NoWork == [pc |-> "idle", cur |-> {}, fams |-> {}, alone |-> {}, legacy |-> FALSE,
           snap |-> {}, revoked |-> {}, batch |-> {}, ok |-> FALSE]

Work ==
    [pc : {"idle", "sweep", "change", "publish", "write", "mark", "deny", "told"},
     cur : SUBSET Cred,      \* the session it came with
     fams : SUBSET Fam,      \* families it selected
     alone : SUBSET Cred,    \* selected sessions without a family
     legacy : BOOLEAN,       \* its own session has no family
     snap : SUBSET Cred,     \* tokens its update saw live
     revoked : SUBSET Cred,  \* sessions it revoked
     batch : SUBSET Cred,    \* sessions it publishes
     ok : BOOLEAN]           \* the publication succeeded

TypeOK ==
    /\ family \in [Fam -> {"none", "active", "revoked", "unbound"}]
    /\ device \in [Fam -> Device \cup {"none"}]
    /\ active \subseteq Device
    /\ token \in [Cred -> {"none", "live", "revoked"}]
    /\ session \in [Cred -> {"none", "live", "revoked"}]
    /\ outbox \in [Cred -> {"none", "pending", "published"}]
    /\ deny \subseteq Cred
    /\ request \in [Handler -> Work]

(* Migration 0035 gives a row, and no device, to each family of a token    *)
(* that was issued before it; the sessions of that time are over.          *)
Init ==
    /\ \E old \in SUBSET {c \in Cred : c[2] = 1} :
         /\ IsFiniteSet(old)
         /\ family = [f \in Fam |-> IF <<f, 1>> \in old THEN "active" ELSE "none"]
         /\ token = [c \in Cred |-> IF c \in old THEN "live" ELSE "none"]
         /\ session = [c \in Cred |-> IF c \in old THEN "revoked" ELSE "none"]
    /\ device = [f \in Fam |-> "none"]
    /\ active = {}
    /\ outbox = [c \in Cred |-> "none"]
    /\ deny = {}
    /\ request = [r \in Handler |-> NoWork]

-----------------------------------------------------------------------------
Idle(r) == request[r].pc = "idle"
Turn(r, work) == request' = [request EXCEPT ![r] = work]
Fresh(c) ==
    /\ session[c] = "none"
    /\ \A x \in Of({c[1]}) : x[2] < c[2] => session[x] # "none"

(* admitSessionAuthority: device, family, token and session at once.  A    *)
(* removed device is active again.                                         *)
Login(c, d) ==
    /\ family[c[1]] = "none"
    /\ Fresh(c)
    /\ family' = [family EXCEPT ![c[1]] = "active"]
    /\ device' = [device EXCEPT ![c[1]] = d]
    /\ active' = active \cup {d}
    /\ token' = [token EXCEPT ![c] = "live"]
    /\ session' = [session EXCEPT ![c] = "live"]
    /\ UNCHANGED <<outbox, deny, request>>

(* A request found its session live before its transaction, which it may   *)
(* no longer be.                                                           *)
WasSignedIn == \E c \in Cred : session[c] # "none"

(* setUnifiedSessionCookieAsync, when the user saves a profile.             *)
RegisterUnbound(c) ==
    /\ WasSignedIn
    /\ family[c[1]] = "none"
    /\ Fresh(c)
    /\ family' = [family EXCEPT ![c[1]] = "unbound"]
    /\ session' = [session EXCEPT ![c] = "live"]
    /\ UNCHANGED <<device, active, token, outbox, deny, request>>

(* The family of the token is bound to the device, or not yet to any.      *)
OnDevice(c, d) ==
    \/ device[c[1]] = "none"
    \/ device[c[1]] = d /\ d \in active

(* Mutant: the family of the token is not looked at.                       *)
RotatableAlone(c, d) ==
    /\ token[c] = "live" /\ Bound(c)
    /\ OnDevice(c, d)

(* rotateSessionAuthority locks token, family and device.                  *)
Rotatable(c, d) ==
    /\ token[c] = "live"
    /\ family[c[1]] = "active"
    /\ OnDevice(c, d)

(* A family without a device gets the one it is rotated on, which is       *)
(* active again if it was removed.  The session issued with the old token  *)
(* stays as it is.                                                         *)
Rotate(c, next, d) ==
    /\ Rotatable(c, d)
    /\ next[1] = c[1] /\ Fresh(next)
    /\ token' = [token EXCEPT ![c] = "revoked", ![next] = "live"]
    /\ session' = [session EXCEPT ![next] = "live"]
    /\ device' = [device EXCEPT ![c[1]] = d]
    /\ active' = active \cup {d}
    /\ UNCHANGED <<family, outbox, deny, request>>

(* Families S, tokens T and sessions A are revoked; the sessions that were *)
(* live are queued for Redis, and the request goes on to publish.          *)
Revoke(r, S, T, A) ==
    LET newly == A \cap Live(session) IN
    /\ family' = [f \in Fam |-> IF f \in S THEN "revoked" ELSE family[f]]
    /\ token' = [c \in Cred |-> IF c \in T /\ token[c] = "live" THEN "revoked" ELSE token[c]]
    /\ session' = [c \in Cred |-> IF c \in newly THEN "revoked" ELSE session[c]]
    /\ outbox' = [c \in Cred |-> IF c \in newly THEN "pending" ELSE outbox[c]]
    /\ Turn(r, [NoWork EXCEPT !.pc = "publish", !.revoked = newly])

RevokeFamilies(r, S) == Revoke(r, S, Of(S), Of(S))

(* A token that cannot be rotated costs its family.  Without a family row  *)
(* the rotation throws instead and changes nothing.                        *)
RefuseRotation(r, c, d) ==
    /\ Idle(r)
    /\ token[c] # "none" /\ Bound(c)
    /\ ~Rotatable(c, d)
    /\ RevokeFamilies(r, {c[1]})
    /\ UNCHANGED <<device, active, deny>>

(* revokeSelectedSessionTx, for a revocation by the user and for logout.   *)
RevokeSession(r, c) ==
    /\ Idle(r)
    /\ session[c] # "none" /\ Bound(c)
    /\ RevokeFamilies(r, {c[1]})
    /\ UNCHANGED <<device, active, deny>>

(* The same for a session without a family, up to the token update of the  *)
(* trigger of migration 0036.                                              *)
RevokeUnbound(r, c) ==
    /\ Idle(r)
    /\ session[c] # "none" /\ ~Bound(c)
    /\ Turn(r, [NoWork EXCEPT !.pc = "sweep", !.alone = {c}, !.snap = Live(token)])
    /\ UNCHANGED <<rows, deny>>

(* revokeOtherSessionsAuthority, up to the same point.                     *)
RevokeOthers(r, c) ==
    /\ Idle(r)
    /\ session[c] = "live"
    /\ LET others == Live(session) \ {c} IN
       Turn(r, [NoWork EXCEPT !.pc = "sweep", !.cur = {c},
                  !.fams = {o[1] : o \in {x \in others : Bound(x)}},
                  !.alone = {x \in others : ~Bound(x)},
                  !.legacy = ~Bound(c),
                  !.snap = Live(token)])
    /\ UNCHANGED <<rows, deny>>

(* Its commit.  Revoking a live session without a family, or from one,     *)
(* revokes every token the update saw and every active family.             *)
Sweep(r) ==
    /\ request[r].pc = "sweep"
    /\ LET q == request[r]
           swept == q.legacy \/ q.alone \cap Live(session) # {} IN
       Revoke(r, q.fams \cup (IF swept THEN {f \in Fam : family[f] = "active"} ELSE {}),
                 Of(q.fams) \cup (IF swept THEN q.snap ELSE {}),
                 Of(q.fams) \cup q.alone)
    /\ UNCHANGED <<device, active, deny>>

(* Mutant: a family that is revoked already is passed over.                *)
RemoveDeviceActive(r, d) ==
    /\ Idle(r)
    /\ d \in active
    /\ RevokeFamilies(r, {f \in Fam : family[f] = "active" /\ device[f] = d})
    /\ active' = active \ {d}
    /\ UNCHANGED <<device, deny>>

(* removeKnownDeviceAuthority.  No session without a family has a device.  *)
RemoveDevice(r, d) ==
    /\ Idle(r)
    /\ d \in active
    /\ RevokeFamilies(r, {f \in Fam : family[f] \in {"active", "revoked"} /\ device[f] = d})
    /\ active' = active \ {d}
    /\ UNCHANGED <<device, deny>>

(* The password change route holds the account's row and revokes the       *)
(* families it finds active.  Steps on those would wait for its commit;    *)
(* that they go before it here changes nothing, for it takes all of them.  *)
ChangeBegins(r) ==
    /\ Idle(r)
    /\ WasSignedIn
    /\ \A q \in Handler : request[q].pc # "change"
    /\ Turn(r, [NoWork EXCEPT !.pc = "change",
                              !.fams = {f \in Fam : family[f] = "active"}])
    /\ UNCHANGED <<rows, deny>>

(* Its commit.  Tokens and then sessions are revoked by statements of      *)
(* their own: a login that came after the first keeps its token, and one   *)
(* that came after the families its family.  A live session without a      *)
(* family has the trigger of migration 0036 take those as well.  The new   *)
(* credentials have no family, and the evidence goes to Redis without the  *)
(* outbox.                                                                 *)
ChangePassword(r, c) ==
    LET fams == request[r].fams
        swept == \E x \in Live(session) : ~Bound(x)
        spared == {x \in Live(token) :
                      ~swept /\ family[x[1]] = "active" /\ x[1] \notin fams}
    IN  /\ request[r].pc = "change"
        /\ family[c[1]] = "none" /\ Fresh(c)
        /\ family' =
             [[f \in Fam |-> IF family[f] = "active" /\ (swept \/ f \in fams)
                             THEN "revoked" ELSE family[f]] EXCEPT ![c[1]] = "unbound"]
        /\ \E late \in SUBSET spared :
             token' = [[x \in Cred |-> IF token[x] = "live" /\ x \notin late
                                       THEN "revoked" ELSE token[x]] EXCEPT ![c] = "live"]
        /\ session' = [[x \in Cred |-> IF session[x] = "live" THEN "revoked" ELSE session[x]]
                        EXCEPT ![c] = "live"]
        /\ LET revoked == {x \in Cred : session[x] # "none"} IN
           Turn(r, [NoWork EXCEPT !.pc = "deny", !.revoked = revoked, !.batch = revoked])
        /\ UNCHANGED <<device, active, outbox, deny>>

-----------------------------------------------------------------------------
(* publishPendingSessionRevocations: read a batch, write it to Redis, mark *)
(* it.  Which rows a batch short of the limit leaves out is not modelled.  *)
PublishRead(r) ==
    /\ request[r].pc = "publish"
    /\ IF Pending = {}
         THEN Turn(r, [request[r] EXCEPT !.pc = "told", !.ok = TRUE])
         ELSE \E batch \in SUBSET Pending :
                /\ Cardinality(batch) <= BatchLimit
                /\ batch = Pending \/ Cardinality(batch) = BatchLimit
                /\ Turn(r, [request[r] EXCEPT !.pc = "write", !.batch = batch])
    /\ UNCHANGED <<rows, deny>>

(* Mutant: nothing is marked.                                              *)
AfterWriteTold(r) == "told"

AfterWrite(r) == IF request[r].pc = "write" THEN "mark" ELSE "told"

DenyAll(r) ==
    /\ request[r].pc \in {"write", "deny"}
    /\ deny' = deny \cup request[r].batch
    /\ Turn(r, [request[r] EXCEPT !.pc = AfterWrite(r), !.ok = TRUE])
    /\ UNCHANGED rows

(* Redis is unreachable, or fails within the pipeline.                     *)
DenyFails(r) ==
    /\ request[r].pc \in {"write", "deny"}
    /\ \E part \in SUBSET request[r].batch : deny' = deny \cup part
    /\ Turn(r, [request[r] EXCEPT !.pc = AfterWrite(r), !.ok = FALSE])
    /\ UNCHANGED rows

(* Mutant: the batch is marked whatever Redis said.                        *)
PublishMarkAlways(r) ==
    /\ request[r].pc = "mark"
    /\ outbox' = [c \in Cred |-> IF c \in request[r].batch \cap Pending
                                   THEN "published" ELSE outbox[c]]
    /\ Turn(r, [request[r] EXCEPT !.pc = "told", !.batch = {}])
    /\ UNCHANGED <<family, device, active, token, session, deny>>

PublishMark(r) ==
    /\ request[r].pc = "mark"
    /\ outbox' = IF request[r].ok
                   THEN [c \in Cred |-> IF c \in request[r].batch \cap Pending
                                          THEN "published" ELSE outbox[c]]
                   ELSE outbox
    /\ Turn(r, [request[r] EXCEPT !.pc = "told", !.batch = {}])
    /\ UNCHANGED <<family, device, active, token, session, deny>>

(* The answer is sent.                                                     *)
Tell(r) ==
    /\ request[r].pc = "told"
    /\ Turn(r, NoWork)
    /\ UNCHANGED <<rows, deny>>

(* The process dies, or the database fails: an open transaction rolls back.*)
Crash(r) ==
    /\ request[r].pc \in {"sweep", "change", "publish", "write", "mark", "deny"}
    /\ Turn(r, NoWork)
    /\ UNCHANGED <<rows, deny>>

(* A repair job publishes what others left.                                *)
Repair(r) ==
    /\ Idle(r)
    /\ Pending # {}
    /\ Turn(r, [NoWork EXCEPT !.pc = "publish"])
    /\ UNCHANGED <<rows, deny>>

Next ==
    \/ \E c \in Cred, d \in Device : Login(c, d)
    \/ \E c \in Cred : RegisterUnbound(c)
    \/ \E c, next \in Cred, d \in Device : Rotate(c, next, d)
    \/ \E r \in Request :
        \/ \E c \in Cred, d \in Device : RefuseRotation(r, c, d)
        \/ \E c \in Cred : \/ RevokeSession(r, c) \/ RevokeUnbound(r, c)
                           \/ RevokeOthers(r, c) \/ ChangePassword(r, c)
        \/ \E d \in Device : RemoveDevice(r, d)
        \/ Sweep(r) \/ ChangeBegins(r)
    \/ \E j \in Job : Repair(j)
    \/ \E r \in Handler :
        \/ PublishRead(r) \/ DenyAll(r) \/ DenyFails(r) \/ PublishMark(r)
        \/ Tell(r) \/ Crash(r)

Spec == Init /\ [][Next]_vars

(* The repair job is run until it succeeds: it is retried after a failure  *)
(* or a crash, and neither hits every run.  Requests owe nothing.          *)
Fairness ==
    \A j \in Job :
        /\ SF_vars(Repair(j))
        /\ SF_vars(PublishRead(j))
        /\ SF_vars(DenyAll(j))
        /\ WF_vars(PublishMark(j))
        /\ SF_vars(request[j].ok /\ PublishMark(j))
        /\ WF_vars(Tell(j))

FairSpec == Spec /\ Fairness
-----------------------------------------------------------------------------
(* A device the user removed holds nothing: whatever logins, rotations and *)
(* sweeps ran beside the removal, its families are revoked and none of     *)
(* their tokens and sessions is live.                                      *)
RemovedDeviceHoldsNothing ==
    \A f \in Fam : family[f] \in {"active", "revoked"} /\ device[f] \in Device \ active =>
        /\ family[f] = "revoked"
        /\ Of({f}) \cap (Live(token) \cup Live(session)) = {}

(* A request that answers revocationPending: false has every session it    *)
(* revoked denied in Redis, also when another publisher took its rows.     *)
ReportIsTrue ==
    \A r \in Handler : request[r].pc = "told" /\ request[r].ok =>
        request[r].revoked \subseteq deny

(* Each login is one chain of single-use tokens; a chain that was closed,  *)
(* by whatever revocation, never issues a session again.                   *)
Chains == INSTANCE LoginChains WITH
    usable <- {c \in Live(token) : family[c[1]] = "active"},
    honoured <- Live(session),
    issued <- {c \in Cred : session[c] # "none"}

KeepsLoginChains == Chains!Spec

(* The queue of revocations empties, so every queued one reaches Redis, if *)
(* the repair job is run again until it succeeds and Redis answers at      *)
(* times.  Cred bounds how many are ever queued.                           *)
RevocationsPublished == (Pending # {}) ~> (Pending = {})

(* "Revoke other sessions" keeps the session it was called with, if that   *)
(* is still the one its family was last rotated to.                        *)
RevokeOthersKeepsCurrent ==
    [][\A r \in Request : request[r].pc = "sweep" /\ request'[r].pc = "publish" =>
         \A c \in request[r].cur \cap Live(token) :
             session[c] = "live" => session'[c] = "live"]_vars
==============================================================================
