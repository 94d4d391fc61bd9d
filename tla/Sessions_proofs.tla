---------------------------- MODULE Sessions_proofs ----------------------------
(***************************************************************************)
(* Theorems about Sessions, for every set of families, devices, requests,  *)
(* jobs and credentials: the types, what a removed device holds, that      *)
(* every step is one of LoginChains, or none of its business, and what a   *)
(* request answers about the sessions it revoked.                          *)
(***************************************************************************)
EXTENDS Sessions, FiniteSetTheorems, TLAPS

WithRow == {f \in Fam : family[f] \in {"active", "revoked"}}

(* A token comes with its session, and a session with its family.          *)
IssuedInFamily ==
    \A c \in Cred : /\ token[c] # "none" => session[c] # "none"
                    /\ session[c] # "none" => family[c[1]] # "none"

(* Rotation spends a token before it issues the next.                      *)
OneLiveToken ==
    \A c, x \in Live(token) : c[1] = x[1] /\ family[c[1]] = "active" => c = x

(* The families a request selected have rows, and rows stay.               *)
SelectedHaveRows == \A r \in Handler : request[r].fams \subseteq WithRow

IInv ==
    /\ TypeOK
    /\ RemovedDeviceHoldsNothing
    /\ IssuedInFamily
    /\ OneLiveToken
    /\ SelectedHaveRows

ChainStep == [Chains!Next]_(Chains!chainVars)

LEMMA CredInFamily == \A c \in Cred : c[1] \in Fam /\ c[2] \in Nat
BY SessionAssumption

LEMMA NoWorkTyped == NoWork \in Work /\ NoWork.fams = {}
BY DEF NoWork, Work

LEMMA InitHolds == Init => IInv
<1> SUFFICES ASSUME Init PROVE IInv
  OBVIOUS
<1>0. PICK old \in SUBSET {c \in Cred : c[2] = 1} :
         /\ IsFiniteSet(old)
         /\ family = [f \in Fam |-> IF <<f, 1>> \in old THEN "active" ELSE "none"]
         /\ token = [c \in Cred |-> IF c \in old THEN "live" ELSE "none"]
         /\ session = [c \in Cred |-> IF c \in old THEN "revoked" ELSE "none"]
  BY DEF Init
<1>1. TypeOK
  BY <1>0, NoWorkTyped DEF Init, TypeOK
<1>2. RemovedDeviceHoldsNothing
  BY SessionAssumption DEF Init, RemovedDeviceHoldsNothing
<1>4. \A c \in old : c = <<c[1], 1>>
  BY SessionAssumption
<1>5. IssuedInFamily /\ OneLiveToken
  BY <1>0, <1>4, CredInFamily DEF IssuedInFamily, OneLiveToken, Live
<1>3. SelectedHaveRows
  BY NoWorkTyped DEF Init, SelectedHaveRows
<1> QED BY <1>1, <1>2, <1>3, <1>5 DEF IInv

(* The next state of one request, its place and selection in order.        *)
LEMMA TurnTyped ==
    ASSUME IInv, NEW r \in Handler, NEW work \in Work, Turn(r, work)
    PROVE  /\ request' \in [Handler -> Work]
           /\ \A q \in Handler : request'[q] = IF q = r THEN work ELSE request[q]
BY DEF IInv, TypeOK, Turn

(* Steps of publication write no row but the outbox's.                     *)
LEMMA QuietKeeps ==
    ASSUME IInv, TypeOK', UNCHANGED <<family, device, active, token, session>>,
           \A r \in Handler : request'[r].fams \subseteq WithRow
    PROVE  IInv' /\ ChainStep
<1>1. IInv'
  BY DEF IInv, RemovedDeviceHoldsNothing, IssuedInFamily, OneLiveToken, SelectedHaveRows,
         WithRow, Live, Of
<1>2. UNCHANGED Chains!chainVars
  BY DEF Chains!chainVars, Live
<1> QED BY <1>1, <1>2 DEF ChainStep

(* A revocation of families that have rows.  The families of a device it   *)
(* removes are among them, with all they issued.                           *)
LEMMA RevokeKeeps ==
    ASSUME IInv, NEW r \in Handler, NEW S \in SUBSET WithRow,
           NEW T \in SUBSET Cred, NEW A \in SUBSET Cred,
           Revoke(r, S, T, A), UNCHANGED <<device, deny>>, active' \subseteq active,
           \A f \in WithRow : device[f] \in active \ active' =>
               f \in S /\ Of({f}) \subseteq T \cap A
    PROVE  IInv' /\ ChainStep
<1> DEFINE newly == A \cap Live(session)
           work == [NoWork EXCEPT !.pc = "publish", !.revoked = newly]
<1>1. /\ family' = [f \in Fam |-> IF f \in S THEN "revoked" ELSE family[f]]
      /\ token' = [c \in Cred |-> IF c \in T /\ token[c] = "live" THEN "revoked" ELSE token[c]]
      /\ session' = [c \in Cred |-> IF c \in newly THEN "revoked" ELSE session[c]]
      /\ outbox' = [c \in Cred |-> IF c \in newly THEN "pending" ELSE outbox[c]]
      /\ Turn(r, work)
  BY DEF Revoke
<1>2. newly \subseteq Cred /\ \A c \in newly : session[c] = "live"
  BY DEF Live
<1>3. work \in Work /\ work.fams = {}
  BY <1>2 DEF NoWork, Work
<1> HIDE DEF newly, work
<1>4. /\ request' \in [Handler -> Work]
      /\ \A q \in Handler : request'[q] = IF q = r THEN work ELSE request[q]
  BY <1>1, <1>3, TurnTyped
<1>5. TypeOK'
  <2>1. family' \in [Fam -> {"none", "active", "revoked", "unbound"}]
    BY <1>1 DEF IInv, TypeOK
  <2>2. /\ token' \in [Cred -> {"none", "live", "revoked"}]
        /\ session' \in [Cred -> {"none", "live", "revoked"}]
        /\ outbox' \in [Cred -> {"none", "pending", "published"}]
    BY <1>1 DEF IInv, TypeOK
  <2> QED BY <1>4, <2>1, <2>2 DEF IInv, TypeOK
<1>6. /\ \A f \in Fam : family'[f] = IF f \in S THEN "revoked" ELSE family[f]
      /\ \A c \in Cred : token'[c] = "live" => token[c] = "live" /\ c \notin T
      /\ \A c \in Cred : token'[c] # "none" <=> token[c] # "none"
      /\ \A c \in Cred : session'[c] = "live" => session[c] = "live" /\ c \notin A
      /\ \A c \in Cred : session'[c] # "none" <=> session[c] # "none"
  <2>1. \A c \in Cred : c \in A /\ session[c] = "live" => c \in newly
    BY DEF newly, Live
  <2> QED BY <1>1, <1>2, <2>1
<1>7. WithRow' = WithRow /\ \A f \in Fam : family'[f] = "active" => family[f] = "active"
  BY <1>6 DEF WithRow
<1>8. RemovedDeviceHoldsNothing'
  <2> SUFFICES ASSUME NEW f \in Fam, f \in WithRow, device[f] \in Device \ active'
               PROVE  /\ family'[f] = "revoked"
                      /\ \A c \in Cred : c[1] = f => token'[c] # "live" /\ session'[c] # "live"
    BY <1>7 DEF RemovedDeviceHoldsNothing, WithRow, Of, Live
  <2>1. CASE device[f] \in active
    <3>1. f \in S /\ Of({f}) \subseteq T \cap A
      BY <2>1
    <3> QED BY <3>1, <1>6 DEF Of
  <2>2. CASE device[f] \notin active
    <3>1. /\ family[f] = "revoked"
          /\ \A c \in Cred : c[1] = f => token[c] # "live" /\ session[c] # "live"
      BY <2>2 DEF IInv, RemovedDeviceHoldsNothing, WithRow, Of, Live
    <3> QED BY <3>1, <1>6
  <2> QED BY <2>1, <2>2
<1>9. IssuedInFamily'
  BY <1>6, CredInFamily DEF IInv, IssuedInFamily
<1>10. OneLiveToken'
  BY <1>6, <1>7, CredInFamily DEF IInv, OneLiveToken, Live
<1>11. SelectedHaveRows'
  BY <1>3, <1>4, <1>7 DEF IInv, SelectedHaveRows
<1>12. ChainStep
  <2>1. Chains!Revoke
    BY <1>6, <1>7, CredInFamily DEF Chains!Revoke, Live
  <2> QED BY <2>1 DEF ChainStep, Chains!Next
<1> QED BY <1>5, <1>8, <1>9, <1>10, <1>11, <1>12 DEF IInv

LEMMA RevokeFamiliesKeeps ==
    ASSUME IInv, NEW r \in Handler, NEW S \in SUBSET WithRow,
           RevokeFamilies(r, S), UNCHANGED <<device, active, deny>>
    PROVE  IInv' /\ ChainStep
<1>1. Of(S) \in SUBSET Cred
  BY DEF Of
<1> QED BY <1>1, RevokeKeeps DEF RevokeFamilies

(* Login starts a chain: no credential of its family was issued.           *)
LEMMA LoginKeeps ==
    ASSUME IInv, NEW c \in Cred, NEW d \in Device, Login(c, d)
    PROVE  IInv' /\ ChainStep
<1>1. /\ c[1] \in Fam /\ family[c[1]] = "none" /\ session[c] = "none"
      /\ \A x \in Cred : x[1] = c[1] => session[x] = "none" /\ token[x] = "none"
  BY CredInFamily DEF Login, Fresh, IInv, IssuedInFamily
<1>2. TypeOK'
  BY <1>1 DEF Login, IInv, TypeOK
<1>3. /\ \A f \in Fam : family'[f] = IF f = c[1] THEN "active" ELSE family[f]
      /\ \A f \in Fam : device'[f] = IF f = c[1] THEN d ELSE device[f]
      /\ active' = active \cup {d}
      /\ \A x \in Cred : token'[x] = IF x = c THEN "live" ELSE token[x]
      /\ \A x \in Cred : session'[x] = IF x = c THEN "live" ELSE session[x]
      /\ request' = request
  BY <1>1 DEF Login, IInv, TypeOK
<1>4. RemovedDeviceHoldsNothing'
  <2> SUFFICES ASSUME NEW f \in Fam, family'[f] \in {"active", "revoked"},
                      device'[f] \in Device \ active'
               PROVE  /\ family'[f] = "revoked"
                      /\ \A x \in Cred : x[1] = f => token'[x] # "live" /\ session'[x] # "live"
    BY DEF RemovedDeviceHoldsNothing, Of, Live
  <2>1. f # c[1]
    BY <1>3
  <2>2. /\ family[f] = "revoked"
        /\ \A x \in Cred : x[1] = f => token[x] # "live" /\ session[x] # "live"
    BY <1>3, <2>1 DEF IInv, RemovedDeviceHoldsNothing, Of, Live
  <2> QED BY <1>3, <2>1, <2>2
<1>5. IssuedInFamily'
  BY <1>1, <1>3, CredInFamily DEF IInv, IssuedInFamily
<1>6. OneLiveToken'
  BY <1>1, <1>3, CredInFamily DEF IInv, OneLiveToken, Live
<1>7. SelectedHaveRows'
  BY <1>1, <1>3 DEF IInv, SelectedHaveRows, WithRow
<1>8. Chains!Start(c)
  BY <1>1, <1>3, CredInFamily DEF Chains!Start, Chains!Issue, Chains!Chain, Live
<1> QED BY <1>2, <1>4, <1>5, <1>6, <1>7, <1>8 DEF IInv, ChainStep, Chains!Next

LEMMA RegisterKeeps ==
    ASSUME IInv, NEW c \in Cred, RegisterUnbound(c)
    PROVE  IInv' /\ ChainStep
<1>1. /\ c[1] \in Fam /\ family[c[1]] = "none" /\ session[c] = "none"
      /\ \A x \in Cred : x[1] = c[1] => session[x] = "none" /\ token[x] = "none"
  BY CredInFamily DEF RegisterUnbound, Fresh, IInv, IssuedInFamily
<1>2. TypeOK'
  BY <1>1 DEF RegisterUnbound, IInv, TypeOK
<1>3. /\ \A f \in Fam : family'[f] = IF f = c[1] THEN "unbound" ELSE family[f]
      /\ \A x \in Cred : session'[x] = IF x = c THEN "live" ELSE session[x]
      /\ UNCHANGED <<device, active, token, request>>
  BY <1>1 DEF RegisterUnbound, IInv, TypeOK
<1>4. RemovedDeviceHoldsNothing'
  BY <1>1, <1>3 DEF IInv, RemovedDeviceHoldsNothing, Of, Live
<1>5. IssuedInFamily'
  BY <1>1, <1>3, CredInFamily DEF IInv, IssuedInFamily
<1>6. OneLiveToken'
  BY <1>1, <1>3, CredInFamily DEF IInv, OneLiveToken, Live
<1>7. SelectedHaveRows'
  BY <1>1, <1>3 DEF IInv, SelectedHaveRows, WithRow
<1>8. Chains!Start(c)
  BY <1>1, <1>3, CredInFamily DEF Chains!Start, Chains!Issue, Chains!Chain, Live
<1> QED BY <1>2, <1>4, <1>5, <1>6, <1>7, <1>8 DEF IInv, ChainStep, Chains!Next

(* Rotation continues the chain of the one live token of its family.       *)
LEMMA RotateKeeps ==
    ASSUME IInv, NEW c \in Cred, NEW next \in Cred, NEW d \in Device, Rotate(c, next, d)
    PROVE  IInv' /\ ChainStep
<1>1. /\ token[c] = "live" /\ family[c[1]] = "active" /\ c[1] \in Fam
      /\ next[1] = c[1] /\ session[next] = "none"
  BY CredInFamily DEF Rotate, Rotatable, Fresh
<1>2. TypeOK'
  BY DEF Rotate, IInv, TypeOK
<1>3. /\ \A x \in Cred : token'[x] = IF x = next THEN "live"
                                     ELSE IF x = c THEN "revoked" ELSE token[x]
      /\ \A x \in Cred : session'[x] = IF x = next THEN "live" ELSE session[x]
      /\ device' = [device EXCEPT ![c[1]] = d] /\ active' = active \cup {d}
      /\ UNCHANGED <<family, request>>
  BY DEF Rotate, IInv, TypeOK
<1>4. \A x \in Cred : token[x] = "live" /\ x[1] = c[1] => x = c
  BY <1>1 DEF IInv, OneLiveToken, Live
<1>5. RemovedDeviceHoldsNothing'
  <2> SUFFICES ASSUME NEW f \in Fam, f \in WithRow, device'[f] \in Device \ active'
               PROVE  /\ family[f] = "revoked"
                      /\ \A x \in Cred : x[1] = f => token'[x] # "live" /\ session'[x] # "live"
    BY <1>3 DEF RemovedDeviceHoldsNothing, WithRow, Of, Live
  <2>1. f # c[1]
    BY <1>1, <1>3 DEF IInv, TypeOK
  <2>2. device[f] \in Device \ active
    BY <1>3, <2>1
  <2> QED BY <1>1, <1>3, <2>1, <2>2 DEF IInv, RemovedDeviceHoldsNothing, WithRow, Of, Live
<1>6. IssuedInFamily'
  BY <1>1, <1>3 DEF IInv, IssuedInFamily
<1>7. OneLiveToken'
  BY <1>1, <1>3, <1>4 DEF IInv, OneLiveToken, Live
<1>8. SelectedHaveRows'
  BY <1>3 DEF IInv, SelectedHaveRows, WithRow
<1>9. Chains!Advance(next)
  BY <1>1, <1>3, <1>4 DEF Chains!Advance, Chains!Issue, Chains!Chain, Live
<1> QED BY <1>2, <1>5, <1>6, <1>7, <1>8, <1>9 DEF IInv, ChainStep, Chains!Next

(* A password change ends what it finds and issues one credential that no  *)
(* family row carries.  A login that it spares is bound to an active       *)
(* device.                                                                 *)
LEMMA ChangeKeeps ==
    ASSUME IInv, NEW r \in Handler, NEW c \in Cred, ChangePassword(r, c)
    PROVE  IInv' /\ ChainStep
<1> DEFINE gone == {x \in Cred : session[x] # "none"}
           work == [NoWork EXCEPT !.pc = "deny", !.revoked = gone, !.batch = gone]
           ends(f) == \/ \E x \in Live(session) : ~Bound(x)
                      \/ f \in request[r].fams
<1>1. /\ c[1] \in Fam /\ family[c[1]] = "none" /\ session[c] = "none"
      /\ \A x \in Cred : x[1] = c[1] => session[x] = "none" /\ token[x] = "none"
  BY CredInFamily DEF ChangePassword, Fresh, IInv, IssuedInFamily
<1>2. Turn(r, work) /\ work \in Work /\ work.fams = {}
  BY DEF ChangePassword, NoWork, Work
<1>3. PICK late \in SUBSET Live(token) :
        /\ \A x \in late : family[x[1]] = "active" /\ ~ends(x[1])
        /\ token' = [[x \in Cred |-> IF token[x] = "live" /\ x \notin late
                                     THEN "revoked" ELSE token[x]] EXCEPT ![c] = "live"]
  BY DEF ChangePassword
<1>4. /\ \A f \in Fam : family'[f] = IF f = c[1] THEN "unbound"
                                     ELSE IF family[f] = "active" /\ ends(f)
                                          THEN "revoked" ELSE family[f]
      /\ \A x \in Cred : session'[x] = IF x = c THEN "live"
                                       ELSE IF session[x] = "live" THEN "revoked" ELSE session[x]
      /\ UNCHANGED <<device, active, outbox, deny>>
  BY <1>1 DEF ChangePassword
<1>5. \A x \in Cred : token'[x] = IF x = c THEN "live"
                                 ELSE IF token[x] = "live" /\ x \notin late
                                      THEN "revoked" ELSE token[x]
  BY <1>3
<1>6. TypeOK'
  <2>1. family' \in [Fam -> {"none", "active", "revoked", "unbound"}]
    BY <1>1 DEF ChangePassword, IInv, TypeOK
  <2>2. /\ token' \in [Cred -> {"none", "live", "revoked"}]
        /\ session' \in [Cred -> {"none", "live", "revoked"}]
    BY <1>3 DEF ChangePassword, IInv, TypeOK
  <2>3. request' \in [Handler -> Work]
    <3> HIDE DEF work
    <3> QED BY <1>2, TurnTyped
  <2> QED BY <1>4, <2>1, <2>2, <2>3 DEF IInv, TypeOK
<1> HIDE DEF work, gone, ends
<1>7. \A q \in Handler : request'[q] = IF q = r THEN work ELSE request[q]
  BY <1>2, TurnTyped
<1>8. RemovedDeviceHoldsNothing'
  <2> SUFFICES ASSUME NEW f \in Fam, family'[f] \in {"active", "revoked"},
                      device[f] \in Device \ active
               PROVE  /\ family'[f] = "revoked"
                      /\ \A x \in Cred : x[1] = f => token'[x] # "live" /\ session'[x] # "live"
    BY <1>4 DEF RemovedDeviceHoldsNothing, Of, Live
  <2>1. f # c[1] /\ family[f] \in {"active", "revoked"}
    BY <1>4
  <2>2. /\ family[f] = "revoked"
        /\ \A x \in Cred : x[1] = f => token[x] # "live" /\ session[x] # "live"
    BY <2>1 DEF IInv, RemovedDeviceHoldsNothing, Of, Live
  <2> QED BY <1>4, <1>5, <2>1, <2>2
<1>9. IssuedInFamily'
  BY <1>1, <1>4, <1>5, CredInFamily DEF IInv, IssuedInFamily
<1>10. /\ \A x \in Cred : token'[x] = "live" /\ family'[x[1]] = "active" =>
            /\ token[x] = "live" /\ family[x[1]] = "active"
       /\ \A x \in Cred : session'[x] = "live" <=> x = c
  BY <1>1, <1>4, <1>5, CredInFamily
<1>11. OneLiveToken'
  BY <1>10, CredInFamily DEF IInv, OneLiveToken, Live
<1>12. SelectedHaveRows'
  BY <1>1, <1>2, <1>4, <1>7 DEF IInv, SelectedHaveRows, WithRow
<1>13. Chains!Replace(c)
  BY <1>1, <1>4, <1>10, CredInFamily DEF Chains!Replace, Chains!Issue, Chains!Chain, Live
<1> QED BY <1>6, <1>8, <1>9, <1>11, <1>12, <1>13 DEF IInv, ChainStep, Chains!Next

(* The families a password change is going to revoke.                      *)
LEMMA ChangeBeginsKeeps ==
    ASSUME IInv, NEW r \in Handler, ChangeBegins(r)
    PROVE  IInv' /\ ChainStep
<1> DEFINE fams == {f \in Fam : family[f] = "active"}
           work == [NoWork EXCEPT !.pc = "change", !.fams = fams]
<1>1. Turn(r, work) /\ UNCHANGED <<rows, deny>>
  BY DEF ChangeBegins
<1>2. fams \subseteq WithRow /\ fams \subseteq Fam
  BY DEF WithRow
<1>3. work \in Work /\ work.fams = fams
  BY DEF NoWork, Work
<1> HIDE DEF fams, work
<1>4. /\ request' \in [Handler -> Work]
      /\ \A q \in Handler : request'[q] = IF q = r THEN work ELSE request[q]
  BY <1>1, <1>3, TurnTyped
<1>5. TypeOK'
  BY <1>1, <1>4 DEF IInv, TypeOK, rows
<1>6. \A q \in Handler : request'[q].fams \subseteq WithRow
  BY <1>2, <1>3, <1>4 DEF IInv, SelectedHaveRows
<1> QED BY <1>1, <1>5, <1>6, QuietKeeps DEF rows

(* What the user asks to revoke, except for sweeps, names families with    *)
(* rows: a credential that was issued and is bound.                        *)
LEMMA RequestKeeps ==
    ASSUME IInv, NEW r \in Request,
           \/ \E c \in Cred, d \in Device : RefuseRotation(r, c, d)
           \/ \E c \in Cred : RevokeSession(r, c)
           \/ \E d \in Device : RemoveDevice(r, d)
    PROVE  IInv' /\ ChainStep
<1>0. r \in Handler
  BY DEF Handler
<1>1. ASSUME NEW c \in Cred, session[c] # "none", Bound(c)
      PROVE  {c[1]} \in SUBSET WithRow
  BY <1>1, CredInFamily DEF Bound, IInv, TypeOK, IssuedInFamily, WithRow
<1>2. CASE \E c \in Cred, d \in Device : RefuseRotation(r, c, d)
  <2>1. PICK c \in Cred, d \in Device : RefuseRotation(r, c, d)
    BY <1>2
  <2>2. {c[1]} \in SUBSET WithRow
    BY <1>1, <2>1 DEF RefuseRotation, IInv, IssuedInFamily
  <2> QED BY <1>0, <2>1, <2>2, RevokeFamiliesKeeps DEF RefuseRotation
<1>3. CASE \E c \in Cred : RevokeSession(r, c)
  <2>1. PICK c \in Cred : RevokeSession(r, c)
    BY <1>3
  <2>2. {c[1]} \in SUBSET WithRow
    BY <1>1, <2>1 DEF RevokeSession
  <2> QED BY <1>0, <2>1, <2>2, RevokeFamiliesKeeps DEF RevokeSession
<1>4. CASE \E d \in Device : RemoveDevice(r, d)
  <2>1. PICK d \in Device : RemoveDevice(r, d)
    BY <1>4
  <2> DEFINE S == {f \in Fam : family[f] \in {"active", "revoked"} /\ device[f] = d}
  <2>2. S \in SUBSET WithRow /\ Of(S) \in SUBSET Cred
    BY DEF WithRow, Of
  <2>3. Revoke(r, S, Of(S), Of(S)) /\ active' = active \ {d} /\ UNCHANGED <<device, deny>>
    BY <2>1 DEF RemoveDevice, RevokeFamilies
  <2>4. \A f \in WithRow : device[f] \in active \ active' =>
            f \in S /\ Of({f}) \subseteq Of(S) \cap Of(S)
    BY <2>3 DEF WithRow, Of
  <2> HIDE DEF S
  <2> QED BY <1>0, <2>2, <2>3, <2>4, RevokeKeeps
<1> QED BY <1>2, <1>3, <1>4

(* A sweep revokes the families its selection named and the active ones.   *)
LEMMA SweepKeeps ==
    ASSUME IInv, NEW r \in Request, Sweep(r)
    PROVE  IInv' /\ ChainStep
<1> DEFINE q == request[r]
           swept == q.legacy \/ q.alone \cap Live(session) # {}
           S == q.fams \cup (IF swept THEN {f \in Fam : family[f] = "active"} ELSE {})
           T == Of(q.fams) \cup (IF swept THEN q.snap ELSE {})
           A == Of(q.fams) \cup q.alone
<1>1. r \in Handler /\ q \in Work
  BY DEF Handler, IInv, TypeOK
<1>2. Revoke(r, S, T, A) /\ UNCHANGED <<device, active, deny>>
  BY DEF Sweep
<1>3. q.fams \subseteq WithRow /\ q.snap \subseteq Cred /\ q.alone \subseteq Cred
  BY <1>1 DEF IInv, SelectedHaveRows, Work
<1>4. S \in SUBSET WithRow
  BY <1>3 DEF WithRow
<1>5. T \in SUBSET Cred /\ A \in SUBSET Cred
  BY <1>3 DEF Of
<1> HIDE DEF S, T, A
<1> QED BY <1>1, <1>2, <1>4, <1>5, RevokeKeeps

(* What a sweep's reads select.                                            *)
LEMMA SelectionTyped ==
    ASSUME IInv, NEW r \in Request, NEW c \in Cred, RevokeUnbound(r, c) \/ RevokeOthers(r, c)
    PROVE  \E work \in Work : /\ Turn(r, work)
                               /\ work.pc = "sweep" /\ work.fams \subseteq WithRow
<1>0. Live(token) \subseteq Cred /\ Live(session) \subseteq Cred
  BY DEF Live
<1>1. CASE RevokeUnbound(r, c)
  <2> DEFINE work == [NoWork EXCEPT !.pc = "sweep", !.alone = {c}, !.snap = Live(token)]
  <2>1. work \in Work /\ work.fams = {} /\ work.pc = "sweep"
    BY <1>0 DEF NoWork, Work
  <2>2. Turn(r, work)
    BY <1>1 DEF RevokeUnbound
  <2> HIDE DEF work
  <2> QED BY <2>1, <2>2
<1>2. CASE RevokeOthers(r, c)
  <2> DEFINE others == Live(session) \ {c}
             fams == {o[1] : o \in {x \in others : Bound(x)}}
             alone == {x \in others : ~Bound(x)}
             legacy == ~Bound(c)
             work == [NoWork EXCEPT !.pc = "sweep", !.cur = {c}, !.fams = fams,
                        !.alone = alone, !.legacy = legacy, !.snap = Live(token)]
  <2>1. \A x \in others : Bound(x) => x[1] \in WithRow
    BY CredInFamily DEF Live, Bound, IInv, TypeOK, IssuedInFamily, WithRow
  <2>2. fams \subseteq WithRow /\ fams \subseteq Fam /\ alone \subseteq Cred
    BY <1>0, <2>1 DEF WithRow
  <2>3. legacy \in BOOLEAN
    BY DEF Bound
  <2>4. Turn(r, work)
    BY <1>2 DEF RevokeOthers
  <2> HIDE DEF fams, alone, legacy
  <2>5. work \in Work /\ work.fams = fams /\ work.pc = "sweep"
    BY <1>0, <2>2, <2>3 DEF NoWork, Work
  <2> HIDE DEF work
  <2> QED BY <2>2, <2>4, <2>5
<1> QED BY <1>1, <1>2

(* The reads of a sweep.                                                   *)
LEMMA SelectKeeps ==
    ASSUME IInv, NEW r \in Request, NEW c \in Cred, RevokeUnbound(r, c) \/ RevokeOthers(r, c)
    PROVE  IInv' /\ ChainStep
<1>0. r \in Handler
  BY DEF Handler
<1>1. PICK work \in Work : Turn(r, work) /\ work.fams \subseteq WithRow
  BY SelectionTyped
<1>2. UNCHANGED <<rows, deny>>
  BY DEF RevokeUnbound, RevokeOthers
<1>3. /\ request' \in [Handler -> Work]
      /\ \A q \in Handler : request'[q] = IF q = r THEN work ELSE request[q]
  BY <1>0, <1>1, TurnTyped
<1>4. TypeOK'
  BY <1>2, <1>3 DEF IInv, TypeOK, rows
<1>5. \A q \in Handler : request'[q].fams \subseteq WithRow
  BY <1>1, <1>3 DEF IInv, SelectedHaveRows
<1> QED BY <1>2, <1>4, <1>5, QuietKeeps DEF rows

(* Publication, the answer, a crash and the repair job.                    *)
LEMMA HandlerKeeps ==
    ASSUME IInv, NEW r \in Handler,
           \/ PublishRead(r) \/ DenyAll(r) \/ DenyFails(r) \/ PublishMark(r)
           \/ Tell(r) \/ Crash(r) \/ Repair(r)
    PROVE  IInv' /\ ChainStep
<1>0. request[r] \in Work /\ request[r].fams \subseteq WithRow
  BY DEF IInv, TypeOK, SelectedHaveRows
<1>1. UNCHANGED <<family, device, active, token, session>>
  BY DEF PublishRead, DenyAll, DenyFails, PublishMark, Tell, Crash, Repair, rows
<1>2. request[r].batch \subseteq Cred /\ Pending \subseteq Cred
  BY <1>0 DEF Work, Pending
<1>3. /\ deny' \subseteq Cred
      /\ outbox' \in [Cred -> {"none", "pending", "published"}]
      /\ \E work \in Work : Turn(r, work) /\ work.fams \subseteq WithRow
  <2>0. /\ deny \subseteq Cred
        /\ outbox \in [Cred -> {"none", "pending", "published"}]
    BY DEF IInv, TypeOK
  <2>1. CASE PublishRead(r)
    <3>1. UNCHANGED <<outbox, deny>>
      BY <2>1 DEF PublishRead, rows
    <3>2. CASE Pending = {}
      <4> DEFINE work == [request[r] EXCEPT !.pc = "told", !.ok = TRUE]
      <4>1. Turn(r, work)
        BY <2>1, <3>2 DEF PublishRead
      <4>2. work \in Work /\ work.fams = request[r].fams
        BY <1>0 DEF Work
      <4> HIDE DEF work
      <4> QED BY <1>0, <2>0, <3>1, <4>1, <4>2
    <3>3. CASE Pending # {}
      <4>1. PICK batch \in SUBSET Pending :
              Turn(r, [request[r] EXCEPT !.pc = "write", !.batch = batch])
        BY <2>1, <3>3 DEF PublishRead
      <4> DEFINE work == [request[r] EXCEPT !.pc = "write", !.batch = batch]
      <4>2. work \in Work /\ work.fams = request[r].fams
        BY <1>0, <1>2 DEF Work
      <4>3. Turn(r, work)
        BY <4>1
      <4> HIDE DEF work
      <4> QED BY <1>0, <2>0, <3>1, <4>2, <4>3
    <3> QED BY <3>2, <3>3
  <2>2. CASE DenyAll(r) \/ DenyFails(r)
    <3>1. deny' \subseteq Cred /\ outbox' = outbox
      BY <1>2, <2>0, <2>2 DEF DenyAll, DenyFails, rows
    <3>2. AfterWrite(r) \in {"mark", "told"}
      BY DEF AfterWrite
    <3>3. PICK b \in BOOLEAN : Turn(r, [request[r] EXCEPT !.pc = AfterWrite(r), !.ok = b])
      BY <2>2 DEF DenyAll, DenyFails
    <3> DEFINE work == [request[r] EXCEPT !.pc = AfterWrite(r), !.ok = b]
    <3>4. work \in Work /\ work.fams = request[r].fams
      BY <1>0, <3>2 DEF Work
    <3>5. Turn(r, work)
      BY <3>3
    <3> HIDE DEF work
    <3> QED BY <1>0, <2>0, <3>1, <3>4, <3>5
  <2>3. CASE PublishMark(r)
    <3> DEFINE work == [request[r] EXCEPT !.pc = "told", !.batch = {}]
    <3>1. deny' = deny /\ outbox' \in [Cred -> {"none", "pending", "published"}]
      BY <2>0, <2>3 DEF PublishMark
    <3>2. Turn(r, work)
      BY <2>3 DEF PublishMark
    <3>3. work \in Work /\ work.fams = request[r].fams
      BY <1>0 DEF Work
    <3> HIDE DEF work
    <3> QED BY <1>0, <2>0, <3>1, <3>2, <3>3
  <2>4. CASE Tell(r) \/ Crash(r)
    BY <2>0, <2>4, NoWorkTyped DEF Tell, Crash, rows
  <2>5. CASE Repair(r)
    <3> DEFINE work == [NoWork EXCEPT !.pc = "publish"]
    <3>1. Turn(r, work) /\ UNCHANGED <<outbox, deny>>
      BY <2>5 DEF Repair, rows
    <3>2. work \in Work /\ work.fams = {}
      BY DEF NoWork, Work
    <3> HIDE DEF work
    <3> QED BY <2>0, <3>1, <3>2
  <2> QED BY <2>1, <2>2, <2>3, <2>4, <2>5
<1>4. PICK work \in Work : Turn(r, work) /\ work.fams \subseteq WithRow
  BY <1>3
<1>5. /\ request' \in [Handler -> Work]
      /\ \A q \in Handler : request'[q] = IF q = r THEN work ELSE request[q]
  BY <1>4, TurnTyped
<1>6. TypeOK'
  BY <1>1, <1>3, <1>5 DEF IInv, TypeOK
<1>7. \A q \in Handler : request'[q].fams \subseteq WithRow
  BY <1>4, <1>5 DEF IInv, SelectedHaveRows
<1> QED BY <1>1, <1>6, <1>7, QuietKeeps

LEMMA StepKeeps == IInv /\ [Next]_vars => IInv' /\ ChainStep
<1> SUFFICES ASSUME IInv, [Next]_vars PROVE IInv' /\ ChainStep
  OBVIOUS
<1>1. ASSUME NEW c \in Cred, NEW d \in Device, Login(c, d) PROVE IInv' /\ ChainStep
  BY <1>1, LoginKeeps
<1>2. ASSUME NEW c \in Cred, RegisterUnbound(c) PROVE IInv' /\ ChainStep
  BY <1>2, RegisterKeeps
<1>3. ASSUME NEW c \in Cred, NEW next \in Cred, NEW d \in Device, Rotate(c, next, d)
      PROVE  IInv' /\ ChainStep
  BY <1>3, RotateKeeps
<1>4. ASSUME NEW r \in Request,
             \/ \E c \in Cred, d \in Device : RefuseRotation(r, c, d)
             \/ \E c \in Cred : \/ RevokeSession(r, c) \/ RevokeUnbound(r, c)
                                \/ RevokeOthers(r, c) \/ ChangePassword(r, c)
             \/ \E d \in Device : RemoveDevice(r, d)
             \/ Sweep(r) \/ ChangeBegins(r)
      PROVE  IInv' /\ ChainStep
  <2>1. r \in Handler
    BY DEF Handler
  <2>2. CASE \/ \E c \in Cred, d \in Device : RefuseRotation(r, c, d)
             \/ \E c \in Cred : RevokeSession(r, c)
             \/ \E d \in Device : RemoveDevice(r, d)
    BY <2>2, RequestKeeps
  <2>3. CASE \E c \in Cred : RevokeUnbound(r, c) \/ RevokeOthers(r, c)
    BY <2>3, SelectKeeps
  <2>4. CASE \E c \in Cred : ChangePassword(r, c)
    BY <2>1, <2>4, ChangeKeeps
  <2>5. CASE Sweep(r)
    BY <2>5, SweepKeeps
  <2>6. CASE ChangeBegins(r)
    BY <2>1, <2>6, ChangeBeginsKeeps
  <2> QED BY <1>4, <2>2, <2>3, <2>4, <2>5, <2>6
<1>5. ASSUME NEW r \in Handler,
             \/ PublishRead(r) \/ DenyAll(r) \/ DenyFails(r) \/ PublishMark(r)
             \/ Tell(r) \/ Crash(r) \/ (r \in Job /\ Repair(r))
      PROVE  IInv' /\ ChainStep
  BY <1>5, HandlerKeeps
<1>6. CASE UNCHANGED vars
  BY <1>6, QuietKeeps DEF vars, IInv, TypeOK, SelectedHaveRows
<1> QED BY <1>1, <1>2, <1>3, <1>4, <1>5, <1>6 DEF Next, Handler

LEMMA Invariance == Spec => []IInv
BY InitHolds, StepKeeps, PTL DEF Spec

(* Rows keep their columns' types, requests their places and locals.       *)
THEOREM TypeCorrect == Spec => []TypeOK
BY Invariance, PTL DEF IInv

(* Whatever ran beside its removal, nothing issued on a removed device is  *)
(* live, for any number of families, requests and devices.                 *)
THEOREM RemovalIsComplete == Spec => []RemovedDeviceHoldsNothing
BY Invariance, PTL DEF IInv

(* Sessions implements LoginChains: tokens are used once, and a chain that *)
(* any revocation closed never issues again.                               *)
THEOREM ChainsAreKept == Spec => KeepsLoginChains
<1>1. Init => Chains!Init
  <2> SUFFICES ASSUME Init PROVE Chains!Init
    OBVIOUS
  <2>1. PICK old \in SUBSET {c \in Cred : c[2] = 1} :
           /\ family = [f \in Fam |-> IF <<f, 1>> \in old THEN "active" ELSE "none"]
           /\ token = [c \in Cred |-> IF c \in old THEN "live" ELSE "none"]
           /\ session = [c \in Cred |-> IF c \in old THEN "revoked" ELSE "none"]
    BY DEF Init
  <2>2. \A c \in old : c = <<c[1], 1>> /\ c[1] \in Fam /\ family[c[1]] = "active"
    BY <2>1, SessionAssumption
  <2>3. /\ {c \in Live(token) : family[c[1]] = "active"} = old
        /\ {c \in Cred : session[c] # "none"} = old
        /\ Live(session) = {}
    BY <2>1, <2>2 DEF Live
  <2> QED BY <2>2, <2>3 DEF Chains!Init
<1>2. IInv /\ [Next]_vars => [Chains!Next]_(Chains!chainVars)
  BY StepKeeps DEF ChainStep
<1> QED BY <1>1, <1>2, Invariance, PTL DEF Spec, KeepsLoginChains, Chains!Spec
-----------------------------------------------------------------------------
(* What a request answers about its revocations.                           *)

(* The hypothesis: a publication can take all that waits.  Past it the     *)
(* answer is wrong (publishPendingSessionRevocations takes the oldest 200  *)
(* rows and answers for all).                                              *)
OneBatch == Cardinality(Pending) <= BatchLimit

Issued == {c \in Cred : session[c] # "none"}

(* What was revoked by work q is queued, in its batch or denied: its rows  *)
(* cannot leave the queue before they are in Redis, whoever takes them.    *)
Accounted(q) ==
    /\ q.pc = "publish" => \A c \in q.revoked : outbox[c] # "none"
    /\ q.pc = "write" => q.revoked \subseteq q.batch \cup deny
    /\ q.pc = "deny" => q.revoked \subseteq q.batch
    /\ q.pc = "mark" /\ q.ok => q.batch \cup q.revoked \subseteq deny
    /\ q.pc = "told" /\ q.ok => q.revoked \subseteq deny

QueueIsTrue ==
    \A c \in Cred : /\ outbox[c] # "none" => c \in Issued
                    /\ outbox[c] = "published" => c \in deny

AllAccounted == \A r \in Handler : Accounted(request[r])

ReportInv == IsFiniteSet(Issued) /\ QueueIsTrue /\ AllAccounted

(* Rows stay in the queue's table and keys in Redis.                       *)
Lasting ==
    /\ deny \subseteq deny'
    /\ \A c \in Cred : outbox[c] # "none" => outbox'[c] # "none"

LEMMA StaysAccounted ==
    ASSUME NEW q \in Work, Accounted(q), Lasting
    PROVE  Accounted(q)'
BY DEF Accounted, Lasting, Work

LEMMA AllStayAccounted ==
    ASSUME IInv, AllAccounted, Lasting, UNCHANGED request
    PROVE  AllAccounted'
<1> SUFFICES ASSUME NEW r \in Handler PROVE Accounted(request[r])'
  BY DEF AllAccounted
<1>1. PICK q \in Work : q = request[r]
  BY DEF IInv, TypeOK
<1>2. Accounted(q)'
  BY <1>1, StaysAccounted DEF AllAccounted
<1> QED BY <1>1, <1>2

LEMMA TurnAccounted ==
    ASSUME IInv, AllAccounted, Lasting, NEW r \in Handler, NEW work \in Work,
           Turn(r, work), Accounted(work)'
    PROVE  AllAccounted'
<1>1. \A x \in Handler : request'[x] = IF x = r THEN work ELSE request[x]
  BY TurnTyped
<1> SUFFICES ASSUME NEW x \in Handler PROVE Accounted(request[x])'
  BY DEF AllAccounted
<1>2. CASE x = r
  <2>1. request'[x] = work
    BY <1>1, <1>2
  <2> QED BY <2>1
<1>3. CASE x # r
  <2>1. PICK q \in Work : q = request[x]
    BY DEF IInv, TypeOK
  <2>2. Accounted(q)' /\ request'[x] = q
    BY <1>1, <1>3, <2>1, StaysAccounted DEF AllAccounted
  <2> QED BY <2>2
<1> QED BY <1>2, <1>3

(* Finitely many credentials are ever issued, hence queued.                *)
LEMMA IssuedStaysFinite ==
    ASSUME IsFiniteSet(Issued), ChainStep
    PROVE  IsFiniteSet(Issued') /\ Issued \subseteq Issued'
<1>1. CASE Issued' = Issued
  BY <1>1
<1>2. CASE \E c \in Cred : Issued' = Issued \cup {c}
  BY <1>2, FS_AddElement
<1> QED
  BY <1>1, <1>2 DEF ChainStep, Chains!Next, Chains!chainVars, Chains!Start, Chains!Advance,
     Chains!Replace, Chains!Revoke, Chains!Issue, Issued

LEMMA WholeBatch ==
    ASSUME ReportInv, OneBatch, NEW batch \in SUBSET Pending,
           batch = Pending \/ Cardinality(batch) = BatchLimit
    PROVE  batch = Pending
<1>1. Pending \in SUBSET Issued
  BY DEF ReportInv, QueueIsTrue, Pending
<1>2. IsFiniteSet(Pending)
  BY <1>1, FS_Subset DEF ReportInv
<1>3. Cardinality(batch) <= Cardinality(Pending) /\ IsFiniteSet(batch)
  BY <1>2, FS_Subset
<1>4. Cardinality(batch) \in Nat /\ Cardinality(Pending) \in Nat /\ BatchLimit \in Nat
  BY <1>2, <1>3, FS_CardinalityType, SessionAssumption
<1>5. Cardinality(batch) = Cardinality(Pending)
  BY <1>3, <1>4 DEF OneBatch
<1> QED BY <1>2, <1>5, FS_Subset

(* A revocation queues what it takes.                                      *)
LEMMA RevokeAccounted ==
    ASSUME IInv, ReportInv, NEW r \in Handler, NEW S, NEW T, NEW A,
           Revoke(r, S, T, A), UNCHANGED deny, Issued \subseteq Issued'
    PROVE  QueueIsTrue' /\ AllAccounted'
<1> DEFINE newly == A \cap Live(session)
           work == [NoWork EXCEPT !.pc = "publish", !.revoked = newly]
<1>1. /\ outbox' = [c \in Cred |-> IF c \in newly THEN "pending" ELSE outbox[c]]
      /\ Turn(r, work)
  BY DEF Revoke
<1>2. newly \subseteq Cred /\ newly \subseteq Issued
  BY DEF Live, Issued
<1>3. work \in Work /\ work.pc = "publish" /\ work.revoked = newly
  BY <1>2 DEF NoWork, Work
<1>4. PICK taken \in SUBSET Cred : taken = newly
  BY <1>2
<1> HIDE DEF newly, work
<1>5. PICK w \in Work : Turn(r, w) /\ w.pc = "publish" /\ w.revoked = taken
  BY <1>1, <1>3, <1>4
<1>6. Lasting
  BY <1>1 DEF Lasting
<1>7. QueueIsTrue'
  BY <1>1, <1>2 DEF ReportInv, QueueIsTrue
<1>8. Accounted(w)'
  BY <1>1, <1>4, <1>5 DEF Accounted
<1> QED BY <1>5, <1>6, <1>7, <1>8, TurnAccounted DEF ReportInv

(* The steps of a publication, by whichever request or job.                *)
LEMMA PublishAccounted ==
    ASSUME IInv, ReportInv, OneBatch, NEW r \in Handler,
           PublishRead(r) \/ DenyAll(r) \/ DenyFails(r) \/ PublishMark(r)
    PROVE  QueueIsTrue' /\ AllAccounted'
<1> DEFINE q == request[r]
<1>0. /\ q \in Work /\ Accounted(q)
      /\ q.revoked \subseteq Cred /\ q.batch \subseteq Cred /\ Pending \subseteq Cred
      /\ Issued' = Issued
  <2>1. q \in Work /\ Accounted(q)
    BY DEF IInv, TypeOK, ReportInv, AllAccounted
  <2>2. q.revoked \subseteq Cred /\ q.batch \subseteq Cred /\ Pending \subseteq Cred
    BY <2>1 DEF Work, Pending
  <2>3. session' = session
    BY DEF PublishRead, DenyAll, DenyFails, PublishMark, rows
  <2> QED BY <2>1, <2>2, <2>3 DEF Issued
<1>1. CASE PublishRead(r)
  <2>1. q.pc = "publish" /\ UNCHANGED <<outbox, deny>>
    BY <1>1 DEF PublishRead, rows
  <2>2. \A c \in q.revoked : c \in Pending \cup deny
    BY <1>0, <2>1 DEF Accounted, ReportInv, QueueIsTrue, IInv, TypeOK, Pending
  <2>3. QueueIsTrue'
    BY <1>0, <2>1 DEF ReportInv, QueueIsTrue
  <2>4. Lasting
    BY <2>1 DEF Lasting
  <2>5. CASE Pending = {}
    <3> DEFINE work == [q EXCEPT !.pc = "told", !.ok = TRUE]
    <3>1. Turn(r, work)
      BY <1>1, <2>5 DEF PublishRead
    <3>2. work \in Work /\ work.pc = "told" /\ work.revoked = q.revoked
      BY <1>0 DEF Work
    <3> HIDE DEF work
    <3>3. PICK w \in Work : Turn(r, w) /\ w.pc = "told" /\ w.revoked = q.revoked
      BY <3>1, <3>2
    <3>4. Accounted(w)'
      BY <2>1, <2>2, <2>5, <3>3 DEF Accounted
    <3> QED BY <2>3, <2>4, <3>3, <3>4, TurnAccounted DEF ReportInv
  <2>6. CASE Pending # {}
    <3>1. PICK batch \in SUBSET Pending :
            /\ batch = Pending \/ Cardinality(batch) = BatchLimit
            /\ Turn(r, [q EXCEPT !.pc = "write", !.batch = batch])
      BY <1>1, <2>6 DEF PublishRead
    <3>2. batch = Pending
      BY <3>1, WholeBatch
    <3> DEFINE work == [q EXCEPT !.pc = "write", !.batch = batch]
    <3>3. work \in Work /\ work.pc = "write" /\ work.revoked = q.revoked /\ work.batch = batch
      BY <1>0 DEF Work
    <3>4. Turn(r, work)
      BY <3>1
    <3> HIDE DEF work
    <3>5. PICK w \in Work : /\ Turn(r, w)
                            /\ w.pc = "write" /\ w.revoked = q.revoked /\ w.batch = batch
      BY <3>3, <3>4
    <3>6. Accounted(w)'
      BY <2>1, <2>2, <3>2, <3>5 DEF Accounted
    <3> QED BY <2>3, <2>4, <3>5, <3>6, TurnAccounted DEF ReportInv
  <2> QED BY <2>5, <2>6
<1>2. CASE DenyAll(r) \/ DenyFails(r)
  <2>1. PICK ok \in BOOLEAN :
          /\ Turn(r, [q EXCEPT !.pc = AfterWrite(r), !.ok = ok])
          /\ ok => deny' = deny \cup q.batch
    BY <1>2 DEF DenyAll, DenyFails
  <2>2. q.pc \in {"write", "deny"} /\ UNCHANGED outbox /\ deny \subseteq deny'
    BY <1>2 DEF DenyAll, DenyFails, rows
  <2> DEFINE work == [q EXCEPT !.pc = AfterWrite(r), !.ok = ok]
  <2>3. /\ work \in Work /\ work.pc \in {"mark", "told"} /\ work.ok = ok
        /\ work.revoked = q.revoked /\ work.batch = q.batch
    BY <1>0 DEF Work, AfterWrite
  <2>4. Turn(r, work)
    BY <2>1
  <2> HIDE DEF work
  <2>5. PICK w \in Work : /\ Turn(r, w)
                          /\ w.pc \in {"mark", "told"} /\ w.ok = ok
                          /\ w.revoked = q.revoked /\ w.batch = q.batch
    BY <2>3, <2>4
  <2>6. w.revoked \subseteq w.batch \cup deny
    BY <1>0, <2>2, <2>5 DEF Accounted
  <2>7. Accounted(w)'
    BY <2>1, <2>5, <2>6, <2>2 DEF Accounted
  <2>8. Lasting
    BY <2>2 DEF Lasting
  <2>9. QueueIsTrue'
    BY <1>0, <2>2 DEF ReportInv, QueueIsTrue
  <2> QED BY <2>5, <2>7, <2>8, <2>9, TurnAccounted DEF ReportInv
<1>3. CASE PublishMark(r)
  <2> DEFINE work == [q EXCEPT !.pc = "told", !.batch = {}]
  <2>1. q.pc = "mark" /\ deny' = deny /\ Turn(r, work)
    BY <1>3 DEF PublishMark
  <2>2. work \in Work /\ work.pc = "told" /\ work.ok = q.ok /\ work.revoked = q.revoked
    BY <1>0 DEF Work
  <2> HIDE DEF work
  <2>3. \A c \in Cred : outbox'[c] = outbox[c] \/
          (outbox[c] = "pending" /\ outbox'[c] = "published" /\ q.ok /\ c \in q.batch)
    BY <1>3 DEF PublishMark, Pending
  <2>4. Lasting
    BY <2>1, <2>3 DEF Lasting
  <2>5. QueueIsTrue'
    BY <1>0, <2>1, <2>3 DEF ReportInv, QueueIsTrue, Accounted
  <2>6. PICK w \in Work : /\ Turn(r, w)
                          /\ w.pc = "told" /\ w.ok = q.ok /\ w.revoked = q.revoked
    BY <2>1, <2>2
  <2>7. w.ok => w.revoked \subseteq deny
    BY <1>0, <2>1, <2>6 DEF Accounted
  <2>8. Accounted(w)'
    BY <2>1, <2>6, <2>7 DEF Accounted
  <2> QED BY <2>4, <2>5, <2>6, <2>8, TurnAccounted DEF ReportInv
<1> QED BY <1>1, <1>2, <1>3

(* A request that begins, ends or dies.                                    *)
LEMMA OtherAccounted ==
    ASSUME IInv, ReportInv, NEW r \in Handler, NEW work \in Work, Turn(r, work),
           work.pc \in {"idle", "sweep", "change", "publish", "deny"},
           work.pc = "publish" => work.revoked = {},
           work.pc = "deny" => work.revoked = work.batch,
           UNCHANGED <<outbox, deny>>, Issued \subseteq Issued'
    PROVE  QueueIsTrue' /\ AllAccounted'
<1>1. Lasting
  BY DEF Lasting
<1>2. Accounted(work)'
  BY DEF Accounted
<1> QED BY <1>1, <1>2, TurnAccounted DEF ReportInv, QueueIsTrue

LEMMA ReportStep ==
    ASSUME IInv, ReportInv, OneBatch, [Next]_vars
    PROVE  ReportInv'
<1>1. IsFiniteSet(Issued') /\ Issued \subseteq Issued'
  BY StepKeeps, IssuedStaysFinite DEF ReportInv
<1> SUFFICES QueueIsTrue' /\ AllAccounted'
  BY <1>1 DEF ReportInv
<1>2. ASSUME UNCHANGED <<outbox, deny, request>>
      PROVE  QueueIsTrue' /\ AllAccounted'
  BY <1>1, <1>2, AllStayAccounted DEF Lasting, ReportInv, QueueIsTrue
<1>3. CASE \/ \E c \in Cred, d \in Device : Login(c, d)
           \/ \E c \in Cred : RegisterUnbound(c)
           \/ \E c, next \in Cred, d \in Device : Rotate(c, next, d)
           \/ UNCHANGED vars
  BY <1>2, <1>3 DEF Login, RegisterUnbound, Rotate, vars
<1>4. ASSUME NEW r \in Request,
             \/ \E c \in Cred, d \in Device : RefuseRotation(r, c, d)
             \/ \E c \in Cred : RevokeSession(r, c)
             \/ \E d \in Device : RemoveDevice(r, d)
             \/ Sweep(r)
      PROVE  QueueIsTrue' /\ AllAccounted'
  <2>1. r \in Handler
    BY DEF Handler
  <2>2. PICK S, T, A : Revoke(r, S, T, A) /\ UNCHANGED deny
    BY <1>4 DEF RefuseRotation, RevokeSession, RemoveDevice, Sweep, RevokeFamilies
  <2> QED BY <1>1, <2>1, <2>2, RevokeAccounted
<1>9. ASSUME NEW r \in Request, ChangeBegins(r)
      PROVE  QueueIsTrue' /\ AllAccounted'
  <2> DEFINE work == [NoWork EXCEPT !.pc = "change",
                                    !.fams = {f \in Fam : family[f] = "active"}]
  <2>1. r \in Handler /\ Turn(r, work) /\ UNCHANGED <<outbox, deny>>
    BY <1>9 DEF Handler, ChangeBegins, rows
  <2>2. work \in Work /\ work.pc = "change"
    BY DEF NoWork, Work
  <2> HIDE DEF work
  <2> QED BY <1>1, <2>1, <2>2, OtherAccounted
<1>5. ASSUME NEW r \in Request, NEW c \in Cred, RevokeUnbound(r, c) \/ RevokeOthers(r, c)
      PROVE  QueueIsTrue' /\ AllAccounted'
  <2>0. r \in Handler /\ Live(token) \subseteq Cred /\ UNCHANGED <<outbox, deny>>
    BY <1>5 DEF Handler, Live, RevokeUnbound, RevokeOthers, rows
  <2>1. PICK work \in Work : Turn(r, work) /\ work.pc = "sweep"
    BY <1>5, SelectionTyped
  <2> QED BY <1>1, <2>0, <2>1, OtherAccounted
<1>6. ASSUME NEW r \in Request, NEW c \in Cred, ChangePassword(r, c)
      PROVE  QueueIsTrue' /\ AllAccounted'
  <2> DEFINE gone == {x \in Cred : session[x] # "none"}
             work == [NoWork EXCEPT !.pc = "deny", !.revoked = gone, !.batch = gone]
  <2>1. r \in Handler /\ Turn(r, work) /\ UNCHANGED <<outbox, deny>>
    BY <1>6 DEF Handler, ChangePassword
  <2>2. work \in Work /\ work.pc = "deny" /\ work.revoked = work.batch
    BY DEF NoWork, Work
  <2> HIDE DEF work
  <2> QED BY <1>1, <2>1, <2>2, OtherAccounted
<1>7. ASSUME NEW r \in Handler, Repair(r) \/ Tell(r) \/ Crash(r)
      PROVE  QueueIsTrue' /\ AllAccounted'
  <2> DEFINE again == [NoWork EXCEPT !.pc = "publish"]
  <2>1. /\ NoWork \in Work /\ NoWork.pc = "idle"
        /\ again \in Work /\ again.pc = "publish" /\ again.revoked = {}
    BY DEF NoWork, Work
  <2>2. Turn(r, NoWork) \/ Turn(r, again)
    BY <1>7 DEF Repair, Tell, Crash
  <2>3. UNCHANGED <<outbox, deny>>
    BY <1>7 DEF Repair, Tell, Crash, rows
  <2> HIDE DEF again
  <2>4. CASE Turn(r, NoWork)
    BY <1>1, <2>1, <2>3, <2>4, OtherAccounted
  <2>5. CASE Turn(r, again)
    BY <1>1, <2>1, <2>3, <2>5, OtherAccounted
  <2> QED BY <2>2, <2>4, <2>5
<1>8. ASSUME NEW r \in Handler, PublishRead(r) \/ DenyAll(r) \/ DenyFails(r) \/ PublishMark(r)
      PROVE  QueueIsTrue' /\ AllAccounted'
  BY <1>8, PublishAccounted
<1> QED BY <1>3, <1>4, <1>5, <1>6, <1>7, <1>8, <1>9 DEF Next, Handler

LEMMA ReportInit == Init => ReportInv
<1> SUFFICES ASSUME Init PROVE ReportInv
  OBVIOUS
<1>0. PICK old \in SUBSET Cred :
         /\ IsFiniteSet(old)
         /\ session = [c \in Cred |-> IF c \in old THEN "revoked" ELSE "none"]
  BY DEF Init
<1>1. Issued = old /\ QueueIsTrue
  BY <1>0 DEF Init, Issued, QueueIsTrue
<1>2. AllAccounted
  BY DEF Init, AllAccounted, Accounted, NoWork
<1> QED BY <1>0, <1>1, <1>2 DEF ReportInv

(* As long as no account has more revocations waiting than one publication *)
(* takes, a request answers that all is revoked only when Redis denies     *)
(* every session it revoked, with any number of other publishers, failures *)
(* and crashes beside it.                                                  *)
THEOREM ReportsAreTrue == Spec /\ []OneBatch => []ReportIsTrue
<1>1. IInv /\ ReportInv /\ OneBatch /\ [Next]_vars => ReportInv'
  BY ReportStep
<1>2. ReportInv => ReportIsTrue
  BY DEF ReportInv, AllAccounted, Accounted, ReportIsTrue
<1> QED BY <1>1, <1>2, ReportInit, Invariance, PTL DEF Spec
================================================================================
