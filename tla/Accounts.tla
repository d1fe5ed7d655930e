------------------------------ MODULE Accounts ------------------------------
(***************************************************************************)
(* Users, their sessions and the login lockout (auth_svc.py,               *)
(* admin/users.py, admin/auth.py, portal/auth.py, repos.py, main.py,       *)
(* bootstrap.py). A request reads outside of any transaction and decides;  *)
(* from its first write to its commit it is alone. Between the two, other  *)
(* requests run: that is what a step boundary is here.                     *)
(* Passwords are versions: every change makes a new one. A user stands for *)
(* the username and the row id, which is reused after a deletion.          *)
(***************************************************************************)
EXTENDS Integers, FiniteSets

CONSTANTS Users,      \* usernames, with the ids of their rows
          Builtin,    \* ADMIN_USERNAME
          Requests,   \* concurrent requests
          Mistyped,   \* usernames that are tried with a wrong password
          Patches,    \* bodies of PATCH that are sent
          Threshold,  \* LOCK_THRESHOLD
          MaxPw,      \* bounds: passwords ever set,
          MaxTokens,  \*   session tokens ever issued,
          MaxRows,    \*   ids of admin_sessions,
          MaxFails    \*   failures counted for one username

Passwords == 0 .. MaxPw      \* 0: no password_hash
Tokens    == 0 .. MaxTokens  \* 0: none
RowIds    == 1 .. MaxRows

Accounts == [role : {"none", "user", "admin"}, enabled : BOOLEAN, pw : Passwords]
Absent   == [role |-> "none", enabled |-> FALSE, pw |-> 0]

(* History: pw is the password the session was opened with, left is set    *)
(* where a change of password leaves the session as it is.                 *)
Row   == [tok : Tokens, user : Users, live : BOOLEAN, pw : Passwords, left : BOOLEAN]
NoRow == [tok |-> 0, user |-> Builtin, live |-> FALSE, pw |-> 0, left |-> FALSE]

AnyPatch == [enabled : {"keep", "on", "off"}, role : {"keep", "user", "admin"},
             password : BOOLEAN]

(* Where a request stands, the plane it came in by, the user it names or   *)
(* is about, its session token, the id of the session row it has read, the *)
(* password of a login, what a PATCH is going to write.                    *)
NoPatch == [enabled |-> "keep", role |-> "keep", password |-> FALSE]
Frames  == [pc : {"idle", "checked", "issue", "verified", "in", "changing",
                  "patching", "deleting"},
            plane : {"admin", "portal"}, who : Users, tok : Tokens, rowid : 0 .. MaxRows,
            typed : Passwords, patch : AnyPatch]
Idle    == [pc |-> "idle", plane |-> "portal", who |-> Builtin, tok |-> 0, rowid |-> 0,
            typed |-> 0, patch |-> NoPatch]

ASSUME UsersAssumption == Builtin \in Users /\ Mistyped \subseteq Users /\ IsFiniteSet(Requests)
ASSUME PatchesAssumption == Patches \subseteq AnyPatch
ASSUME BoundsAssumption ==
    /\ Threshold \in Nat \ {0} /\ MaxPw \in Nat \ {0} /\ MaxTokens \in Nat
    /\ MaxRows \in Nat /\ MaxFails \in Nat

VARIABLES
    account,    \* users: the committed rows
    rows,       \* admin_sessions: the committed rows, by id
    fails,      \* _lock_state: failures within LOCK_SECONDS, per username
    req,        \* what each request holds
    lastPw, issued  \* history: passwords and tokens so far

db   == <<account, rows>>
hist == <<lastPw, issued>>
vars == <<db, fails, req, hist>>

Exists(u)  == account[u].role # "none"
Admins     == {u \in Users : account[u].role = "admin" /\ account[u].enabled}
Used       == {i \in RowIds : rows[i] # NoRow}
Live       == {rows[i].tok : i \in Used}
SessionsOf(u) == {i \in Used : rows[i].user = u}

(* bootstrap on an empty database: the built-in administrator with its     *)
(* first password.                                                         *)
Init ==
    /\ account = [u \in Users |->
           IF u = Builtin THEN [role |-> "admin", enabled |-> TRUE, pw |-> 1] ELSE Absent]
    /\ rows = [i \in RowIds |-> NoRow]
    /\ fails = [u \in Users |-> 0]
    /\ req = [r \in Requests |-> Idle]
    /\ lastPw = 1 /\ issued = 0

Goto(r, frame) == req' = [req EXCEPT ![r] = frame]
Done(r)        == Goto(r, Idle)
At(r, label)   == req[r].pc = label

-----------------------------------------------------------------------------
(* Login and lockout                                                       *)

(* Mutant of Locked: nobody is ever locked out.                            *)
SlipNoLockout(n) == FALSE

Locked(n) == fails[n] >= Threshold

(* The lockout is looked at before the user is read. The password given is *)
(* the right one or not.                                                   *)
LoginCheck(r, n, p) ==
    /\ At(r, "idle")
    /\ ~Locked(n)
    /\ Goto(r, [Idle EXCEPT !.pc = "checked", !.who = n, !.typed = p])
    /\ UNCHANGED <<db, fails, hist>>

Matches(row, p) == row.role # "none" /\ row.enabled /\ row.pw # 0 /\ row.pw = p

(* The user is read and the password checked, without an await in between. *)
(* On the admin plane the session of a plain user is written and deleted   *)
(* in one transaction: nothing of it is ever seen.                         *)
LoginVerify(r, pl) ==
    LET n   == req[r].who
        row == account[n] IN
    /\ At(r, "checked")
    /\ fails[n] < MaxFails
    /\ IF Matches(row, req[r].typed)
       THEN /\ IF pl = "admin" => row.role = "admin"
               THEN Goto(r, [req[r] EXCEPT !.pc = "issue"]) ELSE Done(r)
            /\ fails' = [fails EXCEPT ![n] = 0]
       ELSE /\ Done(r)
            /\ fails' = [fails EXCEPT ![n] = @ + 1]
    /\ UNCHANGED <<db, hist>>

MaxId == CHOOSE i \in 0 .. MaxRows : i \in Used \cup {0} /\ \A j \in Used : j <= i

(* The session row; without the user the foreign key refuses it.           *)
LoginIssue(r) ==
    LET n == req[r].who IN
    /\ At(r, "issue")
    /\ Done(r)
    /\ IF Exists(n)
       THEN /\ issued < MaxTokens /\ MaxId < MaxRows
            /\ issued' = issued + 1
            /\ rows' = [rows EXCEPT ![MaxId + 1] =
                   [tok |-> issued + 1, user |-> n, live |-> TRUE,
                    pw |-> req[r].typed, left |-> account[n].pw # req[r].typed]]
       ELSE UNCHANGED <<rows, issued>>
    /\ UNCHANGED <<account, fails, lastPw>>

(* The oldest failure leaves the window.                                   *)
FailureExpires(n) ==
    /\ fails[n] > 0
    /\ fails' = [fails EXCEPT ![n] = @ - 1]
    /\ UNCHANGED <<db, req, hist>>

-----------------------------------------------------------------------------
(* Sessions                                                                *)

(* expires_at goes by.                                                     *)
SessionExpires(i) ==
    /\ i \in Used /\ rows[i].live
    /\ rows' = [rows EXCEPT ![i].live = FALSE]
    /\ UNCHANGED <<account, fails, req, hist>>

(* find_valid_session and the role; anything else is a 401 or a 403.       *)
VerifyRead(r, i, pl) ==
    LET u == rows[i].user IN
    /\ At(r, "idle")
    /\ i \in Used /\ rows[i].live
    /\ Exists(u) /\ account[u].enabled
    /\ pl = "admin" => account[u].role = "admin"
    /\ Goto(r, [Idle EXCEPT !.pc = "verified", !.plane = pl, !.who = u,
                            !.tok = rows[i].tok, !.rowid = i])
    /\ UNCHANGED <<db, fails, hist>>

(* Mutant of VerifyRenew: the row is written back as it was read.          *)
SlipUpsert(r) ==
    LET i == req[r].rowid IN
    /\ At(r, "verified")
    /\ Goto(r, [req[r] EXCEPT !.pc = "in", !.rowid = 0])
    /\ rows' = [rows EXCEPT ![i] = [NoRow EXCEPT !.tok = req[r].tok, !.user = req[r].who,
                           !.pw = account[req[r].who].pw, !.live = TRUE]]
    /\ UNCHANGED <<account, fails, hist>>

(* The renewal updates the row by its id; when there is none any more the  *)
(* request ends in an error, and the id may be another session's by now.   *)
VerifyRenew(r) ==
    LET i == req[r].rowid IN
    /\ At(r, "verified")
    /\ IF i \in Used
       THEN /\ Goto(r, [req[r] EXCEPT !.pc = "in", !.rowid = 0])
            /\ rows' = [rows EXCEPT ![i].live = TRUE]
       ELSE Done(r) /\ UNCHANGED rows
    /\ UNCHANGED <<account, fails, hist>>

(* revoke_session: not authenticated, and nothing to do without a row.     *)
Logout(t) ==
    /\ t \in Live
    /\ rows' = [i \in RowIds |-> IF rows[i].tok = t THEN NoRow ELSE rows[i]]
    /\ UNCHANGED <<account, fails, req, hist>>

(* Any other endpoint: it reads, or refuses.                               *)
Leave(r) ==
    /\ At(r, "in")
    /\ Done(r)
    /\ UNCHANGED <<db, fails, hist>>

-----------------------------------------------------------------------------
(* Passwords. keep is the token that revoke_user_sessions spares, 0: none. *)

(* Mutant of Revoke: the sessions are left alone.                          *)
SlipRevokeNone(u, keep) == rows

Revoke(u, keep) ==
    [i \in RowIds |-> IF rows[i].user = u /\ rows[i].tok # keep THEN NoRow ELSE rows[i]]

(* The one who changed it holds the new password: the spared row has it.   *)
SetPassword(u, keep) ==
    LET rest == Revoke(u, keep) IN
    /\ lastPw < MaxPw
    /\ lastPw' = lastPw + 1
    /\ account' = [account EXCEPT ![u].pw = lastPw + 1]
    /\ rows' = [i \in RowIds |-> IF keep # 0 /\ rest[i].tok = keep
                                 THEN [rest[i] EXCEPT !.pw = lastPw + 1, !.left = FALSE]
                                 ELSE rest[i]]

(* change_password of the caller: the old password is checked on the row   *)
(* as read; a wrong one is a 400 (Leave).                                  *)
SelfRead(r) ==
    /\ At(r, "in")
    /\ Exists(req[r].who) /\ account[req[r].who].pw # 0
    /\ Goto(r, [req[r] EXCEPT !.pc = "changing"])
    /\ UNCHANGED <<db, fails, hist>>

SelfWrite(r) ==
    /\ At(r, "changing")
    /\ Done(r)
    /\ IF Exists(req[r].who)
       THEN SetPassword(req[r].who, req[r].tok)
       ELSE UNCHANGED <<account, rows, lastPw>>
    /\ UNCHANGED <<fails, issued>>

InAdmin(r) == At(r, "in") /\ req[r].plane = "admin"

(* reset_user_password                                                     *)
ResetPassword(r, u) ==
    /\ InAdmin(r)
    /\ Exists(u)
    /\ SetPassword(u, 0)
    /\ Done(r)
    /\ UNCHANGED <<fails, issued>>

-----------------------------------------------------------------------------
(* Administration of users                                                 *)

CreateUser(r, u, role, withPw) ==
    /\ InAdmin(r)
    /\ ~Exists(u)
    /\ role = "admin" => withPw
    /\ withPw => lastPw < MaxPw
    /\ account' = [account EXCEPT ![u] =
           [role |-> role, enabled |-> TRUE, pw |-> IF withPw THEN lastPw + 1 ELSE 0]]
    /\ lastPw' = IF withPw THEN lastPw + 1 ELSE lastPw
    /\ Done(r)
    /\ UNCHANGED <<rows, fails, issued>>

(* Mutant of MayDemote: only the count protects.                           *)
SlipCountOnly(u) == account[u].role = "admin" => Admins \ {u} # {}

(* _assert_can_demote_or_disable                                           *)
MayDemote(u) == u # Builtin /\ (account[u].role = "admin" => Admins \ {u} # {})

Demoting(p) == p.enabled = "off" \/ p.role = "user"

(* Only the columns that differ from the row as read are written.          *)
Changes(p, row) ==
    [enabled  |-> IF p.enabled = IF row.enabled THEN "on" ELSE "off" THEN "keep" ELSE p.enabled,
     role     |-> IF p.role = row.role THEN "keep" ELSE p.role,
     password |-> p.password]

(* update_user up to its first write                                       *)
PatchRead(r, u, p) ==
    /\ InAdmin(r)
    /\ Exists(u)
    /\ Demoting(p) => MayDemote(u)
    /\ p.role = "admin" /\ account[u].role # "admin" => p.password \/ account[u].pw # 0
    /\ Goto(r, [Idle EXCEPT !.pc = "patching", !.who = u, !.patch = Changes(p, account[u])])
    /\ UNCHANGED <<db, fails, hist>>

Patched(row, p) ==
    [role    |-> IF p.role = "keep" THEN row.role ELSE p.role,
     enabled |-> IF p.enabled = "keep" THEN row.enabled ELSE p.enabled = "on",
     pw      |-> IF p.password THEN lastPw + 1 ELSE row.pw]

(* The sessions stay as they are. A row that is gone is an error.          *)
PatchWrite(r) ==
    LET u == req[r].who
        p == req[r].patch IN
    /\ At(r, "patching")
    /\ Done(r)
    /\ p.password /\ Exists(u) => lastPw < MaxPw
    /\ IF Exists(u)
       THEN /\ account' = [account EXCEPT ![u] = Patched(@, p)]
            /\ lastPw' = IF p.password THEN lastPw + 1 ELSE lastPw
            /\ rows' = [i \in RowIds |-> IF p.password /\ i \in SessionsOf(u)
                                         THEN [rows[i] EXCEPT !.left = TRUE] ELSE rows[i]]
       ELSE UNCHANGED <<account, lastPw, rows>>
    /\ UNCHANGED <<fails, issued>>

DeleteRead(r, u) ==
    /\ InAdmin(r)
    /\ Exists(u) /\ MayDemote(u)
    /\ Goto(r, [Idle EXCEPT !.pc = "deleting", !.who = u])
    /\ UNCHANGED <<db, fails, hist>>

(* delete_user_cascade, whatever has become of the row.                    *)
DeleteWrite(r) ==
    /\ At(r, "deleting")
    /\ Done(r)
    /\ account' = [account EXCEPT ![req[r].who] = Absent]
    /\ rows' = Revoke(req[r].who, 0)
    /\ UNCHANGED <<fails, hist>>

-----------------------------------------------------------------------------
(* Restarts                                                                *)

(* The process dies and lifespan runs: memory is read anew, sessions that  *)
(* expired long ago are purged, an administrator is made if none is left.  *)
Restart ==
    /\ req' = [r \in Requests |-> Idle]
    /\ fails' = [u \in Users |-> 0]
    /\ \E gone \in SUBSET {i \in Used : ~rows[i].live} :
           rows' = [i \in RowIds |-> IF i \in gone THEN NoRow ELSE rows[i]]
    /\ IF Admins # {} THEN UNCHANGED <<account, lastPw>>
       ELSE /\ ~Exists(Builtin) /\ lastPw < MaxPw
            /\ account' = [account EXCEPT ![Builtin] =
                   [role |-> "admin", enabled |-> TRUE, pw |-> lastPw + 1]]
            /\ lastPw' = lastPw + 1
    /\ UNCHANGED issued

-----------------------------------------------------------------------------
Authenticate(r) ==
    \/ \E n \in Users :
           \/ LoginCheck(r, n, account[n].pw)
           \/ n \in Mistyped /\ LoginCheck(r, n, 0)
    \/ \E pl \in {"admin", "portal"} :
           \/ LoginVerify(r, pl)
           \/ \E i \in RowIds : VerifyRead(r, i, pl)
    \/ LoginIssue(r) \/ VerifyRenew(r) \/ Leave(r)

Administer(r) ==
    \/ SelfRead(r) \/ SelfWrite(r) \/ PatchWrite(r) \/ DeleteWrite(r)
    \/ \E u \in Users :
           \/ ResetPassword(r, u) \/ DeleteRead(r, u)
           \/ \E p \in Patches : PatchRead(r, u, p)
           \/ \E role \in {"user", "admin"}, withPw \in BOOLEAN : CreateUser(r, u, role, withPw)

Next ==
    \/ \E r \in Requests : Authenticate(r) \/ Administer(r)
    \/ \E n \in Users : FailureExpires(n)
    \/ \E i \in RowIds : SessionExpires(i)
    \/ \E t \in 1 .. MaxTokens : Logout(t)
    \/ Restart

Spec == Init /\ [][Next]_vars

-----------------------------------------------------------------------------
TypeOK ==
    /\ account \in [Users -> Accounts]
    /\ rows \in [RowIds -> Row]
    /\ fails \in [Users -> 0 .. MaxFails]
    /\ req \in [Requests -> Frames]
    /\ lastPw \in 1 .. MaxPw /\ issued \in Tokens

(* FR-17: at any time somebody can administer the system, although two     *)
(* requests may count the other administrators at the same time and then   *)
(* both demote, disable or delete one (admin/users.py).                    *)
AnAdminRemains == Admins # {}

(* The lockout is checked before an await and the failure counted after    *)
(* it (auth_svc.login): attempts in flight may pass it together, but never *)
(* more than the requests there are.                                       *)
LockoutBound == \A n \in Users : fails[n] <= Threshold - 1 + Cardinality(Requests)

(* A session opened with a password that is no longer the user's is one    *)
(* that a PATCH left behind or a login that was under way when the         *)
(* password changed: every other change ends the sessions it should.       *)
OldPasswordsExplained ==
    \A i \in Used : rows[i].pw = account[rows[i].user].pw \/ rows[i].left

(* A session that has been revoked, by logout, a new password or the       *)
(* deletion of its user, never comes back, whichever request was verifying *)
(* it meanwhile (auth_svc.verify_session).                                 *)
RevokedStaysRevoked ==
    [][\A t \in 1 .. issued : t \notin Live => t \notin Live']_vars

=============================================================================
