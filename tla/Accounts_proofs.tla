-------------------------- MODULE Accounts_proofs ---------------------------
(***************************************************************************)
(* Proofs about module Accounts, for any number of users and requests. The *)
(* invariant has four parts: types; what protects the built-in             *)
(* administrator; the attempts that have passed the lockout; what rows of  *)
(* sessions and requests know of each other.                               *)
(***************************************************************************)
EXTENDS Accounts, FiniteSetTheorems, TLAPS

-----------------------------------------------------------------------------
(* Types                                                                   *)

LEMMA InitTyped == Init => TypeOK
BY UsersAssumption, BoundsAssumption
   DEF Init, TypeOK, Accounts, Absent, NoRow, Row, Passwords, Tokens, RowIds, Idle, Frames,
       NoPatch, AnyPatch

(* A frame that is well typed stays so wherever its request goes next.     *)
LEMMA GotoTyped ==
    ASSUME req \in [Requests -> Frames], NEW r \in Requests, NEW f \in Frames, Goto(r, f)
    PROVE  req' \in [Requests -> Frames]
BY DEF Goto

LEMMA IdleTyped == Idle \in Frames
BY UsersAssumption, BoundsAssumption
   DEF Idle, Frames, NoPatch, AnyPatch, Passwords, Tokens

LEMMA DoneTyped ==
    ASSUME req \in [Requests -> Frames], NEW r \in Requests, Done(r)
    PROVE  req' \in [Requests -> Frames]
BY IdleTyped, GotoTyped DEF Done

LEMMA NoRowTyped == NoRow \in Row /\ Absent \in Accounts
BY UsersAssumption, BoundsAssumption DEF NoRow, Row, Passwords, Tokens, Absent, Accounts

LEMMA RevokeTyped ==
    ASSUME TypeOK, NEW u \in Users, NEW keep
    PROVE  Revoke(u, keep) \in [RowIds -> Row]
BY NoRowTyped DEF TypeOK, Revoke

LEMMA SetPasswordTyped ==
    ASSUME TypeOK, NEW u \in Users, NEW keep, SetPassword(u, keep)
    PROVE  /\ rows' \in [RowIds -> Row]
           /\ account' \in [Users -> Accounts]
           /\ lastPw' \in 1 .. MaxPw
<1>0. lastPw < MaxPw /\ lastPw \in 1 .. MaxPw
  BY DEF TypeOK, SetPassword
<1>1. lastPw + 1 \in 1 .. MaxPw /\ lastPw + 1 \in Passwords
  BY <1>0, BoundsAssumption DEF Passwords
<1>2. lastPw' \in 1 .. MaxPw
  BY <1>1 DEF SetPassword
<1>3. account' \in [Users -> Accounts]
  BY <1>1 DEF TypeOK, SetPassword, Accounts
<1>4. rows' \in [RowIds -> Row]
  <2>1. ASSUME NEW x \in Row PROVE [x EXCEPT !.pw = lastPw + 1, !.left = FALSE] \in Row
    BY <1>1 DEF Row
  <2> QED BY <2>1, RevokeTyped DEF SetPassword
<1> QED BY <1>2, <1>3, <1>4

LEMMA AuthenticateTyped ==
    ASSUME TypeOK, NEW r \in Requests, Authenticate(r)
    PROVE  TypeOK'
<1>1. ASSUME NEW n \in Users, NEW p \in Passwords, LoginCheck(r, n, p) PROVE TypeOK'
  <2>1. [Idle EXCEPT !.pc = "checked", !.who = n, !.typed = p] \in Frames
    BY <1>1, IdleTyped DEF Frames
  <2>2. req' \in [Requests -> Frames]
    BY <1>1, <2>1, GotoTyped DEF LoginCheck, TypeOK
  <2> QED BY <1>1, <2>2 DEF LoginCheck, TypeOK, db, hist
<1>2. ASSUME NEW pl, LoginVerify(r, pl) PROVE TypeOK'
  <2>1. [req[r] EXCEPT !.pc = "issue"] \in Frames
    BY DEF TypeOK, Frames
  <2>2. req' \in [Requests -> Frames]
    BY <1>2, <2>1, GotoTyped, DoneTyped DEF LoginVerify, TypeOK
  <2>3. req[r].who \in Users
    BY DEF TypeOK, Frames
  <2>4. fails' \in [Users -> 0 .. MaxFails]
    BY <1>2, <2>3, BoundsAssumption DEF LoginVerify, TypeOK
  <2> QED BY <1>2, <2>2, <2>4 DEF LoginVerify, TypeOK, db, hist
<1>3. ASSUME LoginIssue(r) PROVE TypeOK'
  <2>1. req' \in [Requests -> Frames]
    BY <1>3, DoneTyped DEF LoginIssue, TypeOK
  <2>2. issued' \in Tokens
    BY <1>3, BoundsAssumption DEF LoginIssue, TypeOK, Tokens
  <2>3. rows' \in [RowIds -> Row]
    <3>1. req[r].who \in Users /\ req[r].typed \in Passwords
      BY DEF TypeOK, Frames
    <3>2. CASE Exists(req[r].who)
      <4> DEFINE new == [tok |-> issued + 1, user |-> req[r].who, live |-> TRUE,
                    pw |-> req[r].typed, left |-> account[req[r].who].pw # req[r].typed]
      <4>1. new \in Row
        BY <1>3, <2>2, <3>1, <3>2 DEF LoginIssue, Row
      <4>2. rows' = [rows EXCEPT ![MaxId + 1] = new]
        BY <1>3, <3>2 DEF LoginIssue
      <4> HIDE DEF new
      <4> QED BY <4>1, <4>2 DEF TypeOK
    <3>3. CASE ~Exists(req[r].who)
      BY <1>3, <3>3 DEF LoginIssue, TypeOK
    <3> QED BY <3>2, <3>3
  <2> QED BY <1>3, <2>1, <2>2, <2>3 DEF LoginIssue, TypeOK
<1>4. ASSUME NEW i \in RowIds, NEW pl \in {"admin", "portal"}, VerifyRead(r, i, pl) PROVE TypeOK'
  <2>1. [Idle EXCEPT !.pc = "verified", !.plane = pl, !.who = rows[i].user,
                     !.tok = rows[i].tok, !.rowid = i] \in Frames
    <3>1. rows[i] \in Row /\ i \in 0 .. MaxRows
      BY BoundsAssumption DEF TypeOK, RowIds
    <3>2. rows[i].user \in Users /\ rows[i].tok \in Tokens
      BY <3>1 DEF Row
    <3> QED BY <3>1, <3>2, IdleTyped DEF Frames
  <2>2. req' \in [Requests -> Frames]
    BY <1>4, <2>1, GotoTyped DEF VerifyRead, TypeOK
  <2> QED BY <1>4, <2>2 DEF VerifyRead, TypeOK, db, hist
<1>5. ASSUME VerifyRenew(r) PROVE TypeOK'
  <2>1. [req[r] EXCEPT !.pc = "in", !.rowid = 0] \in Frames
    <3>1. req[r] \in Frames /\ 0 \in 0 .. MaxRows
      BY BoundsAssumption DEF TypeOK
    <3> QED BY <3>1 DEF Frames
  <2>2. req' \in [Requests -> Frames]
    BY <1>5, <2>1, GotoTyped, DoneTyped DEF VerifyRenew, TypeOK
  <2>3. rows' \in [RowIds -> Row]
    <3>1. ASSUME NEW x \in Row PROVE [x EXCEPT !.live = TRUE] \in Row
      BY DEF Row
    <3>2. ASSUME NEW i \in Used PROVE [rows EXCEPT ![i].live = TRUE] \in [RowIds -> Row]
      BY <3>1 DEF TypeOK, Used
    <3> QED BY <1>5, <3>2 DEF VerifyRenew, TypeOK
  <2> QED BY <1>5, <2>2, <2>3 DEF VerifyRenew, TypeOK, hist
<1>6. ASSUME Leave(r) PROVE TypeOK'
  BY <1>6, DoneTyped DEF Leave, TypeOK, db, hist
<1>7. \A n \in Users : account[n].pw \in Passwords /\ 0 \in Passwords
  BY BoundsAssumption DEF TypeOK, Accounts, Passwords
<1> QED BY <1>1, <1>2, <1>3, <1>4, <1>5, <1>6, <1>7 DEF Authenticate

LEMMA AdministerTyped ==
    ASSUME TypeOK, NEW r \in Requests, Administer(r)
    PROVE  TypeOK'
<1>0. req[r] \in Frames /\ req[r].who \in Users /\ lastPw \in Nat
  BY BoundsAssumption DEF TypeOK, Frames
<1>1. CASE SelfRead(r)
  <2>1. [req[r] EXCEPT !.pc = "changing"] \in Frames
    BY <1>0 DEF Frames
  <2>2. req' \in [Requests -> Frames]
    BY <1>1, <2>1, GotoTyped DEF SelfRead, TypeOK
  <2> QED BY <1>1, <2>2 DEF SelfRead, TypeOK, db, hist
<1>2. CASE SelfWrite(r)
  BY <1>0, <1>2, SetPasswordTyped, DoneTyped DEF SelfWrite, TypeOK
<1>3. CASE PatchWrite(r)
  <2>1. req' \in [Requests -> Frames]
    BY <1>3, DoneTyped DEF PatchWrite, TypeOK
  <2>2. rows' \in [RowIds -> Row]
    <3>1. ASSUME NEW x \in Row PROVE [x EXCEPT !.left = TRUE] \in Row
      BY DEF Row
    <3> QED BY <1>3, <3>1 DEF PatchWrite, TypeOK
  <2>3. lastPw' \in 1 .. MaxPw
    BY <1>0, <1>3, BoundsAssumption DEF PatchWrite, TypeOK
  <2>4. account' \in [Users -> Accounts]
    <3>1. CASE Exists(req[r].who)
      <4>1. req[r].patch \in AnyPatch
        BY <1>0 DEF Frames
      <4>2. req[r].patch.password => lastPw + 1 \in Passwords
        BY <1>0, <1>3, <3>1, BoundsAssumption DEF PatchWrite, Passwords
      <4>3. account[req[r].who] \in Accounts
        BY <1>0 DEF TypeOK
      <4>4. Patched(account[req[r].who], req[r].patch) \in Accounts
        BY <4>1, <4>2, <4>3 DEF Patched, Accounts, AnyPatch
      <4>5. account' = [account EXCEPT ![req[r].who] =
                           Patched(account[req[r].who], req[r].patch)]
        BY <1>3, <3>1 DEF PatchWrite
      <4> QED BY <4>4, <4>5 DEF TypeOK
    <3> QED BY <1>3, <3>1 DEF PatchWrite, TypeOK
  <2> QED BY <1>3, <2>1, <2>2, <2>3, <2>4 DEF PatchWrite, TypeOK
<1>4. CASE DeleteWrite(r)
  <2>1. rows' \in [RowIds -> Row]
    BY <1>0, <1>4, RevokeTyped DEF DeleteWrite
  <2>2. account' \in [Users -> Accounts]
    BY <1>4, NoRowTyped DEF DeleteWrite, TypeOK
  <2> QED BY <1>4, <2>1, <2>2, DoneTyped DEF DeleteWrite, TypeOK, hist
<1>5. ASSUME NEW u \in Users, ResetPassword(r, u) PROVE TypeOK'
  BY <1>5, SetPasswordTyped, DoneTyped DEF ResetPassword, TypeOK
<1>6. ASSUME NEW u \in Users, DeleteRead(r, u) PROVE TypeOK'
  <2>1. [Idle EXCEPT !.pc = "deleting", !.who = u] \in Frames
    BY IdleTyped DEF Frames
  <2>2. req' \in [Requests -> Frames]
    BY <1>6, <2>1, GotoTyped DEF DeleteRead, TypeOK
  <2> QED BY <1>6, <2>2 DEF DeleteRead, TypeOK, db, hist
<1>7. ASSUME NEW u \in Users, NEW p \in Patches, PatchRead(r, u, p) PROVE TypeOK'
  <2>1. p \in AnyPatch
    BY PatchesAssumption
  <2>2. Changes(p, account[u]) \in AnyPatch
    BY <2>1 DEF Changes, AnyPatch
  <2>3. [Idle EXCEPT !.pc = "patching", !.who = u, !.patch = Changes(p, account[u])] \in Frames
    BY <2>2, IdleTyped DEF Frames
  <2>4. req' \in [Requests -> Frames]
    BY <1>7, <2>3, GotoTyped DEF PatchRead, TypeOK
  <2> QED BY <1>7, <2>4 DEF PatchRead, TypeOK, db, hist
<1>8. ASSUME NEW u \in Users, NEW role \in {"user", "admin"}, NEW withPw \in BOOLEAN,
             CreateUser(r, u, role, withPw)
      PROVE TypeOK'
  <2>1. lastPw' \in 1 .. MaxPw
    BY <1>0, <1>8, BoundsAssumption DEF CreateUser, TypeOK
  <2>2. (IF withPw THEN lastPw + 1 ELSE 0) \in Passwords
    BY <1>0, <1>8, BoundsAssumption DEF CreateUser, TypeOK, Passwords
  <2>3. account' \in [Users -> Accounts]
    BY <1>8, <2>2 DEF CreateUser, TypeOK, Accounts
  <2> QED BY <1>8, <2>1, <2>3, DoneTyped DEF CreateUser, TypeOK
<1> QED BY <1>1, <1>2, <1>3, <1>4, <1>5, <1>6, <1>7, <1>8 DEF Administer

LEMMA StepTyped == TypeOK /\ [Next]_vars => TypeOK'
<1> SUFFICES ASSUME TypeOK, [Next]_vars PROVE TypeOK'
  OBVIOUS
<1>1. ASSUME NEW n \in Users, FailureExpires(n) PROVE TypeOK'
  BY <1>1, BoundsAssumption DEF FailureExpires, TypeOK, db, hist
<1>2. ASSUME NEW i \in RowIds, SessionExpires(i) PROVE TypeOK'
  <2>1. rows' \in [RowIds -> Row]
    BY <1>2 DEF SessionExpires, TypeOK, Row
  <2> QED BY <1>2, <2>1 DEF SessionExpires, TypeOK, hist
<1>3. ASSUME NEW t, Logout(t) PROVE TypeOK'
  BY <1>3, NoRowTyped DEF Logout, TypeOK, hist
<1>4. CASE Restart
  <2>1. req' \in [Requests -> Frames] /\ fails' \in [Users -> 0 .. MaxFails]
    BY <1>4, IdleTyped, BoundsAssumption DEF Restart
  <2>2. rows' \in [RowIds -> Row]
    BY <1>4, NoRowTyped DEF Restart, TypeOK
  <2>3. CASE Admins # {}
    BY <1>4, <2>1, <2>2, <2>3 DEF Restart, TypeOK
  <2>4. CASE Admins = {}
    <3>1. lastPw + 1 \in 1 .. MaxPw /\ lastPw + 1 \in Passwords
      BY <1>4, <2>4, BoundsAssumption DEF Restart, TypeOK, Passwords
    <3>2. account' \in [Users -> Accounts]
      <4>1. [role |-> "admin", enabled |-> TRUE, pw |-> lastPw + 1] \in Accounts
        BY <3>1 DEF Accounts
      <4> QED BY <1>4, <2>4, <4>1 DEF Restart, TypeOK
    <3> QED BY <1>4, <2>1, <2>2, <2>4, <3>1, <3>2 DEF Restart, TypeOK
  <2> QED BY <2>3, <2>4
<1>5. CASE UNCHANGED vars
  BY <1>5 DEF vars, db, hist, TypeOK
<1> QED BY <1>1, <1>2, <1>3, <1>4, <1>5, AuthenticateTyped, AdministerTyped DEF Next

(* Every reachable state of users, sessions and lockout is well typed.     *)
THEOREM TypeCorrect == Spec => []TypeOK
BY InitTyped, StepTyped, PTL DEF Spec

-----------------------------------------------------------------------------
(* The built-in administrator                                              *)

(* Nothing that is under way takes the built-in administrator's role away, *)
(* disables or deletes it: the count of administrators is never needed.    *)
AdminInv ==
    /\ account[Builtin].role = "admin" /\ account[Builtin].enabled
    /\ \A r \in Requests : At(r, "patching") /\ req[r].who = Builtin => ~Demoting(req[r].patch)
    /\ \A r \in Requests : At(r, "deleting") => req[r].who # Builtin

LEMMA InitAdmin == Init => AdminInv
BY UsersAssumption DEF Init, AdminInv, At, Idle

(* A step keeps AdminInv if it keeps the administrator's row and moves at  *)
(* most one request, to a frame that respects it.                          *)
Respects(f) ==
    /\ f.pc = "patching" /\ f.who = Builtin => ~Demoting(f.patch)
    /\ f.pc = "deleting" => f.who # Builtin

LEMMA AdminByGoto ==
    ASSUME TypeOK, AdminInv, NEW r \in Requests, NEW f, Goto(r, f), Respects(f),
           account'[Builtin].role = "admin" /\ account'[Builtin].enabled
    PROVE  AdminInv'
BY DEF AdminInv, Goto, At, TypeOK, Respects

LEMMA IdleRespects == Respects(Idle)
BY DEF Respects, Idle

LEMMA AdminStep == TypeOK /\ AdminInv /\ [Next]_vars => AdminInv'
<1> SUFFICES ASSUME TypeOK, AdminInv, [Next]_vars PROVE AdminInv'
  OBVIOUS
<1>0. Builtin \in Users /\ Builtin \in Admins /\ Exists(Builtin)
  BY UsersAssumption DEF AdminInv, Admins, Exists
<1>1. ASSUME NEW r \in Requests, Authenticate(r) PROVE AdminInv'
  <2>1. account' = account
    BY <1>1 DEF Authenticate, LoginCheck, LoginVerify, LoginIssue, VerifyRead, VerifyRenew,
                Leave, db
  <2>2. PICK f : Goto(r, f) /\ Respects(f)
    <3>1. ASSUME NEW n, NEW p, LoginCheck(r, n, p) PROVE \E f : Goto(r, f) /\ Respects(f)
      <4>1. Respects([Idle EXCEPT !.pc = "checked", !.who = n, !.typed = p])
        BY DEF Respects, Idle
      <4> QED BY <3>1, <4>1 DEF LoginCheck
    <3>2. ASSUME NEW pl, LoginVerify(r, pl) PROVE \E f : Goto(r, f) /\ Respects(f)
      <4>1. Respects([req[r] EXCEPT !.pc = "issue"])
        BY DEF Respects, TypeOK, Frames
      <4> QED BY <3>2, <4>1, IdleRespects DEF LoginVerify, Done
    <3>3. CASE LoginIssue(r) \/ Leave(r)
      BY <3>3, IdleRespects DEF LoginIssue, Leave, Done
    <3>4. ASSUME NEW i, NEW pl, VerifyRead(r, i, pl) PROVE \E f : Goto(r, f) /\ Respects(f)
      <4>1. Respects([Idle EXCEPT !.pc = "verified", !.plane = pl, !.who = rows[i].user,
                                  !.tok = rows[i].tok, !.rowid = i])
        BY DEF Respects, Idle
      <4> QED BY <3>4, <4>1 DEF VerifyRead
    <3>5. CASE VerifyRenew(r)
      <4>1. Respects([req[r] EXCEPT !.pc = "in", !.rowid = 0])
        BY DEF Respects, TypeOK, Frames
      <4> QED BY <3>5, <4>1, IdleRespects DEF VerifyRenew, Done
    <3> QED BY <1>1, <3>1, <3>2, <3>3, <3>4, <3>5 DEF Authenticate
  <2> QED BY <2>1, <2>2, AdminByGoto DEF AdminInv
<1>2. ASSUME NEW r \in Requests, Administer(r) PROVE AdminInv'
  <2>0. req[r] \in Frames /\ req[r].who \in Users
    BY DEF TypeOK, Frames
  <2>1. ASSUME NEW u \in Users, NEW keep, SetPassword(u, keep), Done(r) PROVE AdminInv'
    BY <1>0, <2>1, AdminByGoto, IdleRespects DEF SetPassword, Done, TypeOK, Accounts, AdminInv
  <2>2. CASE SelfRead(r)
    <3>1. Respects([req[r] EXCEPT !.pc = "changing"])
      BY <2>0 DEF Respects, Frames
    <3> QED BY <2>2, <3>1, AdminByGoto DEF SelfRead, db, AdminInv
  <2>3. CASE SelfWrite(r)
    <3>1. CASE Exists(req[r].who)
      BY <2>0, <2>1, <2>3, <3>1 DEF SelfWrite
    <3>2. CASE ~Exists(req[r].who)
      BY <2>3, <3>2, AdminByGoto, IdleRespects DEF SelfWrite, Done, AdminInv
    <3> QED BY <3>1, <3>2
  <2>4. CASE PatchWrite(r)
    <3>1. account'[Builtin].role = "admin" /\ account'[Builtin].enabled
      <4>1. CASE req[r].who = Builtin
        <5>1. req[r].patch \in AnyPatch
          BY <2>0 DEF Frames
        <5>2. ~Demoting(req[r].patch)
          BY <2>4, <4>1 DEF AdminInv, PatchWrite
        <5>3. Patched(account[Builtin], req[r].patch).role = "admin"
          BY <5>1, <5>2 DEF Patched, Demoting, AdminInv, AnyPatch
        <5>4. Patched(account[Builtin], req[r].patch).enabled
          BY <5>1, <5>2 DEF Patched, Demoting, AdminInv, AnyPatch
        <5>5. account' = [account EXCEPT ![Builtin] = Patched(account[Builtin], req[r].patch)]
          BY <1>0, <2>4, <4>1 DEF PatchWrite
        <5> QED BY <1>0, <5>3, <5>4, <5>5 DEF TypeOK
      <4>2. CASE req[r].who # Builtin
        <5>1. PICK q : account' = account \/ account' = [account EXCEPT ![req[r].who] = q]
          BY <2>4 DEF PatchWrite
        <5>2. account'[Builtin] = account[Builtin]
          BY <1>0, <4>2, <5>1 DEF TypeOK
        <5> QED BY <5>2 DEF AdminInv
      <4> QED BY <4>1, <4>2
    <3> QED BY <2>4, <3>1, AdminByGoto, IdleRespects DEF PatchWrite, Done
  <2>5. CASE DeleteWrite(r)
    <3>1. req[r].who # Builtin
      BY <2>5 DEF DeleteWrite, AdminInv
    <3>2. account'[Builtin] = account[Builtin]
      BY <1>0, <2>5, <3>1 DEF DeleteWrite, TypeOK
    <3> QED BY <2>5, <3>2, AdminByGoto, IdleRespects DEF DeleteWrite, Done, AdminInv
  <2>6. ASSUME NEW u \in Users, ResetPassword(r, u) PROVE AdminInv'
    BY <2>1, <2>6 DEF ResetPassword
  <2>7. ASSUME NEW u \in Users, DeleteRead(r, u) PROVE AdminInv'
    <3>1. Respects([Idle EXCEPT !.pc = "deleting", !.who = u])
      BY <2>7 DEF Respects, Idle, DeleteRead, MayDemote
    <3> QED BY <2>7, <3>1, AdminByGoto DEF DeleteRead, db, AdminInv
  <2>8. ASSUME NEW u \in Users, NEW p \in Patches, PatchRead(r, u, p) PROVE AdminInv'
    <3>1. u = Builtin => ~Demoting(Changes(p, account[u]))
      BY <2>8 DEF PatchRead, MayDemote, Demoting, Changes
    <3>2. Respects([Idle EXCEPT !.pc = "patching", !.who = u, !.patch = Changes(p, account[u])])
      BY <3>1 DEF Respects, Idle
    <3> QED BY <2>8, <3>2, AdminByGoto DEF PatchRead, db, AdminInv
  <2>9. ASSUME NEW u \in Users, NEW role, NEW withPw, CreateUser(r, u, role, withPw)
        PROVE AdminInv'
    <3>1. account'[Builtin] = account[Builtin]
      BY <1>0, <2>9 DEF CreateUser, TypeOK
    <3> QED BY <2>9, <3>1, AdminByGoto, IdleRespects DEF CreateUser, Done, AdminInv
  <2> QED BY <1>2, <2>2, <2>3, <2>4, <2>5, <2>6, <2>7, <2>8, <2>9 DEF Administer
<1>3. ASSUME NEW n \in Users, FailureExpires(n) PROVE AdminInv'
  BY <1>3 DEF FailureExpires, AdminInv, db, At
<1>4. ASSUME NEW i \in RowIds, SessionExpires(i) PROVE AdminInv'
  BY <1>4 DEF SessionExpires, AdminInv, At
<1>5. ASSUME NEW t, Logout(t) PROVE AdminInv'
  BY <1>5 DEF Logout, AdminInv, At
<1>6. CASE Restart
  BY <1>0, <1>6 DEF Restart, AdminInv, At, Idle
<1>7. CASE UNCHANGED vars
  BY <1>7 DEF vars, db, AdminInv, At
<1> QED BY <1>1, <1>2, <1>3, <1>4, <1>5, <1>6, <1>7 DEF Next

(* At any time somebody can administer the system, whatever administrators *)
(* do to each other at the same time.                                      *)
THEOREM AnAdminAlwaysRemains == Spec => []AnAdminRemains
<1>1. AdminInv => AnAdminRemains
  BY UsersAssumption DEF AdminInv, AnAdminRemains, Admins
<1> QED BY <1>1, InitTyped, StepTyped, InitAdmin, AdminStep, PTL DEF Spec

-----------------------------------------------------------------------------
(* The lockout                                                             *)

(* The attempts for a username that have passed the lockout                *)
Checking(n) == {r \in Requests : At(r, "checked") /\ req[r].who = n}

LockInv ==
    \A n \in Users :
        fails[n] + Cardinality(Checking(n)) <= Threshold - 1 + Cardinality(Requests)

LEMMA CheckingFinite ==
    /\ Cardinality(Requests) \in Nat
    /\ \A n \in Users : /\ IsFiniteSet(Checking(n))
                        /\ Cardinality(Checking(n)) \in Nat
                        /\ Cardinality(Checking(n)) <= Cardinality(Requests)
<1>1. \A n \in Users : Checking(n) \subseteq Requests
  BY DEF Checking
<1> QED BY <1>1, UsersAssumption, FS_Subset, FS_CardinalityType

LEMMA InitLock == Init => LockInv
<1> SUFFICES ASSUME Init, NEW n \in Users
             PROVE  fails[n] + Cardinality(Checking(n)) <= Threshold - 1 + Cardinality(Requests)
  BY DEF LockInv
<1>1. Checking(n) = {}
  BY DEF Init, Checking, At, Idle
<1> QED BY <1>1, CheckingFinite, FS_EmptySet, BoundsAssumption DEF Init

(* A step that counts no failure and lets no attempt pass keeps LockInv.   *)
LEMMA LockKept ==
    ASSUME TypeOK, LockInv, TypeOK',
           \A n \in Users : fails'[n] <= fails[n] /\ Checking(n)' \subseteq Checking(n)
    PROVE  LockInv'
<1> SUFFICES ASSUME NEW n \in Users
             PROVE  fails'[n] + Cardinality(Checking(n)') <= Threshold - 1 + Cardinality(Requests)
  BY DEF LockInv
<1>1. Cardinality(Checking(n)') \in Nat /\ Cardinality(Checking(n)') <= Cardinality(Checking(n))
  BY CheckingFinite, FS_Subset, FS_CardinalityType
<1>2. fails[n] \in Nat /\ fails'[n] \in Nat
  BY DEF TypeOK
<1> QED BY <1>1, <1>2, CheckingFinite, BoundsAssumption DEF LockInv

LEMMA LockByGoto ==
    ASSUME TypeOK, LockInv, TypeOK', NEW r \in Requests, NEW f, Goto(r, f), f.pc # "checked",
           UNCHANGED fails
    PROVE  LockInv'
<1>1. \A n \in Users : Checking(n)' \subseteq Checking(n)
  BY DEF Goto, Checking, At, TypeOK
<1>2. \A n \in Users : fails'[n] <= fails[n]
  BY DEF TypeOK
<1> QED BY <1>1, <1>2, LockKept

LEMMA IdleNotChecked == Idle.pc # "checked"
BY DEF Idle

LEMMA LockLoginCheck ==
    ASSUME TypeOK, LockInv, TypeOK', NEW r \in Requests, NEW n \in Users, NEW p, LoginCheck(r, n, p)
    PROVE  LockInv'
<1> SUFFICES ASSUME NEW m \in Users
             PROVE  fails'[m] + Cardinality(Checking(m)') <= Threshold - 1 + Cardinality(Requests)
  BY DEF LockInv
<1>0. fails' = fails /\ fails[m] \in Nat /\ fails[n] <= Threshold - 1
  BY BoundsAssumption DEF LoginCheck, TypeOK, Locked
<1>1. CASE m = n
  <2>1. Checking(m)' \subseteq Requests
    BY DEF Checking
  <2>2. Cardinality(Checking(m)') \in Nat /\ Cardinality(Checking(m)') <= Cardinality(Requests)
    BY <2>1, UsersAssumption, FS_Subset, FS_CardinalityType
  <2> QED BY <1>0, <1>1, <2>2, CheckingFinite, BoundsAssumption
<1>2. CASE m # n
  <2>1. Checking(m)' = Checking(m)
    BY <1>2 DEF LoginCheck, Goto, Checking, At, TypeOK, Idle
  <2> QED BY <1>0, <2>1 DEF LockInv
<1> QED BY <1>1, <1>2

LEMMA LockLoginVerify ==
    ASSUME TypeOK, LockInv, TypeOK', NEW r \in Requests, NEW pl, LoginVerify(r, pl)
    PROVE  LockInv'
<1> DEFINE n == req[r].who
<1>0. n \in Users /\ r \in Checking(n)
  BY DEF LoginVerify, TypeOK, Frames, Checking
<1> SUFFICES ASSUME NEW m \in Users
             PROVE  fails'[m] + Cardinality(Checking(m)') <= Threshold - 1 + Cardinality(Requests)
  BY DEF LockInv
<1>1. Checking(m)' \subseteq Checking(m) \ {r}
  <2>1. PICK f : Goto(r, f) /\ f.pc # "checked"
    <3>1. [req[r] EXCEPT !.pc = "issue"].pc # "checked"
      BY DEF TypeOK, Frames
    <3> QED BY <3>1, IdleNotChecked DEF LoginVerify, Done
  <2> QED BY <2>1 DEF Goto, Checking, At, TypeOK
<1>2. fails[m] \in Nat /\ fails'[m] \in Nat
  BY DEF TypeOK
<1> DEFINE c == Cardinality(Checking(m))
           d == Cardinality(Checking(m)')
<1>3. c \in Nat /\ d \in Nat /\ d <= c /\ (r \in Checking(m) => d <= c - 1)
  <2>1. IsFiniteSet(Checking(m)) /\ c \in Nat
    BY CheckingFinite
  <2>2. IsFiniteSet(Checking(m) \ {r})
        /\ Cardinality(Checking(m) \ {r}) = IF r \in Checking(m) THEN c - 1 ELSE c
    BY <2>1, FS_RemoveElement
  <2>3. d \in Nat /\ d <= Cardinality(Checking(m) \ {r})
    BY <1>1, <2>2, FS_Subset, FS_CardinalityType
  <2> QED BY <2>1, <2>2, <2>3
<1>4. fails'[m] <= IF m = n THEN fails[m] + 1 ELSE fails[m]
  BY <1>0, <1>2 DEF LoginVerify, TypeOK
<1>5. fails[m] + c <= Threshold - 1 + Cardinality(Requests)
  BY DEF LockInv
<1> HIDE DEF c, d
<1>6. fails'[m] + d <= fails[m] + c
  <2>1. CASE m = n
    BY <1>0, <1>2, <1>3, <1>4, <2>1
  <2>2. CASE m # n
    BY <1>2, <1>3, <1>4, <2>2
  <2> QED BY <2>1, <2>2
<1>7. fails'[m] + d <= Threshold - 1 + Cardinality(Requests)
  BY <1>2, <1>3, <1>5, <1>6, CheckingFinite, BoundsAssumption
<1> QED BY <1>7 DEF d

LEMMA LockStep == TypeOK /\ LockInv /\ [Next]_vars => LockInv'
<1> SUFFICES ASSUME TypeOK, LockInv, [Next]_vars PROVE LockInv'
  OBVIOUS
<1>0. TypeOK'
  BY StepTyped
<1>1. ASSUME NEW r \in Requests, Authenticate(r) PROVE LockInv'
  <2>1. ASSUME NEW i, NEW pl, VerifyRead(r, i, pl) PROVE LockInv'
    <3>1. [Idle EXCEPT !.pc = "verified", !.plane = pl, !.who = rows[i].user,
                       !.tok = rows[i].tok, !.rowid = i].pc # "checked"
      BY DEF Idle
    <3> QED BY <1>0, <2>1, <3>1, LockByGoto DEF VerifyRead
  <2>2. CASE VerifyRenew(r)
    <3>1. [req[r] EXCEPT !.pc = "in", !.rowid = 0].pc # "checked"
      BY DEF TypeOK, Frames
    <3> QED BY <1>0, <2>2, <3>1, IdleNotChecked, LockByGoto DEF VerifyRenew, Done
  <2>3. CASE LoginIssue(r) \/ Leave(r)
    BY <1>0, <2>3, IdleNotChecked, LockByGoto DEF LoginIssue, Leave, Done
  <2> QED BY <1>0, <1>1, <2>1, <2>2, <2>3, LockLoginCheck, LockLoginVerify DEF Authenticate
<1>2. ASSUME NEW r \in Requests, Administer(r) PROVE LockInv'
  <2>1. CASE SelfRead(r)
    <3>1. [req[r] EXCEPT !.pc = "changing"].pc # "checked"
      BY DEF TypeOK, Frames
    <3> QED BY <1>0, <2>1, <3>1, LockByGoto DEF SelfRead
  <2>2. CASE SelfWrite(r) \/ PatchWrite(r) \/ DeleteWrite(r)
    BY <1>0, <2>2, IdleNotChecked, LockByGoto DEF SelfWrite, PatchWrite, DeleteWrite, Done
  <2>3. ASSUME NEW u, ResetPassword(r, u) PROVE LockInv'
    BY <1>0, <2>3, IdleNotChecked, LockByGoto DEF ResetPassword, Done
  <2>4. ASSUME NEW u, DeleteRead(r, u) PROVE LockInv'
    <3>1. [Idle EXCEPT !.pc = "deleting", !.who = u].pc # "checked"
      BY DEF Idle
    <3> QED BY <1>0, <2>4, <3>1, LockByGoto DEF DeleteRead
  <2>5. ASSUME NEW u, NEW p, PatchRead(r, u, p) PROVE LockInv'
    <3>1. [Idle EXCEPT !.pc = "patching", !.who = u, !.patch = Changes(p, account[u])].pc
              # "checked"
      BY DEF Idle
    <3> QED BY <1>0, <2>5, <3>1, LockByGoto DEF PatchRead
  <2>6. ASSUME NEW u, NEW role, NEW withPw, CreateUser(r, u, role, withPw) PROVE LockInv'
    BY <1>0, <2>6, IdleNotChecked, LockByGoto DEF CreateUser, Done
  <2> QED BY <1>2, <2>1, <2>2, <2>3, <2>4, <2>5, <2>6 DEF Administer
<1>3. ASSUME NEW n \in Users, FailureExpires(n) PROVE LockInv'
  <2>1. \A m \in Users : fails'[m] <= fails[m]
    BY <1>3 DEF FailureExpires, TypeOK
  <2>2. \A m \in Users : Checking(m)' \subseteq Checking(m)
    BY <1>3 DEF FailureExpires, Checking, At
  <2> QED BY <1>0, <2>1, <2>2, LockKept
<1>4. CASE Restart
  <2>1. \A m \in Users : fails'[m] <= fails[m]
    BY <1>4 DEF Restart, TypeOK
  <2>2. \A m \in Users : Checking(m)' \subseteq Checking(m)
    BY <1>4 DEF Restart, Checking, At, Idle
  <2> QED BY <1>0, <2>1, <2>2, LockKept
<1>5. CASE UNCHANGED <<req, fails>>
  <2>1. \A m \in Users : fails'[m] <= fails[m] /\ Checking(m)' \subseteq Checking(m)
    BY <1>5 DEF TypeOK, Checking, At
  <2> QED BY <1>0, <2>1, LockKept
<1> QED BY <1>1, <1>2, <1>3, <1>4, <1>5 DEF Next, vars, SessionExpires, Logout

(* The failures counted for a username exceed the threshold by less than   *)
(* the number of requests that can be in flight.                           *)
THEOREM LockoutBounded == Spec => []LockoutBound
<1>1. TypeOK /\ LockInv => LockoutBound
  <2> SUFFICES ASSUME TypeOK, LockInv, NEW n \in Users
               PROVE  fails[n] <= Threshold - 1 + Cardinality(Requests)
    BY DEF LockoutBound
  <2>1. fails[n] + Cardinality(Checking(n)) <= Threshold - 1 + Cardinality(Requests)
    BY DEF LockInv
  <2>2. fails[n] \in Nat
    BY DEF TypeOK
  <2> QED BY <2>1, <2>2, CheckingFinite, BoundsAssumption
<1> QED BY <1>1, InitTyped, StepTyped, InitLock, LockStep, PTL DEF Spec

-----------------------------------------------------------------------------
(* Sessions                                                                *)

(* The requests that act on the strength of a session                      *)
Holding == {"verified", "in", "changing"}

(* A row belongs to a user there is and has a token of its own; a request  *)
(* that holds a token is about the user of the row that has it, if any.    *)
SessInv ==
    /\ \A i \in Used : Exists(rows[i].user) /\ rows[i].tok \in 1 .. issued
    /\ \A i, j \in Used : rows[i].tok = rows[j].tok => i = j
    /\ \A r \in Requests : req[r].pc \in Holding =>
           /\ req[r].tok \in 1 .. issued
           /\ \A i \in Used : rows[i].tok = req[r].tok => rows[i].user = req[r].who
    /\ OldPasswordsExplained

LEMMA InitSess == Init => SessInv
BY DEF Init, SessInv, Used, OldPasswordsExplained, Idle, Holding

(* What every step but LoginIssue does: a row is deleted or keeps its      *)
(* token and user, and a request takes a token only from a row.            *)
Kept ==
    \A i \in RowIds : \/ rows'[i] = NoRow
                      \/ i \in Used /\ rows'[i].tok = rows[i].tok /\ rows'[i].user = rows[i].user

Explained ==
    \A i \in Used' :
        /\ account'[rows'[i].user].role # "none"
        /\ rows'[i].pw = account'[rows'[i].user].pw \/ rows'[i].left

Fair(f, r) ==
    f.pc \in Holding => \/ req[r].pc \in Holding /\ f.tok = req[r].tok /\ f.who = req[r].who
                        \/ \E i \in Used : rows[i].tok = f.tok /\ rows[i].user = f.who

Held == \A r \in Requests : Fair(req'[r], r)

LEMMA HeldByGoto ==
    ASSUME TypeOK, NEW r \in Requests, NEW f, Goto(r, f), Fair(f, r)
    PROVE  Held
BY DEF TypeOK, Held, Fair, Goto

LEMMA IdleFair == ASSUME NEW r PROVE Fair(Idle, r)
BY DEF Fair, Idle, Holding

LEMMA HeldByDone ==
    ASSUME TypeOK, NEW r \in Requests, Done(r)
    PROVE  Held
BY IdleFair, HeldByGoto DEF Done

LEMMA SessKept ==
    ASSUME TypeOK, SessInv, Kept, Explained, Held, issued' = issued
    PROVE  SessInv'
<1>1. \A i \in Used' : i \in Used /\ rows'[i].tok = rows[i].tok /\ rows'[i].user = rows[i].user
  BY DEF Kept, Used
<1>2. \A i \in Used' : account'[rows'[i].user].role # "none" /\ rows'[i].tok \in 1 .. issued'
  BY <1>1 DEF SessInv, Explained
<1>3. \A i, j \in Used' : rows'[i].tok = rows'[j].tok => i = j
  BY <1>1 DEF SessInv
<1>4. ASSUME NEW r \in Requests, req'[r].pc \in Holding
      PROVE  /\ req'[r].tok \in 1 .. issued'
             /\ \A i \in Used' : rows'[i].tok = req'[r].tok => rows'[i].user = req'[r].who
  <2>1. Fair(req'[r], r)
    BY DEF Held
  <2>2. CASE req[r].pc \in Holding /\ req'[r].tok = req[r].tok /\ req'[r].who = req[r].who
    BY <1>1, <2>2 DEF SessInv
  <2>3. ASSUME NEW i \in Used, rows[i].tok = req'[r].tok /\ rows[i].user = req'[r].who
        PROVE  /\ req'[r].tok \in 1 .. issued'
               /\ \A j \in Used' : rows'[j].tok = req'[r].tok => rows'[j].user = req'[r].who
    BY <1>1, <2>3 DEF SessInv
  <2> QED BY <1>4, <2>1, <2>2, <2>3 DEF Fair
<1>5. OldPasswordsExplained'
  BY DEF Explained, OldPasswordsExplained
<1> QED BY <1>2, <1>3, <1>4, <1>5 DEF SessInv, Exists

(* Rows only written where it shows in nothing but live, users unchanged.  *)
LEMMA SameRows ==
    ASSUME TypeOK, SessInv, UNCHANGED account,
           \A i \in RowIds : \/ rows'[i] = NoRow
                             \/ /\ i \in Used /\ rows'[i].tok = rows[i].tok
                                /\ rows'[i].user = rows[i].user /\ rows'[i].pw = rows[i].pw
                                /\ rows'[i].left = rows[i].left
    PROVE  Kept /\ Explained
<1>1. Kept
  BY DEF Kept
<1>2. \A i \in Used' : i \in Used /\ rows'[i].user = rows[i].user /\ rows'[i].pw = rows[i].pw
                       /\ rows'[i].left = rows[i].left
  BY DEF Used
<1>3. Explained
  BY <1>2 DEF Explained, SessInv, OldPasswordsExplained, Exists
<1> QED BY <1>1, <1>3

LEMMA UnchangedRows ==
    ASSUME TypeOK, SessInv, UNCHANGED db
    PROVE  Kept /\ Explained
<1>1. \A i \in RowIds : rows'[i] = NoRow \/ i \in Used
  BY DEF db, Used
<1> QED BY <1>1, SameRows DEF db

LEMMA RenewedRows ==
    ASSUME TypeOK, SessInv, UNCHANGED account, NEW j \in Used, NEW b \in BOOLEAN,
           rows' = [rows EXCEPT ![j].live = b]
    PROVE  Kept /\ Explained
<1>1. rows[j] \in Row /\ j \in RowIds
  BY DEF TypeOK, Used
<1>2. rows'[j].tok = rows[j].tok /\ rows'[j].user = rows[j].user /\ rows'[j].pw = rows[j].pw
      /\ rows'[j].left = rows[j].left
  BY <1>1 DEF TypeOK, Row
<1>3. \A i \in RowIds : i # j => rows'[i] = rows[i]
  BY <1>1 DEF TypeOK
<1>4. \A i \in RowIds : rows'[i] = NoRow \/ i \in Used
  BY <1>3 DEF Used
<1> QED BY <1>2, <1>3, <1>4, SameRows

(* Rows that Revoke takes or leaves                                        *)
LEMMA RevokedRows ==
    ASSUME TypeOK, SessInv, NEW u \in Users, NEW keep, NEW i \in RowIds
    PROVE  \/ Revoke(u, keep)[i] = NoRow
           \/ /\ Revoke(u, keep)[i] = rows[i] /\ i \in Used
              /\ rows[i].user # u \/ rows[i].tok = keep
BY DEF Revoke, Used

LEMMA PasswordRows ==
    ASSUME TypeOK, SessInv, NEW u \in Users, Exists(u), NEW keep, SetPassword(u, keep),
           keep = 0 \/ \A i \in Used : rows[i].tok = keep => rows[i].user = u
    PROVE  Kept /\ Explained
<1>0. NoRow.tok = 0 /\ lastPw \in Nat
  BY BoundsAssumption DEF NoRow, TypeOK
<1>1. ASSUME NEW i \in RowIds
      PROVE  \/ rows'[i] = NoRow
             \/ /\ i \in Used /\ rows'[i].tok = rows[i].tok /\ rows'[i].user = rows[i].user
                /\ \/ rows[i].user # u /\ rows'[i].pw = rows[i].pw /\ rows'[i].left = rows[i].left
                   \/ rows[i].user = u /\ rows'[i].pw = lastPw + 1
  <2>1. rows'[i] = IF keep # 0 /\ Revoke(u, keep)[i].tok = keep
                   THEN [Revoke(u, keep)[i] EXCEPT !.pw = lastPw + 1, !.left = FALSE]
                   ELSE Revoke(u, keep)[i]
    BY DEF SetPassword
  <2>2. CASE Revoke(u, keep)[i] = NoRow
    BY <1>0, <2>1, <2>2
  <2>3. CASE /\ Revoke(u, keep)[i] = rows[i] /\ i \in Used
             /\ rows[i].user # u \/ rows[i].tok = keep
    <3>1. rows[i] \in Row /\ rows[i].tok \in 1 .. issued
      BY <2>3 DEF TypeOK, SessInv
    <3>2. CASE keep # 0 /\ rows[i].tok = keep
      <4>1. rows[i].user = u
        BY <2>3, <3>2
      <4>2. rows'[i] = [rows[i] EXCEPT !.pw = lastPw + 1, !.left = FALSE]
        BY <2>1, <2>3, <3>2
      <4>3. /\ rows'[i].tok = rows[i].tok /\ rows'[i].user = rows[i].user
            /\ rows'[i].pw = lastPw + 1
        BY <3>1, <4>2 DEF Row
      <4> QED BY <2>3, <4>1, <4>3
    <3>3. CASE ~(keep # 0 /\ rows[i].tok = keep)
      <4>1. rows'[i] = rows[i] /\ rows[i].user # u
        BY <2>1, <2>3, <3>1, <3>3
      <4> QED BY <2>3, <4>1
    <3> QED BY <3>2, <3>3
  <2> QED BY <2>2, <2>3, RevokedRows
<1>2. Kept
  BY <1>1 DEF Kept
<1>3. ASSUME NEW w \in Users
      PROVE  IF w = u THEN account'[w].role = account[w].role /\ account'[w].pw = lastPw + 1
                      ELSE account'[w] = account[w]
  BY DEF SetPassword, TypeOK, Accounts
<1>4. ASSUME NEW i \in Used'
      PROVE  /\ account'[rows'[i].user].role # "none"
             /\ rows'[i].pw = account'[rows'[i].user].pw \/ rows'[i].left
  <2>1. i \in RowIds /\ rows'[i] # NoRow
    BY DEF Used
  <2>2. rows[i].user \in Users /\ Exists(rows[i].user)
        /\ (rows[i].pw = account[rows[i].user].pw \/ rows[i].left)
    BY <1>1, <2>1 DEF TypeOK, Row, SessInv, OldPasswordsExplained
  <2> QED BY <1>1, <1>3, <2>1, <2>2 DEF Exists
<1>5. Explained
  BY <1>4 DEF Explained
<1> QED BY <1>2, <1>5

Ordinary == Kept /\ Explained /\ Held /\ issued' = issued

LEMMA AuthenticateSess ==
    ASSUME TypeOK, SessInv, NEW r \in Requests, Authenticate(r)
    PROVE  Ordinary \/ LoginIssue(r)
<1>1. ASSUME NEW n, NEW p, LoginCheck(r, n, p) PROVE Ordinary
  <2>1. Fair([Idle EXCEPT !.pc = "checked", !.who = n, !.typed = p], r)
    BY DEF Fair, Idle, Holding
  <2> QED BY <1>1, <2>1, HeldByGoto, UnchangedRows DEF LoginCheck, Ordinary, hist
<1>2. ASSUME NEW pl, LoginVerify(r, pl) PROVE Ordinary
  <2>1. Fair([req[r] EXCEPT !.pc = "issue"], r)
    BY DEF Fair, TypeOK, Frames, Holding
  <2>2. Held
    BY <1>2, <2>1, HeldByGoto, HeldByDone DEF LoginVerify
  <2> QED BY <1>2, <2>2, UnchangedRows DEF LoginVerify, Ordinary, hist
<1>3. ASSUME NEW i \in RowIds, NEW pl, VerifyRead(r, i, pl) PROVE Ordinary
  <2> DEFINE f == [Idle EXCEPT !.pc = "verified", !.plane = pl, !.who = rows[i].user,
                               !.tok = rows[i].tok, !.rowid = i]
  <2>1. f.tok = rows[i].tok /\ f.who = rows[i].user /\ i \in Used
    BY <1>3 DEF VerifyRead, Idle
  <2>2. Goto(r, f)
    BY <1>3 DEF VerifyRead
  <2> HIDE DEF f
  <2>3. Held
    BY <2>1, <2>2, HeldByGoto DEF Fair
  <2> QED BY <1>3, <2>3, UnchangedRows DEF VerifyRead, Ordinary, hist
<1>4. CASE VerifyRenew(r)
  <2>1. Fair([req[r] EXCEPT !.pc = "in", !.rowid = 0], r)
    BY <1>4 DEF Fair, TypeOK, Frames, Holding, VerifyRenew, At
  <2>2. Held
    BY <1>4, <2>1, HeldByGoto, HeldByDone DEF VerifyRenew
  <2>3. CASE req[r].rowid \in Used
    <3>1. rows' = [rows EXCEPT ![req[r].rowid].live = TRUE]
      BY <1>4, <2>3 DEF VerifyRenew
    <3> QED BY <1>4, <2>2, <2>3, <3>1, RenewedRows DEF VerifyRenew, Ordinary, hist
  <2>4. CASE req[r].rowid \notin Used
    BY <1>4, <2>2, <2>4, UnchangedRows DEF VerifyRenew, Ordinary, hist, db
  <2> QED BY <2>3, <2>4
<1>5. CASE Leave(r)
  BY <1>5, HeldByDone, UnchangedRows DEF Leave, Ordinary, hist
<1> QED BY <1>1, <1>2, <1>3, <1>4, <1>5 DEF Authenticate

LEMMA AdministerSess ==
    ASSUME TypeOK, SessInv, NEW r \in Requests, Administer(r)
    PROVE  Ordinary
<1>0. req[r] \in Frames /\ req[r].who \in Users
  BY DEF TypeOK, Frames
<1>1. CASE SelfRead(r)
  <2>1. Fair([req[r] EXCEPT !.pc = "changing"], r)
    BY <1>0, <1>1 DEF Fair, Frames, Holding, SelfRead, At
  <2> QED BY <1>1, <2>1, HeldByGoto, UnchangedRows DEF SelfRead, Ordinary, hist
<1>2. CASE SelfWrite(r)
  <2>1. Held /\ issued' = issued
    BY <1>2, HeldByDone DEF SelfWrite
  <2>2. \A i \in Used : rows[i].tok = req[r].tok => rows[i].user = req[r].who
    BY <1>2 DEF SelfWrite, At, SessInv, Holding
  <2>3. CASE Exists(req[r].who)
    <3>1. SetPassword(req[r].who, req[r].tok)
      BY <1>2, <2>3 DEF SelfWrite
    <3> QED BY <1>0, <2>1, <2>2, <2>3, <3>1, PasswordRows DEF Ordinary
  <2>4. CASE ~Exists(req[r].who)
    BY <1>2, <2>1, <2>4, UnchangedRows DEF SelfWrite, db, Ordinary
  <2> QED BY <2>3, <2>4
<1>3. CASE PatchWrite(r)
  <2>1. Held /\ issued' = issued
    BY <1>3, HeldByDone DEF PatchWrite
  <2>2. CASE ~Exists(req[r].who)
    BY <1>3, <2>1, <2>2, UnchangedRows DEF PatchWrite, db, Ordinary
  <2>3. CASE Exists(req[r].who)
    <3> DEFINE u == req[r].who
               p == req[r].patch
    <3>1. p \in AnyPatch
      BY <1>0 DEF Frames
    <3>2. account' = [account EXCEPT ![u] = Patched(account[u], p)]
      BY <1>3, <2>3 DEF PatchWrite
    <3>3. /\ Patched(account[u], p).role # "none"
          /\ p.password \/ Patched(account[u], p).pw = account[u].pw
      BY <2>3, <3>1 DEF Patched, AnyPatch, Exists
    <3>4. ASSUME NEW i \in RowIds
          PROVE  \/ rows'[i] = NoRow
                 \/ /\ i \in Used /\ rows'[i].tok = rows[i].tok /\ rows'[i].user = rows[i].user
                    /\ rows'[i].pw = rows[i].pw
                    /\ rows'[i].left \/ (rows'[i] = rows[i] /\ ~(p.password /\ rows[i].user = u))
      <4>1. rows[i] \in Row
        BY DEF TypeOK
      <4>2. rows'[i] = IF p.password /\ i \in SessionsOf(u)
                       THEN [rows[i] EXCEPT !.left = TRUE] ELSE rows[i]
        BY <1>3, <2>3 DEF PatchWrite
      <4> HIDE DEF p
      <4>3. CASE i \notin Used
        BY <4>2, <4>3 DEF Used, SessionsOf
      <4>4. CASE i \in Used /\ p.password /\ rows[i].user = u
        <5>1. rows'[i] = [rows[i] EXCEPT !.left = TRUE]
          BY <4>2, <4>4 DEF SessionsOf
        <5> QED BY <4>1, <4>4, <5>1 DEF Row
      <4>5. CASE i \in Used /\ ~(p.password /\ rows[i].user = u)
        BY <4>2, <4>5 DEF SessionsOf
      <4> QED BY <4>3, <4>4, <4>5
    <3>5. Kept
      BY <3>4 DEF Kept
    <3>6. ASSUME NEW i \in Used'
          PROVE  /\ account'[rows'[i].user].role # "none"
                 /\ rows'[i].pw = account'[rows'[i].user].pw \/ rows'[i].left
      <4>1. i \in RowIds /\ rows'[i] # NoRow
        BY DEF Used
      <4>2. rows[i].user \in Users /\ Exists(rows[i].user)
            /\ (rows[i].pw = account[rows[i].user].pw \/ rows[i].left)
        BY <3>4, <4>1 DEF TypeOK, Row, SessInv, OldPasswordsExplained
      <4>3. account'[rows[i].user]
              = IF rows[i].user = u THEN Patched(account[u], p) ELSE account[rows[i].user]
        BY <1>0, <3>2, <4>2 DEF TypeOK
      <4> HIDE DEF u, p
      <4>4. account'[rows'[i].user].role # "none"
        BY <3>3, <3>4, <4>1, <4>2, <4>3 DEF Exists
      <4>5. rows'[i].pw = account'[rows'[i].user].pw \/ rows'[i].left
        BY <3>3, <3>4, <4>1, <4>2, <4>3
      <4> QED BY <4>4, <4>5
    <3>7. Explained
      BY <3>6 DEF Explained
    <3> QED BY <2>1, <3>5, <3>7 DEF Ordinary
  <2> QED BY <2>2, <2>3
<1>4. CASE DeleteWrite(r)
  <2>1. Held /\ issued' = issued
    BY <1>4, HeldByDone DEF DeleteWrite, hist
  <2>2. ASSUME NEW i \in RowIds
        PROVE  rows'[i] = NoRow \/ (rows'[i] = rows[i] /\ i \in Used /\ rows[i].user # req[r].who)
    <3>1. rows' = Revoke(req[r].who, 0)
      BY <1>4 DEF DeleteWrite
    <3>2. i \in Used => rows[i].tok # 0
      BY BoundsAssumption DEF SessInv, TypeOK, Tokens
    <3> QED BY <1>0, <3>1, <3>2, RevokedRows
  <2>3. Kept
    BY <2>2 DEF Kept
  <2>4. \A w \in Users : w # req[r].who => account'[w] = account[w]
    BY <1>4 DEF DeleteWrite, TypeOK
  <2>5. ASSUME NEW i \in Used'
        PROVE  /\ account'[rows'[i].user].role # "none"
               /\ rows'[i].pw = account'[rows'[i].user].pw \/ rows'[i].left
    <3>1. i \in Used /\ rows'[i] = rows[i] /\ rows[i].user # req[r].who
      BY <2>2 DEF Used
    <3>2. rows[i].user \in Users /\ Exists(rows[i].user)
          /\ (rows[i].pw = account[rows[i].user].pw \/ rows[i].left)
      BY <3>1 DEF Used, TypeOK, Row, SessInv, OldPasswordsExplained
    <3> QED BY <2>4, <3>1, <3>2 DEF Exists
  <2>6. Explained
    BY <2>5 DEF Explained
  <2> QED BY <2>1, <2>3, <2>6 DEF Ordinary
<1>5. ASSUME NEW u \in Users, ResetPassword(r, u) PROVE Ordinary
  BY <1>5, HeldByDone, PasswordRows DEF ResetPassword, Ordinary
<1>6. ASSUME NEW u \in Users, DeleteRead(r, u) PROVE Ordinary
  <2>1. Fair([Idle EXCEPT !.pc = "deleting", !.who = u], r)
    BY DEF Fair, Idle, Holding
  <2> QED BY <1>6, <2>1, HeldByGoto, UnchangedRows DEF DeleteRead, Ordinary, hist
<1>7. ASSUME NEW u \in Users, NEW p, PatchRead(r, u, p) PROVE Ordinary
  <2>1. Fair([Idle EXCEPT !.pc = "patching", !.who = u, !.patch = Changes(p, account[u])], r)
    BY DEF Fair, Idle, Holding
  <2> QED BY <1>7, <2>1, HeldByGoto, UnchangedRows DEF PatchRead, Ordinary, hist
<1>8. ASSUME NEW u \in Users, NEW role, NEW withPw, CreateUser(r, u, role, withPw)
      PROVE  Ordinary
  <2>1. Held /\ issued' = issued
    BY <1>8, HeldByDone DEF CreateUser
  <2>2. rows' = rows /\ ~Exists(u)
    BY <1>8 DEF CreateUser
  <2>3. Kept
    BY <2>2 DEF Kept, Used
  <2>4. \A w \in Users : w # u => account'[w] = account[w]
    BY <1>8 DEF CreateUser, TypeOK
  <2>5. \A i \in Used : rows[i].user \in Users /\ rows[i].user # u
    BY <2>2 DEF SessInv, Used, TypeOK, Row
  <2>6. Explained
    BY <2>2, <2>4, <2>5 DEF Explained, SessInv, OldPasswordsExplained, Exists, Used
  <2> QED BY <2>1, <2>3, <2>6 DEF Ordinary
<1> QED BY <1>1, <1>2, <1>3, <1>4, <1>5, <1>6, <1>7, <1>8 DEF Administer

LEMMA IssueRows ==
    ASSUME TypeOK, SessInv, NEW r \in Requests, LoginIssue(r), Exists(req[r].who)
    PROVE  /\ issued' = issued + 1 /\ issued \in Nat
           /\ \A i \in Used' : \/ i \in Used /\ rows'[i] = rows[i]
                               \/ /\ rows'[i].tok = issued + 1 /\ rows'[i].user = req[r].who
                                  /\ \/ rows'[i].pw = account[req[r].who].pw
                                     \/ rows'[i].left
                                  /\ i = MaxId + 1
<1> DEFINE new == [tok |-> issued + 1, user |-> req[r].who, live |-> TRUE, pw |-> req[r].typed,
                   left |-> account[req[r].who].pw # req[r].typed]
<1>1. /\ new.tok = issued + 1 /\ new.user = req[r].who
      /\ new.pw = account[req[r].who].pw \/ new.left
  OBVIOUS
<1>2. issued' = issued + 1 /\ rows' = [rows EXCEPT ![MaxId + 1] = new]
  BY DEF LoginIssue
<1>3. issued \in Nat
  BY BoundsAssumption DEF TypeOK, Tokens
<1> HIDE DEF new
<1>4. \A i \in RowIds : rows'[i] = IF i = MaxId + 1 THEN new ELSE rows[i]
  BY <1>2 DEF TypeOK
<1> QED BY <1>1, <1>2, <1>3, <1>4 DEF Used

LEMMA IssueSess ==
    ASSUME TypeOK, SessInv, NEW r \in Requests, LoginIssue(r)
    PROVE  SessInv'
<1>1. CASE ~Exists(req[r].who)
  <2>1. Held
    BY HeldByDone DEF LoginIssue
  <2> QED BY <1>1, <2>1, SessKept, UnchangedRows DEF LoginIssue, db
<1>2. CASE Exists(req[r].who)
  <2>0. account' = account /\ req[r].who \in Users
    BY DEF LoginIssue, TypeOK, Frames
  <2>1. \A i \in Used' : /\ account'[rows'[i].user].role # "none"
                         /\ rows'[i].tok \in 1 .. issued'
                         /\ rows'[i].pw = account'[rows'[i].user].pw \/ rows'[i].left
    BY <1>2, <2>0, IssueRows DEF SessInv, OldPasswordsExplained, Exists
  <2>2. ASSUME NEW i \in Used', NEW j \in Used', rows'[i].tok = rows'[j].tok PROVE i = j
    <3>1. \A k \in Used : rows[k].tok \in 1 .. issued
      BY DEF SessInv
    <3> QED BY <1>2, <2>2, <3>1, IssueRows DEF SessInv
  <2>3. ASSUME NEW q \in Requests, req'[q].pc \in Holding
        PROVE  /\ req'[q].tok \in 1 .. issued'
               /\ \A i \in Used' : rows'[i].tok = req'[q].tok => rows'[i].user = req'[q].who
    <3>1. req'[q] = req[q]
      BY <2>3, IdleFair DEF LoginIssue, Done, Goto, TypeOK, Idle, Holding
    <3>2. req[q].tok \in 1 .. issued
          /\ \A i \in Used : rows[i].tok = req[q].tok => rows[i].user = req[q].who
      BY <2>3, <3>1 DEF SessInv
    <3> QED BY <1>2, <3>1, <3>2, IssueRows
  <2> QED BY <2>1, <2>2, <2>3 DEF SessInv, OldPasswordsExplained, Exists
<1> QED BY <1>1, <1>2

LEMMA ByItself ==
    ASSUME TypeOK, SessInv, [Next]_vars,
           ~\E r \in Requests : Authenticate(r) \/ Administer(r)
    PROVE  Ordinary
<1>1. ASSUME NEW n, FailureExpires(n) PROVE Ordinary
  BY <1>1, UnchangedRows DEF FailureExpires, Ordinary, Held, Fair, hist
<1>2. ASSUME NEW i \in RowIds, SessionExpires(i) PROVE Ordinary
  BY <1>2, RenewedRows DEF SessionExpires, Ordinary, Held, Fair, hist
<1>3. ASSUME NEW t \in 1 .. MaxTokens, Logout(t) PROVE Ordinary
  <2>1. \A i \in RowIds : rows'[i] = NoRow \/ (rows'[i] = rows[i] /\ i \in Used)
    BY <1>3 DEF Logout, Used
  <2> QED BY <1>3, <2>1, SameRows DEF Logout, Ordinary, Held, Fair, hist
<1>4. CASE Restart
  <2>1. \A i \in RowIds : rows'[i] = NoRow \/ (rows'[i] = rows[i] /\ i \in Used)
    BY <1>4 DEF Restart, Used
  <2>2. Held /\ issued' = issued
    BY <1>4 DEF Restart, Held, Fair, Idle, Holding
  <2>3. Kept
    BY <2>1 DEF Kept
  <2>4. \A w \in Users : Exists(w) => account'[w] = account[w]
    BY <1>4 DEF Restart, TypeOK
  <2>5. ASSUME NEW i \in Used'
        PROVE  /\ account'[rows'[i].user].role # "none"
               /\ rows'[i].pw = account'[rows'[i].user].pw \/ rows'[i].left
    <3>1. i \in Used /\ rows'[i] = rows[i]
      BY <2>1 DEF Used
    <3>2. rows[i].user \in Users /\ Exists(rows[i].user)
          /\ (rows[i].pw = account[rows[i].user].pw \/ rows[i].left)
      BY <3>1 DEF Used, TypeOK, Row, SessInv, OldPasswordsExplained
    <3> QED BY <2>4, <3>1, <3>2 DEF Exists
  <2>6. Explained
    BY <2>5 DEF Explained
  <2> QED BY <2>2, <2>3, <2>6 DEF Ordinary
<1>5. CASE UNCHANGED vars
  BY <1>5, UnchangedRows DEF vars, Ordinary, Held, Fair, hist
<1> QED BY <1>1, <1>2, <1>3, <1>4, <1>5 DEF Next

LEMMA SessKinds ==
    ASSUME TypeOK, SessInv, [Next]_vars
    PROVE  Ordinary \/ \E r \in Requests : LoginIssue(r)
BY ByItself, AuthenticateSess, AdministerSess

LEMMA SessStep == TypeOK /\ SessInv /\ [Next]_vars => SessInv'
BY SessKinds, SessKept, IssueSess DEF Ordinary

(* A session that outlives the password it was opened with was left by a   *)
(* PATCH, or its login was under way when the password changed.            *)
THEOREM OldPasswordsAreExplained == Spec => []OldPasswordsExplained
<1>1. SessInv => OldPasswordsExplained
  BY DEF SessInv
<1> QED BY <1>1, InitTyped, StepTyped, InitSess, SessStep, PTL DEF Spec

(* A session that has been revoked never comes back.                       *)
THEOREM RevokedForGood == Spec => RevokedStaysRevoked
<1> DEFINE A == \A t \in 1 .. issued : t \notin Live => t \notin Live'
<1>1. TypeOK /\ SessInv /\ [Next]_vars => A
  <2> SUFFICES ASSUME TypeOK, SessInv, [Next]_vars, NEW t \in 1 .. issued,
                      NEW i \in Used', t = rows'[i].tok
               PROVE  t \in Live
    BY DEF Live
  <2>1. CASE Ordinary
    <3>1. i \in Used /\ rows'[i].tok = rows[i].tok
      BY <2>1 DEF Ordinary, Kept, Used
    <3> QED BY <3>1 DEF Live
  <2>2. ASSUME NEW r \in Requests, LoginIssue(r) PROVE t \in Live
    <3>1. CASE Exists(req[r].who)
      <4>1. i \in Used /\ rows'[i] = rows[i]
        BY <2>2, <3>1, IssueRows
      <4> QED BY <4>1 DEF Live
    <3>2. CASE ~Exists(req[r].who)
      <4>1. i \in Used /\ rows'[i] = rows[i]
        BY <2>2, <3>2 DEF LoginIssue, Used
      <4> QED BY <4>1 DEF Live
    <3> QED BY <3>1, <3>2
  <2> QED BY <2>1, <2>2, SessKinds
<1>2. RevokedStaysRevoked <=> [][A]_vars
  BY DEF RevokedStaysRevoked
<1> QED BY <1>1, <1>2, InitTyped, StepTyped, InitSess, SessStep, PTL DEF Spec

=============================================================================
