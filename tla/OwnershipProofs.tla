-------------------------- MODULE OwnershipProofs ---------------------------
(* Proofs about who an account, an organization or a group belongs to:      *)
(* PasswordReset, OrgOwnership and GroupLeadership, for any number of       *)
(* requests, tokens, passwords, people, claims and rows.                    *)
EXTENDS PasswordReset, OrgOwnership, GroupLeadership, FiniteSetTheorems, TLAPS

-----------------------------------------------------------------------------
(* PasswordReset.                                                          *)

USE RequestsAssumption, ResetAssumption

ConfirmSteps == {"read", "reset", "rest"}
SessionSteps == {"change", "rehash", "cookie"}

(* What a confirming request, and one about a session, holds.               *)
LEMMA TokenHeld ==
    ASSUME ResetTypeOK, NEW r \in Requests, req[r].pc \in ConfirmSteps
    PROVE  /\ req[r].token \in Tokens /\ req[r].password \in Passwords
           /\ req[r].version \in 0..MaxVersion
           /\ req[r] = [pc |-> req[r].pc, token |-> req[r].token,
                        password |-> req[r].password, version |-> req[r].version]
<1>1. req[r] \in ResetDoing \cup {Idle}
    BY DEF ResetTypeOK
<1>2. req[r] \in [pc : {"read", "reset", "rest"}, token : Tokens,
                  password : Passwords, version : 0..MaxVersion]
    BY <1>1 DEF ResetDoing, Idle, ConfirmSteps
<1> QED  BY <1>2

LEMMA SessionHeld ==
    ASSUME ResetTypeOK, NEW r \in Requests, req[r].pc \in SessionSteps
    PROVE  /\ req[r].password \in Passwords /\ req[r].version \in 0..MaxVersion
           /\ req[r] = [pc |-> req[r].pc, password |-> req[r].password,
                        version |-> req[r].version]
<1>1. req[r] \in ResetDoing \cup {Idle}
    BY DEF ResetTypeOK
<1>2. req[r] \in [pc : {"change", "rehash", "cookie"},
                  password : Passwords, version : 0..MaxVersion]
    BY <1>1 DEF ResetDoing, Idle, SessionSteps
<1> QED  BY <1>2

(* What the steps that move on within a handler do to the request.          *)
LEMMA LockShape ==
    ASSUME ResetTypeOK, NEW r \in Requests, LockAccount(r)
    PROVE  req' = [req EXCEPT ![r] = [pc |-> "rest", token |-> req[r].token,
                                      password |-> req[r].password, version |-> req[r].version]]
<1>1. req[r] = [pc |-> req[r].pc, token |-> req[r].token,
                password |-> req[r].password, version |-> req[r].version]
    BY TokenHeld DEF LockAccount, At, ConfirmSteps
<1>2. req' = [req EXCEPT ![r] = [req[r] EXCEPT !.pc = "rest"]]
    BY DEF LockAccount, Goto
<1>3. [req[r] EXCEPT !.pc = "rest"]
        = [pc |-> "rest", token |-> req[r].token,
           password |-> req[r].password, version |-> req[r].version]
    BY <1>1
<1> QED  BY <1>2, <1>3

LEMMA RehashShape ==
    ASSUME ResetTypeOK, NEW r \in Requests, Rehash(r)
    PROVE  req' = [req EXCEPT ![r] = [pc |-> "cookie", password |-> req[r].password,
                                      version |-> req[r].version]]
<1>1. req[r] = [pc |-> req[r].pc, password |-> req[r].password, version |-> req[r].version]
    BY SessionHeld DEF Rehash, At, SessionSteps
<1>2. req' = [req EXCEPT ![r] = [req[r] EXCEPT !.pc = "cookie"]]
    BY DEF Rehash, Goto
<1>3. [req[r] EXCEPT !.pc = "cookie"]
        = [pc |-> "cookie", password |-> req[r].password, version |-> req[r].version]
    BY <1>1
<1> QED  BY <1>2, <1>3

-----------------------------------------------------------------------------
(* Types.                                                                  *)

\* Whoever is about to revoke the sessions has read a version that has a next.
VersionsLeft ==
    \A r \in Requests : req[r].pc \in {"reset", "rest", "change"} => req[r].version < MaxVersion

ResetTypeInv == ResetTypeOK /\ VersionsLeft

(* The number of resets is a number.                                        *)
LEMMA ResetsType == ASSUME ResetTypeOK PROVE Resets \in Nat
BY FS_Subset, FS_CardinalityType DEF Resets

(* Each step keeps the types.                                               *)
LEMMA ResetTypeStep == ResetTypeInv /\ ResetNext => ResetTypeInv'
<1> SUFFICES ASSUME ResetTypeInv, ResetNext PROVE ResetTypeInv'
    OBVIOUS
<1> USE DEF ResetTypeInv, VersionsLeft, ResetTypeOK, ResetDoing, Account, Token, Session, At, Become, Finish,
        Idle, accountVars
<1>1. ASSUME NEW r \in Requests, Ask(r) PROVE ResetTypeInv'
    BY <1>1 DEF Ask, Spend
<1>2. ASSUME NEW r \in Requests, InsertToken(r) PROVE ResetTypeInv'
    BY <1>2, ResetsType DEF InsertToken
<1>3. ASSUME NEW r \in Requests, Consume(r) PROVE ResetTypeInv'
  <2>1. PICK t \in Tokens, p \in Passwords : Confirm(r, t, p)
    BY <1>3 DEF Consume, LiveTokens
  <2> QED  BY <1>3, <2>1 DEF Consume, Confirm
<1>4. ASSUME NEW r \in Requests, ReadVersion(r) PROVE ResetTypeInv'
  <2>1. req[r].token \in Tokens /\ req[r].password \in Passwords
    BY <1>4, TokenHeld DEF ReadVersion, ConfirmSteps
  <2>2. [pc |-> "reset", token |-> req[r].token, password |-> req[r].password,
         version |-> account.version] \in ResetDoing
    BY <2>1
  <2> QED  BY <1>4, <2>2 DEF ReadVersion
<1>5. ASSUME NEW r \in Requests, LockAccount(r) PROVE ResetTypeInv'
  <2>1. /\ req[r].token \in Tokens /\ req[r].password \in Passwords
        /\ req[r].version \in 0..MaxVersion
    BY <1>5, TokenHeld DEF LockAccount, ConfirmSteps
  <2>2. req' = [req EXCEPT ![r] = [pc |-> "rest", token |-> req[r].token,
                                   password |-> req[r].password, version |-> req[r].version]]
    BY <1>5, LockShape
  <2>3. req[r].version < MaxVersion
    BY <1>5 DEF LockAccount
  <2>4. UNCHANGED accountVars
    BY <1>5 DEF LockAccount
  <2>5. req' \in [Requests -> ResetDoing \cup {Idle}]
    BY <2>1, <2>2
  <2>6. VersionsLeft'
    BY <2>2, <2>3
  <2> QED  BY <2>4, <2>5, <2>6
<1>6. ASSUME NEW r \in Requests, SpendTheRest(r) PROVE ResetTypeInv'
  <2>1. /\ req[r].token \in Tokens /\ req[r].password \in Passwords
        /\ req[r].version \in 0..MaxVersion
    BY <1>6, TokenHeld DEF SpendTheRest, ConfirmSteps
  <2> QED  BY <1>6, <2>1 DEF SpendTheRest, Commit, Spend
<1>7. ASSUME NEW r \in Requests, Deadlock(r) \/ CutOff(r) PROVE ResetTypeInv'
    BY <1>7 DEF Deadlock, CutOff
<1>8. ASSUME NEW r \in Requests, Change(r) PROVE ResetTypeInv'
    BY <1>8 DEF Change, ReadAccount
<1>9. ASSUME NEW r \in Requests, WriteChanged(r) PROVE ResetTypeInv'
  <2>1. req[r].password \in Passwords /\ req[r].version \in 0..MaxVersion
    BY <1>9, SessionHeld DEF WriteChanged, SessionSteps
  <2> QED  BY <1>9, <2>1 DEF WriteChanged
<1>10. ASSUME NEW r \in Requests, Login(r) PROVE ResetTypeInv'
    BY <1>10 DEF Login, ReadAccount
<1>11. ASSUME NEW r \in Requests, Rehash(r) PROVE ResetTypeInv'
  <2>1. req[r].password \in Passwords /\ req[r].version \in 0..MaxVersion
    BY <1>11, SessionHeld DEF Rehash, SessionSteps
  <2>2. req' = [req EXCEPT ![r] = [pc |-> "cookie", password |-> req[r].password,
                                   version |-> req[r].version]]
    BY <1>11, RehashShape
  <2>3. account' = [password |-> req[r].password, version |-> account.version, weak |-> FALSE]
    BY <1>11 DEF Rehash
  <2>4. UNCHANGED <<token, sessions, worked>>
    BY <1>11 DEF Rehash
  <2> QED  BY <2>1, <2>2, <2>3, <2>4
<1>12. ASSUME NEW r \in Requests, GiveCookie(r) PROVE ResetTypeInv'
  <2>1. req[r].password \in Passwords /\ req[r].version \in 0..MaxVersion
    BY <1>12, SessionHeld DEF GiveCookie, SessionSteps
  <2> QED  BY <1>12, <2>1 DEF GiveCookie
<1>13. ASSUME NEW t \in Tokens, Expire(t) PROVE ResetTypeInv'
    BY <1>13 DEF Expire, Spend
<1>14. CASE Logout
    BY <1>14 DEF Logout
<1> QED
    BY <1>1, <1>2, <1>3, <1>4, <1>5, <1>6, <1>7, <1>8, <1>9, <1>10, <1>11, <1>12, <1>13, <1>14
    DEF ResetNext, ResetStep

LEMMA ResetTypeInit == ResetInit => ResetTypeInv
BY DEF ResetInit, HandlersInit, ResetTypeInv, VersionsLeft, ResetTypeOK, Account, Token, NoToken, Idle

LEMMA ResetTypeStutter == ResetTypeInv /\ UNCHANGED resetVars => ResetTypeInv'
BY DEF resetVars, ResetTypeInv, VersionsLeft, ResetTypeOK

(* The account, the tokens and the sessions always have their types.        *)
THEOREM ResetTypeCorrect == ResetSpec => []ResetTypeOK
<1>1. ResetTypeInv => ResetTypeOK
    BY DEF ResetTypeInv
<1> QED
    BY <1>1, ResetTypeInit, ResetTypeStep, ResetTypeStutter, PTL DEF ResetSpec

-----------------------------------------------------------------------------
(* The links.                                                              *)

Inserting == AtSome({"insert"})

\* A link that works is owed to a request of its own, and in orderly behaviours
\* to the last one.
MostLinks == IF orderly THEN 1 ELSE Cardinality(Requests)
LinksBound == Cardinality(LiveTokens) + Cardinality(Inserting) <= MostLinks

\* A token is locked by at most one request, and not spent while it is; one
\* that works has not been used, and is younger than the last reset.
LinksInv ==
    /\ \A r \in Confirming : Live(req[r].token)
    /\ \A q, r \in Confirming : req[q].token = req[r].token => q = r
    /\ \A t \in Tokens : worked[t] <= 1 /\ (token[t].state # "spent" => worked[t] = 0)
    /\ \A t \in Tokens : Live(t) => token[t].after = Resets

(* Steps that ask for no link and use none leave the links and the locks.   *)
LEMMA OtherSteps ==
    ASSUME ResetTypeInv, NEW r \in Requests, ResetStep(r),
           ~Ask(r), ~InsertToken(r), ~Consume(r), ~SpendTheRest(r)
    PROVE  /\ token' = token /\ worked' = worked
           /\ \A q \in Requests :
                 /\ req'[q].pc \in ConfirmSteps =>
                       req[q].pc \in ConfirmSteps /\ req'[q].token = req[q].token
                 /\ req'[q].pc = "insert" => req[q].pc = "insert"
<1> USE DEF ResetTypeInv, ResetTypeOK, At, ConfirmSteps, accountVars
<1>1. CASE ReadVersion(r)
    BY <1>1 DEF ReadVersion, Become
<1>2. CASE LockAccount(r)
    BY <1>2, LockShape DEF LockAccount
<1>3. CASE Deadlock(r) \/ CutOff(r) \/ WriteChanged(r) \/ GiveCookie(r)
    BY <1>3 DEF Deadlock, CutOff, WriteChanged, GiveCookie, Finish, Become, Idle
<1>4. CASE Change(r)
    BY <1>4 DEF Change, ReadAccount, Become
<1>5. CASE Login(r)
    BY <1>5 DEF Login, ReadAccount, Become
<1>6. CASE Rehash(r)
  <2>1. UNCHANGED <<token, worked>>
    BY <1>6 DEF Rehash
  <2> QED  BY <1>6, <2>1, RehashShape
<1> QED
    BY <1>1, <1>2, <1>3, <1>4, <1>5, <1>6 DEF ResetStep

(* The locks and the links stay in step.                                    *)
LEMMA LinksInvStep ==
    ASSUME ResetTypeInv, LinksInv, ResetNext
    PROVE  LinksInv'
<1> USE DEF ResetTypeInv, ResetTypeOK, At, Confirming, AtSome
<1>1. ASSUME NEW r \in Requests, Ask(r) PROVE LinksInv'
  <2>1. Confirming = {} /\ Confirming' = {}
    BY <1>1, TokenHeld DEF Ask, HeldByOthers, LinksInv, LiveTokens, Become, ConfirmSteps
  <2> QED  BY <1>1, <2>1 DEF Ask, LinksInv, Live, Spend, LiveTokens, Token, Resets
<1>2. ASSUME NEW r \in Requests, InsertToken(r) PROVE LinksInv'
  <2>1. PICK t \in Tokens :
            /\ token[t].state = "none"
            /\ token' = [token EXCEPT ![t] = [state |-> "live", after |-> Resets]]
    BY <1>2 DEF InsertToken
  <2>2. /\ UNCHANGED worked /\ Resets' = Resets
        /\ \A q \in Confirming' : q \in Confirming /\ req'[q] = req[q]
    BY <1>2 DEF InsertToken, Finish, Become, Idle, Resets
  <2>3. \A q \in Confirming : req[q].token \in Tokens
    BY TokenHeld DEF ConfirmSteps
  <2> QED  BY <2>1, <2>2, <2>3 DEF LinksInv, Live, Token
<1>3. ASSUME NEW r \in Requests, Consume(r) PROVE LinksInv'
  <2>1. PICK t \in LiveTokens \ HeldByOthers(r), p \in Passwords : Confirm(r, t, p)
    BY <1>3 DEF Consume
  <2>2. UNCHANGED <<token, worked>> /\ Resets' = Resets /\ req[r].pc = "idle"
    BY <1>3 DEF Consume, accountVars, Resets
  <2>3. /\ req'[r] = [pc |-> "read", token |-> t, password |-> p, version |-> 0]
        /\ \A q \in Requests \ {r} : req'[q] = req[q]
    BY <2>1 DEF Confirm, Become
  <2>4. \A q \in Confirming : q # r /\ req[q].token # t
    BY <2>1, <2>2 DEF HeldByOthers
  <2> QED  BY <2>1, <2>2, <2>3, <2>4 DEF LinksInv, Live, LiveTokens
<1>4. ASSUME NEW r \in Requests, SpendTheRest(r) PROVE LinksInv'
  <2> DEFINE own == req[r].token
  <2>1. r \in Confirming /\ own \in LiveTokens /\ own \in Tokens
    BY <1>4, TokenHeld DEF SpendTheRest, LinksInv, LiveTokens, ConfirmSteps
  <2>2. \A q \in Confirming : q = r
    BY <1>4, TokenHeld DEF SpendTheRest, HeldByOthers, LinksInv, LiveTokens, ConfirmSteps
  <2>3. Confirming' = {}
    BY <1>4, <2>2 DEF SpendTheRest, Finish, Become, Idle
  <2>4. /\ token' = Spend(LiveTokens)
        /\ worked' = [worked EXCEPT ![own] = worked[own] + 1]
    BY <1>4 DEF SpendTheRest, Commit
  <2>5. \A t \in Tokens : ~(token'[t].state = "live") /\ (token'[t].state # "spent" =>
                                                           t # own /\ token[t].state # "spent")
    BY <2>1, <2>4 DEF Spend, LiveTokens, Live, Token
  <2>6. \A t \in Tokens : worked'[t] <= 1 /\ (t # own => worked'[t] = worked[t])
    BY <2>1, <2>4 DEF LinksInv, LiveTokens, Live
  <2> QED  BY <2>3, <2>5, <2>6 DEF LinksInv, Live
<1>5. ASSUME NEW t \in Tokens, Expire(t) PROVE LinksInv'
  <2>1. UNCHANGED <<req, worked>> /\ Resets' = Resets /\ Confirming' = Confirming
    BY <1>5 DEF Expire, Resets
  <2>2. \A q \in Confirming : req[q].token # t /\ req[q].token \in Tokens
    BY <1>5, TokenHeld DEF Expire, ConfirmSteps
  <2>3. token' = Spend({t})
    BY <1>5 DEF Expire
  <2>4. \A u \in Tokens : /\ u # t => token'[u] = token[u]
                          /\ token'[t].state = "spent"
    BY <2>3 DEF Spend, Token
  <2> QED  BY <2>1, <2>2, <2>4 DEF LinksInv, Live
<1>6. ASSUME token' = token, worked' = worked,
             \A q \in Confirming' : q \in Confirming /\ req'[q].token = req[q].token
      PROVE  LinksInv'
  <2>1. Resets' = Resets
    BY <1>6 DEF Resets
  <2> QED  BY <1>6, <2>1 DEF LinksInv, Live
<1>7. ASSUME NEW r \in Requests, ResetStep(r),
             ~Ask(r), ~InsertToken(r), ~Consume(r), ~SpendTheRest(r)
      PROVE  LinksInv'
    BY <1>6, <1>7, OtherSteps DEF ConfirmSteps
<1>8. CASE Logout
    BY <1>6, <1>8 DEF Logout
<1> QED
    BY <1>1, <1>2, <1>3, <1>4, <1>5, <1>7, <1>8 DEF ResetNext

(* Each link that works is paid for by a request.                           *)
LEMMA LinksBoundStep ==
    ASSUME ResetTypeInv, LinksBound, ResetNext
    PROVE  LinksBound'
<1> USE DEF ResetTypeInv, ResetTypeOK, At, AtSome
<1>0. /\ IsFiniteSet(LiveTokens) /\ Cardinality(LiveTokens) \in Nat
      /\ IsFiniteSet(Inserting) /\ Cardinality(Inserting) \in Nat
      /\ MostLinks \in Nat /\ MostLinks' = MostLinks
  <2>1. LiveTokens \subseteq Tokens /\ Inserting \subseteq Requests
    BY DEF LiveTokens, Inserting
  <2>2. orderly' = orderly
    BY DEF ResetNext
  <2> QED  BY <2>1, <2>2, FS_Subset, FS_CardinalityType DEF MostLinks
<1>1. ASSUME NEW r \in Requests, Ask(r) PROVE LinksBound'
  <2>1. LiveTokens' = {} /\ Inserting' \subseteq Requests
    BY <1>1 DEF Ask, LiveTokens, Live, Spend, Inserting, Token
  <2>2. IsFiniteSet(Inserting') /\ Cardinality(Inserting') <= Cardinality(Requests)
    BY <2>1, FS_Subset
  <2>3. Cardinality(Inserting') <= MostLinks
    <3>1. CASE orderly
      <4>1. Inserting = {}
        BY <1>1, <3>1 DEF Ask, MayAsk, Inserting
      <4>2. Inserting' \subseteq {r}
        BY <1>1, <4>1 DEF Ask, Become, Inserting
      <4>3. Cardinality(Inserting') <= Cardinality({r})
        BY <4>2, FS_Singleton, FS_Subset
      <4> QED  BY <3>1, <4>3, FS_Singleton DEF MostLinks
    <3>2. CASE ~orderly
      BY <2>2, <3>2 DEF MostLinks
    <3> QED  BY <3>1, <3>2
  <2> QED  BY <1>0, <2>1, <2>2, <2>3, FS_EmptySet, FS_CardinalityType DEF LinksBound
<1>2. ASSUME NEW r \in Requests, InsertToken(r) PROVE LinksBound'
  <2>1. PICK t \in Tokens :
            token' = [token EXCEPT ![t] = [state |-> "live", after |-> Resets]]
    BY <1>2 DEF InsertToken
  <2>2. LiveTokens' = LiveTokens \cup {t}
    BY <2>1 DEF LiveTokens, Live
  <2>3. r \in Inserting /\ Inserting' = Inserting \ {r}
    BY <1>2 DEF InsertToken, Inserting, Finish, Become, Idle
  <2>4. Cardinality(LiveTokens \cup {t}) \in {Cardinality(LiveTokens), Cardinality(LiveTokens) + 1}
    BY <1>0, FS_AddElement
  <2>5. Cardinality(Inserting \ {r}) = Cardinality(Inserting) - 1
    BY <1>0, <2>3, FS_RemoveElement
  <2> QED  BY <1>0, <2>2, <2>3, <2>4, <2>5 DEF LinksBound
<1>3. ASSUME LiveTokens' \subseteq LiveTokens, Inserting' \subseteq Inserting PROVE LinksBound'
  <2>1. /\ IsFiniteSet(LiveTokens') /\ Cardinality(LiveTokens') <= Cardinality(LiveTokens)
        /\ IsFiniteSet(Inserting') /\ Cardinality(Inserting') <= Cardinality(Inserting)
    BY <1>0, <1>3, FS_Subset
  <2>2. Cardinality(LiveTokens') \in Nat /\ Cardinality(Inserting') \in Nat
    BY <2>1, FS_CardinalityType
  <2> QED  BY <1>0, <2>1, <2>2 DEF LinksBound
<1>4. ASSUME NEW r \in Requests, Consume(r) PROVE LinksBound'
  <2>1. UNCHANGED token /\ \E t, p : Confirm(r, t, p)
    BY <1>4 DEF Consume, accountVars
  <2>2. LiveTokens' = LiveTokens /\ Inserting' \subseteq Inserting
    BY <2>1 DEF Confirm, Become, LiveTokens, Live, Inserting
  <2> QED  BY <1>3, <2>2
<1>5. ASSUME NEW r \in Requests, SpendTheRest(r) PROVE LinksBound'
  <2>1. LiveTokens' \subseteq LiveTokens
    BY <1>5 DEF SpendTheRest, Commit, Spend, LiveTokens, Live, Token
  <2>2. Inserting' \subseteq Inserting
    BY <1>5 DEF SpendTheRest, Finish, Become, Idle, Inserting
  <2> QED  BY <1>3, <2>1, <2>2
<1>6. ASSUME NEW t \in Tokens, Expire(t) PROVE LinksBound'
  <2>1. LiveTokens' \subseteq LiveTokens /\ Inserting' = Inserting
    BY <1>6 DEF Expire, Spend, LiveTokens, Live, Token, Inserting
  <2> QED  BY <1>3, <2>1
<1>7. ASSUME NEW r \in Requests, ResetStep(r),
             ~Ask(r), ~InsertToken(r), ~Consume(r), ~SpendTheRest(r)
      PROVE  LinksBound'
  <2>1. LiveTokens' = LiveTokens /\ Inserting' \subseteq Inserting
    BY <1>7, OtherSteps DEF LiveTokens, Live, Inserting
  <2> QED  BY <1>3, <2>1
<1>8. CASE Logout
  <2>1. LiveTokens' = LiveTokens /\ Inserting' = Inserting
    BY <1>8 DEF Logout, LiveTokens, Live, Inserting
  <2> QED  BY <1>3, <2>1
<1> QED
    BY <1>1, <1>2, <1>4, <1>5, <1>6, <1>7, <1>8 DEF ResetNext

LEMMA LinksInit == ResetInit => LinksInv /\ LinksBound
<1> SUFFICES ASSUME ResetInit PROVE LinksInv /\ LinksBound
    OBVIOUS
<1>1. /\ \A t \in Tokens : token[t].state = "none" /\ worked[t] = 0
      /\ \A r \in Requests : req[r].pc = "idle"
    BY DEF ResetInit, HandlersInit, NoToken, Idle
<1>2. Confirming = {} /\ Inserting = {} /\ LiveTokens = {}
    BY <1>1 DEF Confirming, Inserting, AtSome, LiveTokens, Live
<1>3. MostLinks \in Nat
    BY FS_CardinalityType DEF MostLinks
<1> QED
    BY <1>1, <1>2, <1>3, FS_EmptySet DEF LinksInv, LinksBound, Live

LEMMA LinksStutter ==
    ASSUME LinksInv, LinksBound, UNCHANGED resetVars
    PROVE  LinksInv' /\ LinksBound'
<1>1. UNCHANGED <<token, worked, req, orderly>>
    BY DEF resetVars, accountVars
<1>2. /\ UNCHANGED <<LiveTokens, Inserting, Confirming, Resets, MostLinks>>
      /\ \A t \in Tokens : Live(t)' = Live(t)
    BY <1>1 DEF LiveTokens, Live, Inserting, Confirming, AtSome, Resets, MostLinks
<1> QED  BY <1>1, <1>2 DEF LinksInv, LinksBound, Live

LEMMA LinksHold == ResetSpec => [](ResetTypeInv /\ LinksInv /\ LinksBound)
<1>1. ResetTypeInv /\ LinksInv /\ LinksBound /\ [ResetNext]_resetVars
        => (ResetTypeInv /\ LinksInv /\ LinksBound)'
    BY ResetTypeStep, ResetTypeStutter, LinksInvStep, LinksBoundStep, LinksStutter
<1> QED
    BY <1>1, ResetTypeInit, LinksInit, PTL DEF ResetSpec

(* When links are asked for one after the other only the latest works, and *)
(* there are never more links that work than requests running.             *)
THEOREM LinksBounded == ResetSpec => []LiveLinksBound
<1>1. ResetTypeInv /\ LinksBound => LiveLinksBound
  <2> SUFFICES ASSUME ResetTypeInv, LinksBound PROVE LiveLinksBound
      OBVIOUS
  <2>1. LiveTokens \subseteq Tokens /\ Inserting \subseteq Requests
      BY DEF LiveTokens, Inserting, AtSome
  <2>2. /\ Cardinality(LiveTokens) \in Nat /\ Cardinality(Inserting) \in Nat
        /\ MostLinks \in Nat
      BY <2>1, FS_Subset, FS_CardinalityType DEF MostLinks
  <2>3. Cardinality(LiveTokens) <= MostLinks
      BY <2>2 DEF LinksBound
  <2> QED  BY <2>3 DEF MostLinks, LiveLinksBound
<1> QED  BY <1>1, LinksHold, PTL

(* No link that works, or is being confirmed, is older than a reset.       *)
THEOREM NoLinkOutlives == ResetSpec => []NoLinkOutlivesAReset
<1>1. ResetTypeInv /\ LinksInv => NoLinkOutlivesAReset
    BY TokenHeld DEF LinksInv, NoLinkOutlivesAReset, ResetTypeInv, Confirming, AtSome, ConfirmSteps
<1> QED  BY <1>1, LinksHold, PTL

(* No link ever resets the password twice.                                 *)
THEOREM OneReset == ResetSpec => []OneResetPerLink
<1>1. LinksInv => OneResetPerLink
    BY DEF LinksInv, OneResetPerLink
<1> QED  BY <1>1, LinksHold, PTL

-----------------------------------------------------------------------------
(* Who is signed in.                                                       *)

Revoking == {"read", "reset", "rest", "change", "rehash"}

\* What a cookie with this version and password says of the account.
NoNewer(c) ==
    /\ c.version <= account.version
    /\ c.version = account.version => c.password = account.password

\* One request at a time writes the password; it has read the account as it
\* is; nobody holds, or is about to be given, a cookie of today's version
\* with a password of yesterday.
SessionsInv ==
    orderly =>
        /\ \A q, r \in Requests :
              req[q].pc \in Revoking /\ req[r].pc \in Revoking => q = r
        /\ \A r \in Requests :
              /\ req[r].pc \in {"reset", "rest", "change"} => req[r].version = account.version
              /\ req[r].pc = "rehash" =>
                    req[r].version = account.version /\ req[r].password = account.password
              /\ req[r].pc = "cookie" => NoNewer(req[r])
        /\ \A s \in sessions : NoNewer(s)

LEMMA SessionsInvStep ==
    ASSUME ResetTypeInv, SessionsInv, ResetNext
    PROVE  SessionsInv'
<1> SUFFICES ASSUME orderly PROVE SessionsInv'
    BY DEF ResetNext, SessionsInv
<1> USE DEF ResetTypeInv, ResetTypeOK, SessionsInv, NoNewer, At, Revoking, accountVars
<1>0. orderly' = orderly
    BY DEF ResetNext
<1>1. ASSUME NEW r \in Requests, UNCHANGED <<account, sessions>>,
             \A q \in Requests \ {r} : req'[q] = req[q],
             req'[r].pc \in {"idle", "insert"}
      PROVE  SessionsInv'
    BY <1>0, <1>1
<1>2. ASSUME NEW r \in Requests,
             Ask(r) \/ InsertToken(r) \/ Deadlock(r) \/ CutOff(r)
      PROVE  SessionsInv'
  <2>1. /\ UNCHANGED <<account, sessions>>
        /\ \A q \in Requests \ {r} : req'[q] = req[q]
        /\ req'[r].pc \in {"idle", "insert"}
    BY <1>2 DEF Ask, InsertToken, Deadlock, CutOff, Finish, Become, Idle
  <2> QED  BY <1>1, <2>1
<1>3. ASSUME NEW r \in Requests, Consume(r) PROVE SessionsInv'
  <2>1. /\ UNCHANGED <<account, sessions>>
        /\ \A q \in Requests \ {r} : req'[q] = req[q]
        /\ req'[r].pc = "read"
    BY <1>3 DEF Consume, Confirm, Become
  <2>2. \A q \in Requests : req[q].pc \notin Revoking
    BY <1>3 DEF Consume, MayRevoke, Writers, AtSome
  <2> QED  BY <1>0, <2>1, <2>2
<1>4. ASSUME NEW r \in Requests, ReadVersion(r) PROVE SessionsInv'
  <2>1. /\ UNCHANGED <<account, sessions>> /\ req[r].pc = "read"
        /\ \A q \in Requests \ {r} : req'[q] = req[q]
        /\ req'[r].pc = "reset" /\ req'[r].version = account.version
    BY <1>4 DEF ReadVersion, Become
  <2> QED  BY <1>0, <2>1
<1>5. ASSUME NEW r \in Requests, LockAccount(r) PROVE SessionsInv'
  <2>1. /\ UNCHANGED <<account, sessions>> /\ req[r].pc = "reset"
        /\ \A q \in Requests \ {r} : req'[q] = req[q]
        /\ req'[r].pc = "rest" /\ req'[r].version = req[r].version
    BY <1>5, LockShape DEF LockAccount
  <2> QED  BY <1>0, <2>1
<1>6. ASSUME NEW r \in Requests, SpendTheRest(r) PROVE SessionsInv'
  <2>1. /\ UNCHANGED sessions /\ req[r].pc = "rest"
        /\ account'.version = account.version + 1
        /\ \A q \in Requests \ {r} : req'[q] = req[q]
        /\ req'[r].pc = "idle"
    BY <1>6 DEF SpendTheRest, Commit, Finish, Become, Idle
  <2>2. \A q \in Requests \ {r} : req[q].pc \notin Revoking
    BY <2>1
  <2>3. account.version \in Nat /\ \A s \in sessions : s.version \in Nat
    BY DEF Account, Session
  <2>4. \A q \in Requests : req[q].pc = "cookie" => req[q].version \in Nat
    BY SessionHeld DEF SessionSteps
  <2> QED  BY <1>0, <2>1, <2>2, <2>3, <2>4
<1>7. ASSUME NEW r \in Requests, Change(r) PROVE SessionsInv'
  <2>1. /\ UNCHANGED <<account, sessions>>
        /\ \A q \in Requests \ {r} : req'[q] = req[q]
        /\ req'[r].pc = "change" /\ req'[r].version = account.version
    BY <1>7 DEF Change, ReadAccount, Become
  <2>2. \A q \in Requests : req[q].pc \notin Revoking
    BY <1>7 DEF Change, MayRevoke, Writers, AtSome
  <2> QED  BY <1>0, <2>1, <2>2
<1>8. ASSUME NEW r \in Requests, WriteChanged(r) PROVE SessionsInv'
  <2> DEFINE new == [password |-> req[r].password, version |-> req[r].version + 1]
  <2>1. /\ sessions' = sessions \cup {new}
        /\ req[r].pc = "change" /\ req[r].version = account.version
        /\ account'.version = account.version + 1 /\ account'.password = req[r].password
        /\ \A q \in Requests \ {r} : req'[q] = req[q]
        /\ req'[r].pc = "idle"
    BY <1>8 DEF WriteChanged, Finish, Become, Idle
  <2>2. \A q \in Requests \ {r} : req[q].pc \notin Revoking
    BY <2>1
  <2>3. account.version \in Nat /\ \A s \in sessions : s.version \in Nat
    BY DEF Account, Session
  <2>4. \A q \in Requests : req[q].pc = "cookie" => req[q].version \in Nat
    BY SessionHeld DEF SessionSteps
  <2> QED  BY <1>0, <2>1, <2>2, <2>3, <2>4
<1>9. ASSUME NEW r \in Requests, Login(r) PROVE SessionsInv'
  <2>1. /\ UNCHANGED <<account, sessions>>
        /\ \A q \in Requests \ {r} : req'[q] = req[q]
        /\ req'[r].pc = IF account.weak THEN "rehash" ELSE "cookie"
        /\ req'[r].version = account.version /\ req'[r].password = account.password
    BY <1>9 DEF Login, ReadAccount, Become
  <2>2. account.weak => \A q \in Requests : req[q].pc \notin Revoking
    BY <1>9 DEF Login, MayRevoke, Writers, AtSome
  <2>3. account.version \in Nat
    BY DEF Account
  <2> QED  BY <1>0, <2>1, <2>2, <2>3
<1>10. ASSUME NEW r \in Requests, Rehash(r) PROVE SessionsInv'
  <2>1. UNCHANGED sessions /\ req[r].pc = "rehash"
    BY <1>10 DEF Rehash
  <2>2. account' = [account EXCEPT !.password = req[r].password, !.weak = FALSE]
    BY <1>10 DEF Rehash
  <2>3. account'.version = account.version /\ account'.password = account.password
    BY <2>1, <2>2 DEF Account
  <2>4. /\ \A q \in Requests \ {r} : req'[q] = req[q]
        /\ req'[r].pc = "cookie" /\ req'[r].version = account.version
        /\ req'[r].password = account.password
    BY <1>10, <2>1, RehashShape
  <2>5. account.version \in Nat
    BY DEF Account
  <2> QED  BY <1>0, <2>1, <2>3, <2>4, <2>5
<1>11. ASSUME NEW r \in Requests, GiveCookie(r) PROVE SessionsInv'
  <2>1. /\ UNCHANGED account /\ req[r].pc = "cookie"
        /\ sessions' = sessions \cup {[password |-> req[r].password, version |-> req[r].version]}
        /\ \A q \in Requests \ {r} : req'[q] = req[q]
        /\ req'[r].pc = "idle"
    BY <1>11 DEF GiveCookie, Finish, Become, Idle
  <2> QED  BY <1>0, <2>1
<1>12. ASSUME NEW t \in Tokens, Expire(t) PROVE SessionsInv'
    BY <1>0, <1>12 DEF Expire
<1>13. CASE Logout
  <2>1. UNCHANGED <<sessions, req>> /\ account'.version = account.version + 1
    BY <1>13 DEF Logout, Account
  <2>2. \A q \in Requests : req[q].pc \notin Revoking
    BY <1>13 DEF Logout, MayRevoke, Writers, AtSome
  <2>3. account.version \in Nat /\ \A s \in sessions : s.version \in Nat
    BY DEF Account, Session
  <2>4. \A q \in Requests : req[q].pc = "cookie" => req[q].version \in Nat
    BY SessionHeld DEF SessionSteps
  <2> QED  BY <1>0, <2>1, <2>2, <2>3, <2>4
<1> QED
    BY <1>2, <1>3, <1>4, <1>5, <1>6, <1>7, <1>8, <1>9, <1>10, <1>11, <1>12, <1>13
    DEF ResetNext, ResetStep

(* While the password is written by one request at a time, nobody is signed *)
(* in who does not know it.                                                 *)
THEOREM SignedInKnows == ResetSpec => []SignedInKnowsPassword
<1>1. ResetInit => SessionsInv
    BY DEF ResetInit, HandlersInit, SessionsInv, Idle, Revoking
<1>2. ResetTypeInv /\ SessionsInv /\ [ResetNext]_resetVars => SessionsInv'
  <2>1. SessionsInv /\ UNCHANGED resetVars => SessionsInv'
    BY DEF SessionsInv, NoNewer, resetVars
  <2> QED  BY <2>1, SessionsInvStep
<1>3. SessionsInv => SignedInKnowsPassword
    BY DEF SessionsInv, NoNewer, SignedInKnowsPassword
<1>4. ResetTypeInv /\ [ResetNext]_resetVars => ResetTypeInv'
    BY ResetTypeStep, ResetTypeStutter
<1> QED
    BY <1>1, <1>2, <1>3, <1>4, ResetTypeInit, PTL DEF ResetSpec

-----------------------------------------------------------------------------
(* OrgOwnership.                                                           *)

USE OwnershipAssumption

orgSpecVars == <<owner, role, claim, req, orderly>>

ClaimSteps == {"readOrg", "spend", "transfer"}

-----------------------------------------------------------------------------
(* Types.                                                                  *)

\* A claim somebody is redeeming has been minted; only the two roles an
\* admin may give are ever given.
Minted ==
    \A r \in Requests :
        /\ req[r].pc \in ClaimSteps => claim[req[r].claim].state # "none"
        /\ req[r].pc = "role" => req[r].to \in {"MEMBER", "ADMIN"}

OrgTypeInv == OrgTypeOK /\ Minted

(* What each request holds.                                                 *)
LEMMA Held ==
    ASSUME OrgTypeOK, NEW r \in Requests
    PROVE  /\ req[r].pc # "idle" => req[r].user \in Users
           /\ req[r].pc \in ClaimSteps => req[r].claim \in Claims
           /\ req[r].pc = "transfer" => req[r].from \in Users
           /\ req[r].pc = "role" => req[r].to \in Roles
BY DEF OrgTypeOK, OrgDoing, Idle, ClaimSteps

(* Spending a claim leaves who minted it.                                   *)
LEMMA Spent ==
    ASSUME OrgTypeOK, NEW c \in Claims, claim[c].state # "none",
           claim' = [claim EXCEPT ![c].state = "spent"]
    PROVE  /\ claim' \in [Claims -> Claim]
           /\ \A d \in Claims : claim[d].state # "none" =>
                 claim'[d].state # "none" /\ claim'[d].by = claim[d].by
<1>1. claim[c] \in [state : {"open", "spent"}, by : Users]
    BY DEF OrgTypeOK, Claim
<1>2. claim' = [claim EXCEPT ![c] = [claim[c] EXCEPT !.state = "spent"]]
    OBVIOUS
<1>3. [claim[c] EXCEPT !.state = "spent"] = [state |-> "spent", by |-> claim[c].by]
    BY <1>1
<1> QED  BY <1>1, <1>2, <1>3 DEF OrgTypeOK, Claim

(* Redeeming goes on with what the request read.                            *)
LEMMA Proceeds ==
    ASSUME OrgTypeOK, NEW r \in Requests, req[r].pc = "readOrg", Proceed(r)
    PROVE  /\ \A q \in Requests \ {r} : req'[q] = req[q]
           /\ req' \in [Requests -> OrgDoing \cup {Idle}]
           /\ req'[r].user = req[r].user /\ req'[r].claim = req[r].claim
           /\ \/ req'[r].pc = "spend" /\ req[r].user = owner
              \/ req'[r].pc = "transfer" /\ req'[r].from = owner /\ req[r].user # owner
<1>1. req[r].user \in Users /\ req[r].claim \in Claims /\ owner \in Users
    BY Held DEF ClaimSteps, OrgTypeOK
<1>2. CASE req[r].user = owner
  <2>1. req' = [req EXCEPT ![r] = [pc |-> "spend", user |-> req[r].user, claim |-> req[r].claim]]
    BY <1>2 DEF Proceed, Become
  <2> QED  BY <1>1, <1>2, <2>1 DEF OrgTypeOK, OrgDoing
<1>3. CASE req[r].user # owner
  <2>1. req' = [req EXCEPT ![r] = [pc |-> "transfer", user |-> req[r].user,
                                   claim |-> req[r].claim, from |-> owner]]
    BY <1>3 DEF Proceed, Become
  <2> QED  BY <1>1, <1>3, <2>1 DEF OrgTypeOK, OrgDoing
<1> QED  BY <1>2, <1>3

LEMMA OrgTypeInit == OrgInit => OrgTypeInv
BY DEF OrgInit, HandlersInit, OrgTypeInv, OrgTypeOK, Minted, Claim, Roles, Idle, ClaimSteps

LEMMA OrgTypeStep == OrgTypeInv /\ OrgNext => OrgTypeInv'
<1> SUFFICES ASSUME OrgTypeInv, OrgNext PROVE OrgTypeInv'
    OBVIOUS
<1> USE DEF OrgTypeInv, OrgTypeOK, Minted, At, orgVars, ClaimSteps
<1>1. ASSUME NEW r \in Requests, NEW u \in Users, OrgBegin(r, u) PROVE OrgTypeInv'
  <2> USE DEF OrgDoing, Become
  <2>1. CASE Mint(r, u)
    BY <2>1 DEF Mint
  <2>2. CASE Redeem(r, u)
    BY <2>2 DEF Redeem, Open
  <2>3. CASE JoinOrg(r, u)
    BY <2>3 DEF JoinOrg
  <2>4. CASE LeaveOrg(r, u)
    BY <2>4 DEF LeaveOrg
  <2>5. CASE PatchRole(r, u)
    BY <2>5 DEF PatchRole, Roles
  <2> QED  BY <1>1, <2>1, <2>2, <2>3, <2>4, <2>5 DEF OrgBegin
<1>2. ASSUME NEW r \in Requests, InsertClaim(r) PROVE OrgTypeInv'
  <2>1. req[r].user \in Users
    BY <1>2, Held DEF InsertClaim
  <2> QED  BY <1>2, <2>1 DEF InsertClaim, Claim, Finish, Become, Idle, OrgDoing
<1>3. ASSUME NEW r \in Requests, ReadOrg(r) PROVE OrgTypeInv'
  <2>1. CASE Proceed(r)
    BY <1>3, <2>1, Proceeds DEF ReadOrg
  <2>2. CASE Finish(r)
    BY <1>3, <2>2 DEF ReadOrg, Finish, Become, Idle
  <2> QED  BY <1>3, <2>1, <2>2 DEF ReadOrg
<1>4. ASSUME NEW r \in Requests, SpendOnly(r) \/ Transfer(r) PROVE OrgTypeInv'
  <2>1. req[r].pc \in ClaimSteps /\ req[r].claim \in Claims /\ SpendClaim(req[r].claim)
    BY <1>4, Held DEF SpendOnly, Transfer
  <2>2. /\ claim' \in [Claims -> Claim]
        /\ \A d \in Claims : claim[d].state # "none" => claim'[d].state # "none"
    BY <2>1, Spent DEF SpendClaim
  <2>3. /\ req' \in [Requests -> OrgDoing \cup {Idle}]
        /\ \A q \in Requests : req'[q] = req[q] \/ req'[q].pc = "idle"
    BY <1>4 DEF SpendOnly, Transfer, Finish, Become, Idle
  <2>4. owner' \in Users /\ role' \in [Users -> Roles]
    BY <1>4, Held DEF SpendOnly, Transfer, Roles
  <2>5. \A q \in Requests : req[q].pc \in ClaimSteps => req[q].claim \in Claims
    BY Held
  <2> QED  BY <2>2, <2>3, <2>4, <2>5
<1>5. ASSUME NEW r \in Requests, InsertMember(r) \/ DeleteMember(r) \/ UpdateRole(r)
      PROVE  OrgTypeInv'
  <2>1. role' \in [Users -> Roles]
    BY <1>5, Held DEF InsertMember, DeleteMember, UpdateRole, Roles
  <2> QED  BY <1>5, <2>1 DEF InsertMember, DeleteMember, UpdateRole, Finish, Become, Idle
<1>6. ASSUME NEW r \in Requests, CutOffOrg(r) PROVE OrgTypeInv'
    BY <1>6 DEF CutOffOrg, Finish, Become, Idle
<1>7. ASSUME NEW c \in Claims, ClaimExpires(c) PROVE OrgTypeInv'
  <2>1. /\ claim' \in [Claims -> Claim]
        /\ \A d \in Claims : claim[d].state # "none" => claim'[d].state # "none"
    BY <1>7, Spent DEF ClaimExpires, Open
  <2>2. \A q \in Requests : req[q].pc \in ClaimSteps => req[q].claim \in Claims
    BY Held
  <2> QED  BY <1>7, <2>1, <2>2 DEF ClaimExpires
<1> QED
    BY <1>1, <1>2, <1>3, <1>4, <1>5, <1>6, <1>7 DEF OrgNext, OrgContinue

LEMMA OrgTypeStutter == OrgTypeInv /\ UNCHANGED orgSpecVars => OrgTypeInv'
BY DEF OrgTypeInv, OrgTypeOK, Minted, orgSpecVars

(* The organization, its members and its claims always have their types.    *)
THEOREM OrgTypeCorrect == OrgSpec => []OrgTypeOK
<1>1. OrgTypeInv => OrgTypeOK
    BY DEF OrgTypeInv
<1> QED
    BY <1>1, OrgTypeInit, OrgTypeStep, OrgTypeStutter, PTL DEF OrgSpec, orgSpecVars

-----------------------------------------------------------------------------
(* Ownership.                                                              *)

\* Claims are redeemed apart from each other and from departures; who is
\* about to take over took the owner of today for the owner, and a claim of
\* theirs; who is about to lose a role or a membership is not the owner.
OwnerInv ==
    orderly =>
        /\ SoleOwner
        /\ \A q, r \in Requests :
              req[q].pc \in ClaimSteps /\ req[r].pc \in ClaimSteps \cup {"leave", "role"} => q = r
        /\ \A r \in Requests :
              /\ req[r].pc = "transfer" =>
                    /\ req[r].from = owner /\ req[r].user # owner
                    /\ claim[req[r].claim].by = owner
              /\ req[r].pc \in {"leave", "role"} => role[req[r].user] # "OWNER"

LEMMA OwnerInvStep ==
    ASSUME OrgTypeInv, OwnerInv, OrgNext
    PROVE  OwnerInv'
<1> SUFFICES ASSUME orderly PROVE OwnerInv'
    BY DEF OrgNext, OwnerInv
<1> USE DEF OrgTypeInv, OrgTypeOK, OwnerInv, SoleOwner, At, ClaimSteps, orgVars
<1>0. orderly' = orderly
    BY DEF OrgNext
<1>1. ASSUME NEW r \in Requests, UNCHANGED <<owner, role>>, OrgTypeInv',
             \A c \in Claims : claim[c].state # "none" => claim'[c].by = claim[c].by,
             \A q \in Requests \ {r} : req'[q] = req[q],
             req'[r] = req[r] \/ req'[r].pc \in {"idle", "mint", "join"}
      PROVE  OwnerInv'
  <2>1. \A q \in Requests : req[q].pc = "transfer" =>
            req[q].claim \in Claims /\ claim[req[q].claim].state # "none"
    BY Held DEF Minted
  <2> QED  BY <1>0, <1>1, <2>1
<1>2. ASSUME NEW r \in Requests, NEW u \in Users, OrgBegin(r, u) PROVE OwnerInv'
  <2> USE DEF Become
  <2>1. CASE Mint(r, u)
    BY <1>0, <2>1 DEF Mint
  <2>2. CASE Redeem(r, u)
    BY <1>0, <2>2 DEF Redeem, MayRedeem, Redeeming, Leaving, AtSome
  <2>3. CASE JoinOrg(r, u)
    BY <1>0, <2>3 DEF JoinOrg
  <2>4. CASE LeaveOrg(r, u)
    BY <1>0, <2>4 DEF LeaveOrg, MayLeave, Redeeming, AtSome
  <2>5. CASE PatchRole(r, u)
    BY <1>0, <2>5 DEF PatchRole, MayLeave, Redeeming, AtSome
  <2> QED  BY <1>2, <2>1, <2>2, <2>3, <2>4, <2>5 DEF OrgBegin
<1>3. ASSUME NEW r \in Requests, InsertClaim(r) PROVE OwnerInv'
  <2>1. /\ \A c \in Claims : claim[c].state # "none" => claim'[c].by = claim[c].by
        /\ \A q \in Requests \ {r} : req'[q] = req[q]
        /\ req'[r].pc = "idle"
    BY <1>3 DEF InsertClaim, Finish, Become, Idle
  <2> QED  BY <1>1, <1>3, <2>1, OrgTypeStep DEF InsertClaim
<1>4. ASSUME NEW r \in Requests, ReadOrg(r) PROVE OwnerInv'
  <2>1. CASE claim[req[r].claim].by = owner
    BY <1>0, <1>4, <2>1, Proceeds DEF ReadOrg
  <2>2. CASE claim[req[r].claim].by # owner
    BY <1>0, <1>4, <2>2 DEF ReadOrg, Finish, Become, Idle
  <2> QED  BY <2>1, <2>2
<1>5. ASSUME NEW r \in Requests, SpendOnly(r) PROVE OwnerInv'
  <2>1. req[r].claim \in Claims /\ claim[req[r].claim].state # "none"
    BY <1>5, Held DEF SpendOnly, Minted
  <2>2. \A c \in Claims : claim[c].state # "none" => claim'[c].by = claim[c].by
    BY <1>5, <2>1, Spent DEF SpendOnly, SpendClaim
  <2>3. /\ \A q \in Requests \ {r} : req'[q] = req[q]
        /\ req'[r].pc = "idle"
    BY <1>5 DEF SpendOnly, Finish, Become, Idle
  <2> QED  BY <1>1, <1>5, <2>2, <2>3, OrgTypeStep DEF SpendOnly
<1>6. ASSUME NEW r \in Requests, Transfer(r) PROVE OwnerInv'
  <2>1. req[r].user \in Users /\ req[r].from = owner /\ req[r].user # owner
    BY <1>6, Held DEF Transfer
  <2>2. /\ owner' = req[r].user
        /\ role' = [role EXCEPT ![req[r].user] = "OWNER", ![req[r].from] = "none"]
    BY <1>6 DEF Transfer
  <2>3. {u \in Users : role'[u] = "OWNER"} = {owner'}
    BY <2>1, <2>2
  <2>4. /\ \A q \in Requests \ {r} : req'[q] = req[q]
        /\ req'[r].pc = "idle"
    BY <1>6 DEF Transfer, Finish, Become, Idle
  <2>5. \A q \in Requests : req'[q].pc \notin ClaimSteps \cup {"leave", "role"}
    BY <1>6, <2>4 DEF Transfer
  <2> QED  BY <1>0, <2>3, <2>5
<1>7. ASSUME NEW r \in Requests, InsertMember(r) \/ DeleteMember(r) \/ UpdateRole(r)
      PROVE  OwnerInv'
  <2>1. /\ UNCHANGED <<owner, claim>>
        /\ \A u \in Users : role'[u] = "OWNER" <=> role[u] = "OWNER"
    BY <1>7, Held DEF InsertMember, DeleteMember, UpdateRole, Minted
  <2>2. /\ \A q \in Requests \ {r} : req'[q] = req[q]
        /\ req'[r].pc = "idle"
    BY <1>7 DEF InsertMember, DeleteMember, UpdateRole, Finish, Become, Idle
  <2>3. \A q \in Requests : req[q].pc \in {"leave", "role"} => req[q].user \in Users
    BY Held
  <2>4. {u \in Users : role'[u] = "OWNER"} = {u \in Users : role[u] = "OWNER"}
    BY <2>1
  <2> QED  BY <1>0, <2>1, <2>2, <2>3, <2>4
<1>8. ASSUME NEW r \in Requests, CutOffOrg(r) PROVE OwnerInv'
    BY <1>0, <1>8 DEF CutOffOrg, Finish, Become, Idle
<1>9. ASSUME NEW c \in Claims, ClaimExpires(c) PROVE OwnerInv'
  <2>1. \A d \in Claims : claim[d].state # "none" => claim'[d].by = claim[d].by
    BY <1>9, Spent DEF ClaimExpires, Open
  <2>2. UNCHANGED <<owner, role, req>>
    BY <1>9 DEF ClaimExpires
  <2>3. \A q \in Requests : req[q].pc = "transfer" =>
            req[q].claim \in Claims /\ claim[req[q].claim].state # "none"
    BY Held DEF Minted
  <2> QED  BY <1>0, <2>1, <2>2, <2>3
<1> QED
    BY <1>2, <1>3, <1>4, <1>5, <1>6, <1>7, <1>8, <1>9 DEF OrgNext, OrgContinue

LEMMA OwnerInvInit == OrgInit => OwnerInv
BY DEF OrgInit, HandlersInit, OwnerInv, SoleOwner, Idle, ClaimSteps

LEMMA OwnerInvStutter == OwnerInv /\ UNCHANGED orgSpecVars => OwnerInv'
BY DEF OwnerInv, SoleOwner, orgSpecVars

(* In orderly behaviours there is exactly one OWNER, the owner.             *)
THEOREM SoleOwnerHolds == OrgSpec => []SoleOwner
<1>1. OrgTypeInv /\ OwnerInv /\ [OrgNext]_orgSpecVars => (OrgTypeInv /\ OwnerInv)'
    BY OrgTypeStep, OrgTypeStutter, OwnerInvStep, OwnerInvStutter
<1>2. OrgTypeInv /\ OwnerInv => SoleOwner
    BY DEF OwnerInv, SoleOwner
<1> QED
    BY <1>1, <1>2, OrgTypeInit, OwnerInvInit, PTL DEF OrgSpec, orgSpecVars

(* In orderly behaviours only a claim of the owner makes another one.       *)
THEOREM OwnerGivesAwayHolds == OrgSpec => OwnerGivesAway
<1>1. OrgTypeInv /\ OwnerInv /\ [OrgNext]_orgSpecVars => (OrgTypeInv /\ OwnerInv)'
    BY OrgTypeStep, OrgTypeStutter, OwnerInvStep, OwnerInvStutter
<1>2. OrgTypeInv /\ OwnerInv /\ [OrgNext]_orgSpecVars =>
        [orderly /\ owner' # owner =>
            \E r \in AtSome({"transfer"}) :
                req[r].user = owner' /\ claim[req[r].claim].by = owner]_owner
  <2> SUFFICES ASSUME OwnerInv, [OrgNext]_orgSpecVars, orderly, owner' # owner
               PROVE  \E r \in AtSome({"transfer"}) :
                          req[r].user = owner' /\ claim[req[r].claim].by = owner
      OBVIOUS
  <2>1. PICK r \in Requests : Transfer(r)
      BY DEF orgSpecVars, OrgNext, OrgBegin, OrgContinue, orgVars, Mint, Redeem, JoinOrg, LeaveOrg,
             PatchRole, InsertClaim, ReadOrg, SpendOnly, InsertMember, DeleteMember, UpdateRole,
             CutOffOrg, ClaimExpires
  <2> QED  BY <2>1 DEF Transfer, At, AtSome, OwnerInv
<1> QED
    BY <1>1, <1>2, OrgTypeInit, OwnerInvInit, PTL DEF OrgSpec, orgSpecVars, OwnerGivesAway

-----------------------------------------------------------------------------
(* GroupLeadership.                                                        *)

USE RequestsAssumption

groupSpecVars == <<leader, member, election, votes, req, orderly>>

-----------------------------------------------------------------------------
(* Types, and the shape of the steps.                                      *)

(* What each request holds.                                                 *)
LEMMA GroupHeld ==
    ASSUME GroupTypeOK, NEW r \in Requests
    PROVE  /\ req[r].pc \in {"join", "leave", "vote", "finalize"} => req[r].user \in People
           /\ req[r].pc = "finalize" => req[r].from \in People
           /\ req[r].pc = "patch" => req[r].to \in GroupRoles
BY DEF GroupTypeOK, GroupDoing, Idle

(* Giving a row another role leaves whose it is.                            *)
LEMMA RoleGiven ==
    ASSUME NEW m \in Member, NEW given \in GroupRoles
    PROVE  /\ [m EXCEPT !.role = given] \in Member
           /\ [m EXCEPT !.role = given].user = m.user
BY DEF Member

(* A winner's rows become "owner", and the old owner's "admin".             *)
LEMMA FinalMembers ==
    ASSUME GroupTypeOK, NEW r \in Requests, FinalizeElection(r)
    PROVE  \E f \in [member -> Member] :
               /\ \A m \in member : f[m].user = m.user
               /\ member' = {f[m] : m \in member}
<1>1. CASE req[r].from = req[r].user
  <2> DEFINE f == [m \in member |-> m]
  <2>1. /\ f \in [member -> Member] /\ \A m \in member : f[m].user = m.user
        /\ member' = {f[m] : m \in member}
    BY <1>1 DEF FinalizeElection, GroupTypeOK
  <2> QED  BY <2>1
<1>2. CASE req[r].from # req[r].user
  <2> DEFINE old(m) == IF m.user = req[r].from THEN [m EXCEPT !.role = "admin"] ELSE m
             new(m) == IF m.user = req[r].user THEN [m EXCEPT !.role = "owner"] ELSE m
             f == [m \in member |-> new(old(m))]
  <2>1. ASSUME NEW m \in Member
        PROVE  /\ old(m) \in Member /\ old(m).user = m.user
               /\ new(m) \in Member /\ new(m).user = m.user
    BY RoleGiven DEF GroupRoles
  <2>2. member' = {new(m) : m \in {old(m) : m \in member}}
    BY <1>2 DEF FinalizeElection, SetRole
  <2>3. member' = {new(old(m)) : m \in member}
    <3> HIDE DEF old, new
    <3> QED  BY <2>2
  <2>4. \A m \in member : new(old(m)) \in Member /\ new(old(m)).user = m.user
    <3> HIDE DEF old, new
    <3> QED  BY <2>1 DEF GroupTypeOK
  <2> HIDE DEF old, new
  <2>5. /\ f \in [member -> Member] /\ \A m \in member : f[m].user = m.user
        /\ member' = {f[m] : m \in member}
    BY <2>3, <2>4
  <2> QED  BY <2>5
<1> QED  BY <1>1, <1>2

LEMMA PatchedMembers ==
    ASSUME GroupTypeOK, NEW r \in Requests, UpdateRow(r)
    PROVE  \E f \in [member -> Member] :
               /\ \A m \in member : f[m].user = m.user
               /\ member' = {f[m] : m \in member}
<1> DEFINE new(m) == IF m.id = req[r].id THEN [m EXCEPT !.role = req[r].to] ELSE m
           f == [m \in member |-> new(m)]
<1>1. req[r].to \in GroupRoles
    BY GroupHeld DEF UpdateRow, At
<1>2. \A m \in member : new(m) \in Member /\ new(m).user = m.user
    BY <1>1, RoleGiven DEF GroupTypeOK
<1>3. member' = {new(m) : m \in member}
    BY DEF UpdateRow
<1> HIDE DEF new
<1>4. /\ f \in [member -> Member] /\ \A m \in member : f[m].user = m.user
      /\ member' = {f[m] : m \in member}
    BY <1>2, <1>3
<1> QED  BY <1>4

(* Giving roles leaves everybody no more rows than they had, and no fewer   *)
(* than one if they had one.                                                *)
LEMMA SameRows ==
    ASSUME GroupTypeOK, NEW u \in People, IsFiniteSet(RowsOf(u)),
           NEW f \in [member -> Member],
           \A m \in member : f[m].user = m.user, member' = {f[m] : m \in member}
    PROVE  /\ member' \subseteq Member
           /\ IsFiniteSet(RowsOf(u)') /\ Cardinality(RowsOf(u)') <= Cardinality(RowsOf(u))
           /\ RowsOf(u) # {} => RowsOf(u)' # {}
<1> DEFINE S == RowsOf(u)
           T == {m \in member' : m.user = u}
           g == [m \in S |-> f[m]]
<1>1. S \subseteq member /\ \A m \in S : m.user = u
    BY DEF RowsOf
<1>2. /\ g \in [S -> T]
      /\ \A t \in T : \E m \in S : g[m] = t
    BY <1>1 DEF RowsOf
<1>3. g \in Surjection(S, T)
    BY <1>2 DEF Surjection
<1>4. IsFiniteSet(T) /\ Cardinality(T) <= Cardinality(S)
    BY <1>3, FS_Surjection
<1>5. RowsOf(u)' = T
    BY DEF RowsOf
<1>6. S # {} => T # {}
    BY <1>2
<1> QED  BY <1>4, <1>5, <1>6

LEMMA GroupTyped == GroupTypeOK /\ [GroupNext]_groupSpecVars => GroupTypeOK'
<1> SUFFICES ASSUME GroupTypeOK, [GroupNext]_groupSpecVars PROVE GroupTypeOK'
    OBVIOUS
<1> USE DEF GroupTypeOK, At, Become, Finish, Idle, groupVars
<1>1. ASSUME NEW r \in Requests, NEW u \in People, GroupBegin(r, u) PROVE GroupTypeOK'
    BY <1>1 DEF GroupBegin, JoinGroup, LeaveGroup, Vote, ChooseWinner, BeginForUser, GroupDoing
<1>2. ASSUME NEW r \in Requests, NEW m \in member, NEW to \in GroupRoles, PatchMember(r, m, to)
      PROVE  GroupTypeOK'
    BY <1>2 DEF PatchMember, GroupDoing, Member
<1>3. ASSUME NEW r \in Requests, InsertRow(r) PROVE GroupTypeOK'
  <2>1. PICK i \in Rows : member' = member \cup {[id |-> i, user |-> req[r].user, role |-> "member"]}
    BY <1>3 DEF InsertRow
  <2>2. [id |-> i, user |-> req[r].user, role |-> "member"] \in Member
    BY <1>3, GroupHeld DEF InsertRow, Member, GroupRoles
  <2> QED  BY <1>3, <2>1, <2>2 DEF InsertRow
<1>4. ASSUME NEW r \in Requests, DeleteRows(r) \/ CutOffGroup(r) PROVE GroupTypeOK'
    BY <1>4 DEF DeleteRows, CutOffGroup
<1>5. ASSUME NEW r \in Requests, UpdateRow(r) PROVE GroupTypeOK'
  <2>1. member' \subseteq Member
    BY <1>5, PatchedMembers
  <2> QED  BY <1>5, <2>1 DEF UpdateRow
<1>6. ASSUME NEW r \in Requests, UpsertVote(r) PROVE GroupTypeOK'
    BY <1>6, GroupHeld DEF UpsertVote
<1>7. ASSUME NEW r \in Requests, FinalizeElection(r) PROVE GroupTypeOK'
  <2>1. member' \subseteq Member
    BY <1>7, FinalMembers
  <2>2. req[r].user \in People
    BY <1>7, GroupHeld DEF FinalizeElection
  <2> QED  BY <1>7, <2>1, <2>2 DEF FinalizeElection
<1>8. CASE Sweep
    BY <1>8 DEF Sweep
<1>9. CASE UNCHANGED groupSpecVars
    BY <1>9 DEF groupSpecVars
<1> QED
    BY <1>1, <1>2, <1>3, <1>4, <1>5, <1>6, <1>7, <1>8, <1>9 DEF GroupNext, GroupContinue

LEMMA GroupInitTyped == GroupInit => GroupTypeOK
BY DEF GroupInit, HandlersInit, GroupTypeOK, Member, GroupRoles, Idle

(* The group, its members and its election always have their types.         *)
THEOREM GroupTypeCorrect == GroupSpec => []GroupTypeOK
BY GroupTyped, GroupInitTyped, PTL DEF GroupSpec, groupSpecVars

-----------------------------------------------------------------------------
(* Rows.                                                                   *)

\* Requests about to insert a row for a user, who had none when they looked.
JoinsOf(u) == {r \in AtSome({"join"}) : req[r].user = u}

RowsInv ==
    \A u \in People :
        /\ IsFiniteSet(RowsOf(u))
        /\ Cardinality(RowsOf(u)) + Cardinality(JoinsOf(u)) <= Cardinality(Requests)

LEMMA Counts ==
    ASSUME NEW S \in SUBSET Requests
    PROVE  /\ IsFiniteSet(S) /\ Cardinality(S) \in Nat /\ Cardinality(S) <= Cardinality(Requests)
           /\ Cardinality(Requests) \in Nat \ {0}
           /\ \A T \in SUBSET S : Cardinality(T) \in Nat /\ Cardinality(T) <= Cardinality(S)
BY FS_Subset, FS_CardinalityType, FS_EmptySet

LEMMA RowsInvStep ==
    ASSUME GroupTypeOK, RowsInv, [GroupNext]_groupSpecVars
    PROVE  RowsInv'
<1> USE DEF GroupTypeOK, At, groupVars
<1>0. \A u \in People : /\ JoinsOf(u) \in SUBSET Requests /\ JoinsOf(u)' \in SUBSET Requests
                        /\ Cardinality(RowsOf(u)) \in Nat
    BY FS_CardinalityType DEF JoinsOf, AtSome, RowsInv
<1>j. /\ \A u, r : r \in JoinsOf(u) <=> r \in Requests /\ req[r].pc = "join" /\ req[r].user = u
      /\ \A u, r : r \in JoinsOf(u)' <=> r \in Requests /\ req'[r].pc = "join" /\ req'[r].user = u
    BY DEF JoinsOf, AtSome
<1>1. ASSUME \A u \in People : /\ JoinsOf(u)' \subseteq JoinsOf(u)
                               /\ IsFiniteSet(RowsOf(u)')
                               /\ Cardinality(RowsOf(u)') <= Cardinality(RowsOf(u))
      PROVE  RowsInv'
  <2>1. \A u \in People : /\ Cardinality(RowsOf(u)') \in Nat
                          /\ Cardinality(JoinsOf(u)') \in Nat /\ Cardinality(JoinsOf(u)) \in Nat
                          /\ Cardinality(JoinsOf(u)') <= Cardinality(JoinsOf(u))
    BY <1>0, <1>1, Counts, FS_CardinalityType
  <2>2. Cardinality(Requests) \in Nat
    BY Counts
  <2> QED  BY <1>0, <1>1, <2>1, <2>2 DEF RowsInv
<1>2. ASSUME UNCHANGED member, \A u \in People : JoinsOf(u)' \subseteq JoinsOf(u)
      PROVE  RowsInv'
  <2>1. \A u \in People : RowsOf(u)' = RowsOf(u)
    BY <1>2 DEF RowsOf
  <2> QED  BY <1>0, <1>1, <1>2, <2>1 DEF RowsInv
<1>3. ASSUME NEW r \in Requests, NEW u \in People, JoinGroup(r, u) PROVE RowsInv'
  <2>1. /\ RowsOf(u) = {} /\ UNCHANGED member
        /\ req' = [req EXCEPT ![r] = [pc |-> "join", user |-> u]]
    BY <1>3 DEF JoinGroup, IsMember, BeginForUser, Become
  <2>2. /\ \A v \in People : RowsOf(v)' = RowsOf(v)
        /\ \A v \in People \ {u} : JoinsOf(v)' \subseteq JoinsOf(v)
    BY <1>j, <2>1 DEF RowsOf
  <2>3. ASSUME NEW v \in People
        PROVE  Cardinality(RowsOf(v)') + Cardinality(JoinsOf(v)') <= Cardinality(Requests)
    <3>1. CASE v = u
      <4>1. Cardinality(RowsOf(v)') = 0
        BY <2>1, <2>2, <3>1, FS_EmptySet
      <4>2. Cardinality(JoinsOf(v)') \in Nat /\ Cardinality(JoinsOf(v)') <= Cardinality(Requests)
        BY <1>0, Counts
      <4> QED  BY <4>1, <4>2
    <3>2. CASE v # u
      <4>1. /\ Cardinality(JoinsOf(v)') \in Nat /\ Cardinality(JoinsOf(v)) \in Nat
            /\ Cardinality(JoinsOf(v)') <= Cardinality(JoinsOf(v))
            /\ Cardinality(Requests) \in Nat
        BY <1>0, <2>2, <3>2, Counts
      <4> QED  BY <1>0, <2>2, <4>1 DEF RowsInv
    <3> QED  BY <3>1, <3>2
  <2> QED  BY <2>2, <2>3 DEF RowsInv
<1>4. ASSUME NEW r \in Requests, NEW u \in People,
             LeaveGroup(r, u) \/ Vote(r, u) \/ ChooseWinner(r, u)
      PROVE  RowsInv'
  <2>1. UNCHANGED member /\ req'[r].pc # "join" /\ \A q \in Requests \ {r} : req'[q] = req[q]
    BY <1>4 DEF LeaveGroup, Vote, ChooseWinner, BeginForUser, Become
  <2> QED  BY <1>2, <1>j, <2>1
<1>5. ASSUME NEW r \in Requests, NEW m \in member, NEW to \in GroupRoles, PatchMember(r, m, to)
      PROVE  RowsInv'
  <2>1. UNCHANGED member /\ req'[r].pc # "join" /\ \A q \in Requests \ {r} : req'[q] = req[q]
    BY <1>5 DEF PatchMember, Become
  <2> QED  BY <1>2, <1>j, <2>1
<1>6. ASSUME NEW r \in Requests, UpsertVote(r) \/ CutOffGroup(r) PROVE RowsInv'
  <2>1. UNCHANGED member /\ req'[r].pc # "join" /\ \A q \in Requests \ {r} : req'[q] = req[q]
    BY <1>6 DEF UpsertVote, CutOffGroup, Finish, Become, Idle
  <2> QED  BY <1>2, <1>j, <2>1
<1>7. ASSUME NEW r \in Requests, InsertRow(r) PROVE RowsInv'
  <2>0. PICK u \in People : u = req[r].user
    BY <1>7, GroupHeld DEF InsertRow
  <2>1. PICK row : row.user = u /\ member' = member \cup {row}
    BY <1>7, <2>0 DEF InsertRow
  <2>2. /\ req[r].pc = "join" /\ req'[r].pc = "idle"
        /\ \A q \in Requests \ {r} : req'[q] = req[q]
    BY <1>7 DEF InsertRow, Finish, Become, Idle
  <2>3. /\ RowsOf(u)' = RowsOf(u) \cup {row}
        /\ \A v \in People \ {u} : RowsOf(v)' = RowsOf(v)
    BY <2>1 DEF RowsOf
  <2>4. /\ r \in JoinsOf(u)
        /\ \A v \in People : JoinsOf(v)' \subseteq JoinsOf(v) \ {r}
    BY <1>j, <2>0, <2>2
  <2>5. ASSUME NEW v \in People
        PROVE  /\ IsFiniteSet(RowsOf(v)')
               /\ Cardinality(RowsOf(v)') + Cardinality(JoinsOf(v)') <= Cardinality(Requests)
    <3>1. CASE v = u
      <4>1. /\ IsFiniteSet(RowsOf(u)')
            /\ Cardinality(RowsOf(u)') \in {Cardinality(RowsOf(u)), Cardinality(RowsOf(u)) + 1}
        BY <2>3, FS_AddElement DEF RowsInv
      <4>2. /\ Cardinality(JoinsOf(u) \ {r}) = Cardinality(JoinsOf(u)) - 1
            /\ Cardinality(JoinsOf(u)) \in Nat /\ Cardinality(Requests) \in Nat
        BY <1>0, <2>4, Counts, FS_RemoveElement
      <4>3. JoinsOf(u) \ {r} \in SUBSET Requests
        BY <1>0
      <4>4. /\ Cardinality(JoinsOf(u)') \in Nat
            /\ Cardinality(JoinsOf(u)') <= Cardinality(JoinsOf(u) \ {r})
        BY <2>4, <4>3, Counts
      <4> QED  BY <1>0, <3>1, <4>1, <4>2, <4>4 DEF RowsInv
    <3>2. CASE v # u
      <4>1. /\ Cardinality(JoinsOf(v)') \in Nat /\ Cardinality(JoinsOf(v)) \in Nat
            /\ Cardinality(JoinsOf(v)') <= Cardinality(JoinsOf(v))
            /\ Cardinality(Requests) \in Nat
        BY <1>0, <2>4, Counts
      <4> QED  BY <1>0, <2>3, <3>2, <4>1 DEF RowsInv
    <3> QED  BY <3>1, <3>2
  <2> QED  BY <2>5 DEF RowsInv
<1>8. ASSUME NEW r \in Requests, DeleteRows(r) PROVE RowsInv'
  <2>1. /\ req'[r].pc = "idle" /\ \A q \in Requests \ {r} : req'[q] = req[q]
        /\ member' \subseteq member
    BY <1>8 DEF DeleteRows, Finish, Become, Idle
  <2>2. \A u \in People : RowsOf(u)' \subseteq RowsOf(u)
    BY <2>1 DEF RowsOf
  <2>3. \A u \in People : /\ IsFiniteSet(RowsOf(u)')
                          /\ Cardinality(RowsOf(u)') <= Cardinality(RowsOf(u))
    BY <2>2, FS_Subset DEF RowsInv
  <2> QED  BY <1>1, <1>j, <2>1, <2>3
<1>9. ASSUME NEW r \in Requests, UpdateRow(r) \/ FinalizeElection(r) PROVE RowsInv'
  <2>1. req'[r].pc = "idle" /\ \A q \in Requests \ {r} : req'[q] = req[q]
    BY <1>9 DEF UpdateRow, FinalizeElection, Finish, Become, Idle
  <2>2. \A u \in People : /\ IsFiniteSet(RowsOf(u)')
                          /\ Cardinality(RowsOf(u)') <= Cardinality(RowsOf(u))
    BY <1>9, PatchedMembers, FinalMembers, SameRows DEF RowsInv
  <2> QED  BY <1>1, <1>j, <2>1, <2>2
<1>10. CASE Sweep
  <2>1. UNCHANGED <<member, req>>
    BY <1>10 DEF Sweep
  <2> QED  BY <1>2, <1>j, <2>1
<1>11. CASE UNCHANGED groupSpecVars
  <2>1. UNCHANGED <<member, req>>
    BY <1>11 DEF groupSpecVars
  <2> QED  BY <1>2, <1>j, <2>1
<1> QED
    BY <1>3, <1>4, <1>5, <1>6, <1>7, <1>8, <1>9, <1>10, <1>11
    DEF GroupNext, GroupBegin, GroupContinue

(* Nobody has more rows than there are requests.                            *)
THEOREM RowsBounded == GroupSpec => []RowsBound
<1>1. GroupInit => RowsInv
  <2> SUFFICES ASSUME GroupInit, NEW u \in People
               PROVE  /\ IsFiniteSet(RowsOf(u))
                      /\ Cardinality(RowsOf(u)) + Cardinality(JoinsOf(u)) <= Cardinality(Requests)
      BY DEF RowsInv
  <2>1. JoinsOf(u) = {}
      BY DEF GroupInit, HandlersInit, JoinsOf, AtSome, Idle
  <2>2. RowsOf(u) = {} \/ \E m : RowsOf(u) = {m}
      BY DEF GroupInit, RowsOf
  <2>3. IsFiniteSet(RowsOf(u)) /\ Cardinality(RowsOf(u)) \in {0, 1}
      BY <2>2, FS_EmptySet, FS_Singleton
  <2>4. Cardinality(Requests) \in Nat \ {0} /\ Cardinality(JoinsOf(u)) = 0
      BY <2>1, Counts, FS_EmptySet
  <2> QED  BY <2>3, <2>4
<1>2. GroupTypeOK /\ RowsInv /\ [GroupNext]_groupSpecVars => (GroupTypeOK /\ RowsInv)'
    BY GroupTyped, RowsInvStep
<1>3. RowsInv => RowsBound
  <2> SUFFICES ASSUME RowsInv, NEW u \in People
               PROVE  Cardinality(RowsOf(u)) <= Cardinality(Requests)
      BY DEF RowsBound
  <2>1. JoinsOf(u) \in SUBSET Requests
      BY DEF JoinsOf, AtSome
  <2>2. /\ Cardinality(RowsOf(u)) \in Nat /\ Cardinality(JoinsOf(u)) \in Nat
        /\ Cardinality(Requests) \in Nat
      BY <2>1, Counts, FS_CardinalityType DEF RowsInv
  <2> QED  BY <2>2 DEF RowsInv
<1> QED
    BY <1>1, <1>2, <1>3, GroupInitTyped, PTL DEF GroupSpec, groupSpecVars

-----------------------------------------------------------------------------
(* The election.                                                           *)

\* Nobody leaves or votes while an election is finalized; the owner does not
\* leave, and whoever is about to become the owner is a member; a vote is cast
\* in the election that is open.
ElectionInv ==
    orderly =>
        /\ \A q, r \in Requests : ~(req[q].pc = "finalize" /\ req[r].pc \in {"leave", "vote"})
        /\ IsMember(leader)
        /\ \A r \in Requests :
              /\ req[r].pc = "finalize" => IsMember(req[r].user)
              /\ req[r].pc = "leave" => req[r].user # leader
              /\ req[r].pc = "vote" => election = "open"
        /\ votes # {} => election = "open"

LEMMA ElectionInvStep ==
    ASSUME GroupTypeOK, ElectionInv, [GroupNext]_groupSpecVars
    PROVE  ElectionInv'
<1> SUFFICES ASSUME orderly PROVE ElectionInv'
    BY DEF GroupNext, groupSpecVars, ElectionInv
<1> USE DEF GroupTypeOK, ElectionInv, At, groupVars
<1>m. /\ \A u : IsMember(u) <=> \E m \in member : m.user = u
      /\ \A u : IsMember(u)' <=> \E m \in member' : m.user = u
    BY DEF IsMember, RowsOf
<1>1. ASSUME NEW r \in Requests, NEW u \in People, GroupBegin(r, u) PROVE ElectionInv'
  <2>0. UNCHANGED groupVars
    BY <1>1 DEF GroupBegin, JoinGroup, LeaveGroup, Vote, ChooseWinner, BeginForUser
  <2>1. \A v : IsMember(v)' <=> IsMember(v)
    BY <1>m, <2>0
  <2> USE DEF BeginForUser, Become
  <2>2. CASE JoinGroup(r, u)
    BY <2>1, <2>2 DEF JoinGroup
  <2>3. CASE LeaveGroup(r, u)
    BY <2>1, <2>3 DEF LeaveGroup, NotFinalizing, AtSome
  <2>4. CASE Vote(r, u)
    BY <2>1, <2>4 DEF Vote, NotFinalizing, AtSome
  <2>5. CASE ChooseWinner(r, u)
    BY <2>1, <2>5 DEF ChooseWinner, GroupMayFinalize, AtSome
  <2> QED  BY <1>1, <2>2, <2>3, <2>4, <2>5 DEF GroupBegin
<1>2. ASSUME NEW r \in Requests, UNCHANGED <<leader, election>>,
             req'[r].pc \in {"idle", "patch"}, \A q \in Requests \ {r} : req'[q] = req[q],
             votes' # {} => election = "open",
             \A u : IsMember(u) => IsMember(u)'
      PROVE  ElectionInv'
    BY <1>2
<1>3. ASSUME NEW r \in Requests, NEW m \in member, NEW to \in GroupRoles, PatchMember(r, m, to)
      PROVE  ElectionInv'
  <2>1. UNCHANGED groupVars /\ req'[r].pc = "patch" /\ \A q \in Requests \ {r} : req'[q] = req[q]
    BY <1>3 DEF PatchMember, Become
  <2> QED  BY <1>2, <1>m, <2>1
<1>4. ASSUME NEW r \in Requests, InsertRow(r) \/ UpsertVote(r) \/ CutOffGroup(r)
      PROVE  ElectionInv'
  <2>1. /\ UNCHANGED <<leader, election>> /\ member \subseteq member'
        /\ req'[r].pc = "idle" /\ \A q \in Requests \ {r} : req'[q] = req[q]
        /\ votes' # {} => election = "open"
    BY <1>4 DEF InsertRow, UpsertVote, CutOffGroup, Finish, Become, Idle
  <2> QED  BY <1>2, <1>m, <2>1
<1>5. ASSUME NEW r \in Requests, DeleteRows(r) PROVE ElectionInv'
  <2>1. /\ UNCHANGED <<leader, election, votes>>
        /\ req'[r].pc = "idle" /\ \A q \in Requests \ {r} : req'[q] = req[q]
        /\ \A q \in Requests : req[q].pc # "finalize"
        /\ req[r].user # leader
    BY <1>5 DEF DeleteRows, Finish, Become, Idle
  <2>2. IsMember(leader)'
    BY <1>5, <1>m, <2>1 DEF DeleteRows, RowsOf
  <2> QED  BY <2>1, <2>2
<1>6. ASSUME NEW r \in Requests, UpdateRow(r) PROVE ElectionInv'
  <2>1. /\ UNCHANGED <<leader, election, votes>>
        /\ req'[r].pc = "idle" /\ \A q \in Requests \ {r} : req'[q] = req[q]
    BY <1>6 DEF UpdateRow, Finish, Become, Idle
  <2>2. \A u : IsMember(u) => IsMember(u)'
    BY <1>6, <1>m, PatchedMembers
  <2> QED  BY <1>2, <2>1, <2>2
<1>7. ASSUME NEW r \in Requests, FinalizeElection(r) PROVE ElectionInv'
  <2>1. /\ leader' = req[r].user /\ votes' = {}
        /\ req'[r].pc = "idle" /\ \A q \in Requests \ {r} : req'[q] = req[q]
        /\ \A q \in Requests : req[q].pc \notin {"leave", "vote"}
        /\ IsMember(req[r].user)
    BY <1>7 DEF FinalizeElection, Finish, Become, Idle
  <2>2. \A u : IsMember(u) => IsMember(u)'
    BY <1>7, <1>m, FinalMembers
  <2> QED  BY <2>1, <2>2
<1>8. CASE Sweep
  <2>1. UNCHANGED <<leader, member, votes, req>> /\ election' = "open"
    BY <1>8 DEF Sweep
  <2>2. \A u : IsMember(u)' <=> IsMember(u)
    BY <1>m, <2>1
  <2> QED  BY <2>1, <2>2
<1>9. CASE UNCHANGED groupSpecVars
  <2>1. UNCHANGED <<leader, member, election, votes, req>>
    BY <1>9 DEF groupSpecVars
  <2>2. \A u : IsMember(u)' <=> IsMember(u)
    BY <1>m, <2>1
  <2> QED  BY <2>1, <2>2
<1> QED
    BY <1>1, <1>3, <1>4, <1>5, <1>6, <1>7, <1>8, <1>9 DEF GroupNext, GroupContinue

LEMMA ElectionHolds == GroupSpec => [](GroupTypeOK /\ ElectionInv)
<1>1. GroupInit => ElectionInv
  <2> SUFFICES ASSUME GroupInit PROVE ElectionInv
      OBVIOUS
  <2>1. \A r \in Requests : req[r].pc = "idle"
      BY DEF GroupInit, HandlersInit, Idle
  <2>2. \E m \in member : m.user = leader
      BY DEF GroupInit
  <2> QED  BY <2>1, <2>2 DEF GroupInit, ElectionInv, IsMember, RowsOf
<1>2. GroupTypeOK /\ ElectionInv /\ [GroupNext]_groupSpecVars => (GroupTypeOK /\ ElectionInv)'
    BY GroupTyped, ElectionInvStep
<1> QED
    BY <1>1, <1>2, GroupInitTyped, PTL DEF GroupSpec, groupSpecVars

(* In orderly behaviours the owner has a row among the members.             *)
THEOREM LeaderIsMember == GroupSpec => []LeaderBelongs
<1>1. ElectionInv => LeaderBelongs
    BY DEF ElectionInv, LeaderBelongs
<1> QED  BY <1>1, ElectionHolds, PTL

(* In orderly behaviours votes are those of the election that is open.      *)
THEOREM VotesAreOfTheElection == GroupSpec => []VotesBelong
<1>1. ElectionInv => VotesBelong
    BY DEF ElectionInv, VotesBelong
<1> QED  BY <1>1, ElectionHolds, PTL
=============================================================================
