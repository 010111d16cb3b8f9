--------------------------- MODULE PasswordReset ----------------------------
(***************************************************************************)
(* One account's password and its sessions: links to reset the password    *)
(* (lib/password-reset.ts), changing it while signed in                    *)
(* (lib/change-password.ts), login and logout (routes/auth.ts).            *)
(*                                                                         *)
(* A session carries the session_version of the account when it began, and *)
(* is live while the account still has that version.  Confirming a reset   *)
(* is a transaction under read committed: it locks the token it consumes,  *)
(* then the account, then every other unused token, and its writes show    *)
(* when it commits; Postgres aborts one of two that wait for each other.   *)
(*                                                                         *)
(* A token whose time is over is spent.  Mail, rate limits, and requests   *)
(* that are refused (a wrong password, a spent token) change nothing here. *)
(***************************************************************************)
EXTENDS Handlers

CONSTANTS
    Tokens,      \* rows of password_reset_tokens
    Passwords,
    MaxVersion   \* bounds how often the account's sessions are revoked

ASSUME ResetAssumption == IsFiniteSet(Tokens) /\ MaxVersion \in Nat

VARIABLES
    account,   \* the users row
    token,     \* after, for the properties: how many resets there had been
    sessions,  \* the cookies given out, with the password known to whoever
               \* signed in
    worked     \* history: how often each token reset the password

accountVars == <<account, token, sessions, worked>>
resetVars == <<account, token, sessions, worked, req, orderly>>

\* weak: the hash is below today's cost.
Account == [password : Passwords, version : 0..MaxVersion, weak : BOOLEAN]
Token == [state : {"none", "live", "spent"}, after : Nat]
NoToken == [state |-> "none", after |-> 0]
Session == [password : Passwords, version : 0..MaxVersion]

ResetDoing ==
    [pc : {"insert"}]
    \cup [pc : {"read", "reset", "rest"}, token : Tokens,
          password : Passwords, version : 0..MaxVersion]
    \cup [pc : {"change", "rehash", "cookie"},
          password : Passwords, version : 0..MaxVersion]

ResetTypeOK ==
    /\ account \in Account
    /\ token \in [Tokens -> Token]
    /\ sessions \subseteq Session
    /\ worked \in [Tokens -> Nat]
    /\ req \in [Requests -> ResetDoing \cup {Idle}]

ResetInit ==
    /\ HandlersInit
    /\ account \in [password : Passwords, version : {0}, weak : BOOLEAN]
    /\ token = [t \in Tokens |-> NoToken]
    /\ sessions = {}
    /\ worked = [t \in Tokens |-> 0]

-----------------------------------------------------------------------------
Live(t) == token[t].state = "live"
LiveTokens == {t \in Tokens : Live(t)}

\* Row locks: a confirming request holds its token until it is done, and the
\* account from its update on.
Confirming == AtSome({"read", "reset", "rest"})
HeldByOthers(r) == {req[o].token : o \in Confirming \ {r}}
AccountFree == AtSome({"rest"}) = {}

Spend(ts) == [t \in Tokens |-> IF t \in ts THEN [token[t] EXCEPT !.state = "spent"]
                                           ELSE token[t]]

\* How often the password has been reset, counted from what worked.
Resets == Cardinality({t \in Tokens : worked[t] > 0})

\* In orderly behaviours links are asked for one after the other, and the
\* password is written, and sessions are revoked, by one request at a time.
MayAsk == orderly => AtSome({"insert"}) = {}
Writers == AtSome({"read", "reset", "rest", "change", "rehash"})
MayRevoke == orderly => Writers = {}

-----------------------------------------------------------------------------
(* Asking for a link: the unused tokens are invalidated, then one is made.  *)

\* Mutant: the tokens mailed before stay valid.
AskOnly(r) ==
    /\ At(r, "idle") /\ MayAsk
    /\ Become(r, [pc |-> "insert"])
    /\ UNCHANGED accountVars

Ask(r) ==
    /\ At(r, "idle") /\ MayAsk
    /\ LiveTokens \cap HeldByOthers(r) = {}
    /\ token' = Spend(LiveTokens)
    /\ Become(r, [pc |-> "insert"])
    /\ UNCHANGED <<account, sessions, worked>>

InsertToken(r) ==
    /\ At(r, "insert")
    /\ \E t \in Tokens :
          /\ token[t].state = "none"
          /\ token' = [token EXCEPT ![t] = [state |-> "live", after |-> Resets]]
    /\ Finish(r)
    /\ UNCHANGED <<account, sessions, worked>>

Expire(t) ==
    /\ Live(t)
    /\ \A o \in Confirming : req[o].token # t
    /\ token' = Spend({t})
    /\ UNCHANGED <<account, sessions, worked, req>>

-----------------------------------------------------------------------------
(* Confirming a reset.                                                     *)

Confirm(r, t, password) ==
    Become(r, [pc |-> "read", token |-> t, password |-> password, version |-> 0])

\* Mutant: whether the token is used already is not part of the update.
ConsumeAgain(r) ==
    /\ At(r, "idle") /\ MayRevoke
    /\ \E t \in Tokens \ HeldByOthers(r), password \in Passwords :
          token[t].state # "none" /\ Confirm(r, t, password)
    /\ UNCHANGED accountVars

Consume(r) ==
    /\ At(r, "idle") /\ MayRevoke
    /\ \E t \in LiveTokens \ HeldByOthers(r), password \in Passwords :
          Confirm(r, t, password)
    /\ UNCHANGED accountVars

ReadVersion(r) ==
    /\ At(r, "read")
    /\ account.version < MaxVersion
    /\ Become(r, [pc |-> "reset", token |-> req[r].token, password |-> req[r].password,
                  version |-> account.version])
    /\ UNCHANGED accountVars

LockAccount(r) ==
    /\ At(r, "reset") /\ AccountFree
    /\ Goto(r, "rest")
    /\ UNCHANGED accountVars

\* Mutant: the version stays what it was.
CommitOnlyPassword(r, ts) ==
    /\ account' = [account EXCEPT !.password = req[r].password, !.weak = FALSE]
    /\ token' = Spend(ts)
    /\ worked' = [worked EXCEPT ![req[r].token] = @ + 1]

\* The writes of the transaction, which spends the tokens ts.
Commit(r, ts) ==
    /\ account' = [password |-> req[r].password, version |-> req[r].version + 1,
                   weak |-> FALSE]
    /\ token' = Spend(ts)
    /\ worked' = [worked EXCEPT ![req[r].token] = @ + 1]

\* Mutant: the other links stay valid.
SpendOnlyOwn(r) ==
    /\ At(r, "rest")
    /\ Commit(r, {req[r].token})
    /\ Finish(r)
    /\ UNCHANGED sessions

SpendTheRest(r) ==
    /\ At(r, "rest")
    /\ LiveTokens \cap HeldByOthers(r) = {}
    /\ Commit(r, LiveTokens)
    /\ Finish(r)
    /\ UNCHANGED sessions

\* The last statement of one waits for the token of another, which waits for
\* the account: either is aborted.
Deadlock(r) ==
    /\ \E h \in AtSome({"rest"}), o \in AtSome({"reset"}) :
          Live(req[o].token) /\ r \in {h, o}
    /\ Finish(r)
    /\ UNCHANGED accountVars

-----------------------------------------------------------------------------
(* While signed in, and signing in.                                        *)

SignedIn == \E s \in sessions : s.version = account.version

\* Both read the account and compare the password with it.
ReadAccount(r, pc, password) ==
    /\ At(r, "idle")
    /\ Become(r, [pc |-> pc, password |-> password, version |-> account.version])
    /\ UNCHANGED accountVars

Change(r) ==
    /\ MayRevoke /\ SignedIn
    /\ account.version < MaxVersion
    /\ \E password \in Passwords : ReadAccount(r, "change", password)

WriteChanged(r) ==
    /\ At(r, "change") /\ AccountFree
    /\ LET version == req[r].version + 1 IN
       /\ account' = [password |-> req[r].password, version |-> version, weak |-> FALSE]
       /\ sessions' = sessions \cup {[password |-> req[r].password, version |-> version]}
    /\ Finish(r)
    /\ UNCHANGED <<token, worked>>

Login(r) ==
    /\ account.weak => MayRevoke
    /\ ReadAccount(r, IF account.weak THEN "rehash" ELSE "cookie", account.password)

\* The hash of the password that was typed in, by id.
Rehash(r) ==
    /\ At(r, "rehash") /\ AccountFree
    /\ account' = [account EXCEPT !.password = req[r].password, !.weak = FALSE]
    /\ Goto(r, "cookie")
    /\ UNCHANGED <<token, sessions, worked>>

GiveCookie(r) ==
    /\ At(r, "cookie")
    /\ sessions' = sessions \cup {[password |-> req[r].password, version |-> req[r].version]}
    /\ Finish(r)
    /\ UNCHANGED <<account, token, worked>>

\* One statement, from any browser that has a cookie.
Logout ==
    /\ MayRevoke /\ AccountFree
    /\ sessions # {}
    /\ account.version < MaxVersion
    /\ account' = [account EXCEPT !.version = @ + 1]
    /\ UNCHANGED <<token, sessions, worked, req>>

\* A transaction that is cut off is rolled back.
CutOff(r) ==
    /\ ~At(r, "idle")
    /\ Finish(r)
    /\ UNCHANGED accountVars

ResetStep(r) ==
    \/ Ask(r) \/ InsertToken(r)
    \/ Consume(r) \/ ReadVersion(r) \/ LockAccount(r) \/ SpendTheRest(r) \/ Deadlock(r)
    \/ Change(r) \/ WriteChanged(r)
    \/ Login(r) \/ Rehash(r) \/ GiveCookie(r) \/ CutOff(r)

ResetNext ==
    /\ \/ \E r \in Requests : ResetStep(r)
       \/ \E t \in Tokens : Expire(t)
       \/ Logout
    /\ UNCHANGED orderly

ResetSpec == ResetInit /\ [][ResetNext]_resetVars

-----------------------------------------------------------------------------
(* Properties.                                                             *)

(* Only the latest email link works, as password-reset.ts:106 says, when   *)
(* links are asked for one after the other: each request kills the link    *)
(* before its own, even if it dies before it makes one.  The comment is    *)
(* not true of links asked for side by side: then as many may work as      *)
(* there were requests, and no more.  (requestPasswordReset, which         *)
(* invalidates and inserts in two queries.)                                *)
LiveLinksBound ==
    Cardinality(LiveTokens) <= IF orderly THEN 1 ELSE Cardinality(Requests)

(* A reset kills every link made before it: none of them works afterwards, *)
(* not even one that was being confirmed at the same time.  (The last      *)
(* statement of confirmPasswordReset, and the locks it waits for.)         *)
NoLinkOutlivesAReset ==
    \A t \in Tokens :
        Live(t) \/ (\E r \in Confirming : req[r].token = t) => token[t].after = Resets

(* A link resets the password once, however often it is confirmed at once. *)
(* (The conditional update that consumes it.)                              *)
OneResetPerLink == \A t \in Tokens : worked[t] <= 1

(* When the password is written and sessions are revoked one at a time,    *)
(* whoever is signed in knows the password of today, although logins go on *)
(* all the while.  (session_version, compared for each request.)           *)
SignedInKnowsPassword ==
    orderly => \A s \in sessions :
        s.version = account.version => s.password = account.password
=============================================================================
