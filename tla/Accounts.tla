------------------------------- MODULE Accounts -------------------------------
(***************************************************************************)
(* One account of the backend (backend/src/services/auth.service.ts and    *)
(* backend/src/routes/auth.routes.ts) and the requests in flight on it:    *)
(* registration, login with and without a second factor, reset of the      *)
(* password, and the second factor's set-up.  Every query is a step of its *)
(* own: between two of them the other requests go on.                      *)
(*                                                                         *)
(* Signed tokens live with the users and their mail; they are remembered   *)
(* here as what has been given out.  A session token carries the account's *)
(* session_version, and is refused once a tombstone for it is in Redis.    *)
(***************************************************************************)
EXTENDS Naturals, FiniteSets

CONSTANTS
    Requests,       \* requests in flight
    MaxVersion,     \* bound: session versions followed
    MaxMailed       \* bound: reset tokens mailed

VARIABLES
    user,           \* the row: exists, session_version, second factor
    resetTokens,    \* password_reset_tokens: the tokens in it
    mailed,         \* reset tokens signed: 1 to mailed
    tombstones,     \* session:blocked:<user>:<version>, by version
    signed,         \* versions that session tokens were signed with
    stage,          \* where each request is
    seen,           \* what it read of the row
    token,          \* the reset token it works with
    ended           \* history: versions a completed reset was to end

accountVars == <<user, resetTokens, mailed, tombstones, signed, stage, seen,
                 token, ended>>

NoUser == [exists |-> FALSE, version |-> 0, enabled |-> FALSE, secret |-> FALSE]

AccountInit ==
    /\ user = NoUser
    /\ resetTokens = {} /\ mailed = 0
    /\ tombstones = {} /\ signed = {} /\ ended = {}
    /\ stage = [r \in Requests |-> "idle"]
    /\ seen = [r \in Requests |-> NoUser]
    /\ token = [r \in Requests |-> 0]

Goto(r, label) == stage' = [stage EXCEPT ![r] = label]
Answer(r) ==
    /\ Goto(r, "idle")
    /\ seen' = [seen EXCEPT ![r] = NoUser]
    /\ token' = [token EXCEPT ![r] = 0]

data == <<user, resetTokens, mailed, tombstones, signed, ended>>

(* findFirst, with which every request begins; ok is what it asks of the    *)
(* row to go on.                                                            *)
FindUser(r, ok, label) ==
    /\ stage[r] = "idle" /\ ok
    /\ seen' = [seen EXCEPT ![r] = user]
    /\ Goto(r, label)
    /\ UNCHANGED <<data, token>>

-----------------------------------------------------------------------------
(* register: the address is unique, so a second insert fails.  A failed     *)
(* mail would take the row back, but sendEmail catches what goes wrong.     *)
Register(r) == FindUser(r, ~user.exists, "insert")

InsertUser(r) ==
    /\ stage[r] = "insert"
    /\ user' = IF user.exists THEN user ELSE [NoUser EXCEPT !.exists = TRUE]
    /\ Answer(r)
    /\ UNCHANGED <<resetTokens, mailed, tombstones, signed, ended>>

-----------------------------------------------------------------------------
(* login: the row is read, the password compared, and the tokens carry the  *)
(* version that was read.  With a second factor the answer is a temporary   *)
(* token, and verify2FA reads the row again.                                *)
Login(r) == FindUser(r, user.exists, "sign")

SignSession(r) ==
    /\ stage[r] = "sign"
    /\ signed' = IF seen[r].enabled THEN signed ELSE signed \cup {seen[r].version}
    /\ Answer(r)
    /\ UNCHANGED <<user, resetTokens, mailed, tombstones, ended>>

Verify2FA ==
    /\ user.exists /\ user.enabled /\ user.secret
    /\ signed' = signed \cup {user.version}
    /\ UNCHANGED <<user, resetTokens, mailed, tombstones, ended, stage, seen, token>>

(* requireAuth *)
IsSessionRevoked(v) == v \in tombstones
Authenticated(v) == v \in signed /\ ~IsSessionRevoked(v)

-----------------------------------------------------------------------------
(* forgotPassword replaces the account's tokens by two statements.          *)
ForgotPassword(r) == FindUser(r, user.exists /\ mailed < MaxMailed, "forget")

DeleteResetTokens(r) ==
    /\ stage[r] = "forget"
    /\ resetTokens' = {}
    /\ Goto(r, "mail")
    /\ UNCHANGED <<user, mailed, tombstones, signed, ended, seen, token>>

InsertResetToken(r) ==
    /\ stage[r] = "mail"
    /\ mailed < MaxMailed /\ mailed' = mailed + 1
    /\ resetTokens' = resetTokens \cup {mailed'}
    /\ Answer(r)
    /\ UNCHANGED <<user, tombstones, signed, ended>>

(* A token expires, and the hourly clean-up removes it.                     *)
ExpireResetToken(t) ==
    /\ t \in resetTokens
    /\ resetTokens' = resetTokens \ {t}
    /\ UNCHANGED <<user, mailed, tombstones, signed, ended, stage, seen, token>>

(* resetPassword *)
ResetPassword(r, t) ==
    /\ stage[r] = "idle" /\ user.exists /\ t <= mailed
    /\ seen' = [seen EXCEPT ![r] = user]
    /\ token' = [token EXCEPT ![r] = t]
    /\ Goto(r, "lookup")
    /\ UNCHANGED data

LookUpToken(r) ==
    /\ stage[r] = "lookup"
    /\ IF token[r] \in resetTokens THEN Goto(r, "consume") /\ UNCHANGED <<seen, token>>
                                   ELSE Answer(r)
    /\ UNCHANGED data

ConsumeToken(r) ==
    /\ stage[r] = "consume"
    /\ resetTokens' = resetTokens \ {token[r]}
    /\ Goto(r, "update")
    /\ UNCHANGED <<user, mailed, tombstones, signed, ended, seen, token>>

(* The new version is made of the one read at the beginning, not of the     *)
(* row's.                                                                   *)
UpdatePassword(r) ==
    /\ stage[r] = "update"
    /\ seen[r].version < MaxVersion
    /\ user' = [user EXCEPT !.version = seen[r].version + 1]
    /\ Goto(r, "block")
    /\ UNCHANGED <<resetTokens, mailed, tombstones, signed, ended, seen, token>>

(* blockOldSessions: one tombstone after the other, from 0 up to and        *)
(* including the version that was read (a mutant stops before it).          *)
OlderVersions(r) == 0..MaxVersion \ {v \in 0..MaxVersion : v >= seen[r].version}
OldVersions(r) == 0..seen[r].version

BlockOldSession(r) ==
    /\ stage[r] = "block"
    /\ \E v \in OldVersions(r) \ tombstones :
          /\ \A u \in OldVersions(r) \ tombstones : v <= u
          /\ tombstones' = tombstones \cup {v}
    /\ UNCHANGED <<user, resetTokens, mailed, signed, ended, stage, seen, token>>

ResetDone(r) ==
    /\ stage[r] = "block" /\ OldVersions(r) \subseteq tombstones
    /\ ended' = ended \cup 0..seen[r].version
    /\ Answer(r)
    /\ UNCHANGED <<user, resetTokens, mailed, tombstones, signed>>

-----------------------------------------------------------------------------
(* The second factor.  (A one-time password that does not match ends a      *)
(* request, as any error does.)                                             *)
Update(r, label, row) ==
    /\ stage[r] = label
    /\ user' = row
    /\ Answer(r)
    /\ UNCHANGED <<resetTokens, mailed, tombstones, signed, ended>>

Setup2FA(r) == FindUser(r, user.exists /\ ~user.enabled, "setup")
StoreSecret(r) == Update(r, "setup", [user EXCEPT !.secret = TRUE])

Enable2FA(r) == FindUser(r, user.exists /\ ~user.enabled /\ user.secret, "enable")
SetEnabled(r) == Update(r, "enable", [user EXCEPT !.enabled = TRUE])

Disable2FA(r) == FindUser(r, user.exists /\ user.enabled /\ user.secret, "disable")
ClearSecond(r) ==
    Update(r, "disable", [user EXCEPT !.enabled = FALSE, !.secret = FALSE])

(* A query throws, or the process stops: the request ends where it is.      *)
Fail(r) == stage[r] # "idle" /\ Answer(r) /\ UNCHANGED data

AccountNext ==
    \/ Verify2FA
    \/ \E t \in 1..MaxMailed : ExpireResetToken(t)
    \/ \E r \in Requests :
          \/ Register(r) \/ InsertUser(r) \/ Login(r) \/ SignSession(r)
          \/ ForgotPassword(r) \/ DeleteResetTokens(r) \/ InsertResetToken(r)
          \/ \E t \in 1..MaxMailed : ResetPassword(r, t)
          \/ LookUpToken(r) \/ ConsumeToken(r) \/ UpdatePassword(r)
          \/ BlockOldSession(r) \/ ResetDone(r)
          \/ Setup2FA(r) \/ StoreSecret(r) \/ Enable2FA(r) \/ SetEnabled(r)
          \/ Disable2FA(r) \/ ClearSecond(r)
          \/ Fail(r)

AccountSpec == AccountInit /\ [][AccountNext]_accountVars

-----------------------------------------------------------------------------
(* Properties *)

(* Once a reset of the password has been answered, a session of the version*)
(* it read, or of an earlier one, is refused: also one that a login which   *)
(* had read the row before signs only afterwards.                           *)
ResetEndsSessions == \A v \in ended : ~Authenticated(v)
==============================================================================
