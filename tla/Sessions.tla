------------------------------ MODULE Sessions ------------------------------
(***************************************************************************)
(* The sessions of one user: rows of refresh_tokens, of which a session is *)
(* a family that grows by one token at every refresh.                      *)
(*                                                                         *)
(* A transaction that has updated a row holds its lock: other statements   *)
(* on the row wait.  An UPDATE of several rows works on those that its     *)
(* snapshot shows and waits for locked ones, so it never meets a row that  *)
(* a transaction it waited for has inserted.                               *)
(***************************************************************************)
EXTENDS Integers, FiniteSets

CONSTANTS
    MaxTokens,   \* bound on the rows, numbered in the order of their insertion
    MaxSessions, \* MAX_ACTIVE_SESSIONS
    Clients      \* requests that may be in flight together

ASSUME SessionsAssumption == MaxTokens \in Nat \ {0} /\ MaxSessions \in Nat \ {0}

VARIABLES
    token,       \* refresh_tokens: "none", "live" or "revoked", as committed
    parent,      \* parent_id, NoToken for the first of a family
    family,      \* family_id
    work         \* per client: what its request is doing, to which rows

sessionsVars == <<token, parent, family, work>>

-----------------------------------------------------------------------------
Tokens == 1..MaxTokens
NoToken == 0
Steps == {"idle", "read", "claimed", "listed", "inserted", "trimming",
          "revoking", "revoking all", "renewing"}
NoWork == [step |-> "idle", of |-> NoToken, rows |-> {}]

Live == {t \in Tokens : token[t] = "live"}
Unused == {t \in Tokens : token[t] = "none"}
FreshToken == CHOOSE t \in Unused : \A u \in Unused : t <= u

LockedBy(d, rows) == work[d].step \in {"claimed", "listed"} /\ work[d].of \in rows
LockedFor(c, rows) == \E d \in Clients \ {c} : LockedBy(d, rows)

\* listActiveRefreshTokens, oldest first, beyond the limit.  The code orders by
\* last_used_at, the time of the request that inserted a row; the order of the
\* rows stands for it, and differs only for requests that overlap.
Excess(live) == {t \in live : Cardinality({u \in live : u > t}) >= MaxSessions}

Revoke(rows) == [t \in Tokens |-> IF t \in rows /\ token[t] # "none" THEN "revoked" ELSE token[t]]

Does(c, step, of, rows) ==
    work' = [work EXCEPT ![c] = [step |-> step, of |-> of, rows |-> rows]]
Ends(c) == work' = [work EXCEPT ![c] = NoWork]

SessionsInit ==
    /\ token = [t \in Tokens |-> "none"]
    /\ parent = [t \in Tokens |-> NoToken]
    /\ family = [t \in Tokens |-> NoToken]
    /\ work = [c \in Clients |-> NoWork]

\* createRefreshToken; a token without a family founds one.
InsertToken(t, p, base) ==
    /\ token' = [base EXCEPT ![t] = "live"]
    /\ parent' = [parent EXCEPT ![t] = p]
    /\ family' = [family EXCEPT ![t] = IF p = NoToken THEN t ELSE family[p]]

-----------------------------------------------------------------------------
(* login: createSession outside a transaction, each statement on its own.   *)
Login(c) ==
    /\ work[c] = NoWork /\ Unused # {}
    /\ InsertToken(FreshToken, NoToken, token)
    /\ Does(c, "inserted", NoToken, {})

ListSessions(c) ==
    /\ work[c].step = "inserted"
    /\ Does(c, "trimming", NoToken, Excess(Live))
    /\ UNCHANGED <<token, parent, family>>

TrimSessions(c) ==
    /\ work[c].step = "trimming"
    /\ ~LockedFor(c, work[c].rows)
    /\ token' = Revoke(work[c].rows)
    /\ Ends(c)
    /\ UNCHANGED <<parent, family>>

-----------------------------------------------------------------------------
(* refreshSession: the token is read first.  One that was revoked takes its *)
(* family with it.                                                          *)
ReadToken(c, t) ==
    /\ work[c] = NoWork
    /\ \/ token[t] = "live" /\ Does(c, "read", t, {})
       \/ /\ token[t] = "revoked"
          /\ Does(c, "revoking", NoToken, {u \in Tokens : token[u] # "none" /\ family[u] = family[t]})
    /\ UNCHANGED <<token, parent, family>>

\* Faulty: what was read before is not tested again.
WasLive(t) == token[t] # "none"
MayRotate(t) == token[t] = "live"

(* revokeRefreshForRotation: the UPDATE decides again and keeps the lock.   *)
ClaimRotation(c) ==
    LET t == work[c].of IN
    /\ work[c].step = "read"
    /\ ~LockedFor(c, {t})
    /\ \/ MayRotate(t) /\ Does(c, "claimed", t, {})
       \/ /\ ~MayRotate(t)
          /\ Does(c, "revoking", NoToken, {u \in Tokens : token[u] # "none" /\ family[u] = family[t]})
    /\ UNCHANGED <<token, parent, family>>

\* createSession inside: the list shows the new token and not the rotated one.
ListInRotation(c) ==
    LET t == work[c].of
        own == (Live \ {t}) \cup {MaxTokens + 1} IN
    /\ work[c].step = "claimed"
    /\ Does(c, "listed", t, Excess(own) \cap Tokens)
    /\ UNCHANGED <<token, parent, family>>

CommitRotation(c) ==
    LET t == work[c].of IN
    /\ work[c].step = "listed"
    /\ Unused # {}
    /\ ~LockedFor(c, work[c].rows)
    /\ InsertToken(FreshToken, t, Revoke({t} \cup work[c].rows))
    /\ Ends(c)

\* The transaction fails, is chosen to break a deadlock, or the process dies.
RollBackSession(c) ==
    /\ work[c] # NoWork
    /\ Ends(c)
    /\ UNCHANGED <<token, parent, family>>

-----------------------------------------------------------------------------
(* logout, revokeSession.                                                   *)
RevokeSession(t) ==
    /\ token[t] = "live"
    /\ ~\E c \in Clients : LockedBy(c, {t})
    /\ token' = Revoke({t})
    /\ UNCHANGED <<parent, family, work>>

(* logoutAll, resetPassword, changePassword: the row of the user is locked  *)
(* first, so one of them at a time; only changePassword opens a session.    *)
RevokeAllSessions(c, step) ==
    /\ work[c] = NoWork
    /\ \A d \in Clients : work[d].step \notin {"revoking all", "renewing"}
    /\ Does(c, step, NoToken, Live)
    /\ UNCHANGED <<token, parent, family>>

\* A session that changePassword opens counts towards the limit.
RevokedAtLast(c) ==
    work[c].rows \cup (IF work[c].step = "renewing"
                       THEN Excess((Live \ work[c].rows) \cup {MaxTokens + 1}) \cap Tokens
                       ELSE {})

FinishRevoking(c) ==
    /\ work[c].step \in {"revoking", "revoking all", "renewing"}
    /\ ~LockedFor(c, RevokedAtLast(c))
    /\ IF work[c].step = "renewing"
       THEN /\ Unused # {}
            /\ InsertToken(FreshToken, NoToken, Revoke(RevokedAtLast(c)))
       ELSE token' = Revoke(RevokedAtLast(c)) /\ UNCHANGED <<parent, family>>
    /\ Ends(c)

SessionsNext ==
    \E c \in Clients :
        \/ Login(c) \/ ListSessions(c) \/ TrimSessions(c)
        \/ \E t \in Tokens : ReadToken(c, t) \/ RevokeSession(t)
        \/ ClaimRotation(c) \/ ListInRotation(c) \/ CommitRotation(c) \/ RollBackSession(c)
        \/ \E step \in {"revoking all", "renewing"} : RevokeAllSessions(c, step)
        \/ FinishRevoking(c)

SessionsSpec == SessionsInit /\ [][SessionsNext]_sessionsVars

-----------------------------------------------------------------------------
SessionsTypeOK ==
    /\ token \in [Tokens -> {"none", "live", "revoked"}]
    /\ parent \in [Tokens -> Tokens \cup {NoToken}]
    /\ family \in [Tokens -> Tokens \cup {NoToken}]
    /\ work \in [Clients -> [step : Steps, of : Tokens \cup {NoToken}, rows : SUBSET Tokens]]

\* 05 section 5: refreshes of the same token that overlap, logins and
\* revocations among them, never leave two usable tokens in one session.
OneLivePerFamily ==
    \A s, t \in Live : family[s] = family[t] => s = t

\* 05 section 5: a token is exchanged for at most one other.
RotatedOnce ==
    \A s, t \in Tokens : parent[s] = parent[t] /\ parent[s] # NoToken => s = t
=============================================================================
