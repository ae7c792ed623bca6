--------------------------- MODULE BrowserSession ---------------------------
(***************************************************************************)
(* One browser with a session: its pages (tabs), each with the in-memory   *)
(* store of apps/web and the client of packages/api-client, the refresh    *)
(* cookie that they share, and the API that rotates it.                    *)
(*                                                                         *)
(* Refresh and access tokens are numbered together in the order in which   *)
(* a login or a refresh issues them.  A request is sent with the cookie of *)
(* that moment, served, and answered; its answer changes the cookie when   *)
(* it arrives and the page when the code that awaits it goes on.  The API  *)
(* serves a request in one step (module Sessions has its statements).      *)
(***************************************************************************)
EXTENDS Integers

CONSTANTS
    Pages,
    Calls,       \* API calls that a page has under way at the same time
    MaxTokens    \* bound on the tokens issued

ASSUME BrowserSessionAssumption ==
    /\ MaxTokens \in Nat \ {0}
    /\ Calls \cap {"restore", "login", "logout", "password", "everywhere"} = {}
    /\ Pages \cap {"nobody", "lost"} = {}

VARIABLES
    cookie,      \* the refresh cookie of the browser, None if there is none
    refreshRow,  \* refresh_tokens: "none", "live", "rotated", "ended"
    familyOf,    \* the login that a token descends from
    dead,        \* access tokens that the API refuses, and why
    store,       \* per page: access token in memory, and those of the client
    flight,      \* per page: requests about the session that are under way
    call,        \* per page: API calls under way
    spender,     \* who exchanged a refresh token: a page, or "lost" once the
                 \* answer cannot reach the browser any more
    alarms,      \* tokens found to be used again, and the page that sent them
    left         \* pages that logged out, and have not logged in or reloaded since
                 \* (a password that changes afterwards leaves them here)

browserVars == <<cookie, refreshRow, familyOf, dead, store, flight, call, spender, alarms, left>>

-----------------------------------------------------------------------------
None == 0
Issued == 1..MaxTokens
Fresh(t) == refreshRow[t] = "none" /\ \A u \in 1..(t - 1) : refreshRow[u] # "none"

\* What exchanges a refresh token, and the calls of the page of the account
\* that change the session: PasswordChangeForm, SessionList.
Refreshers == {"restore"} \cup Calls
AccountKinds == {"password", "everywhere"}
Kinds == Refreshers \cup {"login", "logout"} \cup AccountKinds

NoFlight == [phase |-> "none", sent |-> None, bearer |-> None, answer |-> "none",
             token |-> None, outdated |-> FALSE]
Sent(bearer) == [phase |-> "sent", sent |-> cookie, bearer |-> bearer, answer |-> "none",
                 token |-> None, outdated |-> FALSE]
NoCall == [at |-> "none", bearer |-> None]
EmptyStore == [access |-> None, observed |-> None, refreshed |-> None]

BrowserInit ==
    /\ cookie = 1
    /\ refreshRow = [t \in Issued |-> IF t = 1 THEN "live" ELSE "none"]
    /\ familyOf = [t \in Issued |-> IF t = 1 THEN 1 ELSE None]
    /\ dead = [t \in Issued |-> "no"]
    /\ store = [p \in Pages |-> EmptyStore]
    /\ flight = [p \in Pages |-> [k \in Kinds |-> NoFlight]]
    /\ call = [p \in Pages |-> [c \in Calls |-> NoCall]]
    /\ spender = [t \in Issued |-> "nobody"]
    /\ alarms = {} /\ left = {}

AtRest(p, k) == flight[p][k] = NoFlight
Arrived(p, k) == flight[p][k].phase = "arrived"
Obtained(p, k) == flight[p][k].answer = "tokens"

\* The flights of p once k is over; Outdated when its revision goes up too.
Landed(p, k) == [flight[p] EXCEPT ![k] = NoFlight]
Outdated(flights) ==
    IF flights["restore"] = NoFlight THEN flights
    ELSE [flights EXCEPT !["restore"].outdated = TRUE]

-----------------------------------------------------------------------------
(* A page is loaded, or reloaded when nothing of it is under way: providers *)
(* restores the session, once.  A reload that cuts a request off is the     *)
(* loss of its answer, then this.                                           *)
Open(p) ==
    /\ \A k \in Kinds : AtRest(p, k)
    /\ store' = [store EXCEPT ![p] = EmptyStore]
    /\ call' = [call EXCEPT ![p] = [c \in Calls |-> NoCall]]
    /\ flight' = [flight EXCEPT ![p]["restore"] = Sent(None)]
    /\ left' = left \ {p}
    /\ UNCHANGED <<cookie, refreshRow, familyOf, dead, spender, alarms>>

\* Faulty: the answer is published whatever became of the store meanwhile.
MayAlwaysPublish(p) == TRUE

\* requestRevision === revision.
MayPublish(p) == ~flight[p]["restore"].outdated

(* The continuation of restoreSession.                                      *)
EndRestore(p) ==
    /\ Arrived(p, "restore")
    /\ store' = IF MayPublish(p)
                THEN [store EXCEPT ![p].access = flight[p]["restore"].token] ELSE store
    /\ flight' = [flight EXCEPT ![p] = Landed(p, "restore")]
    /\ UNCHANGED <<cookie, refreshRow, familyOf, dead, call, spender, alarms, left>>

(* LoginForm.                                                               *)
Login(p) ==
    /\ AtRest(p, "login")
    /\ flight' = [flight EXCEPT ![p]["login"] = [NoFlight EXCEPT !.phase = "sent"]]
    /\ UNCHANGED <<cookie, refreshRow, familyOf, dead, store, call, spender, alarms, left>>

EndLogin(p) ==
    /\ Arrived(p, "login")
    /\ store' = [store EXCEPT ![p].access = flight[p]["login"].token]
    /\ flight' = [flight EXCEPT ![p] = Outdated(Landed(p, "login"))]
    /\ left' = left \ {p}
    /\ UNCHANGED <<cookie, refreshRow, familyOf, dead, call, spender, alarms>>

(* logout tells the API only when the page holds an access token.           *)
Logout(p) ==
    /\ AtRest(p, "logout")
    /\ store[p].access # None
    /\ flight' = [flight EXCEPT ![p]["logout"] = Sent(store[p].access)]
    /\ UNCHANGED <<cookie, refreshRow, familyOf, dead, store, call, spender, alarms, left>>

\* Its last step, whatever the API answered.
Leave(p) ==
    /\ \/ Arrived(p, "logout")
       \/ AtRest(p, "logout") /\ store[p].access = None
    /\ store' = [store EXCEPT ![p].access = None]
    /\ flight' = [flight EXCEPT ![p] = Outdated(Landed(p, "logout"))]
    /\ left' = left \cup {p}
    /\ UNCHANGED <<cookie, refreshRow, familyOf, dead, call, spender, alarms>>

(* PasswordChangeForm: the answer is published, whatever became of the      *)
(* session since the form was sent.                                         *)
EndPassword(p) ==
    /\ Arrived(p, "password")
    /\ store' = [store EXCEPT ![p].access = flight[p]["password"].token]
    /\ flight' = [flight EXCEPT ![p] = Outdated(Landed(p, "password"))]
    /\ UNCHANGED <<cookie, refreshRow, familyOf, dead, call, spender, alarms, left>>

(* SessionList, "Keluar dari semua perangkat".                              *)
EndEverywhere(p) ==
    /\ Arrived(p, "everywhere")
    /\ store' = [store EXCEPT ![p].access = None]
    /\ flight' = [flight EXCEPT ![p] = Outdated(Landed(p, "everywhere"))]
    /\ left' = left \cup {p}
    /\ UNCHANGED <<cookie, refreshRow, familyOf, dead, call, spender, alarms>>

-----------------------------------------------------------------------------
(* The client.  accessToken() forgets what it refreshed once the page has   *)
(* another token.                                                           *)
Current(s) ==
    IF s.access = s.observed THEN s
    ELSE [s EXCEPT !.observed = s.access, !.refreshed = None]
Bearer(s) == IF s.refreshed # None THEN s.refreshed ELSE s.access

\* Calls of a page that has no session need no token.
Begin(p, c) ==
    /\ call[p][c] = NoCall /\ store[p].access # None
    /\ store' = [store EXCEPT ![p] = Current(@)]
    /\ call' = [call EXCEPT ![p][c] = [at |-> "sent", bearer |-> Bearer(Current(store[p]))]]
    /\ UNCHANGED <<cookie, refreshRow, familyOf, dead, flight, spender, alarms, left>>

\* Faulty: every call that fails refreshes for itself.
NeverRefreshing(p) == FALSE

Refreshing(p) == \E c \in Calls : ~AtRest(p, c)

TooOld(t) == t \in Issued /\ dead[t] = "expired"

(* 401 TOKEN_EXPIRED of a first attempt waits for the refresh that is under *)
(* way, or starts it; any other answer ends the call.                       *)
CallExpired(p, c) ==
    /\ call[p][c].at = "sent"
    /\ TooOld(call[p][c].bearer)
    /\ call' = [call EXCEPT ![p][c] = [NoCall EXCEPT !.at = "waiting"]]
    /\ flight' = IF Refreshing(p) THEN flight ELSE [flight EXCEPT ![p][c] = Sent(None)]
    /\ UNCHANGED <<cookie, refreshRow, familyOf, dead, store, spender, alarms, left>>

\* The second attempt, with the token of that moment.
Replay(p, c) ==
    /\ call[p][c].at = "refreshed"
    /\ store' = [store EXCEPT ![p] = Current(@)]
    /\ call' = [call EXCEPT ![p][c] =
                   [at |-> "replayed", bearer |-> Bearer(Current(store[p]))]]
    /\ UNCHANGED <<cookie, refreshRow, familyOf, dead, flight, spender, alarms, left>>

\* Any other answer; that to the second attempt is the last, whatever it is.
CallEnds(p, c) ==
    /\ \/ call[p][c].at = "sent" /\ ~TooOld(call[p][c].bearer)
       \/ call[p][c].at = "replayed"
    /\ call' = [call EXCEPT ![p][c] = NoCall]
    /\ UNCHANGED <<cookie, refreshRow, familyOf, dead, store, flight, spender, alarms, left>>

\* Those that await the refresh go on, or fail with it.
Resumed(p, how) ==
    [c \in Calls |-> IF call[p][c].at = "waiting" THEN how ELSE call[p][c]]

(* The continuation of refreshAccessToken; a failure ends with              *)
(* onUnauthorized, which clears the store.                                  *)
EndRefresh(p, c) ==
    /\ Arrived(p, c)
    /\ IF Obtained(p, c)
       THEN /\ store' = [store EXCEPT ![p].refreshed = flight[p][c].token]
            /\ flight' = [flight EXCEPT ![p] = Landed(p, c)]
            /\ call' = [call EXCEPT ![p] = Resumed(p, [NoCall EXCEPT !.at = "refreshed"])]
       ELSE /\ store' = [store EXCEPT ![p].access = None]
            /\ flight' = [flight EXCEPT ![p] = Outdated(Landed(p, c))]
            /\ call' = [call EXCEPT ![p] = Resumed(p, NoCall)]
    /\ UNCHANGED <<cookie, refreshRow, familyOf, dead, spender, alarms, left>>

-----------------------------------------------------------------------------
(* The API.                                                                 *)
Served(p, k, answer, token) ==
    flight' = [flight EXCEPT ![p][k] =
                  [@ EXCEPT !.phase = "served", !.answer = answer, !.token = token]]

Issue(t, family, row) ==
    /\ refreshRow' = [row EXCEPT ![t] = "live"]
    /\ familyOf' = [familyOf EXCEPT ![t] = family]

\* The next token_version: no access token that was issued before is valid.
AllRevoked ==
    [t \in Issued |-> IF refreshRow[t] # "none" /\ dead[t] = "no" THEN "revoked" ELSE dead[t]]
AllEnded == [t \in Issued |-> IF refreshRow[t] = "live" THEN "ended" ELSE refreshRow[t]]

ServeLogin(p) ==
    /\ flight[p]["login"].phase = "sent"
    /\ \E t \in Issued : Fresh(t) /\ Issue(t, t, refreshRow) /\ Served(p, "login", "tokens", t)
    /\ UNCHANGED <<cookie, dead, store, call, spender, alarms, left>>

(* refreshSession: a live token is exchanged; one that is not, is reuse,    *)
(* and ends its family and every access token of the user.                  *)
ServeRefresh(p, k) ==
    LET f == flight[p][k] IN
    /\ f.phase = "sent"
    /\ \/ /\ f.sent # None /\ refreshRow[f.sent] = "live"
          /\ \E t \in Issued :
              /\ Fresh(t)
              /\ Issue(t, familyOf[f.sent], [refreshRow EXCEPT ![f.sent] = "rotated"])
              /\ Served(p, k, "tokens", t)
          /\ spender' = [spender EXCEPT ![f.sent] = p]
          /\ UNCHANGED <<dead, alarms>>
       \/ /\ f.sent # None /\ refreshRow[f.sent] # "live"
          /\ refreshRow' = [t \in Issued |->
                 IF refreshRow[t] = "live" /\ familyOf[t] = familyOf[f.sent]
                 THEN "ended" ELSE refreshRow[t]]
          /\ dead' = AllRevoked
          /\ alarms' = alarms \cup {[token |-> f.sent, page |-> p]}
          /\ Served(p, k, "refused", None)
          /\ UNCHANGED <<familyOf, spender>>
    /\ UNCHANGED <<cookie, store, call, left>>

(* logout: authenticate comes first; then the token in the cookie and the   *)
(* access token at hand are ended.                                          *)
ServeLogout(p) ==
    LET f == flight[p]["logout"] IN
    /\ f.phase = "sent" /\ dead[f.bearer] = "no"
    /\ refreshRow' = [t \in Issued |->
           IF t = f.sent /\ refreshRow[t] = "live" THEN "ended" ELSE refreshRow[t]]
    /\ dead' = [dead EXCEPT ![f.bearer] = "revoked"]
    /\ Served(p, "logout", "done", None)
    /\ UNCHANGED <<cookie, familyOf, store, call, spender, alarms, left>>

(* changePassword ends every session of the user and begins one, logoutAll  *)
(* ends them, for a bearer that authenticate lets through.  A page has one  *)
(* such call of each kind under way.                                        *)
ServeAccount(p, k, bearer) ==
    /\ AtRest(p, k)
    /\ bearer \in Issued /\ dead[bearer] = "no"
    /\ \/ /\ k = "password"
          /\ \E t \in Issued : Fresh(t) /\ Issue(t, t, AllEnded) /\ Served(p, k, "tokens", t)
       \/ /\ k = "everywhere"
          /\ refreshRow' = AllEnded /\ Served(p, k, "done", None)
          /\ UNCHANGED familyOf
    /\ dead' = AllRevoked

\* A call of a page is one of these.
CallServed(p, c) ==
    /\ call[p][c].at \in {"sent", "replayed"}
    /\ \E k \in AccountKinds : ServeAccount(p, k, call[p][c].bearer)
    /\ call' = [call EXCEPT ![p][c] = NoCall]
    /\ UNCHANGED <<cookie, store, spender, alarms, left>>

\* The headers of the answer reach the browser.
Arrive(p, k) ==
    /\ flight[p][k].phase = "served"
    /\ cookie' = CASE flight[p][k].answer = "tokens" -> flight[p][k].token
                   [] flight[p][k].answer = "done" -> None
                   [] flight[p][k].answer = "refused" -> cookie
    /\ flight' = [flight EXCEPT ![p][k] =
                     [@ EXCEPT !.phase = "arrived", !.sent = None, !.bearer = None]]
    /\ UNCHANGED <<refreshRow, familyOf, dead, store, call, spender, alarms, left>>

\* A failure only ends the code of a form: it shows its message.
Forms == {"login"} \cup AccountKinds

(* The API refuses with nothing done: no token, one of 30 days, another     *)
(* password, a limit, a database that does not answer.  Or the network      *)
(* fails, before the API is reached or after it has answered.  The pages    *)
(* do not tell them apart.                                                  *)
Fail(p, k) ==
    /\ flight[p][k].phase \in {"sent", "served"}
    /\ flight' = [flight EXCEPT ![p][k] =
                     IF k \in Forms THEN NoFlight
                     ELSE [@ EXCEPT !.phase = "arrived", !.sent = None, !.bearer = None,
                                    !.answer = "refused", !.token = None]]
    /\ spender' = IF k \in Refreshers /\ flight[p][k].answer = "tokens"
                  THEN [spender EXCEPT ![flight[p][k].sent] = "lost"] ELSE spender
    /\ UNCHANGED <<cookie, refreshRow, familyOf, dead, store, call, alarms, left>>

(* 15 minutes pass, for a token that a page holds.  No page takes as long   *)
(* to restore its session.                                                  *)
Expire(t) ==
    /\ dead[t] # "expired"
    /\ \E p \in Pages : t \in {store[p].access, store[p].refreshed}
    /\ \A p \in Pages : AtRest(p, "restore")
    /\ dead' = [dead EXCEPT ![t] = "expired"]
    /\ UNCHANGED <<cookie, refreshRow, familyOf, store, flight, call, spender, alarms, left>>

-----------------------------------------------------------------------------
PageStep(p) ==
    \/ Open(p) \/ EndRestore(p) \/ Login(p) \/ EndLogin(p) \/ Logout(p) \/ Leave(p)
    \/ EndPassword(p) \/ EndEverywhere(p)
    \/ \E c \in Calls :
        \/ Begin(p, c) \/ Replay(p, c)
        \/ CallExpired(p, c) \/ CallEnds(p, c) \/ EndRefresh(p, c)

ApiStep(p) ==
    \/ ServeLogin(p) \/ ServeLogout(p)
    \/ \E k \in Refreshers : ServeRefresh(p, k)
    \/ \E c \in Calls : CallServed(p, c)

NetworkStep(p) == \E k \in Kinds : Arrive(p, k) \/ Fail(p, k)

BrowserNext ==
    \/ \E p \in Pages : PageStep(p) \/ ApiStep(p) \/ NetworkStep(p)
    \/ \E t \in Issued : Expire(t)

BrowserSpec == BrowserInit /\ [][BrowserNext]_browserVars

-----------------------------------------------------------------------------
Stores == [access : 0..MaxTokens, observed : 0..MaxTokens, refreshed : 0..MaxTokens]
Flights ==
    [phase : {"none", "sent", "served", "arrived"}, sent : 0..MaxTokens,
     bearer : 0..MaxTokens, answer : {"none", "tokens", "done", "refused"},
     token : 0..MaxTokens, outdated : BOOLEAN]
ApiCalls == [at : {"none", "sent", "waiting", "refreshed", "replayed"}, bearer : 0..MaxTokens]

BrowserTypeOK ==
    /\ cookie \in 0..MaxTokens
    /\ refreshRow \in [Issued -> {"none", "live", "rotated", "ended"}]
    /\ familyOf \in [Issued -> 0..MaxTokens]
    /\ dead \in [Issued -> {"no", "revoked", "expired"}]
    /\ store \in [Pages -> Stores]
    /\ flight \in [Pages -> [Kinds -> Flights]]
    /\ call \in [Pages -> [Calls -> ApiCalls]]
    /\ spender \in [Issued -> Pages \cup {"nobody", "lost"}]
    /\ alarms \subseteq [token : Issued, page : Pages]
    /\ left \subseteq Pages
    /\ \A p \in Pages, k \in Kinds :
        flight[p][k].phase = "served" => flight[p][k].answer \in {"tokens", "done", "refused"}

\* A page that logged out gets no session again, until somebody logs in or
\* loads it again: no restore that began before takes the session back.  Only
\* the answer to a change of the password, sent before, does (EndPassword).
LeftStaysOut ==
    [][\A p \in left \cap left' :
        store'[p].access \notin {None, store[p].access} =>
            /\ Arrived(p, "password") /\ Obtained(p, "password")
            /\ store'[p].access = flight[p]["password"].token]_browserVars

\* 05 T-12: however many calls of a page find their token expired, none makes
\* the page show a refresh token that it has spent itself, unless the answer
\* that held the next one was lost.
NoFalseReuse == \A a \in alarms : spender[a.token] # a.page
=============================================================================
