--------------------------- MODULE BrowserProofs ---------------------------
(***************************************************************************)
(* Proofs about BrowserSession, for any number of pages, calls and tokens. *)
(* Three invariants are shown in turn: the types; LeftBars, which says     *)
(* that the restore of a page that was left is outdated; and SpendInv,     *)
(* which follows a refresh token from the API to the page that sends it.   *)
(***************************************************************************)
EXTENDS BrowserSession, TLAPS

-----------------------------------------------------------------------------
(* What they say.                                                           *)

\* The tokens that code of a page may send as its bearer.
Held(p) == {store[p].access, store[p].refreshed} \cup {call[p][c].bearer : c \in Calls}

\* A page has one refresh under way at most, and while it restores its session
\* none of its calls has found its token expired.
OneRefresh ==
    \A p \in Pages :
        /\ \A j, k \in Refreshers : ~AtRest(p, j) /\ ~AtRest(p, k) => j = k
        /\ ~AtRest(p, "restore") => \A t \in Held(p) : ~TooOld(t)

\* Nobody knows a token that is not issued yet.
UnissuedUnknown ==
    \A t \in Issued : refreshRow[t] = "none" =>
        /\ cookie # t /\ spender[t] = "nobody" /\ dead[t] # "expired"
        /\ \A p \in Pages :
            /\ t \notin Held(p)
            /\ \A k \in Kinds : flight[p][k].sent # t /\ flight[p][k].token # t

\* A token on its way to a page is held by none, and on its way once; until the
\* browser has it, nobody sends it.
PostedOnce ==
    \A p \in Pages, k \in Kinds : Obtained(p, k) =>
        LET t == flight[p][k].token IN
        /\ t \in Issued /\ refreshRow[t] # "none" /\ dead[t] # "expired"
        /\ \A q \in Pages : t \notin Held(q)
        /\ \A q \in Pages, j \in Kinds :
            Obtained(q, j) /\ flight[q][j].token = t => q = p /\ j = k
        /\ flight[p][k].phase = "served" =>
            /\ cookie # t /\ spender[t] = "nobody"
            /\ \A q \in Pages, j \in Kinds : flight[q][j].sent # t

\* A page that exchanged a token sends it no more: the cookie has moved on, or
\* the refresh that will move it is still under way.
SpentUnsent ==
    \A t \in Issued, p \in Pages : spender[t] = p =>
        /\ refreshRow[t] \notin {"none", "live"}
        /\ \A k \in Refreshers : flight[p][k].phase = "sent" => flight[p][k].sent # t
        /\ cookie = t => \E k \in Refreshers :
                            /\ flight[p][k].phase = "served" /\ Obtained(p, k)
                            /\ flight[p][k].sent = t

\* A restore that began before the page was left is outdated.
LeftBars ==
    \A p \in left : AtRest(p, "restore") \/ flight[p]["restore"].outdated

\* Only an answer that tells of tokens brings one.
TokensTold == \A p \in Pages, k \in Kinds : flight[p][k].token # None => Obtained(p, k)

\* What was found to be used again is spent for good.
AlarmsStand == \A a \in alarms : refreshRow[a.token] \notin {"none", "live"}

-----------------------------------------------------------------------------
(* Type correctness.                                                        *)
LEMMA Blank == NoFlight \in Flights /\ NoCall \in ApiCalls /\ EmptyStore \in Stores
  BY BrowserSessionAssumption
  DEF NoFlight, NoCall, EmptyStore, Stores, Flights, ApiCalls, None

LEMMA BrowserInitType == BrowserInit => BrowserTypeOK
  <1> SUFFICES ASSUME BrowserInit PROVE BrowserTypeOK OBVIOUS
  <1>1. 1 \in 0..MaxTokens /\ None \in 0..MaxTokens BY BrowserSessionAssumption DEF None
  <1>2. /\ cookie \in 0..MaxTokens
        /\ refreshRow \in [Issued -> {"none", "live", "rotated", "ended"}]
        /\ familyOf \in [Issued -> 0..MaxTokens]
        /\ dead \in [Issued -> {"no", "revoked", "expired"}]
        /\ spender \in [Issued -> Pages \cup {"nobody", "lost"}]
    BY <1>1 DEF BrowserInit
  <1>3. /\ store \in [Pages -> Stores]
        /\ flight \in [Pages -> [Kinds -> Flights]]
        /\ call \in [Pages -> [Calls -> ApiCalls]]
    BY Blank DEF BrowserInit
  <1>4. \A p \in Pages, k \in Kinds : flight[p][k].phase = "none"
    BY DEF BrowserInit, NoFlight
  <1> QED BY <1>2, <1>3, <1>4 DEF BrowserTypeOK, BrowserInit

LEMMA SentType ==
    ASSUME BrowserTypeOK, NEW b \in 0..MaxTokens
    PROVE  /\ Sent(b) \in Flights
           /\ Sent(b).phase = "sent" /\ Sent(b).sent = cookie /\ Sent(b).answer = "none"
           /\ Sent(b).token = None /\ ~Sent(b).outdated
  <1>1. Sent(b) = [phase |-> "sent", sent |-> cookie, bearer |-> b, answer |-> "none",
                   token |-> 0, outdated |-> FALSE]
    BY DEF Sent, None
  <1>2. cookie \in 0..MaxTokens /\ 0 \in 0..MaxTokens
    BY BrowserSessionAssumption DEF BrowserTypeOK
  <1>3. Sent(b) \in Flights BY <1>1, <1>2 DEF Flights
  <1> QED BY <1>1, <1>3 DEF None

LEMMA OutdatedType ==
    ASSUME NEW f \in [Kinds -> Flights]
    PROVE  /\ Outdated(f) \in [Kinds -> Flights]
           /\ \A k \in Kinds : Outdated(f)[k] = IF k = "restore" /\ f[k] # NoFlight
                                   THEN [f[k] EXCEPT !.outdated = TRUE] ELSE f[k]
  <1> DEFINE kept == [f["restore"] EXCEPT !.outdated = TRUE]
  <1>1. "restore" \in Kinds BY DEF Kinds, Refreshers
  <1>2. f["restore"] \in Flights BY <1>1
  <1>3. kept \in Flights BY <1>2 DEF Flights
  <1>4. CASE f["restore"] = NoFlight BY <1>1, <1>4 DEF Outdated
  <1>5. CASE f["restore"] # NoFlight
    <2>1. Outdated(f) = [f EXCEPT !["restore"] = kept] BY <1>5 DEF Outdated
    <2> HIDE DEF kept
    <2>2. /\ Outdated(f) \in [Kinds -> Flights]
          /\ \A k \in Kinds : Outdated(f)[k] = IF k = "restore" THEN kept ELSE f[k]
      BY <1>1, <1>3, <2>1
    <2> QED BY <1>5, <2>2 DEF kept
  <1> QED BY <1>4, <1>5

LEMMA LandedType ==
    ASSUME BrowserTypeOK, NEW p \in Pages, NEW k \in Kinds
    PROVE  /\ Landed(p, k) \in [Kinds -> Flights]
           /\ \A j \in Kinds : Landed(p, k)[j] = IF j = k THEN NoFlight ELSE flight[p][j]
  BY Blank DEF Landed, BrowserTypeOK

(* Pages have what the type invariant says of them.                         *)
LEMMA PageTypes ==
    ASSUME BrowserTypeOK, NEW p \in Pages
    PROVE  /\ store[p] \in Stores /\ flight[p] \in [Kinds -> Flights]
           /\ call[p] \in [Calls -> ApiCalls]
           /\ \A k \in Kinds : /\ flight[p][k] \in Flights
                               /\ flight[p][k].token \in 0..MaxTokens
                               /\ flight[p][k].sent \in 0..MaxTokens
                               /\ flight[p][k].bearer \in 0..MaxTokens
  BY DEF BrowserTypeOK, Flights

Told(f) ==
    \A k \in Kinds : f[k].phase = "served" => f[k].answer \in {"tokens", "done", "refused"}

(* The flights of one page change, or its flight of one kind.               *)
LEMMA Flown ==
    ASSUME BrowserTypeOK, NEW p \in Pages, NEW f \in [Kinds -> Flights], Told(f),
           flight' = [flight EXCEPT ![p] = f]
    PROVE  /\ flight' \in [Pages -> [Kinds -> Flights]]
           /\ \A q \in Pages : Told(flight'[q])
           /\ \A q \in Pages : flight'[q] = IF q = p THEN f ELSE flight[q]
  BY DEF BrowserTypeOK, Told

LEMMA FlownOne ==
    ASSUME BrowserTypeOK, NEW p \in Pages, NEW k \in Kinds, NEW x \in Flights,
           x.phase = "served" => x.answer \in {"tokens", "done", "refused"},
           flight' = [flight EXCEPT ![p][k] = x]
    PROVE  /\ flight' \in [Pages -> [Kinds -> Flights]]
           /\ \A q \in Pages : Told(flight'[q])
           /\ \A q \in Pages, j \in Kinds :
               flight'[q][j] = IF q = p /\ j = k THEN x ELSE flight[q][j]
  <1> DEFINE f == [flight[p] EXCEPT ![k] = x]
  <1>1. flight[p] \in [Kinds -> Flights] BY PageTypes
  <1>2. /\ f \in [Kinds -> Flights]
        /\ \A j \in Kinds : f[j] = IF j = k THEN x ELSE flight[p][j]
    BY <1>1
  <1>3. Told(f) BY <1>2 DEF Told, BrowserTypeOK
  <1>4. flight' = [flight EXCEPT ![p] = f] BY DEF BrowserTypeOK
  <1> HIDE DEF f
  <1> QED BY <1>2, <1>3, <1>4, Flown

LEMMA CalledOne ==
    ASSUME BrowserTypeOK, NEW p \in Pages, NEW c \in Calls, NEW x \in ApiCalls,
           call' = [call EXCEPT ![p][c] = x]
    PROVE  /\ call' \in [Pages -> [Calls -> ApiCalls]]
           /\ \A q \in Pages, j \in Calls :
               call'[q][j] = IF q = p /\ j = c THEN x ELSE call[q][j]
  <1> DEFINE f == [call[p] EXCEPT ![c] = x]
  <1>1. /\ f \in [Calls -> ApiCalls]
        /\ \A j \in Calls : f[j] = IF j = c THEN x ELSE call[p][j]
    BY PageTypes
  <1>2. call' = [call EXCEPT ![p] = f] BY DEF BrowserTypeOK
  <1> HIDE DEF f
  <1> QED BY <1>1, <1>2 DEF BrowserTypeOK

LEMMA StoredOne ==
    ASSUME BrowserTypeOK, NEW p \in Pages, NEW x \in Stores,
           store' = [store EXCEPT ![p] = x]
    PROVE  /\ store' \in [Pages -> Stores]
           /\ \A q \in Pages : store'[q] = IF q = p THEN x ELSE store[q]
  BY DEF BrowserTypeOK

(* What a page or the network has on the way stays as it is.                *)
LEMMA NotFlown ==
    ASSUME BrowserTypeOK, UNCHANGED flight
    PROVE  /\ flight' \in [Pages -> [Kinds -> Flights]]
           /\ \A q \in Pages : Told(flight'[q])
  BY DEF BrowserTypeOK, Told

LEMMA LandedTold ==
    ASSUME BrowserTypeOK, NEW p \in Pages, NEW k \in Kinds
    PROVE  /\ Told(Landed(p, k)) /\ Told(Outdated(Landed(p, k)))
           /\ Outdated(Landed(p, k)) \in [Kinds -> Flights]
  <1>1. /\ Landed(p, k) \in [Kinds -> Flights]
        /\ \A j \in Kinds : Landed(p, k)[j] = IF j = k THEN NoFlight ELSE flight[p][j]
    BY LandedType
  <1>2. NoFlight.phase = "none" BY DEF NoFlight
  <1>3. Told(Landed(p, k)) BY <1>1, <1>2 DEF Told, BrowserTypeOK
  <1> DEFINE f == Landed(p, k)
  <1>4. /\ Outdated(f) \in [Kinds -> Flights]
        /\ \A j \in Kinds : Outdated(f)[j] = IF j = "restore" /\ f[j] # NoFlight
                               THEN [f[j] EXCEPT !.outdated = TRUE] ELSE f[j]
    BY <1>1, OutdatedType
  <1>5. \A j \in Kinds : /\ Outdated(f)[j].phase = f[j].phase
                         /\ Outdated(f)[j].answer = f[j].answer
    BY <1>1, <1>4 DEF Flights
  <1> QED BY <1>3, <1>4, <1>5 DEF Told

LEMMA CurrentType ==
    ASSUME BrowserTypeOK, NEW p \in Pages
    PROVE  /\ Current(store[p]) \in Stores
           /\ Current(store[p]).access = store[p].access
           /\ Bearer(Current(store[p])) \in 0..MaxTokens
  <1>1. store[p] \in Stores BY PageTypes
  <1>2. /\ Current(store[p]) \in Stores /\ Current(store[p]).access = store[p].access
    BY <1>1, Blank DEF Current, Stores, EmptyStore
  <1> QED BY <1>2 DEF Bearer, Stores

LEMMA ResumedType ==
    ASSUME BrowserTypeOK, NEW p \in Pages, NEW how \in ApiCalls
    PROVE  Resumed(p, how) \in [Calls -> ApiCalls]
  BY PageTypes DEF Resumed

LEMMA RefreshedCall == [NoCall EXCEPT !.at = "refreshed"] \in ApiCalls /\ [NoCall EXCEPT !.at = "waiting"] \in ApiCalls
  BY Blank DEF NoCall, ApiCalls

LEMMA PageType ==
    ASSUME BrowserTypeOK, NEW p \in Pages, PageStep(p)
    PROVE  BrowserTypeOK'
  <1> DEFINE Others == /\ cookie' \in 0..MaxTokens
                       /\ refreshRow' \in [Issued -> {"none", "live", "rotated", "ended"}]
                       /\ familyOf' \in [Issued -> 0..MaxTokens]
                       /\ dead' \in [Issued -> {"no", "revoked", "expired"}]
                       /\ spender' \in [Issued -> Pages \cup {"nobody", "lost"}]
                       /\ alarms' \subseteq [token : Issued, page : Pages]
  <1>0. UNCHANGED <<cookie, refreshRow, familyOf, dead, spender, alarms>> => Others
    BY DEF BrowserTypeOK
  <1>k. /\ "restore" \in Kinds /\ "login" \in Kinds /\ "logout" \in Kinds
        /\ "password" \in Kinds /\ "everywhere" \in Kinds
    BY DEF Kinds, Refreshers, AccountKinds
  <1>c. Calls \subseteq Kinds BY DEF Kinds, Refreshers
  <1> DEFINE Done == /\ Others
                     /\ store' \in [Pages -> Stores]
                     /\ flight' \in [Pages -> [Kinds -> Flights]]
                     /\ \A q \in Pages : Told(flight'[q])
                     /\ call' \in [Pages -> [Calls -> ApiCalls]]
                     /\ left' \subseteq Pages
  <1>d. Done => BrowserTypeOK' BY DEF BrowserTypeOK, Told
  <1>s. UNCHANGED store => store' \in [Pages -> Stores] BY DEF BrowserTypeOK
  <1>l. UNCHANGED call => call' \in [Pages -> [Calls -> ApiCalls]] BY DEF BrowserTypeOK
  <1>t. left \subseteq Pages BY DEF BrowserTypeOK
  <1>n. Sent(None) \in Flights /\ Sent(None).phase = "sent"
    BY Blank, SentType, BrowserSessionAssumption DEF None
  <1>a. ASSUME NEW x \in 0..MaxTokens
        PROVE  /\ [store[p] EXCEPT !.access = x] \in Stores
               /\ [store[p] EXCEPT !.refreshed = x] \in Stores
    BY PageTypes DEF Stores
  <1>z. None \in 0..MaxTokens BY BrowserSessionAssumption DEF None
  <1> HIDE DEF Done
  <1>1. CASE Open(p)
    <2>1. store' \in [Pages -> Stores] BY <1>1, Blank, StoredOne DEF Open
    <2>2. flight' \in [Pages -> [Kinds -> Flights]] /\ \A q \in Pages : Told(flight'[q])
      <3>1. flight' = [flight EXCEPT ![p]["restore"] = Sent(None)] BY <1>1 DEF Open
      <3> QED BY <3>1, <1>k, <1>n, FlownOne
    <2>3. call' \in [Pages -> [Calls -> ApiCalls]] BY <1>1, Blank DEF Open, BrowserTypeOK
    <2> QED BY <1>0, <1>1, <1>d, <1>t, <2>1, <2>2, <2>3 DEF Open, Done
  <1>2. CASE EndRestore(p)
    <2>1. store' \in [Pages -> Stores]
      <3> DEFINE t == flight[p]["restore"].token
      <3>1. t \in 0..MaxTokens BY <1>k, PageTypes
      <3>2. CASE MayPublish(p)
        BY <1>2, <1>a, <3>1, <3>2, StoredOne DEF EndRestore
      <3>3. CASE ~MayPublish(p) BY <1>2, <1>s, <3>3 DEF EndRestore
      <3> QED BY <3>2, <3>3
    <2>2. flight' \in [Pages -> [Kinds -> Flights]] /\ \A q \in Pages : Told(flight'[q])
      BY <1>2, <1>k, LandedType, LandedTold, Flown DEF EndRestore
    <2> QED BY <1>0, <1>2, <1>d, <1>t, <1>l, <2>1, <2>2 DEF EndRestore, Done
  <1>3. CASE Login(p)
    <2> DEFINE x == [NoFlight EXCEPT !.phase = "sent"]
    <2>1. x \in Flights /\ x.phase = "sent" BY Blank DEF NoFlight, Flights
    <2>2. flight' = [flight EXCEPT ![p]["login"] = x] BY <1>3 DEF Login
    <2> HIDE DEF x
    <2>3. flight' \in [Pages -> [Kinds -> Flights]] /\ \A q \in Pages : Told(flight'[q])
      BY <1>k, <2>1, <2>2, FlownOne
    <2> QED BY <1>0, <1>3, <1>d, <1>s, <1>t, <1>l, <2>3 DEF Login, Done
  <1>4. CASE EndLogin(p)
    <2>1. store' \in [Pages -> Stores]
      <3> DEFINE t == flight[p]["login"].token
      <3>1. t \in 0..MaxTokens BY <1>k, PageTypes
      <3> QED BY <1>4, <1>a, <3>1, StoredOne DEF EndLogin
    <2>2. flight' \in [Pages -> [Kinds -> Flights]] /\ \A q \in Pages : Told(flight'[q])
      BY <1>4, <1>k, LandedType, LandedTold, Flown DEF EndLogin
    <2>3. left' \subseteq Pages BY <1>4, <1>t DEF EndLogin
    <2> QED BY <1>0, <1>4, <1>d, <1>l, <2>1, <2>2, <2>3 DEF EndLogin, Done
  <1>5. CASE Logout(p)
    <2>1. store[p].access \in 0..MaxTokens BY PageTypes DEF Stores
    <2>2. Sent(store[p].access) \in Flights /\ Sent(store[p].access).phase = "sent"
      BY <2>1, SentType
    <2>3. flight' \in [Pages -> [Kinds -> Flights]] /\ \A q \in Pages : Told(flight'[q])
      <3>1. flight' = [flight EXCEPT ![p]["logout"] = Sent(store[p].access)]
        BY <1>5 DEF Logout
      <3> QED BY <3>1, <1>k, <2>2, FlownOne
    <2> QED BY <1>0, <1>5, <1>d, <1>s, <1>t, <1>l, <2>3 DEF Logout, Done
  <1>6. CASE Leave(p)
    <2>1. store' \in [Pages -> Stores] BY <1>6, <1>a, <1>z, StoredOne DEF Leave
    <2>2. flight' \in [Pages -> [Kinds -> Flights]] /\ \A q \in Pages : Told(flight'[q])
      BY <1>6, <1>k, LandedTold, Flown DEF Leave
    <2> QED BY <1>0, <1>6, <1>d, <1>t, <1>l, <2>1, <2>2 DEF Leave, Done
  <1>7. ASSUME NEW c \in Calls, Begin(p, c) PROVE BrowserTypeOK'
    <2>1. store' \in [Pages -> Stores] BY <1>7, CurrentType, StoredOne DEF Begin
    <2> DEFINE x == [at |-> "sent", bearer |-> Bearer(Current(store[p]))]
    <2>2. x \in ApiCalls BY CurrentType DEF ApiCalls
    <2>3. call' = [call EXCEPT ![p][c] = x] BY <1>7 DEF Begin
    <2> HIDE DEF x
    <2>4. call' \in [Pages -> [Calls -> ApiCalls]] BY <2>2, <2>3, CalledOne
    <2> QED BY <1>0, <1>7, <1>d, <1>t, <2>1, <2>4, NotFlown DEF Begin, Done
  <1>8. ASSUME NEW c \in Calls, Replay(p, c) PROVE BrowserTypeOK'
    <2>1. store' \in [Pages -> Stores] BY <1>8, CurrentType, StoredOne DEF Replay
    <2> DEFINE x == [at |-> "replayed", bearer |-> Bearer(Current(store[p]))]
    <2>2. x \in ApiCalls BY CurrentType DEF ApiCalls
    <2>3. call' = [call EXCEPT ![p][c] = x] BY <1>8 DEF Replay
    <2> HIDE DEF x
    <2>4. call' \in [Pages -> [Calls -> ApiCalls]] BY <2>2, <2>3, CalledOne
    <2> QED BY <1>0, <1>8, <1>d, <1>t, <2>1, <2>4, NotFlown DEF Replay, Done
  <1>9. ASSUME NEW c \in Calls, CallExpired(p, c) PROVE BrowserTypeOK'
    <2>1. call' \in [Pages -> [Calls -> ApiCalls]]
      BY <1>9, RefreshedCall, CalledOne DEF CallExpired
    <2>2. flight' \in [Pages -> [Kinds -> Flights]] /\ \A q \in Pages : Told(flight'[q])
      <3>1. CASE Refreshing(p) BY <1>9, <3>1, NotFlown DEF CallExpired
      <3>2. CASE ~Refreshing(p)
        <4>1. flight' = [flight EXCEPT ![p][c] = Sent(None)] BY <1>9, <3>2 DEF CallExpired
        <4> QED BY <4>1, <1>c, <1>n, FlownOne
      <3> QED BY <3>1, <3>2
    <2> QED BY <1>0, <1>9, <1>d, <1>s, <1>t, <2>1, <2>2 DEF CallExpired, Done
  <1>10. ASSUME NEW c \in Calls, CallEnds(p, c) PROVE BrowserTypeOK'
    <2>1. call' \in [Pages -> [Calls -> ApiCalls]] BY <1>10, Blank, CalledOne DEF CallEnds
    <2> QED BY <1>0, <1>10, <1>d, <1>s, <1>t, <2>1, NotFlown DEF CallEnds, Done
  <1>11. ASSUME NEW c \in Calls, EndRefresh(p, c) PROVE BrowserTypeOK'
    <2>1. c \in Kinds BY <1>c
    <2>2. flight' \in [Pages -> [Kinds -> Flights]] /\ \A q \in Pages : Told(flight'[q])
      BY <1>11, <2>1, LandedType, LandedTold, Flown DEF EndRefresh
    <2>3. store' \in [Pages -> Stores]
      <3>1. flight[p][c].token \in 0..MaxTokens BY <2>1, PageTypes
      <3>2. CASE Obtained(p, c) BY <1>11, <1>a, <3>1, <3>2, StoredOne DEF EndRefresh
      <3>3. CASE ~Obtained(p, c) BY <1>11, <1>a, <1>z, <3>3, StoredOne DEF EndRefresh
      <3> QED BY <3>2, <3>3
    <2>4. call' \in [Pages -> [Calls -> ApiCalls]]
      <3>1. \E r \in [Calls -> ApiCalls] : call' = [call EXCEPT ![p] = r]
        BY <1>11, ResumedType, RefreshedCall, Blank DEF EndRefresh
      <3> QED BY <3>1 DEF BrowserTypeOK
    <2> QED BY <1>0, <1>11, <1>d, <1>t, <2>2, <2>3, <2>4 DEF EndRefresh, Done
  <1>12. CASE EndPassword(p)
    <2>1. flight[p]["password"].token \in 0..MaxTokens BY <1>k, PageTypes
    <2>2. store' \in [Pages -> Stores] BY <1>12, <1>a, <2>1, StoredOne DEF EndPassword
    <2>3. flight' \in [Pages -> [Kinds -> Flights]] /\ \A q \in Pages : Told(flight'[q])
      BY <1>12, <1>k, LandedTold, Flown DEF EndPassword
    <2> QED BY <1>0, <1>12, <1>d, <1>t, <1>l, <2>2, <2>3 DEF EndPassword, Done
  <1>13. CASE EndEverywhere(p)
    <2>1. store' \in [Pages -> Stores] BY <1>13, <1>a, <1>z, StoredOne DEF EndEverywhere
    <2>2. flight' \in [Pages -> [Kinds -> Flights]] /\ \A q \in Pages : Told(flight'[q])
      BY <1>13, <1>k, LandedTold, Flown DEF EndEverywhere
    <2> QED BY <1>0, <1>13, <1>d, <1>t, <1>l, <2>1, <2>2 DEF EndEverywhere, Done
  <1> QED
    BY <1>1, <1>2, <1>3, <1>4, <1>5, <1>6, <1>7, <1>8, <1>9, <1>10, <1>11, <1>12, <1>13
    DEF PageStep

(* The API answers a request.                                               *)
LEMMA ServedFlight ==
    ASSUME BrowserTypeOK, NEW p \in Pages, NEW k \in Kinds,
           NEW answer \in {"tokens", "done", "refused"}, NEW t \in 0..MaxTokens,
           Served(p, k, answer, t)
    PROVE  /\ flight' \in [Pages -> [Kinds -> Flights]]
           /\ \A q \in Pages : Told(flight'[q])
           /\ \A q \in Pages, j \in Kinds : ~(q = p /\ j = k) => flight'[q][j] = flight[q][j]
           /\ flight'[p][k].phase = "served" /\ flight'[p][k].answer = answer
           /\ flight'[p][k].token = t /\ flight'[p][k].sent = flight[p][k].sent
           /\ flight'[p][k].outdated = flight[p][k].outdated
  <1> DEFINE x == [flight[p][k] EXCEPT !.phase = "served", !.answer = answer, !.token = t]
  <1>1. flight[p][k] \in Flights BY PageTypes
  <1>2. /\ x \in Flights /\ x.phase = "served" /\ x.answer = answer /\ x.token = t
        /\ x.sent = flight[p][k].sent /\ x.outdated = flight[p][k].outdated
    BY <1>1 DEF Flights
  <1>3. flight' = [flight EXCEPT ![p][k] = x] BY DEF Served, BrowserTypeOK
  <1> HIDE DEF x
  <1> QED BY <1>2, <1>3, FlownOne

(* Its headers reach the browser.                                           *)
LEMMA ArrivedFlight ==
    ASSUME BrowserTypeOK, NEW p \in Pages, NEW k \in Kinds, Arrive(p, k)
    PROVE  /\ flight' \in [Pages -> [Kinds -> Flights]]
           /\ \A q \in Pages : Told(flight'[q])
           /\ \A q \in Pages, j \in Kinds : ~(q = p /\ j = k) => flight'[q][j] = flight[q][j]
           /\ flight'[p][k].phase = "arrived" /\ flight'[p][k].sent = None
           /\ flight'[p][k].outdated = flight[p][k].outdated
           /\ flight'[p][k].answer = flight[p][k].answer
           /\ flight'[p][k].token = flight[p][k].token
  <1> DEFINE x == [flight[p][k] EXCEPT !.phase = "arrived", !.sent = None, !.bearer = None]
  <1>1. flight[p][k] \in Flights /\ None \in 0..MaxTokens
    BY PageTypes, BrowserSessionAssumption DEF None
  <1>2. /\ x \in Flights /\ x.phase = "arrived" /\ x.sent = None
        /\ x.answer = flight[p][k].answer /\ x.token = flight[p][k].token
        /\ x.outdated = flight[p][k].outdated
    BY <1>1 DEF Flights
  <1>3. flight' = [flight EXCEPT ![p][k] = x] BY DEF Arrive, BrowserTypeOK
  <1> HIDE DEF x
  <1> QED BY <1>2, <1>3, FlownOne

(* A request or its answer fails: a form is done with it, the code of any   *)
(* other learns of it.                                                      *)
LEMMA FailedFlight ==
    ASSUME BrowserTypeOK, NEW p \in Pages, NEW k \in Kinds, Fail(p, k)
    PROVE  /\ flight' \in [Pages -> [Kinds -> Flights]]
           /\ \A q \in Pages : Told(flight'[q])
           /\ \A q \in Pages, j \in Kinds : ~(q = p /\ j = k) => flight'[q][j] = flight[q][j]
           /\ flight'[p][k].sent = None /\ flight'[p][k].token = None
           /\ flight'[p][k].phase \in {"none", "arrived"}
           /\ flight'[p][k].answer \in {"none", "refused"}
           /\ k \notin Forms => /\ flight'[p][k].phase = "arrived"
                               /\ flight'[p][k].outdated = flight[p][k].outdated
  <1> DEFINE x == [flight[p][k] EXCEPT !.phase = "arrived", !.sent = None, !.bearer = None,
                                       !.answer = "refused", !.token = None]
             y == IF k \in Forms THEN NoFlight ELSE x
  <1>1. flight[p][k] \in Flights /\ None \in 0..MaxTokens
    BY PageTypes, BrowserSessionAssumption DEF None
  <1>2. /\ x \in Flights /\ x.phase = "arrived" /\ x.sent = None /\ x.answer = "refused"
        /\ x.token = None /\ x.outdated = flight[p][k].outdated
    BY <1>1 DEF Flights
  <1>3. flight' = [flight EXCEPT ![p][k] = y] BY DEF Fail, BrowserTypeOK
  <1> HIDE DEF x
  <1>4. /\ y \in Flights /\ y.phase \in {"none", "arrived"} /\ y.sent = None
        /\ y.answer \in {"none", "refused"} /\ y.token = None
        /\ k \notin Forms => y.phase = "arrived" /\ y.outdated = flight[p][k].outdated
    BY <1>2, Blank DEF NoFlight
  <1> HIDE DEF y
  <1>5. y.phase # "served" BY <1>4
  <1> QED BY <1>3, <1>4, <1>5, FlownOne

LEMMA IssueType ==
    ASSUME BrowserTypeOK, NEW t \in Issued, NEW family \in 0..MaxTokens,
           NEW row \in [Issued -> {"none", "live", "rotated", "ended"}], Issue(t, family, row)
    PROVE  /\ refreshRow' \in [Issued -> {"none", "live", "rotated", "ended"}]
           /\ familyOf' \in [Issued -> 0..MaxTokens]
  BY DEF BrowserTypeOK, Issue

LEMMA EndedTypes ==
    ASSUME BrowserTypeOK
    PROVE  /\ AllRevoked \in [Issued -> {"no", "revoked", "expired"}]
           /\ AllEnded \in [Issued -> {"none", "live", "rotated", "ended"}]
  BY DEF BrowserTypeOK, AllRevoked, AllEnded

LEMMA ApiType ==
    ASSUME BrowserTypeOK, NEW p \in Pages, ApiStep(p)
    PROVE  BrowserTypeOK'
  <1> DEFINE Rows == /\ refreshRow' \in [Issued -> {"none", "live", "rotated", "ended"}]
                     /\ familyOf' \in [Issued -> 0..MaxTokens]
             Answers == /\ flight' \in [Pages -> [Kinds -> Flights]]
                        /\ \A q \in Pages : Told(flight'[q])
             Rest == /\ dead' \in [Issued -> {"no", "revoked", "expired"}]
                     /\ spender' \in [Issued -> Pages \cup {"nobody", "lost"}]
                     /\ alarms' \subseteq [token : Issued, page : Pages]
             Calling == call' \in [Pages -> [Calls -> ApiCalls]]
  <1>d. Rows /\ Answers /\ Rest /\ Calling /\ UNCHANGED <<cookie, store, left>>
          => BrowserTypeOK'
    BY DEF BrowserTypeOK, Told
  <1>k. "login" \in Kinds /\ "logout" \in Kinds /\ Refreshers \subseteq Kinds
        /\ AccountKinds \subseteq Kinds
    BY DEF Kinds
  <1>z. None \in 0..MaxTokens BY BrowserSessionAssumption DEF None
  <1>i. \A t \in Issued : t \in 0..MaxTokens BY BrowserSessionAssumption DEF Issued
  <1>r. refreshRow \in [Issued -> {"none", "live", "rotated", "ended"}] BY DEF BrowserTypeOK
  <1>v. UNCHANGED <<dead, spender, alarms>> => Rest BY DEF BrowserTypeOK
  <1>c. UNCHANGED call => Calling BY DEF BrowserTypeOK
  <1> HIDE DEF Rows, Answers, Rest, Calling
  <1>1. CASE ServeLogin(p)
    <2>1. PICK t \in Issued : Issue(t, t, refreshRow) /\ Served(p, "login", "tokens", t)
      BY <1>1 DEF ServeLogin
    <2>2. Rows /\ Answers
      BY <1>k, <1>i, <1>r, <2>1, ServedFlight, IssueType DEF Answers, Rows
    <2> QED BY <1>1, <1>c, <1>d, <1>v, <2>2 DEF ServeLogin
  <1>2. CASE ServeLogout(p)
    <2>1. Answers
      BY <1>2, <1>k, <1>z, ServedFlight DEF ServeLogout, Answers
    <2>2. Rows /\ Rest BY <1>2 DEF ServeLogout, Rows, Rest, BrowserTypeOK
    <2> QED BY <1>2, <1>c, <1>d, <2>1, <2>2 DEF ServeLogout
  <1>3. ASSUME NEW k \in Refreshers, ServeRefresh(p, k) PROVE BrowserTypeOK'
    <2> DEFINE f == flight[p][k]
    <2>k. k \in Kinds BY <1>k
    <2>0. f.sent \in 0..MaxTokens BY <2>k, PageTypes
    <2>1. UNCHANGED <<cookie, store, left>> /\ Calling BY <1>3, <1>c DEF ServeRefresh
    <2> DEFINE row == [refreshRow EXCEPT ![f.sent] = "rotated"]
    <2>3. CASE /\ f.sent # None /\ refreshRow[f.sent] = "live"
               /\ \E t \in Issued : /\ Fresh(t) /\ Issue(t, familyOf[f.sent], row)
                                    /\ Served(p, k, "tokens", t)
               /\ spender' = [spender EXCEPT ![f.sent] = p]
               /\ UNCHANGED <<dead, alarms>>
      <3>1. PICK t \in Issued : Issue(t, familyOf[f.sent], row) /\ Served(p, k, "tokens", t)
        BY <2>3
      <3>2. f.sent \in Issued BY <2>0, <2>3 DEF Issued, None
      <3>3. /\ familyOf[f.sent] \in 0..MaxTokens
            /\ row \in [Issued -> {"none", "live", "rotated", "ended"}]
        BY <3>2, <1>r DEF BrowserTypeOK
      <3>4. Rows BY <3>1, <3>3, IssueType DEF Rows
      <3>5. Answers BY <1>i, <2>k, <3>1, ServedFlight DEF Answers
      <3>6. Rest BY <2>3 DEF Rest, BrowserTypeOK
      <3> QED BY <1>d, <2>1, <3>4, <3>5, <3>6
    <2>4. CASE /\ f.sent # None /\ refreshRow[f.sent] # "live"
               /\ refreshRow' = [t \in Issued |->
                      IF refreshRow[t] = "live" /\ familyOf[t] = familyOf[f.sent]
                      THEN "ended" ELSE refreshRow[t]]
               /\ dead' = AllRevoked
               /\ alarms' = alarms \cup {[token |-> f.sent, page |-> p]}
               /\ Served(p, k, "refused", None)
               /\ UNCHANGED <<familyOf, spender>>
      <3>1. f.sent \in Issued BY <2>0, <2>4 DEF Issued, None
      <3>2. Rows BY <2>4 DEF Rows, BrowserTypeOK
      <3>3. Answers BY <1>z, <2>k, <2>4, ServedFlight DEF Answers
      <3>4. Rest BY <2>4, <3>1, EndedTypes DEF Rest, BrowserTypeOK
      <3> QED BY <1>d, <2>1, <3>2, <3>3, <3>4
    <2> QED BY <1>3, <2>3, <2>4 DEF ServeRefresh
  <1>4. ASSUME NEW c \in Calls, CallServed(p, c) PROVE BrowserTypeOK'
    <2>1. PICK k \in AccountKinds : ServeAccount(p, k, call[p][c].bearer)
      BY <1>4 DEF CallServed
    <2>k. k \in Kinds BY <1>k
    <2>2. Calling BY <1>4, Blank, CalledOne DEF CallServed, Calling
    <2>3. Rest BY <1>4, <2>1, EndedTypes DEF CallServed, ServeAccount, Rest, BrowserTypeOK
    <2>4. Rows /\ Answers
      <3>1. ASSUME NEW t \in Issued, Issue(t, t, AllEnded), Served(p, k, "tokens", t)
            PROVE  Rows /\ Answers
        BY <1>i, <2>k, <3>1, ServedFlight, IssueType, EndedTypes DEF Answers, Rows
      <3>2. CASE /\ refreshRow' = AllEnded /\ Served(p, k, "done", None)
                 /\ UNCHANGED familyOf
        BY <1>z, <2>k, <3>2, ServedFlight, EndedTypes DEF Answers, Rows, BrowserTypeOK
      <3> QED BY <2>1, <3>1, <3>2 DEF ServeAccount
    <2> QED BY <1>4, <1>d, <2>2, <2>3, <2>4 DEF CallServed
  <1> QED BY <1>1, <1>2, <1>3, <1>4 DEF ApiStep

LEMMA NetworkType ==
    ASSUME BrowserTypeOK, NEW p \in Pages, NetworkStep(p)
    PROVE  BrowserTypeOK'
  <1>z. None \in 0..MaxTokens BY BrowserSessionAssumption DEF None
  <1>1. ASSUME NEW k \in Kinds, Arrive(p, k) PROVE BrowserTypeOK'
    <2>1. flight[p][k].answer \in {"tokens", "done", "refused"}
      BY <1>1 DEF Arrive, BrowserTypeOK
    <2>2. cookie' \in {flight[p][k].token, None, cookie} BY <1>1, <2>1 DEF Arrive
    <2>3. cookie' \in 0..MaxTokens BY <1>z, <2>2, PageTypes DEF BrowserTypeOK
    <2>4. UNCHANGED <<refreshRow, familyOf, dead, store, call, spender, alarms, left>>
      BY <1>1 DEF Arrive
    <2> QED BY <1>1, <2>3, <2>4, ArrivedFlight DEF BrowserTypeOK, Told
  <1>2. ASSUME NEW k \in Kinds, Fail(p, k) PROVE BrowserTypeOK'
    <2>1. spender' \in [Issued -> Pages \cup {"nobody", "lost"}] BY <1>2 DEF Fail, BrowserTypeOK
    <2>2. UNCHANGED <<cookie, refreshRow, familyOf, dead, store, call, alarms, left>>
      BY <1>2 DEF Fail
    <2> QED BY <1>2, <2>1, <2>2, FailedFlight DEF BrowserTypeOK, Told
  <1> QED BY <1>1, <1>2 DEF NetworkStep

LEMMA BrowserStepType == BrowserTypeOK /\ [BrowserNext]_browserVars => BrowserTypeOK'
  <1> SUFFICES ASSUME BrowserTypeOK, [BrowserNext]_browserVars PROVE BrowserTypeOK'
    OBVIOUS
  <1>1. ASSUME NEW t \in Issued, Expire(t) PROVE BrowserTypeOK'
    BY <1>1 DEF Expire, BrowserTypeOK
  <1>2. CASE UNCHANGED browserVars BY <1>2 DEF browserVars, BrowserTypeOK
  <1> QED BY <1>1, <1>2, PageType, ApiType, NetworkType DEF BrowserNext

\* Type correctness of the browser and the API it talks to.
THEOREM BrowserTypeCorrect == BrowserSpec => []BrowserTypeOK
  <1> QED BY BrowserInitType, BrowserStepType, PTL DEF BrowserSpec

-----------------------------------------------------------------------------
(* The restore of a page that was left is outdated: LeftBars.               *)
Barred(p) == AtRest(p, "restore") \/ flight[p]["restore"].outdated

LEMMA OutdatedBars ==
    ASSUME BrowserTypeOK, NEW p \in Pages, NEW k \in Kinds, NEW f,
           f = Outdated(Landed(p, k))
    PROVE  f["restore"] = NoFlight \/ f["restore"].outdated
  <1> DEFINE g == Landed(p, k)
  <1>1. g \in [Kinds -> Flights] BY LandedType
  <1>2. "restore" \in Kinds BY DEF Kinds, Refreshers
  <1>3. Outdated(g)["restore"] = IF g["restore"] # NoFlight
                                 THEN [g["restore"] EXCEPT !.outdated = TRUE] ELSE g["restore"]
    BY <1>1, <1>2, OutdatedType
  <1>4. g["restore"] \in Flights BY <1>1, <1>2
  <1> QED BY <1>3, <1>4 DEF Flights

LEMMA NamedKinds ==
    /\ "restore" \in Kinds /\ "login" \in Kinds /\ "logout" \in Kinds
    /\ "password" \in Kinds /\ "everywhere" \in Kinds
    /\ Calls \subseteq Kinds /\ Refreshers \subseteq Kinds
    /\ \A c \in Calls : c \in Refreshers /\ c # "restore"
    /\ "login" \notin Refreshers /\ "logout" \notin Refreshers
    /\ \A k \in AccountKinds : k \in Kinds /\ k \notin Refreshers /\ k # "restore"
    /\ \A k \in Forms : k \in Kinds /\ k \notin Refreshers /\ k # "restore"
  BY BrowserSessionAssumption DEF Kinds, Refreshers, AccountKinds, Forms

LEMMA PageKeepsOut ==
    ASSUME BrowserTypeOK, LeftBars, NEW p \in Pages, PageStep(p),
           NEW q \in Pages, q \in left'
    PROVE  Barred(q)'
  <1>u. ASSUME q \in left, flight'[q]["restore"] = flight[q]["restore"]
        PROVE  Barred(q)'
    BY <1>u DEF LeftBars, Barred, AtRest
  <1>s. flight \in [Pages -> [Kinds -> Flights]] BY DEF BrowserTypeOK
  <1>o. ASSUME NEW k \in Kinds, flight' = [flight EXCEPT ![p] = Outdated(Landed(p, k))],
               q # p => q \in left
        PROVE  Barred(q)'
    <2>1. CASE q = p
      <3>1. flight'[p] = Outdated(Landed(p, k)) BY <1>o, <1>s
      <3> QED BY <2>1, <3>1, OutdatedBars DEF Barred, AtRest, NoFlight, None
    <2>2. CASE q # p BY <1>o, <1>s, <1>u, <2>2
    <2> QED BY <2>1, <2>2
  <1>f. ASSUME NEW k \in Kinds, k # "restore", flight' = [flight EXCEPT ![p] = Landed(p, k)],
               q \in left
        PROVE  Barred(q)'
    <2>1. flight'[q]["restore"] = flight[q]["restore"] BY <1>f, <1>s, LandedType, NamedKinds
    <2> QED BY <1>f, <1>u, <2>1
  <1>1. CASE Open(p)
    <2>1. q # p /\ q \in left BY <1>1 DEF Open
    <2> QED BY <1>1, <1>s, <1>u, <2>1 DEF Open
  <1>2. CASE EndRestore(p)
    <2>1. q \in left BY <1>2 DEF EndRestore
    <2>2. flight' = [flight EXCEPT ![p] = Landed(p, "restore")] BY <1>2 DEF EndRestore
    <2>3. flight'[p]["restore"] = NoFlight BY <1>s, <2>2, LandedType, NamedKinds
    <2>4. q # p => flight'[q] = flight[q] BY <1>s, <2>2
    <2> QED BY <1>u, <2>1, <2>3, <2>4 DEF Barred, AtRest, NoFlight, None
  <1>3. CASE Login(p) \/ Logout(p)
    <2>1. flight'[q]["restore"] = flight[q]["restore"]
      BY <1>3, <1>s, NamedKinds DEF Login, Logout
    <2> QED BY <1>3, <1>u, <2>1 DEF Login, Logout
  <1>4. CASE EndLogin(p)
    <2>1. q \in left BY <1>4 DEF EndLogin
    <2> QED BY <1>4, <1>o, <2>1, NamedKinds DEF EndLogin
  <1>5. CASE Leave(p)
    <2>1. q # p => q \in left BY <1>5 DEF Leave
    <2> QED BY <1>5, <1>o, <2>1, NamedKinds DEF Leave
  <1>6. CASE EndPassword(p)
    <2>1. q \in left BY <1>6 DEF EndPassword
    <2> QED BY <1>6, <1>o, <2>1, NamedKinds DEF EndPassword
  <1>7. CASE EndEverywhere(p)
    <2>1. q # p => q \in left BY <1>7 DEF EndEverywhere
    <2> QED BY <1>7, <1>o, <2>1, NamedKinds DEF EndEverywhere
  <1>8. ASSUME NEW c \in Calls, Begin(p, c) \/ Replay(p, c) \/ CallEnds(p, c)
        PROVE  Barred(q)'
    BY <1>8, <1>u DEF Begin, Replay, CallEnds
  <1>9. ASSUME NEW c \in Calls, CallExpired(p, c) PROVE Barred(q)'
    <2>1. flight' = flight \/ flight' = [flight EXCEPT ![p][c] = Sent(None)]
      BY <1>9 DEF CallExpired
    <2>2. flight'[q]["restore"] = flight[q]["restore"] BY <1>s, <2>1, NamedKinds
    <2> QED BY <1>9, <1>u, <2>2 DEF CallExpired
  <1>10. ASSUME NEW c \in Calls, EndRefresh(p, c) PROVE Barred(q)'
    <2>1. q \in left /\ c \in Kinds /\ c # "restore" BY <1>10, NamedKinds DEF EndRefresh
    <2> QED BY <1>10, <1>f, <1>o, <2>1 DEF EndRefresh
  <1> QED BY <1>1, <1>2, <1>3, <1>4, <1>5, <1>6, <1>7, <1>8, <1>9, <1>10 DEF PageStep

LEMMA WorldKeepsOut ==
    ASSUME BrowserTypeOK, LeftBars, NEW p \in Pages, ApiStep(p) \/ NetworkStep(p),
           NEW q \in Pages, q \in left'
    PROVE  Barred(q)'
  <1>z. None \in 0..MaxTokens BY BrowserSessionAssumption DEF None
  <1>i. \A t \in Issued : t \in 0..MaxTokens BY BrowserSessionAssumption DEF Issued
  <1>n. NoFlight.phase = "none" BY DEF NoFlight
  <1>1. ASSUME NEW k \in Kinds,
               k = "restore" => /\ flight[p][k] # NoFlight
                                /\ flight'[p][k].outdated = flight[p][k].outdated,
               \A r \in Pages, j \in Kinds : ~(r = p /\ j = k) => flight'[r][j] = flight[r][j],
               UNCHANGED left
        PROVE  Barred(q)'
    BY <1>1, NamedKinds DEF LeftBars, Barred, AtRest
  <1>2. ASSUME NEW k \in Kinds, k = "restore" => flight[p][k].phase = "sent", UNCHANGED left,
               NEW answer \in {"tokens", "done", "refused"}, NEW t \in 0..MaxTokens,
               Served(p, k, answer, t)
        PROVE  Barred(q)'
    BY <1>1, <1>2, <1>n, ServedFlight
  <1>3. CASE ServeLogin(p)
    BY <1>2, <1>3, <1>i, NamedKinds DEF ServeLogin
  <1>4. CASE ServeLogout(p)
    BY <1>2, <1>4, <1>z, NamedKinds DEF ServeLogout
  <1>5. ASSUME NEW k \in Refreshers, ServeRefresh(p, k) PROVE Barred(q)'
    <2>1. \E answer \in {"tokens", "refused"}, t \in 0..MaxTokens : Served(p, k, answer, t)
      BY <1>5, <1>i, <1>z DEF ServeRefresh
    <2> QED BY <1>2, <1>5, <2>1, NamedKinds DEF ServeRefresh
  <1>6. ASSUME NEW c \in Calls, CallServed(p, c) PROVE Barred(q)'
    <2>1. PICK k \in AccountKinds : ServeAccount(p, k, call[p][c].bearer)
      BY <1>6 DEF CallServed
    <2>2. \E answer \in {"tokens", "done"}, t \in 0..MaxTokens : Served(p, k, answer, t)
      BY <1>i, <1>z, <2>1 DEF ServeAccount
    <2> QED BY <1>2, <1>6, <2>2, NamedKinds DEF CallServed
  <1>7. ASSUME NEW k \in Kinds, Arrive(p, k) PROVE Barred(q)'
    <2>1. flight[p][k] # NoFlight /\ UNCHANGED left BY <1>7, <1>n DEF Arrive
    <2> QED BY <1>1, <1>7, <2>1, ArrivedFlight
  <1>8. ASSUME NEW k \in Kinds, Fail(p, k) PROVE Barred(q)'
    <2>1. flight[p][k] # NoFlight /\ UNCHANGED left BY <1>8, <1>n DEF Fail
    <2> QED BY <1>1, <1>8, <2>1, FailedFlight, NamedKinds
  <1> QED BY <1>3, <1>4, <1>5, <1>6, <1>7, <1>8 DEF ApiStep, NetworkStep

LEMMA BrowserKeepsOut ==
    BrowserTypeOK /\ LeftBars /\ BrowserTypeOK' /\ [BrowserNext]_browserVars => LeftBars'
  <1> SUFFICES ASSUME BrowserTypeOK, LeftBars, BrowserTypeOK', [BrowserNext]_browserVars,
                      NEW q \in left'
               PROVE  Barred(q)'
    BY DEF LeftBars, Barred
  <1>1. q \in Pages BY DEF BrowserTypeOK
  <1>2. CASE UNCHANGED <<flight, left>>
    BY <1>2 DEF LeftBars, Barred, AtRest
  <1>3. CASE \E p \in Pages : PageStep(p) \/ ApiStep(p) \/ NetworkStep(p)
    BY <1>1, <1>3, PageKeepsOut, WorldKeepsOut
  <1> QED BY <1>2, <1>3 DEF BrowserNext, browserVars, Expire

-----------------------------------------------------------------------------
(* What a step of a page does to its own flights, and to what it holds.     *)
Same(p, k) ==
    /\ flight'[p][k].phase = flight[p][k].phase /\ flight'[p][k].sent = flight[p][k].sent
    /\ flight'[p][k].answer = flight[p][k].answer /\ flight'[p][k].token = flight[p][k].token
    /\ flight'[p][k] = NoFlight <=> flight[p][k] = NoFlight

Gone(p, k) == flight'[p][k] = NoFlight /\ Arrived(p, k)

Begun(p, k) ==
    /\ flight[p][k] = NoFlight /\ flight'[p][k].phase = "sent"
    /\ flight'[p][k].sent \in {cookie, None} /\ flight'[p][k].answer = "none"
    /\ flight'[p][k].token = None
    /\ k \in Refreshers => /\ \A j \in Refreshers : flight[p][j] = NoFlight
                           /\ \A j \in Refreshers \ {k} : flight'[p][j] = NoFlight

Moves(p) == \A k \in Kinds : Same(p, k) \/ Gone(p, k) \/ Begun(p, k)

Grows(p) ==
    \A t \in Held(p)' :
        \/ t \in Held(p) \cup {None}
        \/ \E k \in Kinds : Gone(p, k) /\ Obtained(p, k) /\ t = flight[p][k].token

OnlyMoves(p) ==
    /\ \A q \in Pages \ {p} : /\ Held(q)' = Held(q)
                              /\ \A k \in Kinds : flight'[q][k] = flight[q][k]
    /\ Moves(p) /\ Grows(p)
    /\ Begun(p, "restore") => Held(p)' = {None}
    /\ UNCHANGED <<cookie, refreshRow, familyOf, dead, spender, alarms>>

LEMMA Blanks == /\ NoFlight.phase = "none" /\ NoFlight.sent = None
                /\ NoFlight.answer = "none" /\ NoFlight.token = None
                /\ NoCall.bearer = None /\ EmptyStore.access = None /\ EmptyStore.refreshed = None
                /\ NoCall.at = "none"
  BY DEF NoFlight, NoCall, EmptyStore

LEMMA NotBegun ==
    ASSUME NEW p, NEW k, Same(p, k) \/ Gone(p, k)
    PROVE  ~Begun(p, k)
  BY Blanks DEF Same, Gone, Begun

LEMMA UnmovedMoves ==
    ASSUME NEW p, UNCHANGED flight
    PROVE  Moves(p) /\ \A k \in Kinds : ~Begun(p, k)
  <1>1. \A k \in Kinds : Same(p, k) BY DEF Same
  <1> QED BY <1>1, NotBegun DEF Moves

LEMMA LandedMoves ==
    ASSUME BrowserTypeOK, NEW p \in Pages, NEW k \in Kinds, Arrived(p, k),
           flight' = [flight EXCEPT ![p] = Landed(p, k)]
    PROVE  Moves(p) /\ Gone(p, k) /\ \A j \in Kinds : ~Begun(p, j)
  <1>1. flight'[p] = Landed(p, k) BY DEF BrowserTypeOK
  <1>2. \A j \in Kinds : flight'[p][j] = IF j = k THEN NoFlight ELSE flight[p][j]
    BY <1>1, LandedType
  <1>3. \A j \in Kinds : Same(p, j) \/ Gone(p, j) BY <1>2 DEF Same, Gone
  <1>4. Gone(p, k) BY <1>2 DEF Gone
  <1> QED BY <1>3, <1>4, NotBegun DEF Moves

LEMMA OutdatedMoves ==
    ASSUME BrowserTypeOK, NEW p \in Pages, NEW k \in Kinds, Arrived(p, k) \/ AtRest(p, k),
           flight' = [flight EXCEPT ![p] = Outdated(Landed(p, k))]
    PROVE  Moves(p) /\ (Arrived(p, k) => Gone(p, k)) /\ \A j \in Kinds : ~Begun(p, j)
  <1> DEFINE g == Landed(p, k)
  <1>1. g \in [Kinds -> Flights] /\ \A j \in Kinds : g[j] = IF j = k THEN NoFlight ELSE flight[p][j]
    BY LandedType
  <1>2. \A j \in Kinds : flight'[p][j] = IF j = "restore" /\ g[j] # NoFlight
                                        THEN [g[j] EXCEPT !.outdated = TRUE] ELSE g[j]
    <2>1. flight'[p] = Outdated(g) BY DEF BrowserTypeOK
    <2> HIDE DEF g
    <2> QED BY <1>1, <2>1, OutdatedType
  <1> HIDE DEF g
  <1>3. ASSUME NEW j \in Kinds PROVE Same(p, j) \/ Gone(p, j)
    <2>1. CASE j = k
      <3>1. flight'[p][j] = NoFlight BY <1>1, <1>2, <2>1
      <3> QED BY <2>1, <3>1 DEF Same, Gone, AtRest
    <2>2. CASE j # k /\ j = "restore" /\ flight[p][j] # NoFlight
      <3>1. flight[p][j] \in Flights BY PageTypes
      <3>2. flight'[p][j] = [flight[p][j] EXCEPT !.outdated = TRUE] BY <1>1, <1>2, <2>2
      <3>3. /\ flight'[p][j].phase = flight[p][j].phase /\ flight'[p][j].sent = flight[p][j].sent
            /\ flight'[p][j].answer = flight[p][j].answer
            /\ flight'[p][j].token = flight[p][j].token /\ flight'[p][j].outdated = TRUE
        BY <3>1, <3>2 DEF Flights
      <3>4. flight'[p][j] # NoFlight BY <3>3 DEF NoFlight
      <3> QED BY <2>2, <3>3, <3>4 DEF Same
    <2>3. CASE j # k /\ ~(j = "restore" /\ flight[p][j] # NoFlight)
      BY <1>1, <1>2, <2>3 DEF Same
    <2> QED BY <2>1, <2>2, <2>3
  <1>4. Arrived(p, k) => Gone(p, k) BY <1>1, <1>2, Blanks DEF Gone
  <1> QED BY <1>3, <1>4, NotBegun DEF Moves

LEMMA BegunMoves ==
    ASSUME BrowserTypeOK, NEW p \in Pages, NEW k \in Kinds, NEW x \in Flights,
           flight[p][k] = NoFlight, x.phase = "sent", x.sent \in {cookie, None},
           x.answer = "none", x.token = None,
           k \in Refreshers => \A j \in Refreshers : flight[p][j] = NoFlight,
           flight' = [flight EXCEPT ![p][k] = x]
    PROVE  Moves(p) /\ Begun(p, k) /\ (Begun(p, "restore") => k = "restore")
  <1>1. \A j \in Kinds : flight'[p][j] = IF j = k THEN x ELSE flight[p][j]
    BY FlownOne
  <1>2. Refreshers \subseteq Kinds BY NamedKinds
  <1>3. Begun(p, k) BY <1>1, <1>2 DEF Begun
  <1>4. \A j \in Kinds \ {k} : Same(p, j) /\ ~Begun(p, j)
    BY <1>1, Blanks DEF Same, Begun
  <1>5. "restore" \in Kinds BY NamedKinds
  <1> QED BY <1>3, <1>4, <1>5 DEF Moves

LEMMA HeldBy ==
    ASSUME NEW p, NEW q, store'[q] = store[q], call'[q] = call[q]
    PROVE  Held(q)' = Held(q)
  BY DEF Held

(* A page that keeps its calls, and one access or refreshed token.          *)
LEMMA HeldOne ==
    ASSUME BrowserTypeOK, NEW p \in Pages, NEW x,
           \/ store' = [store EXCEPT ![p].access = x]
           \/ store' = [store EXCEPT ![p].refreshed = x],
           \A c \in Calls : call'[p][c].bearer \in {call[p][c].bearer, None}
    PROVE  /\ \A t \in Held(p)' : t \in Held(p) \cup {x, None}
           /\ \A q \in Pages \ {p} : store'[q] = store[q]
  <1>1. /\ store'[p].access \in {store[p].access, x}
        /\ store'[p].refreshed \in {store[p].refreshed, x}
        /\ \A q \in Pages \ {p} : store'[q] = store[q]
    BY DEF BrowserTypeOK, Stores
  <1> QED BY <1>1 DEF Held

LEMMA PageOnlyMoves ==
    ASSUME BrowserTypeOK, OneRefresh, TokensTold, NEW p \in Pages, PageStep(p)
    PROVE  OnlyMoves(p)
  <1>k. "restore" \in Kinds /\ "login" \in Kinds /\ "logout" \in Kinds BY NamedKinds
  <1>r. /\ Calls \subseteq Kinds /\ Refreshers \subseteq Kinds
        /\ \A c \in Calls : c # "restore"
        /\ "login" \notin Refreshers /\ "logout" \notin Refreshers
    BY NamedKinds
  <1>s. /\ store \in [Pages -> Stores] /\ flight \in [Pages -> [Kinds -> Flights]]
        /\ call \in [Pages -> [Calls -> ApiCalls]]
    BY DEF BrowserTypeOK
  <1>n. /\ Sent(None) \in Flights /\ Sent(None).phase = "sent" /\ Sent(None).sent = cookie
        /\ Sent(None).answer = "none" /\ Sent(None).token = None
    BY Blank, SentType, BrowserSessionAssumption DEF None
  <1> DEFINE Quiet == UNCHANGED <<cookie, refreshRow, familyOf, dead, spender, alarms>>
             Apart == \A q \in Pages \ {p} :
                          Held(q)' = Held(q) /\ \A k \in Kinds : flight'[q][k] = flight[q][k]
             Kept == Held(p)' = Held(p)
  <1>a. Quiet /\ Apart /\ Moves(p) /\ Grows(p) /\ (Begun(p, "restore") => Held(p)' = {None})
        => OnlyMoves(p)
    BY DEF OnlyMoves
  <1>g. (\A t \in Held(p)' : t \in Held(p) \cup {None}) => Grows(p)
    BY DEF Grows
  <1> HIDE DEF Apart
  <1>1. CASE Open(p)
    <2>1. /\ store' = [store EXCEPT ![p] = EmptyStore]
          /\ call' = [call EXCEPT ![p] = [c \in Calls |-> NoCall]]
          /\ flight' = [flight EXCEPT ![p]["restore"] = Sent(None)]
          /\ \A k \in Kinds : flight[p][k] = NoFlight
      BY <1>1 DEF Open, AtRest
    <2>2. Moves(p) BY <1>k, <1>n, <1>r, <2>1, BegunMoves
    <2>3. Apart BY <1>s, <2>1, HeldBy DEF Apart
    <2>4. Held(p)' = {None}
      <3>1. /\ store'[p].access = None /\ store'[p].refreshed = None
            /\ \A c \in Calls : call'[p][c].bearer = None
        BY <1>s, <2>1, Blanks
      <3> QED BY <3>1 DEF Held
    <2>5. Grows(p)
      <3>1. \A t \in Held(p)' : t \in Held(p) \cup {None} BY <2>4
      <3> QED BY <1>g, <3>1
    <2> QED BY <1>1, <1>a, <2>2, <2>3, <2>4, <2>5 DEF Open
  <1>2. CASE EndRestore(p)
    <2>1. Arrived(p, "restore") /\ flight' = [flight EXCEPT ![p] = Landed(p, "restore")]
      BY <1>2 DEF EndRestore
    <2>2. Moves(p) /\ Gone(p, "restore") /\ ~Begun(p, "restore")
      BY <1>k, <2>1, LandedMoves
    <2>3. Apart
      <3>1. \A q \in Pages \ {p} : store'[q] = store[q] /\ call'[q] = call[q]
        BY <1>2, <1>s DEF EndRestore
      <3> QED BY <1>s, <2>1, <3>1, HeldBy DEF Apart
    <2>4. Grows(p)
      <3> DEFINE x == flight[p]["restore"].token
      <3>1. CASE store' = store
        <4>1. Held(p)' = Held(p) BY <1>2, <3>1, HeldBy DEF EndRestore
        <4> QED BY <4>1 DEF Grows
      <3>2. CASE store' = [store EXCEPT ![p].access = x]
        <4>1. \A t \in Held(p)' : t \in Held(p) \cup {x, None}
          BY <1>2, <3>2, HeldOne DEF EndRestore
        <4>2. x # None => Obtained(p, "restore") BY <1>k DEF TokensTold
        <4> QED BY <1>k, <2>2, <4>1, <4>2 DEF Grows
      <3> QED BY <1>2, <3>1, <3>2 DEF EndRestore
    <2> QED BY <1>2, <1>a, <2>2, <2>3, <2>4 DEF EndRestore
  <1>3. CASE Login(p)
    <2> DEFINE x == [NoFlight EXCEPT !.phase = "sent"]
    <2>1. /\ x \in Flights /\ x.phase = "sent" /\ x.sent = None /\ x.answer = "none"
          /\ x.token = None
      BY Blank DEF NoFlight, Flights
    <2>2. flight' = [flight EXCEPT ![p]["login"] = x] /\ flight[p]["login"] = NoFlight
      BY <1>3 DEF Login, AtRest
    <2> HIDE DEF x
    <2>3. Moves(p) /\ ~Begun(p, "restore") BY <1>k, <1>r, <2>1, <2>2, BegunMoves
    <2>4. \A q \in Pages : Held(q)' = Held(q) BY <1>3, HeldBy DEF Login
    <2>5. Apart BY <1>s, <2>2, <2>4 DEF Apart
    <2>6. Grows(p) BY <2>4 DEF Grows
    <2> QED BY <1>3, <1>a, <2>3, <2>5, <2>6 DEF Login
  <1>4. ASSUME NEW k \in {"login", "password"}, Arrived(p, k), Quiet,
               store' = [store EXCEPT ![p].access = flight[p][k].token], UNCHANGED call,
               flight' = [flight EXCEPT ![p] = Outdated(Landed(p, k))]
        PROVE  OnlyMoves(p)
    <2> DEFINE x == flight[p][k].token
    <2>1. k \in Kinds BY NamedKinds
    <2>2. Moves(p) /\ Gone(p, k) /\ ~Begun(p, "restore")
      BY <1>4, <1>k, <2>1, OutdatedMoves
    <2>3. /\ \A t \in Held(p)' : t \in Held(p) \cup {x, None}
          /\ \A q \in Pages \ {p} : store'[q] = store[q]
      BY <1>4, HeldOne
    <2>4. Apart BY <1>4, <1>s, <2>3, HeldBy DEF Apart
    <2>5. x # None => Obtained(p, k) BY <2>1 DEF TokensTold
    <2>6. Grows(p) BY <2>1, <2>2, <2>3, <2>5 DEF Grows
    <2> QED BY <1>4, <1>a, <2>2, <2>4, <2>6
  <1>5. CASE Logout(p)
    <2> DEFINE x == Sent(store[p].access)
    <2>1. /\ x \in Flights /\ x.phase = "sent" /\ x.sent = cookie /\ x.answer = "none"
          /\ x.token = None
      BY <1>s, SentType DEF Stores
    <2>2. flight' = [flight EXCEPT ![p]["logout"] = x] /\ flight[p]["logout"] = NoFlight
      BY <1>5 DEF Logout, AtRest
    <2> HIDE DEF x
    <2>3. Moves(p) /\ ~Begun(p, "restore") BY <1>k, <1>r, <2>1, <2>2, BegunMoves
    <2>4. \A q \in Pages : Held(q)' = Held(q) BY <1>5, HeldBy DEF Logout
    <2>5. Apart BY <1>s, <2>2, <2>4 DEF Apart
    <2>6. Grows(p) BY <2>4 DEF Grows
    <2> QED BY <1>5, <1>a, <2>3, <2>5, <2>6 DEF Logout
  <1>6. ASSUME NEW k \in {"logout", "everywhere"}, Arrived(p, k) \/ AtRest(p, k), Quiet,
               store' = [store EXCEPT ![p].access = None], UNCHANGED call,
               flight' = [flight EXCEPT ![p] = Outdated(Landed(p, k))]
        PROVE  OnlyMoves(p)
    <2>1. k \in Kinds BY NamedKinds
    <2>2. Moves(p) /\ ~Begun(p, "restore") BY <1>6, <1>k, <2>1, OutdatedMoves
    <2>3. /\ \A t \in Held(p)' : t \in Held(p) \cup {None}
          /\ \A q \in Pages \ {p} : store'[q] = store[q]
      BY <1>6, HeldOne
    <2>4. Apart BY <1>6, <1>s, <2>3, HeldBy DEF Apart
    <2> QED BY <1>6, <1>a, <1>g, <2>2, <2>3, <2>4
  <1>7. ASSUME NEW c \in Calls, Begin(p, c) \/ Replay(p, c) PROVE OnlyMoves(p)
    <2>1. /\ store' = [store EXCEPT ![p] = Current(store[p])] /\ UNCHANGED flight
          /\ \E at \in {"sent", "replayed"} :
                call' = [call EXCEPT ![p][c] =
                            [at |-> at, bearer |-> Bearer(Current(store[p]))]]
      BY <1>7, <1>s DEF Begin, Replay
    <2>2. /\ Current(store[p]).access = store[p].access
          /\ Current(store[p]).refreshed \in {store[p].refreshed, None}
      BY <1>s, CurrentType, Blank DEF Current, Stores, None
    <2>3. Bearer(Current(store[p])) \in {store[p].access, store[p].refreshed, None}
      BY <2>2 DEF Bearer
    <2>4. /\ store'[p] = Current(store[p]) /\ \A q \in Pages \ {p} : store'[q] = store[q]
          /\ \A q \in Pages \ {p} : call'[q] = call[q]
          /\ \A d \in Calls : call'[p][d] = call[p][d]
                \/ call'[p][d].bearer \in {store[p].access, store[p].refreshed, None}
      BY <1>s, <2>1, <2>3
    <2>5. \A t \in Held(p)' : t \in Held(p) \cup {None} BY <2>2, <2>4 DEF Held
    <2>6. Apart BY <1>s, <2>1, <2>4, HeldBy DEF Apart
    <2> QED BY <1>7, <1>a, <1>g, <1>k, <2>1, <2>5, <2>6, UnmovedMoves DEF Begin, Replay
  <1>8. ASSUME NEW c \in Calls, CallExpired(p, c) \/ CallEnds(p, c) PROVE OnlyMoves(p)
    <2>1. UNCHANGED store /\ \E x \in {NoCall, [NoCall EXCEPT !.at = "waiting"]} :
                              call' = [call EXCEPT ![p][c] = x]
      BY <1>8 DEF CallExpired, CallEnds
    <2>2. [NoCall EXCEPT !.at = "waiting"].bearer = None BY DEF NoCall
    <2>3. /\ \A q \in Pages \ {p} : call'[q] = call[q]
          /\ \A d \in Calls : call'[p][d] = call[p][d] \/ call'[p][d].bearer = None
      <3>1. PICK x : x.bearer = None /\ call' = [call EXCEPT ![p][c] = x]
        BY <2>1, <2>2, Blanks
      <3>2. \A d \in Calls : call'[p][d] = IF d = c THEN x ELSE call[p][d]
        BY <1>s, <3>1
      <3> QED BY <1>s, <3>1, <3>2
    <2>4. \A t \in Held(p)' : t \in Held(p) \cup {None} BY <2>1, <2>3 DEF Held
    <2>5. CASE flight' = flight
      <3>1. Apart BY <2>1, <2>3, <2>5, HeldBy DEF Apart
      <3> QED BY <1>8, <1>a, <1>g, <1>k, <2>4, <2>5, <3>1, UnmovedMoves
            DEF CallExpired, CallEnds
    <2>6. CASE /\ CallExpired(p, c) /\ ~Refreshing(p)
               /\ flight' = [flight EXCEPT ![p][c] = Sent(None)]
      <3>1. call[p][c].bearer \in Held(p) BY DEF Held
      <3>2. AtRest(p, "restore") BY <2>6, <3>1 DEF OneRefresh, CallExpired
      <3>3. \A j \in Refreshers : flight[p][j] = NoFlight
        BY <2>6, <3>2 DEF Refreshing, Refreshers, AtRest
      <3>4. c \in Kinds /\ c \in Refreshers /\ c # "restore" BY <1>r DEF Refreshers
      <3>5. Moves(p) /\ ~Begun(p, "restore") BY <1>n, <2>6, <3>3, <3>4, BegunMoves
      <3>6. Apart BY <1>s, <2>1, <2>3, <2>6, HeldBy DEF Apart
      <3> QED BY <1>a, <1>g, <2>4, <2>6, <3>5, <3>6 DEF CallExpired
    <2> QED BY <1>8, <2>5, <2>6 DEF CallExpired, CallEnds
  <1>9. ASSUME NEW c \in Calls, EndRefresh(p, c) PROVE OnlyMoves(p)
    <2>1. c \in Kinds /\ Arrived(p, c) BY <1>9, <1>r DEF EndRefresh
    <2> DEFINE x == IF Obtained(p, c) THEN flight[p][c].token ELSE None
    <2>2. /\ \A d \in Calls : call'[p][d].bearer \in {call[p][d].bearer, None}
          /\ \A q \in Pages \ {p} : call'[q] = call[q]
      <3>1. \E how \in {NoCall, [NoCall EXCEPT !.at = "refreshed"]} :
               call' = [call EXCEPT ![p] = Resumed(p, how)]
        BY <1>9 DEF EndRefresh
      <3>2. \A how \in {NoCall, [NoCall EXCEPT !.at = "refreshed"]} : how.bearer = None
        BY DEF NoCall
      <3>3. PICK how : how.bearer = None /\ call' = [call EXCEPT ![p] = Resumed(p, how)]
        BY <3>1, <3>2
      <3>4. call'[p] = Resumed(p, how) /\ \A q \in Pages \ {p} : call'[q] = call[q]
        BY <1>s, <3>3
      <3> QED BY <3>3, <3>4 DEF Resumed
    <2>3. \/ store' = [store EXCEPT ![p].access = x]
          \/ store' = [store EXCEPT ![p].refreshed = x]
      BY <1>9 DEF EndRefresh
    <2> HIDE DEF x
    <2>4. /\ \A t \in Held(p)' : t \in Held(p) \cup {x, None}
          /\ \A q \in Pages \ {p} : store'[q] = store[q]
      BY <2>2, <2>3, HeldOne
    <2>5. /\ Moves(p) /\ Gone(p, c) /\ ~Begun(p, "restore")
          /\ \A q \in Pages \ {p} : flight'[q] = flight[q]
      BY <1>9, <1>k, <1>s, <2>1, LandedMoves, OutdatedMoves DEF EndRefresh
    <2>6. Apart BY <2>2, <2>4, <2>5, HeldBy DEF Apart
    <2>7. Grows(p) BY <2>1, <2>4, <2>5 DEF Grows, x
    <2> QED BY <1>9, <1>a, <2>5, <2>6, <2>7 DEF EndRefresh
  <1>10. CASE EndLogin(p) \/ EndPassword(p) BY <1>4, <1>10 DEF EndLogin, EndPassword
  <1>11. CASE Leave(p) \/ EndEverywhere(p)
    BY <1>6, <1>11 DEF Leave, EndEverywhere
  <1> QED BY <1>1, <1>2, <1>3, <1>5, <1>7, <1>8, <1>9, <1>10, <1>11 DEF PageStep

(* The same, seen from every page.                                          *)
AllMove ==
    /\ \A q \in Pages : /\ Moves(q) /\ Grows(q)
                        /\ Begun(q, "restore") => Held(q)' = {None}
    /\ UNCHANGED <<cookie, refreshRow, familyOf, dead, spender, alarms>>

LEMMA OneMoves ==
    ASSUME NEW p \in Pages, OnlyMoves(p)
    PROVE  AllMove
  <1>1. ASSUME NEW q \in Pages \ {p} PROVE Moves(q) /\ Grows(q) /\ ~Begun(q, "restore")
    <2>1. \A k \in Kinds : flight'[q][k] = flight[q][k] BY DEF OnlyMoves
    <2>2. \A k \in Kinds : Same(q, k) BY <2>1 DEF Same
    <2>3. Held(q)' = Held(q) BY DEF OnlyMoves
    <2>4. "restore" \in Kinds BY NamedKinds
    <2> QED BY <2>2, <2>3, <2>4, NotBegun DEF Moves, Grows
  <1> QED BY <1>1 DEF OnlyMoves, AllMove

SpendInv ==
    /\ OneRefresh /\ UnissuedUnknown /\ PostedOnce /\ TokensTold
    /\ SpentUnsent /\ AlarmsStand /\ NoFalseReuse

LEMMA ZeroIsNone == None \notin Issued /\ \A t \in Issued : t # None
  BY BrowserSessionAssumption DEF None, Issued

LEMMA KindsIn == Refreshers \subseteq Kinds /\ "restore" \in Refreshers /\ Calls \subseteq Refreshers
  BY DEF Refreshers, Kinds

LEMMA OtherKinds ==
    /\ "restore" \notin AccountKinds /\ \A k \in Refreshers : k \notin AccountKinds
    /\ \A k \in Refreshers : k \notin Forms
  BY NamedKinds

LEMMA PageKeepsOneRefresh ==
    ASSUME SpendInv, AllMove
    PROVE  OneRefresh'
  <1> SUFFICES ASSUME NEW p \in Pages
               PROVE  /\ \A j, k \in Refreshers : ~AtRest(p, j)' /\ ~AtRest(p, k)' => j = k
                      /\ ~AtRest(p, "restore")' => \A t \in Held(p)' : ~TooOld(t)'
    BY DEF OneRefresh
  <1>0. \A k \in Kinds : Same(p, k) \/ Gone(p, k) \/ Begun(p, k) BY DEF AllMove, Moves
  <1>1. ASSUME NEW j \in Refreshers, NEW k \in Refreshers,
               flight'[p][j] # NoFlight, flight'[p][k] # NoFlight
        PROVE  j = k
    <2>1. CASE Begun(p, j) \/ Begun(p, k) BY <1>1, <2>1 DEF Begun
    <2>2. CASE Same(p, j) /\ Same(p, k)
      BY <1>1, <2>2 DEF Same, SpendInv, OneRefresh, AtRest
    <2> QED BY <1>0, <1>1, <2>1, <2>2, KindsIn DEF Gone
  <1>2. ASSUME flight'[p]["restore"] # NoFlight, NEW t \in Held(p)' PROVE ~TooOld(t)'
    <2>0. "restore" \in Kinds BY KindsIn
    <2>1. CASE t = None BY <2>1, ZeroIsNone DEF TooOld
    <2>2. CASE Begun(p, "restore")
      <3>1. t = None BY <1>2, <2>2 DEF AllMove
      <3> QED BY <2>1, <3>1
    <2>3. CASE Same(p, "restore") /\ t # None
      <3>1. flight[p]["restore"] # NoFlight BY <1>2, <2>3 DEF Same
      <3>2. t \in Held(p) => ~TooOld(t) BY <3>1 DEF SpendInv, OneRefresh, AtRest
      <3>3. t \in Held(p) \/ \E k \in Kinds : Obtained(p, k) /\ t = flight[p][k].token
        BY <1>2, <2>3 DEF AllMove, Grows
      <3>4. ~TooOld(t) BY <3>2, <3>3 DEF SpendInv, PostedOnce, TooOld
      <3> QED BY <3>4 DEF TooOld, AllMove
    <2> QED BY <1>0, <1>2, <2>0, <2>1, <2>2, <2>3 DEF Gone
  <1> QED BY <1>1, <1>2 DEF AtRest, NoFlight, None

LEMMA PageKeepsUnissued ==
    ASSUME SpendInv, AllMove
    PROVE  UnissuedUnknown'
  <1> SUFFICES ASSUME NEW t \in Issued, refreshRow[t] = "none", NEW p \in Pages
               PROVE  /\ t \notin Held(p)'
                      /\ \A k \in Kinds : flight'[p][k].sent # t /\ flight'[p][k].token # t
    BY DEF UnissuedUnknown, SpendInv, AllMove
  <1>0. \A k \in Kinds : Same(p, k) \/ Gone(p, k) \/ Begun(p, k) BY DEF AllMove, Moves
  <1>1. /\ cookie # t /\ t # None /\ t \notin Held(p)
        /\ \A k \in Kinds : flight[p][k].sent # t /\ flight[p][k].token # t
    BY ZeroIsNone DEF SpendInv, UnissuedUnknown
  <1>2. t \notin Held(p)' BY <1>1 DEF AllMove, Grows
  <1>3. ASSUME NEW k \in Kinds PROVE flight'[p][k].sent # t /\ flight'[p][k].token # t
    BY <1>0, <1>1, Blanks DEF Same, Gone, Begun
  <1> QED BY <1>2, <1>3

LEMMA PageKeepsPosted ==
    ASSUME SpendInv, AllMove
    PROVE  PostedOnce' /\ TokensTold'
  <1>0. \A q \in Pages, k \in Kinds : Same(q, k) \/ Gone(q, k) \/ Begun(q, k)
    BY DEF AllMove, Moves
  <1>1. ASSUME NEW q \in Pages, NEW k \in Kinds, flight'[q][k].answer = "tokens"
        PROVE  /\ Same(q, k) /\ Obtained(q, k) /\ flight'[q][k].token = flight[q][k].token
               /\ flight'[q][k].phase = flight[q][k].phase
    BY <1>0, <1>1, Blanks DEF Same, Gone, Begun, Obtained
  <1>2. TokensTold'
    <2> SUFFICES ASSUME NEW q \in Pages, NEW k \in Kinds, flight'[q][k].token # None
                 PROVE  flight'[q][k].answer = "tokens"
      BY DEF TokensTold, Obtained, None
    <2> QED BY <1>0, Blanks DEF SpendInv, TokensTold, Obtained, Same, Gone, Begun
  <1>3. ASSUME NEW p \in Pages, NEW k \in Kinds, flight'[p][k].answer = "tokens",
               NEW t, t = flight'[p][k].token
        PROVE  /\ t \in Issued /\ refreshRow'[t] # "none" /\ dead'[t] # "expired"
               /\ \A q \in Pages : t \notin Held(q)'
               /\ \A q \in Pages, j \in Kinds :
                   flight'[q][j].answer = "tokens" /\ flight'[q][j].token = t => q = p /\ j = k
               /\ flight'[p][k].phase = "served" =>
                   /\ cookie' # t /\ spender'[t] = "nobody"
                   /\ \A q \in Pages, j \in Kinds : flight'[q][j].sent # t
    <2>1. Obtained(p, k) /\ t = flight[p][k].token /\ Same(p, k) BY <1>1, <1>3
    <2>2. /\ t \in Issued /\ refreshRow[t] # "none" /\ dead[t] # "expired"
          /\ \A q \in Pages : t \notin Held(q)
          /\ \A q \in Pages, j \in Kinds :
              Obtained(q, j) /\ flight[q][j].token = t => q = p /\ j = k
          /\ flight[p][k].phase = "served" =>
              /\ cookie # t /\ spender[t] = "nobody"
              /\ \A q \in Pages, j \in Kinds : flight[q][j].sent # t
      BY <2>1 DEF SpendInv, PostedOnce
    <2>3. t # None BY <2>2, ZeroIsNone
    <2>4. ASSUME NEW q \in Pages PROVE t \notin Held(q)'
      <3> SUFFICES ASSUME t \in Held(q)' PROVE FALSE OBVIOUS
      <3>1. PICK j \in Kinds : Gone(q, j) /\ Obtained(q, j) /\ t = flight[q][j].token
        BY <2>2, <2>3 DEF AllMove, Grows
      <3>2. q = p /\ j = k BY <2>2, <3>1
      <3>3. flight'[p][k].answer = "none" BY <3>1, <3>2, Blanks DEF Gone
      <3> QED BY <1>3, <3>3
    <2>5. flight'[p][k].phase = "served" => \A q \in Pages, j \in Kinds : flight'[q][j].sent # t
      BY <1>0, <1>1, <1>3, <2>2, <2>3, Blanks DEF Same, Gone, Begun
    <2> QED BY <1>1, <1>3, <2>2, <2>4, <2>5 DEF AllMove
  <1>4. PostedOnce' BY <1>3 DEF PostedOnce, Obtained
  <1> QED BY <1>2, <1>4

LEMMA PageKeepsSpent ==
    ASSUME SpendInv, AllMove
    PROVE  SpentUnsent' /\ AlarmsStand' /\ NoFalseReuse'
  <1>0. \A q \in Pages, k \in Kinds : Same(q, k) \/ Gone(q, k) \/ Begun(q, k)
    BY DEF AllMove, Moves
  <1>1. AlarmsStand' /\ NoFalseReuse' BY DEF AllMove, SpendInv, AlarmsStand, NoFalseReuse
  <1>2. ASSUME NEW t \in Issued, NEW p \in Pages, spender[t] = p
        PROVE  /\ refreshRow[t] \notin {"none", "live"}
               /\ \A k \in Refreshers : flight'[p][k].phase = "sent" => flight'[p][k].sent # t
               /\ cookie = t => \E k \in Refreshers :
                     /\ flight'[p][k].phase = "served" /\ flight'[p][k].answer = "tokens"
                     /\ flight'[p][k].sent = t
    <2>1. /\ refreshRow[t] \notin {"none", "live"} /\ t # None
          /\ \A k \in Refreshers : flight[p][k].phase = "sent" => flight[p][k].sent # t
          /\ cookie = t => \E k \in Refreshers :
                /\ flight[p][k].phase = "served" /\ Obtained(p, k) /\ flight[p][k].sent = t
      BY <1>2, ZeroIsNone DEF SpendInv, SpentUnsent
    <2>2. ASSUME NEW k \in Refreshers, flight'[p][k].phase = "sent" PROVE flight'[p][k].sent # t
      <3>1. CASE Same(p, k) BY <2>1, <2>2, <3>1 DEF Same
      <3>2. CASE Begun(p, k)
        <4>1. cookie # t BY <2>1, <3>2, Blanks DEF Begun
        <4> QED BY <2>1, <3>2, <4>1 DEF Begun
      <3> QED BY <1>0, <2>2, <3>1, <3>2, KindsIn, Blanks DEF Gone
    <2>3. ASSUME NEW k \in Refreshers, flight[p][k].phase = "served"
          PROVE  Same(p, k)
      BY <1>0, <2>3, KindsIn, Blanks DEF Gone, Begun, Arrived
    <2> QED BY <2>1, <2>2, <2>3 DEF Same, Obtained
  <1>3. SpentUnsent' BY <1>2 DEF SpentUnsent, Obtained, AllMove
  <1> QED BY <1>1, <1>3

LEMMA PageKeepsSpend ==
    ASSUME BrowserTypeOK, SpendInv, NEW p \in Pages, PageStep(p)
    PROVE  SpendInv'
  <1>1. AllMove BY PageOnlyMoves, OneMoves DEF SpendInv
  <1> QED BY <1>1, PageKeepsOneRefresh, PageKeepsUnissued, PageKeepsPosted, PageKeepsSpent
        DEF SpendInv

-----------------------------------------------------------------------------
(* What the API does when it answers: t is the token it issues, or None.    *)
(* A call about the account is on its way as a flight from its answer on.   *)
Answers(p, k, answer, t) ==
    LET f == flight[p][k] IN
    /\ f.phase = "sent" \/ (k \in AccountKinds /\ f = NoFlight)
    /\ flight'[p][k].phase = "served" /\ flight'[p][k].sent = f.sent
    /\ flight'[p][k].answer = answer /\ flight'[p][k].token = t
    /\ \A q \in Pages, j \in Kinds : ~(q = p /\ j = k) => flight'[q][j] = flight[q][j]
    /\ \A q \in Pages : Held(q)' \subseteq Held(q) \cup {None}
    /\ cookie' = cookie
    /\ IF t = None THEN answer # "tokens"
       ELSE /\ answer = "tokens" /\ t \in Issued
            /\ refreshRow[t] = "none" /\ refreshRow'[t] = "live"
    /\ \A u \in Issued \ {t} : /\ refreshRow'[u] = "none" => refreshRow[u] = "none"
                               /\ refreshRow'[u] = "live" => refreshRow[u] = "live"
    /\ \A u \in Issued : dead'[u] = "expired" <=> dead[u] = "expired"
    /\ \/ spender' = spender
       \/ /\ k \in Refreshers /\ answer = "tokens" /\ f.sent \in Issued
          /\ refreshRow[f.sent] = "live" /\ refreshRow'[f.sent] = "rotated"
          /\ \A u \in Issued : spender'[u] = IF u = f.sent THEN p ELSE spender[u]
    /\ \/ alarms' = alarms
       \/ /\ k \in Refreshers /\ f.sent \in Issued /\ refreshRow[f.sent] # "live"
          /\ spender' = spender /\ answer # "tokens"
          /\ alarms' = alarms \cup {[token |-> f.sent, page |-> p]}

LEMMA AnswerRows ==
    ASSUME NEW p, NEW k, NEW answer, NEW t, Answers(p, k, answer, t), NEW u \in Issued
    PROVE  /\ refreshRow'[u] = "none" => u # t /\ refreshRow[u] = "none"
           /\ refreshRow[u] # "none" => u # t /\ refreshRow'[u] # "none"
           /\ refreshRow[u] \notin {"none", "live"} => refreshRow'[u] \notin {"none", "live"}
           /\ dead'[u] = "expired" <=> dead[u] = "expired"
  <1>1. u = t => refreshRow[u] = "none" /\ refreshRow'[u] = "live"
    BY ZeroIsNone DEF Answers
  <1>2. ASSUME u # t
        PROVE  /\ refreshRow'[u] = "none" => refreshRow[u] = "none"
               /\ refreshRow'[u] = "live" => refreshRow[u] = "live"
    <2>1. \A v \in Issued \ {t} : /\ refreshRow'[v] = "none" => refreshRow[v] = "none"
                                  /\ refreshRow'[v] = "live" => refreshRow[v] = "live"
      BY DEF Answers
    <2>2. u \in Issued \ {t} BY <1>2
    <2> QED BY <2>1, <2>2
  <1>3. dead'[u] = "expired" <=> dead[u] = "expired" BY DEF Answers
  <1> QED BY <1>1, <1>2, <1>3

LEMMA AnswerKeepsOneRefresh ==
    ASSUME SpendInv, NEW p \in Pages, NEW k \in Kinds, NEW answer, NEW t, Answers(p, k, answer, t)
    PROVE  OneRefresh'
  <1>1. \A q \in Pages, j \in Refreshers :
            flight'[q][j] = NoFlight <=> flight[q][j] = NoFlight
    BY Blanks, KindsIn, OtherKinds DEF Answers
  <1>2. \A u : TooOld(u)' => TooOld(u) BY DEF Answers, TooOld
  <1> SUFFICES ASSUME NEW q \in Pages
               PROVE  /\ \A i, j \in Refreshers : ~AtRest(q, i)' /\ ~AtRest(q, j)' => i = j
                      /\ ~AtRest(q, "restore")' => \A u \in Held(q)' : ~TooOld(u)'
    BY DEF OneRefresh
  <1>3. /\ \A i, j \in Refreshers : ~AtRest(q, i) /\ ~AtRest(q, j) => i = j
        /\ ~AtRest(q, "restore") => \A u \in Held(q) : ~TooOld(u)
    BY DEF SpendInv, OneRefresh
  <1>4. \A j \in Refreshers : AtRest(q, j)' <=> AtRest(q, j)
    BY <1>1 DEF AtRest, NoFlight, None
  <1>5. ~TooOld(None) BY ZeroIsNone DEF TooOld
  <1>6. \A u \in Held(q)' : u \in Held(q) \/ u = None BY DEF Answers
  <1> QED BY <1>2, <1>3, <1>4, <1>5, <1>6, KindsIn

LEMMA AnswerKeepsUnissued ==
    ASSUME SpendInv, NEW p \in Pages, NEW k \in Kinds, NEW answer, NEW t, Answers(p, k, answer, t)
    PROVE  UnissuedUnknown'
  <1> SUFFICES ASSUME NEW u \in Issued, refreshRow'[u] = "none"
               PROVE  /\ cookie' # u /\ spender'[u] = "nobody" /\ dead'[u] # "expired"
                      /\ \A q \in Pages :
                          /\ u \notin Held(q)'
                          /\ \A j \in Kinds : flight'[q][j].sent # u /\ flight'[q][j].token # u
    BY DEF UnissuedUnknown
  <1>1. u # t /\ refreshRow[u] = "none" /\ (dead'[u] = "expired" <=> dead[u] = "expired")
    BY AnswerRows
  <1>3. /\ cookie # u /\ spender[u] = "nobody" /\ dead[u] # "expired"
        /\ \A q \in Pages :
            /\ u \notin Held(q)
            /\ \A j \in Kinds : flight[q][j].sent # u /\ flight[q][j].token # u
    BY <1>1 DEF SpendInv, UnissuedUnknown
  <1>4. spender'[u] = "nobody" BY <1>3 DEF Answers
  <1>5. ASSUME NEW q \in Pages, NEW j \in Kinds
        PROVE  flight'[q][j].sent # u /\ flight'[q][j].token # u
    BY <1>1, <1>3 DEF Answers
  <1>6. u # None /\ cookie' = cookie /\ \A q \in Pages : Held(q)' \subseteq Held(q) \cup {None}
    BY ZeroIsNone DEF Answers
  <1> QED BY <1>1, <1>3, <1>4, <1>5, <1>6

LEMMA AnswerKeepsPosted ==
    ASSUME SpendInv, NEW p \in Pages, NEW k \in Kinds, NEW answer, NEW t, Answers(p, k, answer, t)
    PROVE  PostedOnce' /\ TokensTold'
  <1>1. TokensTold'
    <2> SUFFICES ASSUME NEW q \in Pages, NEW j \in Kinds, flight'[q][j].token # None
                 PROVE  flight'[q][j].answer = "tokens"
      BY DEF TokensTold, Obtained, None
    <2> QED BY DEF SpendInv, TokensTold, Obtained, Answers
  <1> DEFINE Posted(q, j, u) ==
               /\ u \in Issued /\ refreshRow'[u] # "none" /\ dead'[u] # "expired"
               /\ \A r \in Pages : u \notin Held(r)'
               /\ \A r \in Pages, i \in Kinds :
                   flight'[r][i].answer = "tokens" /\ flight'[r][i].token = u => r = q /\ i = j
               /\ flight'[q][j].phase = "served" =>
                   /\ cookie' # u /\ spender'[u] = "nobody"
                   /\ \A r \in Pages, i \in Kinds : flight'[r][i].sent # u
  <1>2. ASSUME answer = "tokens" PROVE Posted(p, k, t)
    <2>1. t \in Issued /\ refreshRow[t] = "none" /\ refreshRow'[t] = "live"
      BY <1>2 DEF Answers
    <2>2. /\ cookie # t /\ spender[t] = "nobody" /\ dead[t] # "expired"
          /\ \A q \in Pages :
              /\ t \notin Held(q)
              /\ \A j \in Kinds : flight[q][j].sent # t /\ flight[q][j].token # t
      BY <2>1 DEF SpendInv, UnissuedUnknown
    <2>3. spender'[t] = "nobody" BY <2>1, <2>2 DEF Answers
    <2>4. \A r \in Pages, i \in Kinds : flight'[r][i].sent # t BY <2>2 DEF Answers
    <2>5. \A r \in Pages, i \in Kinds : flight'[r][i].token = t => r = p /\ i = k
      BY <2>2 DEF Answers
    <2>6. t # None /\ cookie' = cookie /\ \A q \in Pages : Held(q)' \subseteq Held(q) \cup {None}
      BY <2>1, ZeroIsNone DEF Answers
    <2>7. dead'[t] # "expired" BY <2>1, <2>2 DEF Answers
    <2> QED BY <2>1, <2>2, <2>3, <2>4, <2>5, <2>6, <2>7
  <1>3. ASSUME NEW q \in Pages, NEW j \in Kinds, flight'[q][j].answer = "tokens",
               ~(q = p /\ j = k), NEW u, u = flight'[q][j].token
        PROVE  Posted(q, j, u)
    <2>1. flight'[q][j] = flight[q][j] /\ Obtained(q, j) BY <1>3 DEF Answers, Obtained
    <2>2. /\ u \in Issued /\ refreshRow[u] # "none" /\ dead[u] # "expired"
          /\ \A r \in Pages : u \notin Held(r)
          /\ \A r \in Pages, i \in Kinds :
              Obtained(r, i) /\ flight[r][i].token = u => r = q /\ i = j
          /\ flight[q][j].phase = "served" =>
              /\ cookie # u /\ spender[u] = "nobody"
              /\ \A r \in Pages, i \in Kinds : flight[r][i].sent # u
      BY <1>3, <2>1 DEF SpendInv, PostedOnce
    <2>3. u # t BY <2>2, AnswerRows
    <2>4. refreshRow'[u] # "none" /\ dead'[u] # "expired" BY <2>2, AnswerRows
    <2>5. ASSUME NEW r \in Pages, NEW i \in Kinds,
                 flight'[r][i].answer = "tokens", flight'[r][i].token = u
          PROVE  r = q /\ i = j
      BY <2>2, <2>3, <2>5 DEF Answers, Obtained
    <2>6. ASSUME flight'[q][j].phase = "served"
          PROVE  /\ cookie' # u /\ spender'[u] = "nobody"
                 /\ \A r \in Pages, i \in Kinds : flight'[r][i].sent # u
      BY <2>1, <2>2, <2>6 DEF Answers
    <2>7. u # None /\ \A r \in Pages : Held(r)' \subseteq Held(r) \cup {None}
      BY <2>2, ZeroIsNone DEF Answers
    <2> QED BY <2>2, <2>4, <2>5, <2>6, <2>7
  <1>4. ASSUME NEW q \in Pages, NEW j \in Kinds, flight'[q][j].answer = "tokens"
        PROVE  Posted(q, j, flight'[q][j].token)
    BY <1>2, <1>3, <1>4 DEF Answers
  <1>5. PostedOnce' BY <1>4 DEF PostedOnce, Obtained
  <1> QED BY <1>1, <1>5

LEMMA AnswerKeepsSpent ==
    ASSUME BrowserTypeOK, SpendInv, NEW p \in Pages, NEW k \in Kinds, NEW answer, NEW t,
           Answers(p, k, answer, t)
    PROVE  SpentUnsent' /\ AlarmsStand' /\ NoFalseReuse'
  <1> DEFINE s == flight[p][k].sent
  <1>1. \A u \in Issued : refreshRow[u] \notin {"none", "live"} => refreshRow'[u] \notin {"none", "live"}
    BY AnswerRows
  <1>2. s \in Issued => refreshRow[s] # "none" BY DEF SpendInv, UnissuedUnknown
  <1>3. \A a \in alarms : a.token \in Issued BY DEF BrowserTypeOK
  <1>4. AlarmsStand'
    <2>1. \A a \in alarms : refreshRow'[a.token] \notin {"none", "live"}
      BY <1>1, <1>3 DEF SpendInv, AlarmsStand
    <2>2. s \in Issued /\ refreshRow[s] # "live" => refreshRow'[s] \notin {"none", "live"}
      BY <1>1, <1>2
    <2> QED BY <2>1, <2>2 DEF AlarmsStand, Answers
  <1>5. NoFalseReuse'
    <2>1. \A a \in alarms : spender'[a.token] # a.page
      BY <1>3 DEF SpendInv, NoFalseReuse, AlarmsStand, Answers
    <2>2. k \in Refreshers /\ s \in Issued => spender[s] # p
      BY OtherKinds DEF SpendInv, SpentUnsent, Answers
    <2> QED BY <2>1, <2>2 DEF NoFalseReuse, Answers
  <1>6. ASSUME NEW u \in Issued, NEW q \in Pages, spender'[u] = q
        PROVE  /\ refreshRow'[u] \notin {"none", "live"}
               /\ \A j \in Refreshers : flight'[q][j].phase = "sent" => flight'[q][j].sent # u
               /\ cookie' = u => \E j \in Refreshers :
                     /\ flight'[q][j].phase = "served" /\ flight'[q][j].answer = "tokens"
                     /\ flight'[q][j].sent = u
    <2>1. CASE spender[u] = q
      <3>1. /\ refreshRow[u] \notin {"none", "live"}
            /\ \A j \in Refreshers : flight[q][j].phase = "sent" => flight[q][j].sent # u
            /\ cookie = u => \E j \in Refreshers :
                  /\ flight[q][j].phase = "served" /\ Obtained(q, j) /\ flight[q][j].sent = u
        BY <2>1 DEF SpendInv, SpentUnsent
      <3>2. \A j \in Refreshers : flight[q][j].phase = "served" => flight'[q][j] = flight[q][j]
        BY KindsIn, OtherKinds DEF Answers
      <3>3. \A j \in Refreshers : flight'[q][j].phase = "sent" => flight'[q][j] = flight[q][j]
        BY KindsIn DEF Answers
      <3> QED BY <1>1, <3>1, <3>2, <3>3 DEF Obtained, Answers
    <2>2. CASE spender[u] # q
      <3>1. /\ u = s /\ q = p /\ k \in Refreshers /\ answer = "tokens"
            /\ refreshRow'[u] = "rotated"
        BY <1>6, <2>2 DEF Answers
      <3>2. ASSUME NEW j \in Refreshers, flight'[p][j].phase = "sent" PROVE FALSE
        <4>1. j # k /\ flight[p][j].phase = "sent" /\ flight[p][k].phase = "sent"
          BY <3>1, <3>2, KindsIn, OtherKinds DEF Answers
        <4> QED BY <3>1, <4>1, Blanks DEF SpendInv, OneRefresh, AtRest
      <3> QED BY <3>1, <3>2 DEF Answers
    <2> QED BY <2>1, <2>2
  <1>7. SpentUnsent' BY <1>6 DEF SpentUnsent, Obtained
  <1> QED BY <1>4, <1>5, <1>7

LEMMA AnswerKeepsSpend ==
    ASSUME BrowserTypeOK, SpendInv, NEW p \in Pages, NEW k \in Kinds, NEW answer, NEW t,
           Answers(p, k, answer, t)
    PROVE  SpendInv'
  <1>1. OneRefresh' BY AnswerKeepsOneRefresh
  <1>2. UnissuedUnknown' BY AnswerKeepsUnissued
  <1>3. PostedOnce' /\ TokensTold' BY AnswerKeepsPosted
  <1>4. SpentUnsent' /\ AlarmsStand' /\ NoFalseReuse' BY AnswerKeepsSpent
  <1> QED BY <1>1, <1>2, <1>3, <1>4 DEF SpendInv

LEMMA ApiKeepsSpend ==
    ASSUME BrowserTypeOK, SpendInv, NEW p \in Pages, ApiStep(p)
    PROVE  SpendInv'
  <1>z. None \in 0..MaxTokens BY BrowserSessionAssumption DEF None
  <1>i. \A t \in Issued : t \in 0..MaxTokens BY BrowserSessionAssumption DEF Issued
  <1>s. /\ refreshRow \in [Issued -> {"none", "live", "rotated", "ended"}]
        /\ dead \in [Issued -> {"no", "revoked", "expired"}]
        /\ spender \in [Issued -> Pages \cup {"nobody", "lost"}]
    BY DEF BrowserTypeOK
  <1> DEFINE Shown(k, answer, t) ==
                 LET f == flight[p][k] IN
                 /\ f.phase = "sent" \/ (k \in AccountKinds /\ f = NoFlight)
                 /\ flight'[p][k].phase = "served" /\ flight'[p][k].sent = f.sent
                 /\ flight'[p][k].answer = answer /\ flight'[p][k].token = t
                 /\ \A q \in Pages, j \in Kinds :
                       ~(q = p /\ j = k) => flight'[q][j] = flight[q][j]
                 /\ \A q \in Pages : Held(q)' \subseteq Held(q) \cup {None}
                 /\ cookie' = cookie
  <1>h. ASSUME NEW k \in Kinds, NEW answer \in {"tokens", "done", "refused"},
               NEW t \in 0..MaxTokens, flight[p][k].phase = "sent",
               Served(p, k, answer, t), UNCHANGED <<cookie, store, call>>
        PROVE  Shown(k, answer, t)
    <2>1. \A q \in Pages : Held(q)' = Held(q) BY <1>h, HeldBy
    <2> QED BY <1>h, <2>1, ServedFlight
  <1>e. \A u \in Issued : /\ AllEnded[u] = "none" => refreshRow[u] = "none"
                          /\ AllEnded[u] # "live"
                          /\ AllRevoked[u] = "expired" <=> dead[u] = "expired"
    BY <1>s DEF AllEnded, AllRevoked
  <1> HIDE DEF Shown
  <1>1. CASE ServeLogin(p)
    <2>0. flight[p]["login"].phase = "sent" /\ UNCHANGED <<cookie, dead, store, call, spender, alarms>>
      BY <1>1 DEF ServeLogin
    <2>1. PICK t \in Issued :
              Fresh(t) /\ Issue(t, t, refreshRow) /\ Served(p, "login", "tokens", t)
      BY <1>1 DEF ServeLogin
    <2>2. Shown("login", "tokens", t) BY <1>h, <1>i, <2>0, <2>1, NamedKinds
    <2>3. /\ refreshRow[t] = "none" /\ refreshRow'[t] = "live"
          /\ \A u \in Issued \ {t} : refreshRow'[u] = refreshRow[u]
      BY <1>s, <2>1 DEF Issue, Fresh
    <2>4. Answers(p, "login", "tokens", t) BY <2>0, <2>2, <2>3, ZeroIsNone DEF Answers, Shown
    <2> QED BY <2>4, NamedKinds, AnswerKeepsSpend
  <1>2. CASE ServeLogout(p)
    <2> DEFINE f == flight[p]["logout"]
    <2>0. f.phase = "sent" /\ UNCHANGED <<cookie, store, call, spender, alarms>>
      BY <1>2 DEF ServeLogout
    <2>1. Served(p, "logout", "done", None) BY <1>2 DEF ServeLogout
    <2>2. Shown("logout", "done", None) BY <1>h, <1>z, <2>0, <2>1, NamedKinds
    <2>3. ASSUME NEW u \in Issued
          PROVE  /\ refreshRow'[u] = "none" => refreshRow[u] = "none"
                 /\ refreshRow'[u] = "live" => refreshRow[u] = "live"
                 /\ dead'[u] = "expired" <=> dead[u] = "expired"
      BY <1>2, <1>s DEF ServeLogout
    <2>4. Answers(p, "logout", "done", None)
      BY <2>0, <2>2, <2>3 DEF Answers, Shown
    <2> QED BY <2>4, NamedKinds, AnswerKeepsSpend
  <1>3. ASSUME NEW k \in Refreshers, ServeRefresh(p, k) PROVE SpendInv'
    <2> DEFINE f == flight[p][k]
    <2>k. k \in Kinds BY KindsIn
    <2>0. /\ f.phase = "sent" /\ UNCHANGED <<cookie, store, call>>
          /\ f.sent \in 0..MaxTokens
      BY <1>3, <2>k, PageTypes DEF ServeRefresh
    <2> DEFINE row == [refreshRow EXCEPT ![f.sent] = "rotated"]
    <2>2. CASE /\ f.sent # None /\ refreshRow[f.sent] = "live"
               /\ \E t \in Issued : /\ Fresh(t) /\ Issue(t, familyOf[f.sent], row)
                                    /\ Served(p, k, "tokens", t)
               /\ spender' = [spender EXCEPT ![f.sent] = p]
               /\ UNCHANGED <<dead, alarms>>
      <3>1. PICK t \in Issued : /\ Fresh(t) /\ Issue(t, familyOf[f.sent], row)
                                /\ Served(p, k, "tokens", t)
        BY <2>2
      <3>2. f.sent \in Issued BY <2>0, <2>2 DEF Issued, None
      <3>3. refreshRow[t] = "none" /\ t # f.sent BY <2>2, <3>1 DEF Fresh
      <3>4. refreshRow'[t] = "live" /\ refreshRow'[f.sent] = "rotated"
        BY <1>s, <3>1, <3>2, <3>3 DEF Issue
      <3>5. ASSUME NEW u \in Issued \ {t}
            PROVE  /\ refreshRow'[u] = "none" => refreshRow[u] = "none"
                   /\ refreshRow'[u] = "live" => refreshRow[u] = "live"
        BY <1>s, <3>1, <3>2, <3>4 DEF Issue
      <3>6. Shown(k, "tokens", t) BY <1>h, <1>i, <2>0, <2>k, <3>1
      <3>7. \A u \in Issued : spender'[u] = IF u = f.sent THEN p ELSE spender[u]
        BY <1>s, <2>2
      <3>8. Answers(p, k, "tokens", t)
        BY <2>0, <2>2, <3>2, <3>3, <3>4, <3>5, <3>6, <3>7, ZeroIsNone DEF Answers, Shown
      <3> QED BY <2>k, <3>8, AnswerKeepsSpend
    <2>3. CASE /\ f.sent # None /\ refreshRow[f.sent] # "live"
               /\ refreshRow' = [t \in Issued |->
                      IF refreshRow[t] = "live" /\ familyOf[t] = familyOf[f.sent]
                      THEN "ended" ELSE refreshRow[t]]
               /\ dead' = AllRevoked
               /\ alarms' = alarms \cup {[token |-> f.sent, page |-> p]}
               /\ Served(p, k, "refused", None)
               /\ UNCHANGED <<familyOf, spender>>
      <3>1. f.sent \in Issued BY <2>0, <2>3 DEF Issued, None
      <3>2. \A u \in Issued : /\ refreshRow'[u] = "none" => refreshRow[u] = "none"
                              /\ refreshRow'[u] = "live" => refreshRow[u] = "live"
                              /\ dead'[u] = "expired" <=> dead[u] = "expired"
        BY <1>e, <1>s, <2>3
      <3>3. Shown(k, "refused", None) BY <1>h, <1>z, <2>0, <2>k, <2>3
      <3>4. Answers(p, k, "refused", None) BY <2>0, <2>3, <3>1, <3>2, <3>3 DEF Answers, Shown
      <3> QED BY <2>k, <3>4, AnswerKeepsSpend
    <2> QED BY <1>3, <2>2, <2>3 DEF ServeRefresh
  <1>4. ASSUME NEW c \in Calls, CallServed(p, c) PROVE SpendInv'
    <2>1. PICK k \in AccountKinds : ServeAccount(p, k, call[p][c].bearer)
      BY <1>4 DEF CallServed
    <2>k. k \in Kinds BY NamedKinds
    <2>2. /\ UNCHANGED <<cookie, store, spender, alarms>>
          /\ call' = [call EXCEPT ![p][c] = NoCall]
          /\ dead' = AllRevoked /\ flight[p][k] = NoFlight
      BY <1>4, <2>1 DEF CallServed, ServeAccount, AtRest
    <2>3. ASSUME NEW q \in Pages PROVE Held(q)' \subseteq Held(q) \cup {None}
      <3>1. \A d \in Calls : call'[q][d].bearer \in {call[q][d].bearer, None}
        BY <2>2, Blank, Blanks, CalledOne
      <3> QED BY <2>2, <3>1 DEF Held
    <2>4. ASSUME NEW answer \in {"tokens", "done"}, NEW t \in 0..MaxTokens,
                 Served(p, k, answer, t)
          PROVE  Shown(k, answer, t)
      BY <2>2, <2>3, <2>4, <2>k, ServedFlight DEF Shown
    <2>5. ASSUME NEW t \in Issued, Fresh(t), Issue(t, t, AllEnded), Served(p, k, "tokens", t)
          PROVE  SpendInv'
      <3>1. Shown(k, "tokens", t) BY <1>i, <2>4, <2>5
      <3>2. /\ refreshRow[t] = "none" /\ refreshRow'[t] = "live"
            /\ \A u \in Issued \ {t} : refreshRow'[u] = AllEnded[u]
        BY <2>5, EndedTypes DEF Issue, Fresh
      <3>3. Answers(p, k, "tokens", t)
        BY <1>e, <2>2, <3>1, <3>2, ZeroIsNone DEF Answers, Shown
      <3> QED BY <2>k, <3>3, AnswerKeepsSpend
    <2>6. CASE refreshRow' = AllEnded /\ Served(p, k, "done", None)
      <3>1. Shown(k, "done", None) BY <1>z, <2>4, <2>6
      <3>2. Answers(p, k, "done", None) BY <1>e, <2>2, <2>6, <3>1 DEF Answers, Shown
      <3> QED BY <2>k, <3>2, AnswerKeepsSpend
    <2> QED BY <2>1, <2>5, <2>6 DEF ServeAccount
  <1> QED BY <1>1, <1>2, <1>3, <1>4 DEF ApiStep

-----------------------------------------------------------------------------
(* The answer reaches the browser, or the request fails.                    *)
Travels(p, k) ==
    LET f == flight[p][k] IN
    /\ f.phase \in {"sent", "served"}
    /\ flight'[p][k].phase = "arrived" \/ (k \in Forms /\ flight'[p][k].phase = "none")
    /\ flight'[p][k].sent = None
    /\ \/ /\ f.phase = "served"
          /\ flight'[p][k].answer = f.answer /\ flight'[p][k].token = f.token
          /\ \/ f.answer = "tokens" /\ cookie' = f.token
             \/ f.answer # "tokens" /\ cookie' \in {None, cookie}
          /\ spender' = spender
       \/ /\ flight'[p][k].answer \in {"none", "refused"} /\ flight'[p][k].token = None
          /\ cookie' = cookie
          /\ \A u \in Issued : spender'[u] =
                IF u = f.sent /\ k \in Refreshers /\ Obtained(p, k) THEN "lost" ELSE spender[u]
    /\ \A q \in Pages, j \in Kinds : ~(q = p /\ j = k) => flight'[q][j] = flight[q][j]
    /\ \A q \in Pages : Held(q)' = Held(q)
    /\ UNCHANGED <<refreshRow, dead, alarms>>

LEMMA NetworkTravels ==
    ASSUME BrowserTypeOK, NEW p \in Pages, NEW k \in Kinds, Arrive(p, k) \/ Fail(p, k)
    PROVE  Travels(p, k)
  <1>1. \A q \in Pages : Held(q)' = Held(q) BY HeldBy DEF Arrive, Fail
  <1>2. CASE Arrive(p, k)
    <2>1. flight[p][k].phase = "served" /\ flight[p][k].answer \in {"tokens", "done", "refused"}
      BY <1>2 DEF Arrive, BrowserTypeOK
    <2>2. /\ flight[p][k].answer = "tokens" => cookie' = flight[p][k].token
          /\ flight[p][k].answer # "tokens" => cookie' \in {None, cookie}
      BY <1>2, <2>1 DEF Arrive
    <2>3. UNCHANGED <<refreshRow, dead, spender, alarms>> BY <1>2 DEF Arrive
    <2> QED BY <1>1, <1>2, <2>1, <2>2, <2>3, ArrivedFlight DEF Travels
  <1>3. CASE Fail(p, k)
    <2>1. spender \in [Issued -> Pages \cup {"nobody", "lost"}] BY DEF BrowserTypeOK
    <2>2. \A u \in Issued : spender'[u] =
            IF u = flight[p][k].sent /\ k \in Refreshers /\ Obtained(p, k)
            THEN "lost" ELSE spender[u]
      <3>1. CASE k \in Refreshers /\ flight[p][k].answer = "tokens"
        <4>1. spender' = [spender EXCEPT ![flight[p][k].sent] = "lost"] BY <1>3, <3>1 DEF Fail
        <4> QED BY <2>1, <3>1, <4>1 DEF Obtained
      <3>2. CASE ~(k \in Refreshers /\ flight[p][k].answer = "tokens")
        <4>1. spender' = spender BY <1>3, <3>2 DEF Fail
        <4> QED BY <3>2, <4>1 DEF Obtained
      <3> QED BY <3>1, <3>2
    <2>3. /\ flight[p][k].phase \in {"sent", "served"}
          /\ UNCHANGED <<cookie, refreshRow, dead, alarms>>
      BY <1>3 DEF Fail
    <2>4. flight'[p][k].phase = "arrived" \/ (k \in Forms /\ flight'[p][k].phase = "none")
      BY <1>3, FailedFlight
    <2>5. /\ flight'[p][k].sent = None /\ flight'[p][k].token = None
          /\ flight'[p][k].answer \in {"none", "refused"}
          /\ \A q \in Pages, j \in Kinds : ~(q = p /\ j = k) => flight'[q][j] = flight[q][j]
      BY <1>3, FailedFlight
    <2> QED BY <1>1, <2>2, <2>3, <2>4, <2>5 DEF Travels
  <1> QED BY <1>2, <1>3

LEMMA TravelKeepsOneRefresh ==
    ASSUME SpendInv, NEW p \in Pages, NEW k \in Kinds, Travels(p, k)
    PROVE  OneRefresh'
  <1>1. \A q \in Pages, j \in Refreshers :
            flight'[q][j] = NoFlight <=> flight[q][j] = NoFlight
    BY Blanks, KindsIn, OtherKinds DEF Travels
  <1> SUFFICES ASSUME NEW q \in Pages
               PROVE  /\ \A i, j \in Refreshers : ~AtRest(q, i)' /\ ~AtRest(q, j)' => i = j
                      /\ ~AtRest(q, "restore")' => \A u \in Held(q)' : ~TooOld(u)'
    BY DEF OneRefresh
  <1>2. /\ \A i, j \in Refreshers : ~AtRest(q, i) /\ ~AtRest(q, j) => i = j
        /\ ~AtRest(q, "restore") => \A u \in Held(q) : ~TooOld(u)
    BY DEF SpendInv, OneRefresh
  <1>3. \A j \in Refreshers : AtRest(q, j)' <=> AtRest(q, j)
    BY <1>1 DEF AtRest, NoFlight, None
  <1>4. \A u : TooOld(u)' => TooOld(u) BY DEF Travels, TooOld
  <1> QED BY <1>2, <1>3, <1>4, KindsIn DEF Travels

LEMMA TravelKeepsUnissued ==
    ASSUME SpendInv, NEW p \in Pages, NEW k \in Kinds, Travels(p, k)
    PROVE  UnissuedUnknown'
  <1> SUFFICES ASSUME NEW u \in Issued, refreshRow'[u] = "none"
               PROVE  /\ cookie' # u /\ spender'[u] = "nobody" /\ dead'[u] # "expired"
                      /\ \A q \in Pages :
                          /\ u \notin Held(q)'
                          /\ \A j \in Kinds : flight'[q][j].sent # u /\ flight'[q][j].token # u
    BY DEF UnissuedUnknown
  <1>1. refreshRow[u] = "none" BY DEF Travels
  <1>2. /\ cookie # u /\ spender[u] = "nobody" /\ dead[u] # "expired" /\ u # None
        /\ \A q \in Pages :
            /\ u \notin Held(q)
            /\ \A j \in Kinds : flight[q][j].sent # u /\ flight[q][j].token # u
    BY <1>1, ZeroIsNone DEF SpendInv, UnissuedUnknown
  <1>3. cookie' # u BY <1>2 DEF Travels
  <1>4. spender'[u] = "nobody" BY <1>2 DEF Travels
  <1>5. ASSUME NEW q \in Pages, NEW j \in Kinds
        PROVE  flight'[q][j].sent # u /\ flight'[q][j].token # u
    BY <1>2 DEF Travels
  <1> QED BY <1>2, <1>3, <1>4, <1>5 DEF Travels

LEMMA TravelKeepsPosted ==
    ASSUME SpendInv, NEW p \in Pages, NEW k \in Kinds, Travels(p, k)
    PROVE  PostedOnce' /\ TokensTold'
  <1>0. ASSUME NEW q \in Pages, NEW j \in Kinds, flight'[q][j].answer = "tokens"
        PROVE  Obtained(q, j) /\ flight'[q][j].token = flight[q][j].token
    BY <1>0 DEF Travels, Obtained
  <1>1. TokensTold'
    <2> SUFFICES ASSUME NEW q \in Pages, NEW j \in Kinds, flight'[q][j].token # None
                 PROVE  flight'[q][j].answer = "tokens"
      BY DEF TokensTold, Obtained, None
    <2> QED BY DEF SpendInv, TokensTold, Obtained, Travels
  <1>2. ASSUME NEW q \in Pages, NEW j \in Kinds, flight'[q][j].answer = "tokens",
               NEW u, u = flight'[q][j].token
        PROVE  /\ u \in Issued /\ refreshRow'[u] # "none" /\ dead'[u] # "expired"
               /\ \A r \in Pages : u \notin Held(r)'
               /\ \A r \in Pages, i \in Kinds :
                   flight'[r][i].answer = "tokens" /\ flight'[r][i].token = u => r = q /\ i = j
               /\ flight'[q][j].phase = "served" =>
                   /\ cookie' # u /\ spender'[u] = "nobody"
                   /\ \A r \in Pages, i \in Kinds : flight'[r][i].sent # u
    <2>1. /\ u \in Issued /\ refreshRow[u] # "none" /\ dead[u] # "expired"
          /\ \A r \in Pages : u \notin Held(r)
          /\ \A r \in Pages, i \in Kinds :
              Obtained(r, i) /\ flight[r][i].token = u => r = q /\ i = j
          /\ flight[q][j].phase = "served" =>
              /\ cookie # u /\ spender[u] = "nobody"
              /\ \A r \in Pages, i \in Kinds : flight[r][i].sent # u
      BY <1>0, <1>2 DEF SpendInv, PostedOnce
    <2>2. u # None BY <2>1, ZeroIsNone
    <2>3. ASSUME flight'[q][j].phase = "served"
          PROVE  /\ cookie' # u /\ spender'[u] = "nobody"
                 /\ \A r \in Pages, i \in Kinds : flight'[r][i].sent # u
      <3>1. ~(q = p /\ j = k) /\ flight[q][j].phase = "served" BY <2>3 DEF Travels
      <3>2. cookie' # u BY <2>1, <2>2, <3>1 DEF Travels, Obtained
      <3>3. spender'[u] = "nobody" BY <2>1, <3>1 DEF Travels
      <3>4. \A r \in Pages, i \in Kinds : flight'[r][i].sent # u
        BY <2>1, <2>2, <3>1 DEF Travels
      <3> QED BY <3>2, <3>3, <3>4
    <2> QED BY <1>0, <2>1, <2>3 DEF Travels
  <1>3. PostedOnce' BY <1>2 DEF PostedOnce, Obtained
  <1> QED BY <1>1, <1>3

LEMMA TravelKeepsSpent ==
    ASSUME BrowserTypeOK, SpendInv, NEW p \in Pages, NEW k \in Kinds, Travels(p, k)
    PROVE  SpentUnsent' /\ AlarmsStand' /\ NoFalseReuse'
  <1>0. "nobody" \notin Pages /\ "lost" \notin Pages BY BrowserSessionAssumption
  <1>1. ASSUME NEW u \in Issued, NEW q \in Pages, spender'[u] = q
        PROVE  spender[u] = q /\ ~(u = flight[p][k].sent /\ k \in Refreshers /\ Obtained(p, k)
                                  /\ flight'[p][k].answer # "tokens")
    BY <1>0, <1>1 DEF Travels, Obtained
  <1>2. AlarmsStand' BY DEF SpendInv, AlarmsStand, Travels
  <1>3. NoFalseReuse'
    <2> SUFFICES ASSUME NEW a \in alarms', spender'[a.token] = a.page PROVE FALSE
      BY DEF NoFalseReuse
    <2>1. a \in alarms /\ a.token \in Issued /\ a.page \in Pages
      BY DEF Travels, BrowserTypeOK
    <2> QED BY <1>1, <2>1 DEF SpendInv, NoFalseReuse
  <1>4. ASSUME NEW u \in Issued, NEW q \in Pages, spender'[u] = q
        PROVE  /\ refreshRow'[u] \notin {"none", "live"}
               /\ \A j \in Refreshers : flight'[q][j].phase = "sent" => flight'[q][j].sent # u
               /\ cookie' = u => \E j \in Refreshers :
                     /\ flight'[q][j].phase = "served" /\ flight'[q][j].answer = "tokens"
                     /\ flight'[q][j].sent = u
    <2>1. /\ spender[u] = q /\ refreshRow[u] \notin {"none", "live"} /\ u # None
          /\ \A j \in Refreshers : flight[q][j].phase = "sent" => flight[q][j].sent # u
          /\ cookie = u => \E j \in Refreshers :
                /\ flight[q][j].phase = "served" /\ Obtained(q, j) /\ flight[q][j].sent = u
      BY <1>1, <1>4, ZeroIsNone DEF SpendInv, SpentUnsent
    <2>2. \A j \in Refreshers : flight'[q][j].phase = "sent" => flight'[q][j].sent # u
      BY <2>1, KindsIn DEF Travels
    <2>3. ASSUME cookie' = u
          PROVE  \E j \in Refreshers :
                    /\ flight'[q][j].phase = "served" /\ flight'[q][j].answer = "tokens"
                    /\ flight'[q][j].sent = u
      <3>1. cookie = u
        <4> SUFFICES ASSUME cookie # u PROVE FALSE OBVIOUS
        <4>1. flight[p][k].phase = "served" /\ Obtained(p, k) /\ flight[p][k].token = u
          BY <2>1, <2>3 DEF Travels, Obtained
        <4>2. spender[u] = "nobody" BY <4>1 DEF SpendInv, PostedOnce
        <4> QED BY <1>0, <2>1, <4>2
      <3>2. PICK j \in Refreshers :
                /\ flight[q][j].phase = "served" /\ Obtained(q, j) /\ flight[q][j].sent = u
        BY <2>1, <3>1
      <3>3. ~(q = p /\ j = k)
        <4> SUFFICES ASSUME q = p, j = k PROVE FALSE OBVIOUS
        <4>1. flight'[p][k].answer = "tokens" BY <1>1, <1>4, <3>2
        <4>2. cookie' = flight[p][k].token BY <3>2, <4>1 DEF Travels, Obtained
        <4>3. spender[u] = "nobody" BY <2>3, <3>2, <4>2 DEF SpendInv, PostedOnce
        <4> QED BY <1>0, <2>1, <4>3
      <3>4. flight'[q][j] = flight[q][j] BY <3>3, KindsIn DEF Travels
      <3> QED BY <3>2, <3>4 DEF Obtained
    <2> QED BY <2>1, <2>2, <2>3 DEF Travels
  <1>5. SpentUnsent' BY <1>4 DEF SpentUnsent, Obtained
  <1> QED BY <1>2, <1>3, <1>5

LEMMA NetworkKeepsSpend ==
    ASSUME BrowserTypeOK, SpendInv, NEW p \in Pages, NetworkStep(p)
    PROVE  SpendInv'
  <1>1. PICK k \in Kinds : Travels(p, k) BY NetworkTravels DEF NetworkStep
  <1>2. OneRefresh' BY <1>1, TravelKeepsOneRefresh
  <1>3. UnissuedUnknown' BY <1>1, TravelKeepsUnissued
  <1>4. PostedOnce' /\ TokensTold' BY <1>1, TravelKeepsPosted
  <1>5. SpentUnsent' /\ AlarmsStand' /\ NoFalseReuse' BY <1>1, TravelKeepsSpent
  <1> QED BY <1>2, <1>3, <1>4, <1>5 DEF SpendInv

(* Time passes for a token that a page holds.                               *)
LEMMA ExpireKeepsSpend ==
    ASSUME BrowserTypeOK, SpendInv, NEW t \in Issued, Expire(t)
    PROVE  SpendInv'
  <1>1. /\ UNCHANGED <<cookie, refreshRow, store, flight, call, spender, alarms>>
        /\ \A p \in Pages : AtRest(p, "restore")
        /\ \A u \in Issued \ {t} : dead'[u] = dead[u]
    BY DEF Expire, BrowserTypeOK
  <1>2. PICK p \in Pages : t \in Held(p) BY DEF Expire, Held
  <1>3. \A q \in Pages : Held(q)' = Held(q) BY <1>1, HeldBy
  <1>4. OneRefresh' BY <1>1, <1>3 DEF SpendInv, OneRefresh, AtRest
  <1>5. UnissuedUnknown'
    <2>1. refreshRow[t] # "none" BY <1>2 DEF SpendInv, UnissuedUnknown
    <2> QED BY <1>1, <1>3, <2>1 DEF SpendInv, UnissuedUnknown
  <1>6. PostedOnce' BY <1>1, <1>2, <1>3 DEF SpendInv, PostedOnce, Obtained
  <1>7. TokensTold' /\ SpentUnsent' /\ AlarmsStand' /\ NoFalseReuse'
    BY <1>1 DEF SpendInv, TokensTold, SpentUnsent, AlarmsStand, NoFalseReuse, Obtained
  <1> QED BY <1>4, <1>5, <1>6, <1>7 DEF SpendInv

LEMMA BrowserInitSpend == BrowserInit => SpendInv
  <1> SUFFICES ASSUME BrowserInit PROVE SpendInv OBVIOUS
  <1>1. /\ \A p \in Pages, k \in Kinds : flight[p][k] = NoFlight
        /\ \A p \in Pages : Held(p) \subseteq {None}
        /\ \A t \in Issued : /\ spender[t] = "nobody" /\ dead[t] = "no"
                             /\ refreshRow[t] = "none" => t # 1
        /\ cookie = 1 /\ alarms = {}
    BY Blanks DEF BrowserInit, Held
  <1>2. OneRefresh BY <1>1, ZeroIsNone, KindsIn DEF OneRefresh, AtRest, TooOld
  <1>3. UnissuedUnknown BY <1>1, ZeroIsNone, Blanks DEF UnissuedUnknown
  <1>4. PostedOnce /\ TokensTold BY <1>1, Blanks DEF PostedOnce, TokensTold, Obtained
  <1>5. SpentUnsent BY <1>1, BrowserSessionAssumption DEF SpentUnsent
  <1>6. AlarmsStand /\ NoFalseReuse BY <1>1 DEF AlarmsStand, NoFalseReuse
  <1> QED BY <1>2, <1>3, <1>4, <1>5, <1>6 DEF SpendInv

LEMMA BrowserKeepsSpend == BrowserTypeOK /\ SpendInv /\ [BrowserNext]_browserVars => SpendInv'
  <1> SUFFICES ASSUME BrowserTypeOK, SpendInv, [BrowserNext]_browserVars PROVE SpendInv'
    OBVIOUS
  <1>1. CASE UNCHANGED browserVars
    <2>1. UNCHANGED <<cookie, refreshRow, dead, flight, spender, alarms>>
      BY <1>1 DEF browserVars
    <2>2. \A q \in Pages : Held(q)' = Held(q) BY <1>1, HeldBy DEF browserVars
    <2>3. OneRefresh' BY <2>1, <2>2 DEF SpendInv, OneRefresh, AtRest, TooOld
    <2>4. UnissuedUnknown' /\ PostedOnce'
      BY <2>1, <2>2 DEF SpendInv, UnissuedUnknown, PostedOnce, Obtained
    <2>5. TokensTold' /\ SpentUnsent' /\ AlarmsStand' /\ NoFalseReuse'
      BY <2>1 DEF SpendInv, TokensTold, SpentUnsent, AlarmsStand, NoFalseReuse, Obtained
    <2> QED BY <2>3, <2>4, <2>5 DEF SpendInv
  <1>2. CASE \E p \in Pages : PageStep(p) \/ ApiStep(p) \/ NetworkStep(p)
    BY <1>2, PageKeepsSpend, ApiKeepsSpend, NetworkKeepsSpend
  <1>3. CASE \E t \in Issued : Expire(t)
    BY <1>3, ExpireKeepsSpend
  <1> QED BY <1>1, <1>2, <1>3 DEF BrowserNext

\* A page never shows the API a refresh token that it has exchanged itself, for
\* any number of pages, calls and tokens, unless the answer was lost.
THEOREM NeverReused == BrowserSpec => []NoFalseReuse
  <1>1. SpendInv => NoFalseReuse BY DEF SpendInv
  <1> QED BY <1>1, BrowserInitType, BrowserInitSpend, BrowserStepType, BrowserKeepsSpend, PTL
        DEF BrowserSpec
-----------------------------------------------------------------------------
(* A page that was left: how it comes to show a session again.              *)
LEMMA LeftStep ==
    ASSUME BrowserTypeOK, LeftBars, TokensTold, NEW q \in left, q \in left', BrowserNext,
           store'[q].access \notin {None, store[q].access}
    PROVE  /\ Arrived(q, "password") /\ Obtained(q, "password")
           /\ store'[q].access = flight[q]["password"].token
  <1>0. q \in Pages /\ store \in [Pages -> Stores] BY DEF BrowserTypeOK
  <1>a. ASSUME NEW p \in Pages, NEW x
        PROVE  /\ [store EXCEPT ![p].access = x][q].access =
                      IF p = q THEN x ELSE store[q].access
               /\ [store EXCEPT ![p].refreshed = x][q].access = store[q].access
    BY <1>0 DEF Stores
  <1>1. store' # store OBVIOUS
  <1>2. PICK p \in Pages : PageStep(p)
    BY <1>1 DEF BrowserNext, ApiStep, NetworkStep, Expire, Arrive, Fail,
                ServeLogin, ServeRefresh, ServeLogout, CallServed
  <1>3. CASE EndPassword(p)
    <2>1. store'[q].access = IF p = q THEN flight[p]["password"].token ELSE store[q].access
      BY <1>3, <1>a DEF EndPassword
    <2>2. p = q /\ store'[q].access = flight[q]["password"].token BY <2>1
    <2>3. Obtained(q, "password") BY <1>0, <2>2, NamedKinds DEF TokensTold
    <2> QED BY <1>3, <2>2, <2>3 DEF EndPassword
  <1>4. CASE Open(p)
    BY <1>0, <1>4 DEF Open
  <1>5. CASE EndRestore(p)
    <2>1. MayPublish(p) /\ store' = [store EXCEPT ![p].access = flight[p]["restore"].token]
      BY <1>1, <1>5 DEF EndRestore
    <2>2. p = q BY <1>a, <2>1
    <2>3. ~AtRest(p, "restore") BY <1>5 DEF EndRestore, Arrived, AtRest, NoFlight
    <2> QED BY <2>1, <2>2, <2>3 DEF LeftBars, MayPublish
  <1>6. CASE Login(p) \/ Logout(p)
    BY <1>1, <1>6 DEF Login, Logout
  <1>7. CASE EndLogin(p)
    <2>1. p # q BY <1>7 DEF EndLogin
    <2> QED BY <1>7, <1>a, <2>1 DEF EndLogin
  <1>c. ASSUME store' = [store EXCEPT ![p].access = None] PROVE FALSE
    <2>1. store'[q].access = IF p = q THEN None ELSE store[q].access BY <1>a, <1>c
    <2> QED BY <2>1
  <1>8. CASE Leave(p) \/ EndEverywhere(p)
    BY <1>8, <1>c DEF Leave, EndEverywhere
  <1>9. ASSUME NEW c \in Calls,
               Begin(p, c) \/ Replay(p, c) \/ CallExpired(p, c) \/ CallEnds(p, c)
        PROVE  FALSE
    <2>1. store' = [store EXCEPT ![p] = Current(store[p])]
      BY <1>0, <1>1, <1>9 DEF Begin, Replay, CallExpired, CallEnds
    <2>2. store'[q].access = store[q].access BY <1>0, <2>1, CurrentType
    <2> QED BY <2>2
  <1>10. ASSUME NEW c \in Calls, EndRefresh(p, c) PROVE FALSE
    <2>1. CASE store' = [store EXCEPT ![p].refreshed = flight[p][c].token]
      <3>1. store'[q].access = store[q].access BY <1>a, <2>1
      <3> QED BY <3>1
    <2> QED BY <1>10, <1>c, <2>1 DEF EndRefresh
  <1> QED BY <1>2, <1>3, <1>4, <1>5, <1>6, <1>7, <1>8, <1>9, <1>10 DEF PageStep

\* A page that logged out shows no session again before a login or a new load,
\* for any number of pages, calls and tokens, except by the answer to a change
\* of the password that it had sent before.
THEOREM LeftStaysLeft == BrowserSpec => LeftStaysOut
  <1> DEFINE Step == \A p \in left \cap left' :
                 store'[p].access \notin {None, store[p].access} =>
                     /\ Arrived(p, "password") /\ Obtained(p, "password")
                     /\ store'[p].access = flight[p]["password"].token
  <1>1. BrowserInit => LeftBars BY DEF BrowserInit, LeftBars
  <1>2. BrowserTypeOK /\ LeftBars /\ SpendInv /\ [BrowserNext]_browserVars
          => [Step]_browserVars
    BY LeftStep DEF SpendInv
  <1> QED
    BY <1>1, <1>2, BrowserInitType, BrowserInitSpend, BrowserStepType, BrowserKeepsSpend,
       BrowserKeepsOut, PTL DEF BrowserSpec, LeftStaysOut
=============================================================================
