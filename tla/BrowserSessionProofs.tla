------------------------ MODULE BrowserSessionProofs ------------------------
(***************************************************************************)
(* Theorems about BrowserSession, for any number of API calls, of          *)
(* simultaneous refreshes and of tokens issued.                            *)
(***************************************************************************)
EXTENDS BrowserSession, FiniteSetTheorems, TLAPS

-----------------------------------------------------------------------------
(* The inductive invariant *)

Flight  == [pc: {"none", "sent", "granted", "refused"},
            by: {"none", "initAuth", "ensureFreshToken"}, token: Nat]
ApiCall == [pc: {"idle", "waiting", "fetching", "rewaiting", "refetching"},
            on: Flights \cup {"none"}, sent: {"none", "fresh", "stale"}]

TabTypes ==
  /\ memory \in [refresh: Nat, fresh: BOOLEAN] /\ newest \in Nat /\ storage \in Nat
  /\ refreshPromise \in Flights \cup {"none"}
  /\ flight \in [Flights -> Flight] /\ caller \in [Callers -> ApiCall]

\* The shared promise is the one refresh of ensureFreshToken that is under way.
OneLock ==
  /\ refreshPromise # "none" =>
       refreshPromise \in Airborne /\ flight[refreshPromise].by = "ensureFreshToken"
  /\ \A f \in Airborne : flight[f].by = "initAuth" \/ f = refreshPromise

\* Before the application is shown nobody calls the API, and before the page
\* resumes a session, or where there is none, no refresh is under way.
Quiet ==
  /\ page \in {"unloaded", "anon", "loading"} =>
       refreshPromise = "none" /\ \A c \in Callers : caller[c] = NoApiCall
  /\ page \in {"unloaded", "anon"} => Airborne = {}

\* Effects run once: the refresh of initAuth is over when the application is
\* shown, so never are two under way, and the tab's token is the newest unless
\* the answer that brings it is still to come.
OneAtATime ==
  ~strict =>
    /\ \A f \in Airborne : flight[f].by = "initAuth" => page = "loading"
    /\ page = "loading" => \A f, g \in Airborne : f = g
    /\ \A f \in Airborne : flight[f].pc = "granted" => flight[f].token = newest
    /\ page = "authed" /\ (\A f \in Flights : flight[f].pc # "granted") =>
         memory.refresh = newest /\ storage = newest

\* After a logout that no refresh outlived there is nothing to refresh with.
LoggedOut == ended /\ ~late => storage = 0 /\ memory.refresh = 0 /\ Airborne = {}

TabInv == TabTypes /\ OneLock /\ Quiet /\ OneAtATime /\ LoggedOut /\ FreshTokenSent

-----------------------------------------------------------------------------
(* Refreshes and calls *)

LEMMA Parts ==
  ASSUME TabTypes
  PROVE  /\ \A f \in Flights : /\ flight[f] \in Flight /\ flight[f].token \in Nat
                               /\ flight[f].pc \in {"none", "sent", "granted", "refused"}
                               /\ flight[f].by \in {"none", "initAuth", "ensureFreshToken"}
         /\ \A c \in Callers : caller[c] \in ApiCall
         /\ memory.refresh \in Nat /\ memory.fresh \in BOOLEAN
         /\ memory = [refresh |-> memory.refresh, fresh |-> memory.fresh]
         /\ "none" \notin Flights
  BY BrowserAssumption DEF TabTypes, Flight, ApiCall

LEMMA Resting ==
  /\ NoFlight \in Flight /\ NoFlight.pc = "none"
  /\ NoApiCall \in ApiCall /\ NoApiCall.pc = "idle" /\ NoApiCall.sent = "none"
  /\ NoTokens \in [refresh: Nat, fresh: BOOLEAN] /\ NoTokens.refresh = 0
  BY DEF NoFlight, Flight, NoApiCall, ApiCall, NoTokens

LEMMA SentTyped ==
  ASSUME NEW by \in {"initAuth", "ensureFreshToken"}
  PROVE  Sent(by) \in Flight /\ Sent(by).pc = "sent" /\ Sent(by).by = by
  BY DEF Sent, Flight

\* One entry of flight or of caller is replaced.
LEMMA FlightSet ==
  ASSUME TabTypes, NEW f \in Flights, NEW v \in Flight, flight' = [flight EXCEPT ![f] = v]
  PROVE  /\ flight' \in [Flights -> Flight]
         /\ \A g \in Flights : flight'[g] = IF g = f THEN v ELSE flight[g]
  BY DEF TabTypes

LEMMA CallerSet ==
  ASSUME TabTypes, NEW c \in Callers, NEW v \in ApiCall, caller' = [caller EXCEPT ![c] = v]
  PROVE  /\ caller' \in [Callers -> ApiCall]
         /\ \A d \in Callers : caller'[d] = IF d = c THEN v ELSE caller[d]
  BY DEF TabTypes

\* Those who wait go on with a fresh token or none; who does not wait stays.
LEMMA Resumed ==
  ASSUME TabInv, NEW f \in Flights, NEW granted \in BOOLEAN, resume(f, granted)
  PROVE  /\ caller' \in [Callers -> ApiCall] /\ FreshTokenSent'
         /\ \A c \in Callers : caller[c] = NoApiCall => caller'[c] = NoApiCall
<1>1. TabTypes /\ FreshTokenSent /\ "none" \notin Flights
  BY Parts DEF TabInv
<1>2. \A c \in Callers : caller[c] \in ApiCall /\ caller[c].sent # "stale"
  BY <1>1, Parts DEF FreshTokenSent
<1> DEFINE next(c) ==
      [pc |-> IF caller[c].pc = "waiting" THEN "fetching" ELSE "refetching",
       on |-> "none", sent |-> IF granted THEN "fresh" ELSE "none"]
<1>3. \A c \in Callers : next(c) \in ApiCall /\ next(c).sent # "stale"
  BY DEF ApiCall
<1>4. \A c \in Callers : caller'[c] \in {caller[c], NoApiCall, next(c)}
  BY DEF resume
<1>5. DOMAIN caller' = Callers /\ caller' = [c \in Callers |-> caller'[c]]
  BY DEF resume
<1> HIDE DEF next
<1>6. \A c \in Callers : caller'[c] \in ApiCall /\ caller'[c].sent # "stale"
  BY <1>2, <1>3, <1>4, Resting
<1>7. caller' \in [Callers -> ApiCall]
  BY <1>5, <1>6
<1>8. \A c \in Callers : caller[c] = NoApiCall => caller'[c] = NoApiCall
  BY <1>1 DEF resume, NoApiCall
<1> QED
  BY <1>6, <1>7, <1>8 DEF FreshTokenSent

-----------------------------------------------------------------------------
(* auth.ts *)

LEMMA LoginKeeps ==
  ASSUME TabInv, login
  PROVE  TabInv'
<1>1. /\ page = "anon" /\ page' = "authed" /\ newest' = newest + 1 /\ storage' = newest'
      /\ memory' = [refresh |-> newest', fresh |-> TRUE] /\ ended' = FALSE
      /\ UNCHANGED <<strict, refreshPromise, flight, caller>>
  BY DEF login, save
<1>2. Airborne = {} /\ Airborne' = {} /\ newest' \in Nat /\ memory'.refresh = newest'
  BY <1>1 DEF TabInv, Quiet, TabTypes, Airborne
<1>3. TabTypes'
  BY <1>1, <1>2 DEF TabInv, TabTypes
<1>4. OneLock' /\ Quiet'
  BY <1>1, <1>2 DEF TabInv, OneLock, Quiet
<1>5. OneAtATime'
  BY <1>1, <1>2 DEF OneAtATime
<1>6. LoggedOut' /\ FreshTokenSent'
  BY <1>1 DEF TabInv, LoggedOut, FreshTokenSent
<1> QED
  BY <1>3, <1>4, <1>5, <1>6 DEF TabInv

LEMMA InitAuthKeeps ==
  ASSUME TabInv, initAuth
  PROVE  TabInv'
<1>1. /\ TabTypes /\ page = "unloaded" /\ Airborne = {} /\ refreshPromise = "none"
      /\ \A c \in Callers : caller[c] = NoApiCall
      /\ UNCHANGED <<strict, storage, refreshPromise, caller, newest, ended, late>>
  BY DEF TabInv, Quiet, initAuth
<1>2. FreshTokenSent'
  BY <1>1 DEF TabInv, FreshTokenSent
<1>3. CASE storage = 0 /\ page' = "anon" /\ UNCHANGED <<memory, flight>>
  <2>1. Airborne' = {}
    BY <1>1, <1>3 DEF Airborne
  <2>2. TabTypes' /\ OneLock' /\ Quiet'
    BY <1>1, <1>3, <2>1 DEF TabInv, TabTypes, OneLock, Quiet
  <2>3. OneAtATime' /\ LoggedOut'
    BY <1>1, <1>3, <2>1 DEF TabInv, OneAtATime, LoggedOut
  <2> QED
    BY <1>2, <2>2, <2>3 DEF TabInv
<1>4. CASE storage # 0
  <2>1. PICK F \in SUBSET Flights :
          /\ Cardinality(F) = Effects
          /\ flight' = [f \in Flights |-> IF f \in F THEN Sent("initAuth") ELSE NoFlight]
    BY <1>4 DEF initAuth
  <2>2. page' = "loading" /\ memory' = [refresh |-> storage, fresh |-> FALSE]
    BY <1>4 DEF initAuth
  <2>3. \A f \in Flights : flight'[f] = IF f \in F THEN Sent("initAuth") ELSE NoFlight
    BY <2>1
  <2>4. Airborne' = F /\ \A f \in F : flight'[f].by = "initAuth" /\ flight'[f].pc = "sent"
    BY <2>3, SentTyped, Resting DEF Airborne
  <2>5. flight' \in [Flights -> Flight]
    BY <2>1, SentTyped, Resting
  <2>6. TabTypes'
    BY <1>1, <2>2, <2>5 DEF TabTypes
  <2>7. OneLock' /\ Quiet'
    BY <1>1, <2>2, <2>4 DEF OneLock, Quiet
  <2>8. ~strict => \A f, g \in F : f = g
    <3> SUFFICES ASSUME ~strict PROVE \A f, g \in F : f = g
      OBVIOUS
    <3>1. IsFiniteSet(F) /\ Cardinality(F) = 1
      BY <2>1, BrowserAssumption, FS_Subset DEF Effects
    <3> QED
      BY <3>1, FS_Singleton
  <2>9. OneAtATime'
    BY <1>1, <2>2, <2>4, <2>8 DEF OneAtATime
  <2>10. LoggedOut'
    BY <1>1, <1>4 DEF TabInv, LoggedOut
  <2> QED
    BY <1>2, <2>6, <2>7, <2>9, <2>10 DEF TabInv
<1> QED
  BY <1>3, <1>4 DEF initAuth

\* A call asks for a token while the application is shown or being left.
LEMMA EnsureKeeps ==
  ASSUME TabInv, NEW c \in Callers, NEW wait \in {"waiting", "rewaiting"},
         NEW go \in {"fetching", "refetching"}, ensureFreshToken(c, wait, go),
         page \notin {"unloaded", "anon", "loading"},
         UNCHANGED <<strict, page, memory, storage, newest, ended, late>>
  PROVE  TabInv'
<1>1. TabTypes /\ "none" \notin Flights /\ Quiet'
  BY Parts DEF TabInv, Quiet
<1>2. FreshTokenSent /\ OneLock
  BY DEF TabInv
<1>3. CASE /\ memory.refresh # 0 /\ refreshPromise = "none"
           /\ \E f \in Flights \ Airborne :
                /\ flight' = [flight EXCEPT ![f] = Sent("ensureFreshToken")]
                /\ refreshPromise' = f
                /\ caller' = [caller EXCEPT ![c] = [pc |-> wait, on |-> f, sent |-> "none"]]
  <2>1. PICK f \in Flights \ Airborne :
          /\ flight' = [flight EXCEPT ![f] = Sent("ensureFreshToken")]
          /\ refreshPromise' = f
          /\ caller' = [caller EXCEPT ![c] = [pc |-> wait, on |-> f, sent |-> "none"]]
    BY <1>3
  <2>2. /\ flight' \in [Flights -> Flight]
        /\ \A g \in Flights : flight'[g] = IF g = f THEN Sent("ensureFreshToken") ELSE flight[g]
    BY <1>1, <2>1, SentTyped, FlightSet
  <2>3. Airborne' = Airborne \cup {f}
    BY <2>2, SentTyped DEF Airborne
  <2> DEFINE v == [pc |-> wait, on |-> f, sent |-> "none"]
  <2>4. v \in ApiCall /\ v.sent = "none" /\ caller' = [caller EXCEPT ![c] = v]
    BY <2>1 DEF ApiCall
  <2> HIDE DEF v
  <2>5. caller' \in [Callers -> ApiCall] /\ \A d \in Callers : caller'[d] = IF d = c THEN v ELSE caller[d]
    BY <1>1, <2>4, CallerSet
  <2>6. FreshTokenSent'
    BY <1>2, <2>4, <2>5 DEF FreshTokenSent
  <2>7. TabTypes'
    BY <1>1, <2>1, <2>2, <2>5 DEF TabTypes
  <2>8. OneLock'
    <3>1. Airborne \subseteq Flights /\ f \notin Airborne
      BY DEF Airborne
    <3>2. \A g \in Airborne : flight[g].by = "initAuth"
      BY <1>1, <1>2, <1>3, <3>1 DEF OneLock
    <3> QED
      BY <1>1, <2>1, <2>2, <2>3, <3>1, <3>2, SentTyped DEF OneLock
  <2>9. OneAtATime'
    BY <2>1, <2>2, <2>3, SentTyped DEF TabInv, OneAtATime, Airborne
  <2>10. LoggedOut'
    BY <1>3 DEF TabInv, LoggedOut
  <2> QED
    BY <1>1, <2>6, <2>7, <2>8, <2>9, <2>10 DEF TabInv
<1>4. CASE /\ UNCHANGED <<flight, refreshPromise>>
           /\ \E v \in ApiCall : v.sent # "stale" /\ caller' = [caller EXCEPT ![c] = v]
  <2>1. PICK v \in ApiCall : v.sent # "stale" /\ caller' = [caller EXCEPT ![c] = v]
    BY <1>4
  <2>2. caller' \in [Callers -> ApiCall] /\ \A d \in Callers : caller'[d] = IF d = c THEN v ELSE caller[d]
    BY <1>1, <2>1, CallerSet
  <2>3. FreshTokenSent' /\ TabTypes'
    BY <1>1, <1>2, <1>4, <2>1, <2>2 DEF FreshTokenSent, TabTypes
  <2>4. OneLock' /\ OneAtATime' /\ LoggedOut'
    BY <1>4 DEF TabInv, OneLock, OneAtATime, LoggedOut, Airborne
  <2> QED
    BY <1>1, <2>3, <2>4 DEF TabInv
<1>5. ASSUME refreshPromise \in Airborne
      PROVE  [pc |-> wait, on |-> refreshPromise, sent |-> "none"] \in ApiCall
  BY <1>5 DEF ApiCall, Airborne
<1>6. refreshPromise \notin Flights \ Airborne
  BY <1>1, <1>2 DEF OneLock
<1>7. ASSUME ~(memory.refresh # 0 /\ ~memory.fresh)
      PROVE  LET v == [pc |-> go, on |-> "none",
                       sent |-> IF memory.refresh = 0 THEN "none"
                                ELSE IF memory.fresh THEN "fresh" ELSE "stale"]
             IN  v \in ApiCall /\ v.sent # "stale"
  BY <1>7 DEF ApiCall
<1> QED
  BY <1>3, <1>4, <1>5, <1>6, <1>7 DEF ensureFreshToken

\* A refresh is settled: the lock is free if it was the lock's.
LEMMA Settled ==
  ASSUME TabInv, NEW f \in Airborne, settle(f)
  PROVE  /\ f \in Flights /\ flight' \in [Flights -> Flight]
         /\ \A g \in Flights \ {f} : flight'[g] = flight[g]
         /\ Airborne' = Airborne \ {f}
         /\ refreshPromise' \in Flights \cup {"none"}
         /\ refreshPromise = "none" => refreshPromise' = "none"
         /\ OneLock'
<1>1. TabTypes /\ f \in Flights /\ OneLock /\ "none" \notin Flights /\ Airborne \subseteq Flights
  BY Parts DEF TabInv, Airborne
<1>2. /\ flight' \in [Flights -> Flight]
      /\ \A g \in Flights : flight'[g] = IF g = f THEN NoFlight ELSE flight[g]
  BY <1>1, Resting, FlightSet DEF settle
<1>3. Airborne' = Airborne \ {f}
  BY <1>2, Resting DEF Airborne
<1>4. refreshPromise' = IF flight[f].by = "ensureFreshToken" THEN "none" ELSE refreshPromise
  BY DEF settle
<1>5. refreshPromise \in Flights \cup {"none"}
  BY <1>1 DEF TabTypes
<1>6. OneLock'
  <2>1. CASE flight[f].by = "ensureFreshToken"
    BY <1>1, <1>2, <1>3, <1>4, <2>1 DEF OneLock
  <2>2. CASE flight[f].by # "ensureFreshToken"
    BY <1>1, <1>2, <1>3, <1>4, <2>2 DEF OneLock
  <2> QED
    BY <2>1, <2>2
<1> QED
  BY <1>1, <1>2, <1>3, <1>4, <1>5, <1>6

\* Where effects run once, a refresh is under way alone.
LEMMA Alone ==
  ASSUME TabInv, ~strict, NEW f \in Airborne
  PROVE  Airborne = {f}
<1>1. OneLock /\ OneAtATime /\ Quiet /\ "none" \notin Flights /\ Airborne \subseteq Flights
  BY Parts DEF TabInv, Airborne
<1>2. CASE page = "loading"
  BY <1>1, <1>2 DEF OneAtATime
<1>3. CASE page # "loading"
  BY <1>1, <1>3 DEF OneAtATime, OneLock
<1> QED
  BY <1>2, <1>3

LEMMA GrantedKeeps ==
  ASSUME TabInv, NEW f \in Flights, refreshGranted(f)
  PROVE  TabInv'
<1> DEFINE n == flight[f].token
<1>1. /\ TabTypes /\ flight[f].pc = "granted" /\ f \in Airborne /\ n \in Nat
      /\ memory' = [refresh |-> n, fresh |-> TRUE] /\ storage' = n
      /\ settle(f) /\ resume(f, TRUE) /\ UNCHANGED <<strict, newest, ended, late>>
      /\ page' = IF page = "loading" /\ flight[f].by = "initAuth" /\ Listens THEN "authed" ELSE page
  BY Parts DEF TabInv, refreshGranted, save, Airborne
<1> HIDE DEF n
<1>2. /\ flight' \in [Flights -> Flight] /\ \A g \in Flights \ {f} : flight'[g] = flight[g]
      /\ Airborne' = Airborne \ {f} /\ refreshPromise' \in Flights \cup {"none"}
      /\ refreshPromise = "none" => refreshPromise' = "none"
      /\ OneLock'
  BY <1>1, Settled
<1>3. /\ caller' \in [Callers -> ApiCall] /\ FreshTokenSent'
      /\ \A c \in Callers : caller[c] = NoApiCall => caller'[c] = NoApiCall
  BY <1>1, Resumed
<1>4. TabTypes' /\ memory'.refresh = n
  BY <1>1, <1>2, <1>3 DEF TabTypes
<1>5. Quiet'
  BY <1>1, <1>2, <1>3 DEF TabInv, Quiet
<1>6. OneAtATime'
  <2> SUFFICES ASSUME ~strict PROVE OneAtATime'
    BY <1>1 DEF OneAtATime
  <2>1. Airborne' = {} /\ n = newest
    BY <1>1, <1>2, Alone DEF TabInv, OneAtATime, n
  <2> QED
    BY <1>1, <1>4, <2>1 DEF OneAtATime
<1>7. LoggedOut'
  BY <1>1 DEF TabInv, LoggedOut
<1> QED
  BY <1>2, <1>3, <1>4, <1>5, <1>6, <1>7 DEF TabInv

LEMMA RefusedKeeps ==
  ASSUME TabInv, NEW f \in Flights, refreshRefused(f)
  PROVE  TabInv'
<1>1. /\ TabTypes /\ f \in Airborne
      /\ memory' = NoTokens /\ storage' = 0 /\ page' = "leaving" /\ late' = (Airborne \ {f} # {})
      /\ settle(f) /\ resume(f, FALSE) /\ UNCHANGED <<strict, newest>>
  BY DEF TabInv, refreshRefused, logout, Airborne
<1>2. /\ flight' \in [Flights -> Flight] /\ \A g \in Flights \ {f} : flight'[g] = flight[g]
      /\ Airborne' = Airborne \ {f} /\ refreshPromise' \in Flights \cup {"none"}
      /\ OneLock'
  BY <1>1, Settled
<1>3. caller' \in [Callers -> ApiCall] /\ FreshTokenSent'
  BY <1>1, Resumed
<1>4. TabTypes' /\ memory'.refresh = 0
  BY <1>1, <1>2, <1>3, Resting DEF TabTypes
<1>5. Quiet'
  BY <1>1 DEF Quiet
<1>6. OneAtATime'
  <2> SUFFICES ASSUME ~strict PROVE OneAtATime'
    BY <1>1 DEF OneAtATime
  <2>1. Airborne' = {}
    BY <1>1, <1>2, Alone
  <2> QED
    BY <1>1, <2>1 DEF OneAtATime
<1>7. LoggedOut'
  BY <1>1, <1>2, <1>4 DEF LoggedOut
<1> QED
  BY <1>2, <1>3, <1>4, <1>5, <1>6, <1>7 DEF TabInv

\* A logout that leaves the refreshes under way.
LEMMA LogoutKeeps ==
  ASSUME TabInv, logout(Airborne), caller' \in [Callers -> ApiCall], FreshTokenSent',
         page \notin {"unloaded", "anon", "loading"},
         UNCHANGED <<strict, refreshPromise, flight, newest>>
  PROVE  TabInv'
<1>1. /\ memory' = NoTokens /\ storage' = 0 /\ page' = "leaving" /\ late' = (Airborne # {})
      /\ Airborne' = Airborne
  BY DEF logout, Airborne
<1>2. TabTypes' /\ memory'.refresh = 0
  BY <1>1, Resting DEF TabInv, TabTypes
<1>3. OneLock' /\ Quiet'
  BY <1>1 DEF TabInv, OneLock, Quiet
<1>4. OneAtATime'
  BY <1>1 DEF TabInv, OneAtATime
<1>5. LoggedOut'
  BY <1>1, <1>2 DEF LoggedOut
<1> QED
  BY <1>2, <1>3, <1>4, <1>5 DEF TabInv

LEMMA LogoutClickedKeeps ==
  ASSUME TabInv, logoutClicked
  PROVE  TabInv'
<1>1. caller' \in [Callers -> ApiCall] /\ FreshTokenSent'
  BY DEF TabInv, TabTypes, FreshTokenSent, logoutClicked
<1> QED
  BY <1>1, LogoutKeeps DEF logoutClicked

-----------------------------------------------------------------------------
(* api.ts *)

LEMMA RequestKeeps ==
  ASSUME TabInv, NEW c \in Callers, request(c)
  PROVE  TabInv'
  BY EnsureKeeps DEF request

\* A call that is answered is over.
LEMMA CallEnds ==
  ASSUME TabInv, NEW c \in Callers, caller' = [caller EXCEPT ![c] = NoApiCall]
  PROVE  /\ caller' \in [Callers -> ApiCall] /\ FreshTokenSent'
         /\ \A d \in Callers : caller[d] = NoApiCall => caller'[d] = NoApiCall
<1>1. TabTypes /\ FreshTokenSent
  BY DEF TabInv
<1>2. caller' \in [Callers -> ApiCall] /\ \A d \in Callers : caller'[d] = IF d = c THEN NoApiCall ELSE caller[d]
  BY <1>1, Resting, CallerSet
<1> QED
  BY <1>1, <1>2, Resting DEF FreshTokenSent

LEMMA RespondedKeeps ==
  ASSUME TabInv, NEW c \in Callers, responded(c)
  PROVE  TabInv'
<1>1. /\ caller' \in [Callers -> ApiCall] /\ FreshTokenSent'
      /\ \A d \in Callers : caller[d] = NoApiCall => caller'[d] = NoApiCall
  BY CallEnds DEF responded
<1>2. UNCHANGED <<strict, page, memory, storage, refreshPromise, flight, newest, ended, late>>
  BY DEF responded
<1>3. Airborne' = Airborne
  BY <1>2 DEF Airborne
<1>4. TabTypes' /\ OneLock' /\ Quiet'
  BY <1>1, <1>2, <1>3 DEF TabInv, TabTypes, OneLock, Quiet
<1>5. OneAtATime' /\ LoggedOut'
  BY <1>2, <1>3 DEF TabInv, OneAtATime, LoggedOut
<1> QED
  BY <1>1, <1>4, <1>5 DEF TabInv

LEMMA UnauthorizedKeeps ==
  ASSUME TabInv, NEW c \in Callers, unauthorized(c)
  PROVE  TabInv'
<1>1. page \notin {"unloaded", "anon", "loading"}
  BY Resting DEF TabInv, Quiet, unauthorized
<1>2. CASE memory.refresh # 0
  BY <1>1, <1>2, EnsureKeeps DEF unauthorized
<1>3. CASE memory.refresh = 0
  <2>1. caller' \in [Callers -> ApiCall] /\ FreshTokenSent'
    BY <1>3, CallEnds DEF unauthorized
  <2> QED
    BY <1>1, <1>3, <2>1, LogoutKeeps DEF unauthorized
<1> QED
  BY <1>2, <1>3

-----------------------------------------------------------------------------
(* The provider and the browser *)

LEMMA GrantKeeps ==
  ASSUME TabInv, NEW f \in Flights, grant(f)
  PROVE  TabInv'
<1> DEFINE u == [flight EXCEPT ![f].pc = "granted"]
<1>1. /\ TabTypes /\ flight[f].pc = "sent" /\ f \in Airborne /\ newest' = newest + 1
      /\ UNCHANGED <<strict, page, memory, storage, refreshPromise, caller, ended, late>>
  BY DEF TabInv, grant, Airborne
<1>2. newest' \in Nat /\ flight \in [Flights -> Flight]
  BY <1>1 DEF TabTypes
<1>3. /\ u \in [Flights -> Flight] /\ u[f].pc = "granted" /\ u[f].by = flight[f].by
      /\ \A g \in Flights \ {f} : u[g] = flight[g]
  BY <1>2 DEF Flight
<1>4. /\ flight' \in [Flights -> Flight] /\ \A g \in Flights \ {f} : flight'[g] = flight[g]
      /\ flight'[f].pc = "granted" /\ flight'[f].by = flight[f].by /\ flight'[f].token = newest'
  <2>1. flight' = [u EXCEPT ![f].token = newest']
    BY <1>1 DEF grant
  <2> HIDE DEF u
  <2> QED
    BY <1>2, <1>3, <2>1 DEF Flight
<1>5. Airborne' = Airborne /\ \A g \in Airborne : flight'[g].by = flight[g].by
  BY <1>1, <1>4 DEF Airborne
<1>6. TabTypes' /\ FreshTokenSent'
  BY <1>1, <1>2, <1>4 DEF TabInv, TabTypes, FreshTokenSent
<1>7. OneLock' /\ Quiet' /\ LoggedOut'
  BY <1>1, <1>5 DEF TabInv, OneLock, Quiet, LoggedOut
<1>8. OneAtATime'
  <2> SUFFICES ASSUME ~strict PROVE OneAtATime'
    BY <1>1 DEF OneAtATime
  <2>1. Airborne = {f}
    BY <1>1, Alone
  <2> QED
    BY <1>1, <1>4, <1>5, <2>1 DEF TabInv, OneAtATime
<1> QED
  BY <1>6, <1>7, <1>8 DEF TabInv

LEMMA RefuseKeeps ==
  ASSUME TabInv, NEW f \in Flights, refuse(f)
  PROVE  TabInv'
<1> DEFINE v == [flight[f] EXCEPT !.pc = "refused"]
<1>1. /\ TabTypes /\ flight[f].pc = "sent" /\ f \in Airborne
      /\ UNCHANGED <<strict, page, memory, storage, refreshPromise, caller, newest, ended, late>>
  BY DEF TabInv, refuse, Airborne
<1>2. flight' = [flight EXCEPT ![f] = v]
  BY DEF refuse
<1>3. v \in Flight /\ v.pc = "refused" /\ v.by = flight[f].by
  <2>1. flight[f] \in Flight
    BY <1>1, Parts
  <2> QED
    BY <2>1 DEF Flight
<1> HIDE DEF v
<1>4. /\ flight' \in [Flights -> Flight]
      /\ \A g \in Flights : flight'[g] = IF g = f THEN v ELSE flight[g]
  BY <1>1, <1>2, <1>3, FlightSet
<1>5. Airborne' = Airborne /\ \A g \in Airborne : flight'[g].by = flight[g].by
  BY <1>1, <1>3, <1>4 DEF Airborne
<1>6. TabTypes' /\ FreshTokenSent'
  BY <1>1, <1>4 DEF TabInv, TabTypes, FreshTokenSent
<1>7. OneLock' /\ Quiet' /\ LoggedOut'
  BY <1>1, <1>5 DEF TabInv, OneLock, Quiet, LoggedOut
<1>8. OneAtATime'
  <2>1. \A g \in Flights : flight[g].pc = "granted" <=> flight'[g].pc = "granted"
    BY <1>1, <1>3, <1>4
  <2>2. \A g \in Flights : flight'[g].pc = "granted" => flight'[g] = flight[g]
    BY <1>3, <1>4
  <2>3. Airborne \subseteq Flights
    BY DEF Airborne
  <2> QED
    BY <1>1, <1>5, <2>1, <2>2, <2>3 DEF TabInv, OneAtATime
<1> QED
  BY <1>6, <1>7, <1>8 DEF TabInv

LEMMA ExpiringKeeps ==
  ASSUME TabInv, expiring
  PROVE  TabInv'
<1>1. UNCHANGED <<strict, page, storage, refreshPromise, flight, caller, newest, ended, late>>
  BY DEF expiring
<1>2. memory' \in [refresh: Nat, fresh: BOOLEAN] /\ memory'.refresh = memory.refresh /\ Airborne' = Airborne
  BY <1>1 DEF TabInv, TabTypes, expiring, Airborne
<1>3. TabTypes' /\ OneLock' /\ Quiet' /\ FreshTokenSent'
  BY <1>1, <1>2 DEF TabInv, TabTypes, OneLock, Quiet, FreshTokenSent
<1>4. OneAtATime' /\ LoggedOut'
  BY <1>1, <1>2 DEF TabInv, OneAtATime, LoggedOut
<1> QED
  BY <1>3, <1>4 DEF TabInv

\* Nothing is under way: a page that is not loaded yet.
LEMMA Unloaded ==
  ASSUME flight' = [f \in Flights |-> NoFlight], caller' = [c \in Callers |-> NoApiCall],
         page' = "unloaded", memory' = NoTokens, refreshPromise' = "none",
         storage' \in Nat, newest' \in Nat, ended' /\ ~late' => storage' = 0
  PROVE  TabInv'
<1>1. /\ flight' \in [Flights -> Flight] /\ caller' \in [Callers -> ApiCall] /\ Airborne' = {}
      /\ \A c \in Callers : caller'[c] = NoApiCall
  BY Resting DEF Airborne
<1>2. TabTypes' /\ FreshTokenSent'
  BY <1>1, Resting DEF TabTypes, FreshTokenSent
<1>3. OneLock' /\ Quiet' /\ OneAtATime' /\ LoggedOut'
  BY <1>1, Resting DEF OneLock, Quiet, OneAtATime, LoggedOut
<1> QED
  BY <1>2, <1>3 DEF TabInv

LEMMA UnloadKeeps ==
  ASSUME TabInv, unload
  PROVE  TabInv'
<1>1. storage' \in Nat /\ newest' \in Nat /\ (ended' /\ ~late' => storage' = 0)
  BY DEF TabInv, TabTypes, LoggedOut, unload
<1> QED
  BY <1>1, Unloaded DEF unload

-----------------------------------------------------------------------------
(* Theorems *)

LEMMA TabInitHasInv == TabInit => TabInv
<1> SUFFICES ASSUME TabInit PROVE TabInv
  OBVIOUS
<1>1. /\ flight \in [Flights -> Flight] /\ caller \in [Callers -> ApiCall] /\ Airborne = {}
      /\ \A c \in Callers : caller[c] = NoApiCall
  BY Resting DEF TabInit, Airborne
<1>2. TabTypes /\ FreshTokenSent
  BY <1>1, Resting DEF TabInit, TabTypes, FreshTokenSent
<1>3. OneLock /\ Quiet /\ OneAtATime /\ LoggedOut
  BY <1>1 DEF TabInit, OneLock, Quiet, OneAtATime, LoggedOut
<1> QED
  BY <1>2, <1>3 DEF TabInv

LEMMA TabNextKeepsInv == TabInv /\ [TabNext]_tabVars => TabInv'
<1> SUFFICES ASSUME TabInv, [TabNext]_tabVars PROVE TabInv'
  OBVIOUS
<1>1. CASE UNCHANGED tabVars
  <2>1. UNCHANGED <<strict, page, memory, storage, refreshPromise, flight, caller, newest, ended, late>>
    BY <1>1 DEF tabVars
  <2> QED
    BY <2>1 DEF TabInv, TabTypes, OneLock, Quiet, OneAtATime, LoggedOut, FreshTokenSent, Airborne
<1>2. CASE initAuth \/ login \/ logoutClicked \/ expiring \/ unload
  BY <1>2, InitAuthKeeps, LoginKeeps, LogoutClickedKeeps, ExpiringKeeps, UnloadKeeps
<1>3. CASE \E f \in Flights : refreshAnswers(f)
  BY <1>3, GrantKeeps, RefuseKeeps, GrantedKeeps, RefusedKeeps DEF refreshAnswers
<1>4. CASE \E c \in Callers : request(c) \/ apiAnswers(c)
  BY <1>4, RequestKeeps, RespondedKeeps, UnauthorizedKeeps DEF apiAnswers
<1> QED
  BY <1>1, <1>2, <1>3, <1>4 DEF TabNext

THEOREM TabInvariant == TabSpec => []TabInv
  BY TabInitHasInv, TabNextKeepsInv, PTL DEF TabSpec

\* Once every answer has arrived the tab holds, in memory and for a reload,
\* the newest token the provider issued to it (the shared refreshPromise).
THEOREM KeepsNewestToken == TabSpec => []NewestTokenKept
<1>1. TabInv => NewestTokenKept
  BY DEF TabInv, OneAtATime, NewestTokenKept, Airborne
<1> QED
  BY <1>1, TabInvariant, PTL

\* No call is sent with a token that ensureFreshToken knows to be expiring.
THEOREM SendsFreshToken == TabSpec => []FreshTokenSent
  BY TabInvariant, PTL DEF TabInv

\* A logout no refresh outlived is not undone until the next login.
THEOREM LogoutHolds == TabSpec => []LogoutSticks
<1>1. TabInv => LogoutSticks
  BY DEF TabInv, LoggedOut, LogoutSticks
<1> QED
  BY <1>1, TabInvariant, PTL

-----------------------------------------------------------------------------
(* Every API call comes nearer to its end *)

\* A call that waits names a refresh under way, and no other call names one.
Awaits(c) ==
  IF caller[c].pc \in {"waiting", "rewaiting"} THEN caller[c].on \in Airborne
                                              ELSE caller[c].on = "none"
EveryCallAwaits == \A c \in Callers : Awaits(c)

\* The answers a refresh, and a call, have still to see.
FlightLeft(f) == IF f \notin Airborne THEN 0 ELSE IF flight[f].pc = "sent" THEN 2 ELSE 1
CallLeft(c) ==
  CASE caller[c].pc = "idle"       -> 0
    [] caller[c].pc = "refetching" -> 1
    [] caller[c].pc = "rewaiting"  -> 1 + FlightLeft(caller[c].on)
    [] caller[c].pc = "fetching"   -> 4
    [] OTHER                       -> 4 + FlightLeft(caller[c].on)

\* What a call waits for, in the sense of TabFairness.
Answered(c) == apiAnswers(c) \/ \E f \in Flights : f = caller[c].on /\ refreshAnswers(f)

CallNearer ==
  \A c \in Callers : caller[c].pc # "idle" =>
    CallLeft(c)' <= CallLeft(c) /\ (Answered(c) => CallLeft(c)' < CallLeft(c))

LEMMA LeftRange ==
  /\ \A f : FlightLeft(f) \in 0..2 /\ (f \in Airborne => FlightLeft(f) > 0)
  /\ \A c : CallLeft(c) \in 0..6
<1>1. \A f : FlightLeft(f) \in 0..2 /\ (f \in Airborne => FlightLeft(f) > 0)
  BY DEF FlightLeft
<1> QED
  BY <1>1 DEF CallLeft

\* A call a step does not touch, whose refresh comes no step further back.
LEMMA CallWaitsOn ==
  ASSUME NEW c \in Callers, caller[c] \in ApiCall, Awaits(c), caller'[c] = caller[c],
         \A f \in Airborne : f \in Airborne' /\ (flight[f].pc # "sent" => flight'[f].pc # "sent")
  PROVE  Awaits(c)' /\ CallLeft(c)' <= CallLeft(c)
<1>1. \A f \in Airborne : FlightLeft(f)' <= FlightLeft(f)
  BY DEF FlightLeft
<1> DEFINE w == caller[c].on
<1>2. w' = w /\ Awaits(c)'
  BY DEF Awaits
<1>3. FlightLeft(w) \in 0..2 /\ FlightLeft(w)' \in 0..2
  BY DEF FlightLeft
<1>4. w \in Airborne => FlightLeft(w)' <= FlightLeft(w)
  BY <1>1, <1>2
<1>5. CASE caller[c].pc \in {"waiting", "rewaiting"}
  BY <1>2, <1>3, <1>4, <1>5 DEF CallLeft, Awaits
<1>6. CASE caller[c].pc \notin {"waiting", "rewaiting"}
  <2>1. caller[c].pc \in {"idle", "fetching", "refetching"}
    BY <1>6 DEF ApiCall
  <2> QED
    BY <1>2, <2>1 DEF CallLeft
<1> QED
  BY <1>5, <1>6

\* The refresh one waits for is under way still, but further.
LEMMA CallWaitsLess ==
  ASSUME NEW c \in Callers, caller'[c] = caller[c], caller[c].pc \in {"waiting", "rewaiting"},
         caller[c].on \in Airborne, flight[caller[c].on].pc = "sent",
         flight'[caller[c].on].pc # "sent"
  PROVE  CallLeft(c)' < CallLeft(c)
<1>1. FlightLeft(caller[c].on) = 2 /\ FlightLeft(caller[c].on)' \in {0, 1}
  BY DEF FlightLeft
<1> QED
  BY <1>1 DEF CallLeft

\* A call that asks for a token: the refreshes under way stay as they are, and
\* it waits for one of them or goes on.
LEMMA EnsureWaits ==
  ASSUME TabInv, NEW c \in Callers, NEW wait, NEW go, ensureFreshToken(c, wait, go)
  PROVE  /\ \A d \in Callers \ {c} : caller'[d] = caller[d]
         /\ \A f \in Airborne : f \in Airborne' /\ flight'[f] = flight[f]
         /\ \/ caller'[c].pc = wait /\ caller'[c].on \in Airborne'
            \/ caller'[c].pc = go /\ caller'[c].on = "none"
<1>1. TabTypes /\ Airborne \subseteq Flights
  BY DEF TabInv, Airborne
<1>2. CASE \E f \in Flights \ Airborne :
             /\ flight' = [flight EXCEPT ![f] = Sent("ensureFreshToken")]
             /\ caller' = [caller EXCEPT ![c] = [pc |-> wait, on |-> f, sent |-> "none"]]
  <2>1. PICK f \in Flights \ Airborne :
             /\ flight' = [flight EXCEPT ![f] = Sent("ensureFreshToken")]
             /\ caller' = [caller EXCEPT ![c] = [pc |-> wait, on |-> f, sent |-> "none"]]
    BY <1>2
  <2>2. \A g \in Flights : flight'[g] = IF g = f THEN Sent("ensureFreshToken") ELSE flight[g]
    BY <1>1, <2>1, SentTyped, FlightSet
  <2>3. \A d \in Callers : caller'[d] = IF d = c THEN [pc |-> wait, on |-> f, sent |-> "none"] ELSE caller[d]
    BY <1>1, <2>1 DEF TabTypes
  <2>4. Airborne' = Airborne \cup {f}
    BY <2>2, SentTyped DEF Airborne
  <2> QED
    BY <1>1, <2>2, <2>3, <2>4
<1>3. flight' = flight => Airborne' = Airborne
  BY DEF Airborne
<1>4. CASE /\ UNCHANGED flight /\ refreshPromise \in Airborne
           /\ caller' = [caller EXCEPT ![c] = [pc |-> wait, on |-> refreshPromise, sent |-> "none"]]
  <2>1. \A d \in Callers : caller'[d] = IF d = c THEN [pc |-> wait, on |-> refreshPromise, sent |-> "none"]
                                                 ELSE caller[d]
    BY <1>1, <1>4 DEF TabTypes
  <2> QED
    BY <1>3, <1>4, <2>1
<1>5. CASE /\ UNCHANGED flight
           /\ \E s : caller' = [caller EXCEPT ![c] = [pc |-> go, on |-> "none", sent |-> s]]
  <2>1. PICK s : caller' = [caller EXCEPT ![c] = [pc |-> go, on |-> "none", sent |-> s]]
    BY <1>5
  <2>2. \A d \in Callers : caller'[d] = IF d = c THEN [pc |-> go, on |-> "none", sent |-> s] ELSE caller[d]
    BY <1>1, <2>1 DEF TabTypes
  <2> QED
    BY <1>3, <1>5, <2>2
<1>6. \/ \E f \in Flights \ Airborne :
           /\ flight' = [flight EXCEPT ![f] = Sent("ensureFreshToken")]
           /\ caller' = [caller EXCEPT ![c] = [pc |-> wait, on |-> f, sent |-> "none"]]
      \/ /\ UNCHANGED flight /\ refreshPromise \in Airborne
         /\ caller' = [caller EXCEPT ![c] = [pc |-> wait, on |-> refreshPromise, sent |-> "none"]]
      \/ /\ UNCHANGED flight
         /\ \E s : caller' = [caller EXCEPT ![c] = [pc |-> go, on |-> "none", sent |-> s]]
  BY Zenon DEF ensureFreshToken
<1> QED
  BY <1>2, <1>4, <1>5, <1>6

\* A promise is settled: who waited for it goes on, and only they.
LEMMA SettledCalls ==
  ASSUME TabInv, EveryCallAwaits, NEW f \in Airborne, NEW granted \in BOOLEAN,
         settle(f), resume(f, granted), NEW c \in Callers
  PROVE  /\ Awaits(c)' /\ CallLeft(c)' <= CallLeft(c)
         /\ caller[c].on = f => CallLeft(c)' < CallLeft(c)
<1>1. /\ f \in Flights /\ \A g \in Flights \ {f} : flight'[g] = flight[g]
      /\ Airborne' = Airborne \ {f} /\ "none" \notin Flights
  BY Settled, Parts DEF TabInv
<1>2. Awaits(c) /\ caller[c] \in ApiCall
  BY Parts DEF TabInv, EveryCallAwaits
<1>3. CASE caller[c].on # f
  <2>1. caller'[c] = caller[c]
    BY <1>3 DEF resume
  <2>2. Awaits(c)'
    BY <1>1, <1>2, <1>3, <2>1 DEF Awaits
  <2>3. FlightLeft(caller[c].on)' = FlightLeft(caller[c].on)
    <3>1. \A g : g # f => (g \in Airborne <=> g \in Airborne') /\ (g \in Airborne => flight'[g] = flight[g])
      BY <1>1 DEF Airborne
    <3> QED
      BY <1>3, <2>1, <3>1 DEF FlightLeft
  <2>4. CallLeft(c)' = CallLeft(c)
    BY <2>1, <2>3 DEF CallLeft
  <2> QED
    BY <1>3, <2>2, <2>4, LeftRange
<1>4. CASE caller[c].on = f
  <2>1. caller[c].pc \in {"waiting", "rewaiting"}
    BY <1>1, <1>2, <1>4 DEF Awaits
  <2>2. FlightLeft(caller[c].on) \in 0..2 /\ FlightLeft(caller[c].on) > 0
    BY <1>4, LeftRange
  <2>3. CASE caller[c].pc = "waiting"
    <3>1. caller'[c] = [pc |-> "fetching", on |-> "none", sent |-> IF granted THEN "fresh" ELSE "none"]
      BY <1>4, <2>3 DEF resume
    <3>2. caller'[c].pc = "fetching" /\ caller'[c].on = "none"
      BY <3>1
    <3> QED
      BY <2>2, <2>3, <3>2 DEF CallLeft, Awaits
  <2>4. CASE caller[c].pc = "rewaiting"
    <3>1. caller'[c] \in {NoApiCall, [pc |-> "refetching", on |-> "none",
                                      sent |-> IF granted THEN "fresh" ELSE "none"]}
      BY <1>4, <2>4 DEF resume
    <3>2. caller'[c].pc \in {"idle", "refetching"} /\ caller'[c].on = "none"
      BY <3>1 DEF NoApiCall
    <3> QED
      BY <2>2, <2>4, <3>2 DEF CallLeft, Awaits
  <2> QED
    BY <2>1, <2>3, <2>4
<1> QED
  BY <1>3, <1>4

\* The provider decides: the refresh is under way still, its answer decided.
LEMMA Decided ==
  ASSUME TabInv, NEW f \in Flights, grant(f) \/ refuse(f)
  PROVE  /\ caller' = caller /\ Airborne' = Airborne
         /\ flight[f].pc = "sent" /\ flight'[f].pc # "sent"
         /\ \A g \in Flights \ {f} : flight'[g] = flight[g]
<1>1. flight \in [Flights -> Flight]
  BY DEF TabInv, TabTypes
<1> DEFINE u == [flight EXCEPT ![f].pc = "granted"]
<1>2. u \in [Flights -> Flight] /\ u[f].pc = "granted" /\ \A g \in Flights \ {f} : u[g] = flight[g]
  BY <1>1 DEF Flight
<1>3. CASE grant(f)
  <2>1. flight' = [u EXCEPT ![f].token = newest + 1] /\ flight[f].pc = "sent" /\ caller' = caller
    BY <1>3 DEF grant
  <2> HIDE DEF u
  <2>2. flight'[f].pc = "granted" /\ \A g \in Flights \ {f} : flight'[g] = flight[g]
    BY <1>2, <2>1 DEF Flight
  <2> QED
    BY <2>1, <2>2 DEF Airborne
<1>4. CASE refuse(f)
  <2>1. flight'[f].pc = "refused" /\ \A g \in Flights \ {f} : flight'[g] = flight[g]
    BY <1>1, <1>4 DEF refuse, Flight
  <2> QED
    BY <1>4, <2>1 DEF refuse, Airborne
<1> QED
  BY <1>3, <1>4

\* No step forgets a call, or takes one back that is not over.
LEMMA CallsNotLonger ==
  ASSUME TabInv, EveryCallAwaits, [TabNext]_tabVars, NEW c \in Callers
  PROVE  Awaits(c)' /\ (caller[c].pc # "idle" => CallLeft(c)' <= CallLeft(c))
<1>1. Awaits(c) /\ TabTypes /\ caller[c] \in ApiCall /\ Airborne \subseteq Flights /\ "none" \notin Flights
  BY Parts DEF TabInv, EveryCallAwaits, Airborne
<1>2. CASE caller' = caller /\ flight' = flight
  <2>1. Airborne' = Airborne
    BY <1>2 DEF Airborne
  <2> QED
    BY <1>1, <1>2, <2>1, CallWaitsOn
<1>3. CASE UNCHANGED tabVars \/ login \/ logoutClicked \/ expiring
  BY <1>2, <1>3 DEF tabVars, login, logoutClicked, expiring
<1>4. CASE initAuth
  <2>1. caller[c] = NoApiCall /\ caller'[c] = NoApiCall
    BY <1>4 DEF initAuth, TabInv, Quiet
  <2> QED
    BY <2>1 DEF NoApiCall, Awaits
<1>5. CASE unload
  <2>1. caller'[c].pc = "idle" /\ caller'[c].on = "none"
    BY <1>5 DEF unload, NoApiCall
  <2> QED
    BY <2>1, LeftRange DEF Awaits, CallLeft
<1>6. ASSUME NEW f \in Flights, grant(f) \/ refuse(f)
      PROVE  Awaits(c)' /\ CallLeft(c)' <= CallLeft(c)
  BY <1>1, <1>6, Decided, CallWaitsOn
<1>7. ASSUME NEW f \in Flights, refreshGranted(f) \/ refreshRefused(f)
      PROVE  Awaits(c)' /\ CallLeft(c)' <= CallLeft(c)
  <2>1. f \in Airborne
    BY <1>7 DEF Airborne, refreshGranted, refreshRefused
  <2> QED
    BY <1>7, <2>1, SettledCalls DEF refreshGranted, refreshRefused
<1>8. ASSUME NEW d \in Callers, NEW wait, NEW go, ensureFreshToken(d, wait, go),
             \/ wait = "waiting" /\ go = "fetching" /\ caller[d].pc = "idle"
             \/ wait = "rewaiting" /\ go = "refetching" /\ caller[d].pc = "fetching"
      PROVE  Awaits(c)' /\ (caller[c].pc # "idle" => CallLeft(c)' <= CallLeft(c))
  <2>1. /\ \A e \in Callers \ {d} : caller'[e] = caller[e]
        /\ \A f \in Airborne : f \in Airborne' /\ flight'[f] = flight[f]
        /\ \/ caller'[d].pc = wait /\ caller'[d].on \in Airborne'
           \/ caller'[d].pc = go /\ caller'[d].on = "none"
    BY <1>8, EnsureWaits
  <2>2. CASE c # d
    BY <1>1, <2>1, <2>2, CallWaitsOn
  <2>3. CASE c = d
    <3>1. Awaits(c)'
      BY <1>8, <2>1, <2>3 DEF Awaits
    <3>2. FlightLeft(caller[c].on)' \in 0..2
      BY LeftRange DEF FlightLeft
    <3> QED
      BY <1>8, <2>1, <2>3, <3>1, <3>2 DEF CallLeft
  <2> QED
    BY <2>2, <2>3
<1>9. ASSUME NEW d \in Callers, caller' = [caller EXCEPT ![d] = NoApiCall], flight' = flight
      PROVE  Awaits(c)' /\ CallLeft(c)' <= CallLeft(c)
  <2>1. \A e \in Callers : caller'[e] = IF e = d THEN NoApiCall ELSE caller[e]
    BY <1>1, <1>9 DEF TabTypes
  <2>2. Airborne' = Airborne
    BY <1>9 DEF Airborne
  <2>3. CASE c # d
    BY <1>1, <1>9, <2>1, <2>2, <2>3, CallWaitsOn
  <2>4. CASE c = d
    <3>1. caller'[c].pc = "idle" /\ caller'[c].on = "none"
      BY <2>1, <2>4 DEF NoApiCall
    <3> QED
      BY <3>1, LeftRange DEF Awaits, CallLeft
  <2> QED
    BY <2>3, <2>4
<1>10. CASE \E f \in Flights : refreshAnswers(f)
  BY <1>6, <1>7, <1>10 DEF refreshAnswers
<1>11. CASE \E d \in Callers : request(d) \/ apiAnswers(d)
  BY <1>8, <1>9, <1>11 DEF request, apiAnswers, responded, unauthorized
<1> QED
  BY <1>3, <1>4, <1>5, <1>10, <1>11 DEF TabNext

\* The answer a call waits for brings it nearer to its end.
LEMMA CallsShorter ==
  ASSUME TabInv, EveryCallAwaits, NEW c \in Callers, Answered(c)
  PROVE  CallLeft(c)' < CallLeft(c)
<1>1. Awaits(c) /\ TabTypes /\ caller[c] \in ApiCall /\ "none" \notin Flights
  BY Parts DEF TabInv, EveryCallAwaits
<1>2. CASE caller[c].pc \in {"fetching", "refetching"} /\ caller' = [caller EXCEPT ![c] = NoApiCall]
  <2>1. caller'[c].pc = "idle"
    BY <1>1, <1>2 DEF TabTypes, NoApiCall
  <2> QED
    BY <1>2, <2>1 DEF CallLeft
<1>3. CASE caller[c].pc = "fetching" /\ ensureFreshToken(c, "rewaiting", "refetching")
  <2>1. caller'[c].pc \in {"rewaiting", "refetching"}
    BY <1>3, EnsureWaits
  <2>2. FlightLeft(caller[c].on)' \in 0..2
    BY LeftRange DEF FlightLeft
  <2> QED
    BY <1>3, <2>1, <2>2 DEF CallLeft
<1>4. ASSUME NEW f \in Flights, f = caller[c].on, refreshAnswers(f)
      PROVE  CallLeft(c)' < CallLeft(c)
  <2>1. caller[c].pc \in {"waiting", "rewaiting"} /\ f \in Airborne
    BY <1>1, <1>4 DEF Awaits
  <2>2. CASE grant(f) \/ refuse(f)
    BY <1>4, <2>1, <2>2, Decided, CallWaitsLess
  <2>3. CASE refreshGranted(f) \/ refreshRefused(f)
    BY <1>4, <2>1, <2>3, SettledCalls DEF refreshGranted, refreshRefused
  <2> QED
    BY <1>4, <2>2, <2>3 DEF refreshAnswers
<1> QED
  BY <1>2, <1>3, <1>4 DEF Answered, apiAnswers, responded, unauthorized

LEMMA CallsInv == TabSpec => []EveryCallAwaits
<1>1. TabInit => EveryCallAwaits
  BY DEF TabInit, EveryCallAwaits, Awaits, NoApiCall
<1>2. TabInv /\ EveryCallAwaits /\ [TabNext]_tabVars => EveryCallAwaits'
  BY CallsNotLonger DEF EveryCallAwaits
<1> QED
  BY <1>1, <1>2, TabInvariant, PTL DEF TabSpec

\* An API call is over after at most six answers to itself and to the refreshes
\* it waits for: no interleaving of refreshes, logouts, reloads and other calls
\* takes it back (api.ts request: one retry after a 401, and no more).
THEOREM CallsShorten ==
  TabSpec => [][CallNearer]_tabVars /\ [](\A c \in Callers : CallLeft(c) \in 0..6)
<1>1. TabInv /\ EveryCallAwaits /\ [TabNext]_tabVars => [CallNearer]_tabVars
  BY CallsNotLonger, CallsShorter DEF CallNearer
<1>2. \A c \in Callers : CallLeft(c) \in 0..6
  BY LeftRange
<1> QED
  BY <1>1, <1>2, TabInvariant, CallsInv, PTL DEF TabSpec

-----------------------------------------------------------------------------
(* A page that resumes a session waits for an answer *)

Resuming == page = "loading" /\ Listens

\* The page is not left blank: an answer is still to come.
ResumptionUnderWay == Resuming => Airborne # {}

\* Any answer ends the wait, and nothing but an answer ends the refresh.
AnswerShowsPage ==
  Resuming =>
    \/ page' # "loading"
    \/ /\ \A f \in Flights : ~refreshGranted(f) /\ ~refreshRefused(f)
       /\ Airborne' = Airborne

\* Before the application is shown the refreshes under way are those of initAuth.
LEMMA ResumedByInit ==
  ASSUME TabInv, page = "loading", NEW f \in Airborne
  PROVE  f \in Flights /\ flight[f].by = "initAuth"
  BY Parts DEF TabInv, OneLock, Quiet, Airborne

LEMMA AnsweredPage ==
  ASSUME TabInv, Resuming, NEW f \in Flights, refreshGranted(f) \/ refreshRefused(f)
  PROVE  page' # "loading"
<1>1. f \in Airborne
  BY DEF refreshGranted, refreshRefused, Airborne
<1>2. flight[f].by = "initAuth"
  BY <1>1, ResumedByInit DEF Resuming
<1>3. CASE refreshGranted(f)
  BY <1>2, <1>3 DEF refreshGranted, Resuming
<1>4. CASE refreshRefused(f)
  BY <1>4 DEF refreshRefused, logout
<1> QED
  BY <1>3, <1>4

LEMMA PageSteps ==
  ASSUME TabInv, Resuming, TabNext
  PROVE  AnswerShowsPage
<1>1. page = "loading" /\ \A c \in Callers : caller[c].pc = "idle"
  BY Resting DEF TabInv, Quiet, Resuming
<1>2. CASE \E f \in Flights : refreshGranted(f) \/ refreshRefused(f)
  BY <1>2, AnsweredPage DEF AnswerShowsPage
<1>3. CASE \A f \in Flights : ~refreshGranted(f) /\ ~refreshRefused(f)
  <2>1. CASE \E f \in Flights : grant(f) \/ refuse(f)
    BY <1>3, <2>1, Decided DEF AnswerShowsPage
  <2>2. CASE expiring
    BY <1>3, <2>2 DEF expiring, AnswerShowsPage, Airborne
  <2>3. CASE unload
    BY <2>3 DEF unload, AnswerShowsPage
  <2>4. ~initAuth /\ ~login /\ ~logoutClicked /\ \A c \in Callers : ~request(c) /\ ~apiAnswers(c)
    BY <1>1 DEF initAuth, login, logoutClicked, request, apiAnswers, responded, unauthorized
  <2> QED
    BY <1>3, <2>1, <2>2, <2>3, <2>4 DEF TabNext, refreshAnswers
<1> QED
  BY <1>2, <1>3

\* The page that resumes: initAuth has sent a refresh for each effect that ran.
LEMMA InitAuthSends ==
  ASSUME initAuth, page' = "loading"
  PROVE  \E f \in Flights : flight'[f] = Sent("initAuth")
<1>1. PICK F \in SUBSET Flights :
        /\ Cardinality(F) = Effects
        /\ flight' = [f \in Flights |-> IF f \in F THEN Sent("initAuth") ELSE NoFlight]
  BY DEF initAuth
<1>2. F # {}
  BY <1>1, FS_EmptySet DEF Effects
<1> QED
  BY <1>1, <1>2

LEMMA ResumptionStays ==
  ASSUME TabInv, ResumptionUnderWay, [TabNext]_tabVars
  PROVE  ResumptionUnderWay'
<1> SUFFICES ASSUME Resuming' PROVE Airborne' # {}
  BY DEF ResumptionUnderWay
<1>1. page' = "loading"
  BY DEF Resuming
<1>2. CASE initAuth
  <2>1. PICK f \in Flights : flight'[f] = Sent("initAuth")
    BY <1>1, <1>2, InitAuthSends
  <2> QED
    BY <2>1, SentTyped DEF Airborne
<1>3. CASE Resuming
  <2>1. CASE TabNext
    <3>1. Airborne' = Airborne
      BY <1>1, <1>3, <2>1, PageSteps DEF AnswerShowsPage
    <3> QED
      BY <1>3, <3>1 DEF ResumptionUnderWay
  <2>2. CASE UNCHANGED tabVars
    BY <1>3, <2>2 DEF ResumptionUnderWay, tabVars, Airborne
  <2> QED
    BY <2>1, <2>2
<1>4. ASSUME ~initAuth PROVE Resuming
  <2>1. page = "loading" /\ UNCHANGED <<app, strict>>
    <3>1. CASE UNCHANGED tabVars
      BY <1>1, <3>1 DEF tabVars
    <3>2. CASE login \/ logoutClicked \/ expiring \/ unload
      BY <1>1, <3>2 DEF login, logoutClicked, logout, expiring, unload
    <3>3. CASE \E f \in Flights : refreshAnswers(f)
      BY <1>1, <3>3 DEF refreshAnswers, grant, refuse, refreshGranted, refreshRefused, logout
    <3>4. CASE \E c \in Callers : request(c) \/ apiAnswers(c)
      BY <1>1, <3>4 DEF request, apiAnswers, responded, unauthorized, logout
    <3> QED
      BY <1>4, <3>1, <3>2, <3>3, <3>4 DEF TabNext
  <2>2. Listens' = Listens
    BY <2>1 DEF Listens
  <2> QED
    BY <2>1, <2>2 DEF Resuming
<1> QED
  BY <1>2, <1>3, <1>4

\* A page that resumes a session and listens to the answer has one to come, and
\* the first that comes ends the wait: until then nothing but leaving the page
\* takes the refresh away (initAuth in App and AuthProvider).
THEOREM PageAwaitsAnswer == TabSpec => []ResumptionUnderWay /\ [][AnswerShowsPage]_tabVars
<1>1. TabInit => ResumptionUnderWay
  BY DEF TabInit, ResumptionUnderWay, Resuming
<1>2. TabInv /\ ResumptionUnderWay /\ [TabNext]_tabVars => ResumptionUnderWay'
  BY ResumptionStays
<1>3. TabInv /\ [TabNext]_tabVars => [AnswerShowsPage]_tabVars
  BY PageSteps DEF AnswerShowsPage
<1> QED
  BY <1>1, <1>2, <1>3, TabInvariant, PTL DEF TabSpec

=============================================================================
