-------------------------- MODULE BrowserSession --------------------------
(***************************************************************************)
(* The session of one browser tab in the web frontends (vitejs/src/auth.ts *)
(* and api.ts, nextjs/src/lib/auth.ts and api.ts): tokens in memory, the   *)
(* refresh token also in sessionStorage, one refresh shared by all API     *)
(* calls, and the refresh that resumes a session when the page is loaded.  *)
(*                                                                         *)
(* JavaScript runs to the next await.  An answer settles a promise and     *)
(* everybody who awaits it goes on before any other event.                 *)
(***************************************************************************)
EXTENDS Integers, FiniteSets

CONSTANTS
  Flights,      \* refresh requests under way at the same time
  Callers,      \* API calls of the page
  MaxRefreshTokens  \* bound: refresh tokens the provider issues

ASSUME BrowserAssumption ==
  /\ IsFiniteSet(Flights) /\ Cardinality(Flights) >= 2 /\ "none" \notin Flights
  /\ MaxRefreshTokens \in Nat

VARIABLES
  app,             \* vitejs or nextjs
  strict,          \* development build under StrictMode: effects run twice
  page,            \* what the tab shows
  memory,          \* tokens; refresh is 0 when there are none
  storage,         \* sessionStorage, 0 when empty
  refreshPromise,  \* the shared refresh, "none" if there is none
  flight,          \* refreshes under way
  caller,          \* API calls
  newest,          \* the last refresh token the provider issued
  ended,           \* history: logged out since the last login
  late             \* history: a refresh was under way at that time

tabVars == <<app, strict, page, memory, storage, refreshPromise, flight, caller,
             newest, ended, late>>

NoTokens == [refresh |-> 0, fresh |-> FALSE]
NoFlight == [pc |-> "none", by |-> "none", token |-> 0]
NoApiCall == [pc |-> "idle", on |-> "none", sent |-> "none"]

Airborne == {f \in Flights : flight[f].pc # "none"}

TabInit ==
  /\ app \in {"vitejs", "nextjs"} /\ strict \in BOOLEAN
  /\ storage \in {0, 1} /\ newest = storage
  /\ page = "unloaded" /\ memory = NoTokens /\ refreshPromise = "none"
  /\ flight = [f \in Flights |-> NoFlight]
  /\ caller = [c \in Callers |-> NoApiCall]
  /\ ended = FALSE /\ late = FALSE

-----------------------------------------------------------------------------
(* auth.ts *)

save(n) == memory' = [refresh |-> n, fresh |-> TRUE] /\ storage' = n

\* Fault: the token stays in sessionStorage.
logoutMemoryOnly(others) ==
  /\ memory' = NoTokens /\ page' = "leaving" /\ UNCHANGED storage
  /\ ended' = TRUE /\ late' = (others # {})

\* Tokens are dropped and the browser starts to load another page; the script
\* runs on until it does.  The refreshes under way are others.
logout(others) ==
  /\ memory' = NoTokens /\ storage' = 0 /\ page' = "leaving"
  /\ ended' = TRUE /\ late' = (others # {})

\* The user signs in on the login page.
login ==
  /\ page = "anon" /\ newest < MaxRefreshTokens
  /\ newest' = newest + 1 /\ save(newest + 1) /\ page' = "authed"
  /\ ended' = FALSE /\ late' = FALSE
  /\ UNCHANGED <<app, strict, refreshPromise, flight, caller>>

\* doRefresh up to its await, for the refresh token in memory.
Sent(by) == [pc |-> "sent", by |-> by, token |-> 0]

\* initAuth, in an effect of App or AuthProvider.  Under StrictMode App runs it
\* twice; AuthProvider does not, for it finds the tokens that the first one put
\* in memory, but it no longer listens to the first one.
Effects == IF strict /\ app = "vitejs" THEN 2 ELSE 1
Listens == ~(strict /\ app = "nextjs")

initAuth ==
  /\ page = "unloaded"
  /\ \/ storage = 0 /\ page' = "anon" /\ UNCHANGED <<memory, flight>>
     \/ /\ storage # 0 /\ page' = "loading"
        /\ memory' = [refresh |-> storage, fresh |-> FALSE]
        /\ \E F \in SUBSET Flights :
             /\ Cardinality(F) = Effects
             /\ flight' = [f \in Flights |-> IF f \in F THEN Sent("initAuth") ELSE NoFlight]
  /\ UNCHANGED <<app, strict, storage, refreshPromise, caller, newest, ended, late>>

\* Fault: every caller starts a refresh.
ensureFreshTokenAlone(c, wait, go) ==
  \/ /\ memory.refresh # 0 /\ ~memory.fresh
     /\ \E f \in Flights \ Airborne :
          /\ flight' = [flight EXCEPT ![f] = Sent("ensureFreshToken")]
          /\ refreshPromise' = f
          /\ caller' = [caller EXCEPT ![c] = [pc |-> wait, on |-> f, sent |-> "none"]]
  \/ /\ memory.refresh = 0 \/ memory.fresh
     /\ caller' = [caller EXCEPT ![c] =
          [pc |-> go, on |-> "none", sent |-> IF memory.fresh THEN "fresh" ELSE "none"]]
     /\ UNCHANGED <<flight, refreshPromise>>

\* A token about to expire is refreshed once for all who ask; caller c waits,
\* and otherwise, or if the promise is settled, goes on with what there is.
ensureFreshToken(c, wait, go) ==
  LET needed == memory.refresh # 0 /\ ~memory.fresh IN
  \/ /\ needed /\ refreshPromise = "none"
     /\ \E f \in Flights \ Airborne :
          /\ flight' = [flight EXCEPT ![f] = Sent("ensureFreshToken")]
          /\ refreshPromise' = f
          /\ caller' = [caller EXCEPT ![c] = [pc |-> wait, on |-> f, sent |-> "none"]]
  \/ /\ needed /\ refreshPromise \in Airborne
     /\ caller' = [caller EXCEPT ![c] = [pc |-> wait, on |-> refreshPromise, sent |-> "none"]]
     /\ UNCHANGED <<flight, refreshPromise>>
  \/ /\ ~needed \/ refreshPromise \in Flights \ Airborne
     /\ caller' = [caller EXCEPT ![c] =
          [pc |-> go, on |-> "none",
           sent |-> IF memory.refresh = 0 THEN "none" ELSE IF memory.fresh THEN "fresh" ELSE "stale"]]
     /\ UNCHANGED <<flight, refreshPromise>>

\* Fault: only one of those who wait goes on.
resumeOne(f, granted) ==
  caller' = [c \in Callers |->
    IF caller[c].on # f \/ c # CHOOSE d \in Callers : caller[d].on = f THEN caller[c]
    ELSE [pc |-> "fetching", on |-> "none", sent |-> IF granted THEN "fresh" ELSE "none"]]

\* Those who wait for the refresh go on: they fetch, but a call that was
\* refused before gives up without a token.
resume(f, granted) ==
  caller' = [c \in Callers |->
    IF caller[c].on # f THEN caller[c]
    ELSE IF caller[c].pc = "rewaiting" /\ ~granted THEN NoApiCall
    ELSE [pc |-> IF caller[c].pc = "waiting" THEN "fetching" ELSE "refetching",
          on |-> "none", sent |-> IF granted THEN "fresh" ELSE "none"]]

\* Fault: the shared promise is kept when it is settled.
settleKeeping(f) ==
  flight' = [flight EXCEPT ![f] = NoFlight] /\ UNCHANGED refreshPromise

\* The promise of a refresh is settled; ensureFreshToken drops the shared one.
settle(f) ==
  /\ flight' = [flight EXCEPT ![f] = NoFlight]
  /\ refreshPromise' = IF flight[f].by = "ensureFreshToken" THEN "none" ELSE refreshPromise

\* doRefresh after its await.  Tokens are saved whatever happened meanwhile.
refreshGranted(f) ==
  /\ flight[f].pc = "granted"
  /\ save(flight[f].token) /\ settle(f) /\ resume(f, TRUE)
  /\ page' = IF page = "loading" /\ flight[f].by = "initAuth" /\ Listens THEN "authed" ELSE page
  /\ UNCHANGED <<app, strict, newest, ended, late>>

\* Fault: a failure while the page loads is swallowed.
refreshRefusedSilently(f) ==
  /\ flight[f].pc = "refused"
  /\ settle(f) /\ resume(f, FALSE)
  /\ IF flight[f].by = "initAuth" THEN UNCHANGED <<memory, storage, page, ended, late>>
     ELSE logout(Airborne \ {f})
  /\ UNCHANGED <<app, strict, newest>>

\* An error answer, or none.
refreshRefused(f) ==
  /\ flight[f].pc = "refused"
  /\ logout(Airborne \ {f}) /\ settle(f) /\ resume(f, FALSE)
  /\ UNCHANGED <<app, strict, newest>>

\* The user signs out.
logoutClicked ==
  /\ page = "authed" /\ logout(Airborne)
  /\ UNCHANGED <<app, strict, refreshPromise, flight, caller, newest>>

-----------------------------------------------------------------------------
(* api.ts: request *)

request(c) ==
  /\ page = "authed" /\ caller[c].pc = "idle"
  /\ ensureFreshToken(c, "waiting", "fetching")
  /\ UNCHANGED <<app, strict, page, memory, storage, newest, ended, late>>

\* Any answer but 401, or the second answer, is the caller's.
responded(c) ==
  /\ caller[c].pc \in {"fetching", "refetching"}
  /\ caller' = [caller EXCEPT ![c] = NoApiCall]
  /\ UNCHANGED <<app, strict, page, memory, storage, refreshPromise, flight, newest, ended, late>>

\* 401: once more, unless there are no tokens any more.
unauthorized(c) ==
  /\ caller[c].pc = "fetching"
  /\ \/ /\ memory.refresh # 0 /\ ensureFreshToken(c, "rewaiting", "refetching")
        /\ UNCHANGED <<page, memory, storage, ended, late>>
     \/ /\ memory.refresh = 0 /\ logout(Airborne)
        /\ caller' = [caller EXCEPT ![c] = NoApiCall]
        /\ UNCHANGED <<refreshPromise, flight>>
  /\ UNCHANGED <<app, strict, newest>>

-----------------------------------------------------------------------------
(* The provider and the browser *)

\* The identity provider decides on a refresh; its answer is still to come.
grant(f) ==
  /\ flight[f].pc = "sent" /\ newest < MaxRefreshTokens
  /\ newest' = newest + 1
  /\ flight' = [flight EXCEPT ![f].pc = "granted", ![f].token = newest + 1]
  /\ UNCHANGED <<app, strict, page, memory, storage, refreshPromise, caller, ended, late>>

refuse(f) ==
  /\ flight[f].pc = "sent" /\ flight' = [flight EXCEPT ![f].pc = "refused"]
  /\ UNCHANGED <<app, strict, page, memory, storage, refreshPromise, caller, newest, ended, late>>

\* The access token comes within ten seconds of its end.
expiring ==
  /\ memory.fresh /\ memory' = [memory EXCEPT !.fresh = FALSE]
  /\ UNCHANGED <<app, strict, page, storage, refreshPromise, flight, caller, newest, ended, late>>

\* The page goes, by navigation or reload; what was in memory is lost.
unload ==
  /\ page # "unloaded" /\ page' = "unloaded"
  /\ memory' = NoTokens /\ refreshPromise' = "none"
  /\ flight' = [f \in Flights |-> NoFlight] /\ caller' = [c \in Callers |-> NoApiCall]
  /\ UNCHANGED <<app, strict, storage, newest, ended, late>>

refreshAnswers(f) == grant(f) \/ refuse(f) \/ refreshGranted(f) \/ refreshRefused(f)
apiAnswers(c) == responded(c) \/ unauthorized(c)

TabNext ==
  \/ initAuth \/ login \/ logoutClicked \/ expiring \/ unload
  \/ \E f \in Flights : refreshAnswers(f)
  \/ \E c \in Callers : request(c) \/ apiAnswers(c)

\* A fetch is answered or fails.
TabFairness ==
  /\ \A f \in Flights : WF_tabVars(refreshAnswers(f))
  /\ \A c \in Callers : WF_tabVars(apiAnswers(c))

TabSpec == TabInit /\ [][TabNext]_tabVars /\ TabFairness

-----------------------------------------------------------------------------
(* Properties *)

\* CHANGELOG: "token refresh with a single shared in-flight refreshPromise
\* lock".  API calls never race each other's refreshes: once every answer has
\* arrived the tab holds, in memory and for a reload, the newest token the
\* provider issued to it.  (Under StrictMode two refreshes at page load may
\* answer in either order.)
NewestTokenKept ==
  page = "authed" /\ Airborne = {} /\ ~strict =>
    memory.refresh = newest /\ storage = newest

\* A call is never sent with a token ensureFreshToken knows to be expiring,
\* also not by the callers that waited for somebody else's refresh.
FreshTokenSent == \A c \in Callers : caller[c].sent # "stale"

\* A logout is not undone until the next login, unless a refresh was under way
\* at that time: its answer saves tokens the next page resumes from.
LogoutSticks == ended /\ ~late => storage = 0

\* Every API call ends, however refreshes, logouts and reloads interleave.
CallsFinish == \A c \in Callers : caller[c].pc # "idle" ~> caller[c].pc = "idle"

\* A page that resumes a session shows something in the end: the application,
\* or another page after a failed refresh.  (AuthProvider under StrictMode does
\* not: it stops listening to the only initAuth there is.)
PageShown == page = "loading" /\ Listens ~> page # "loading"

=============================================================================
