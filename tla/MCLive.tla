------------------------------- MODULE MCLive -------------------------------
(***************************************************************************)
(* Refreshing a session, at the server and in the browser, for TLC with    *)
(* fairness.  The browser's provider is not this server, so the two parts  *)
(* share no state: each initial state lets one of them run.                *)
(***************************************************************************)
EXTENDS RefreshRotation, BrowserSession

VARIABLE part

liveVars == <<part, vars, tabVars>>

\* The browser, when it rests, has one initial state.
LiveInit ==
  /\ part \in {"server", "browser"}
  /\ Init
  /\ TabInit /\ (part # "browser" => app = "vitejs" /\ ~strict /\ storage = 0)

LiveNext ==
  \/ part = "server" /\ Next /\ UNCHANGED <<part, tabVars>>
  \/ part = "browser" /\ TabNext /\ UNCHANGED <<part, vars>>

LiveSpec == LiveInit /\ [][LiveNext]_liveVars /\ ServerFairness /\ TabFairness

=============================================================================
