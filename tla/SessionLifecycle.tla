-------------------------- MODULE SessionLifecycle --------------------------
(***************************************************************************)
(* What the auth feature promises of a login session, whatever the         *)
(* interleaving of requests: a session is opened once with a refresh token *)
(* nobody held before, at any time it has a single current token, a        *)
(* rotation replaces that token by another unheard-of one, and a session   *)
(* that was closed never opens again.                                      *)
(***************************************************************************)
CONSTANTS Sessions, Tokens, Unopened, Closed

VARIABLES
  current,   \* the current token of each session, or Unopened, or Closed
  known      \* the tokens handed out so far

Init == current = [s \in Sessions |-> Unopened] /\ known = {}

\* A token nobody held before.
Issue(t) == t \notin known /\ known' = known \cup {t}

Open(s, t) ==
  /\ Issue(t)
  /\ current[s] = Unopened /\ current' = [current EXCEPT ![s] = t]

Rotate(s, t) ==
  /\ Issue(t)
  /\ current[s] \in Tokens /\ current' = [current EXCEPT ![s] = t]

\* One statement may close several sessions: a password reset closes them all.
Close(S) ==
  /\ known' = known
  /\ \A s \in S : current[s] \in Tokens
  /\ current' = [s \in Sessions |-> IF s \in S THEN Closed ELSE current[s]]

Next ==
  \/ \E S \in SUBSET Sessions : Close(S)
  \/ \E s \in Sessions, t \in Tokens : Open(s, t) \/ Rotate(s, t)

Spec == Init /\ [][Next]_<<current, known>>

=============================================================================
