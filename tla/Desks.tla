-------------------------------- MODULE Desks --------------------------------
(***************************************************************************)
(* Goroutines that serve requests of the HTTP server, as the modules of    *)
(* the desks (FrontOffice) and of the platform's plans (Subscriptions)     *)
(* share them.  A request is named for what it asks; it is taken by a      *)
(* goroutine that serves such requests, and goes on statement by           *)
(* statement, with its local variables in job.                             *)
(***************************************************************************)

CONSTANTS
  Clerks,    \* goroutines that serve requests
  Shifts,    \* the ways to divide the requests among them
  Faults     \* goroutine -> "crash", it dies; "failure", a statement or a mail fails,
             \* or is done and its reply lost

ASSUME DesksAssumption ==
  /\ Shifts \subseteq [Clerks -> SUBSET STRING]
  /\ Faults \in [Clerks -> SUBSET {"crash", "failure"}]

VARIABLES
  duties,    \* who serves what; never changes
  pc,        \* request -> the statement it is at
  job        \* request -> its local variables

Goto(w, step) == pc' = [pc EXCEPT ![w] = step]

\* The request goes on at a step with j for its locals.
Goes(w, step, j) ==
  /\ Goto(w, step)
  /\ job' = [job EXCEPT ![w] = j]

Takes(w, request) == pc[w] = "idle" /\ request \in duties[w]

\* One goroutine at a time serves requests of these kinds, and where it says so none
\* of those that do dies or meets a failure.  The code sees to neither.
OneAt(kinds) ==
  \A v, w \in Clerks : kinds \cap duties[v] # {} /\ kinds \cap duties[w] # {} => v = w
Spared(kinds) == \A w \in Clerks : kinds \cap duties[w] # {} => Faults[w] = {}
=============================================================================
