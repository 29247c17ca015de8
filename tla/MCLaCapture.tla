------------------------ MODULE MCLaCapture ------------------------
(* Two instances of LaCapture in one run.  "captures": one page     *)
(* with two connections, with everything the module has.            *)
(* "overlaps": one page with three connections and two captures, no *)
(* instant captures, failures or changed settings, where polls      *)
(* overlap and fetch twice with others served in between.           *)
EXTENDS LaCapture

VARIABLE part
mcVars == <<vars, part>>

Within ==
  /\ part = "captures" => \A t \in Tabs : Free(t, 3)
  /\ part = "overlaps" =>
       /\ Asked <= 2 /\ live = CHOOSE c \in Configs : TRUE
       /\ \A t \in Tabs, c \in Connections :
            request[t][c].kind # "instant" /\ request[t][c].stage # "failed"

MCNext == Next /\ UNCHANGED part /\ Within'

\* Handlers and answers stay within an instance; a timer asks for a connection of it.
MCFairness ==
  /\ \A t \in Tabs : SF_mcVars(PollTimer(t) /\ UNCHANGED part /\ Within')
  /\ \A t \in Tabs, c \in Connections :
       WF_mcVars(Serve(t, c) /\ UNCHANGED part) /\ WF_mcVars(Deliver(t, c) /\ UNCHANGED part)
  /\ WF_mcVars((InstantPoll \/ InstantRead) /\ UNCHANGED part)

\* The connection of a handler that is idle says nothing.
MCInit == Init /\ handler.conn = 1 /\ part \in {"captures", "overlaps"} /\ Within
MCSpec == MCInit /\ [][MCNext]_mcVars /\ MCFairness
=====================================================================
