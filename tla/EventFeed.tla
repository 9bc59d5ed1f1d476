----------------------------- MODULE EventFeed -----------------------------
(***************************************************************************)
(* What the push channel promises one window, whatever connections,        *)
(* buffers and reconnects it takes: while the window counts as current it  *)
(* holds every event of the workspace it shows up to the newest it was     *)
(* handed, and it becomes current in one way only, by fetching the state   *)
(* of the workspace it shows.                                              *)
(***************************************************************************)
EXTENDS Naturals, Sequences

CONSTANT Workspaces

VARIABLES
  log,     \* the workspace each event was pushed to, oldest first
  shown,   \* the workspace the window shows
  view,    \* the events of that workspace the window's state reflects
  current  \* whether the window takes its state to be up to date

feedVars == <<log, shown, view, current>>

Due == {e \in DOMAIN log : log[e] = shown}

Init ==
  /\ log = <<>>
  /\ shown \in Workspaces
  /\ view = {}
  /\ current = FALSE

Publish ==
  /\ \E w \in Workspaces : log' = Append(log, w)
  /\ UNCHANGED <<shown, view, current>>

\* A current window is handed no event before the events due ahead of it; one it has may come again.
Deliver ==
  \E e \in Due :
    /\ current => {d \in Due : d < e} \subseteq view
    /\ view' = view \union {e}
    /\ UNCHANGED <<log, shown, current>>

\* The window learns that it may have missed events, and may learn of some.
Drift ==
  /\ view \subseteq view' /\ view' \subseteq Due
  /\ current' = FALSE
  /\ UNCHANGED <<log, shown>>

Refresh ==
  /\ view' = Due
  /\ current' = TRUE
  /\ UNCHANGED <<log, shown>>

Switch ==
  /\ shown' \in Workspaces
  /\ view' = {}
  /\ current' = FALSE
  /\ UNCHANGED log

Next == Publish \/ Deliver \/ Drift \/ Refresh \/ Switch

Spec == Init /\ [][Next]_feedVars
=============================================================================
