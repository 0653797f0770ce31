-------------------------- MODULE SessionLifecycle --------------------------
(***************************************************************************)
(* What the README promises of a session, whatever threads carry it out:   *)
(* the first peer creates the session, later peers join the same one, it   *)
(* ends when its last peer leaves or when its router has gone, and it ends *)
(* as a whole. A peer belongs to one session in its life, and a session    *)
(* number is used once.                                                    *)
(***************************************************************************)
EXTENDS Naturals

CONSTANT Peer

VARIABLES
  current,   \* number of the session in service, 0 when there is none
  started,   \* how many sessions have been started
  members,   \* the peers of the session in service
  seen,      \* the peers that have been members of some session
  routerUp   \* the router of the session in service still runs

vars == <<current, started, members, seen, routerUp>>

Init ==
  /\ current = 0
  /\ started = 0
  /\ members = {}
  /\ seen = {}
  /\ routerUp = TRUE

\* The first peer creates the session.
Begin(p) ==
  /\ current = 0
  /\ p \notin seen
  /\ current' = started + 1
  /\ started' = started + 1
  /\ members' = {p}
  /\ seen' = seen \cup {p}
  /\ UNCHANGED routerUp

\* A later peer joins it.
Join(p) ==
  /\ current # 0
  /\ p \notin seen
  /\ members' = members \cup {p}
  /\ seen' = seen \cup {p}
  /\ UNCHANGED <<current, started, routerUp>>

\* A peer leaves and others stay.
Leave(p) ==
  /\ p \in members
  /\ members # {p}
  /\ members' = members \ {p}
  /\ UNCHANGED <<current, started, seen, routerUp>>

RouterStops ==
  /\ current # 0
  /\ routerUp
  /\ routerUp' = FALSE
  /\ UNCHANGED <<current, started, members, seen>>

\* The last peer leaves, or the router has gone: the whole session ends.
End ==
  /\ current # 0
  /\ ~routerUp \/ \E p \in Peer : members = {p}
  /\ current' = 0
  /\ members' = {}
  /\ routerUp' = TRUE
  /\ UNCHANGED <<started, seen>>

Next ==
  \/ \E p \in Peer : Begin(p) \/ Join(p) \/ Leave(p)
  \/ RouterStops
  \/ End

Spec == Init /\ [][Next]_vars
=============================================================================
