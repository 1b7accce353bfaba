----------------------------- MODULE SessionLife -----------------------------
(***************************************************************************)
(* What the authentication of an account promises: a session begins with a *)
(* login to an account that is not suspended, ends once, and is over then. *)
(* Only an exposed account breaks the promise, for one session each time   *)
(* it is exposed, until all its sessions are ended together.               *)
(* How a session is carried on by rotating its refresh token is hidden.    *)
(***************************************************************************)
CONSTANTS Users, Seconds   \* a session is named by its user and login second

VARIABLES suspended, session, exposed

vars == <<suspended, session, exposed>>

Init ==
  /\ suspended = {}
  /\ session = [u \in Users |-> [s \in Seconds |-> "none"]]
  /\ exposed = {}

Begin(u, s) ==
  /\ u \notin suspended
  /\ session[u][s] = "none"
  /\ session' = [session EXCEPT ![u][s] = "live"]
  /\ UNCHANGED <<suspended, exposed>>

\* One session ends.
End(u, s) ==
  /\ session[u][s] = "live"
  /\ session' = [session EXCEPT ![u][s] = "ended"]
  /\ UNCHANGED <<suspended, exposed>>

\* All sessions of one user end.
EndAll(u) ==
  /\ session' = [session EXCEPT
       ![u] = [s \in Seconds |-> IF @[s] = "live" THEN "ended" ELSE @[s]]]
  /\ exposed' = exposed \ {u}
  /\ UNCHANGED suspended

\* One session lives on, or begins, although it may not.
Expose(u, s) ==
  /\ session' = [session EXCEPT ![u][s] = "live"]
  /\ exposed' = exposed \cup {u}
  /\ UNCHANGED suspended

ChangeStatus(u) ==
  /\ suspended' \in {suspended \cup {u}, suspended \ {u}}
  /\ UNCHANGED <<session, exposed>>

Next ==
  \E u \in Users :
    \/ \E s \in Seconds : Begin(u, s) \/ End(u, s) \/ Expose(u, s)
    \/ EndAll(u)
    \/ ChangeStatus(u)

Spec == Init /\ [][Next]_vars
=============================================================================
