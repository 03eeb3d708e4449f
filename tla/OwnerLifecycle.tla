--------------------------- MODULE OwnerLifecycle ---------------------------
(***************************************************************************)
(* What a session owner's life is, whoever uses it: it is issued, used,    *)
(* revoked once, cleaned only when its last user has left and can never    *)
(* come back, and then gone.  Several owners may move at once (one clock   *)
(* reading expires many), each by at most one of these steps.              *)
(***************************************************************************)
EXTENDS Integers

CONSTANT Owner

VARIABLES
    life,    \* unissued, live, revoked, cleaning or gone
    users    \* how many requests and native threads work for the owner

lvars == <<life, users>>

LInit == /\ life = [o \in Owner |-> "unissued"]
         /\ users = [o \in Owner |-> 0]

Turn(o, l, u) == life'[o] = l /\ users'[o] = u

Issues(o)   == life[o] = "unissued" /\ Turn(o, "live", 0)
Revokes(o)  == life[o] = "live" /\ Turn(o, IF users[o] = 0 THEN "cleaning" ELSE "revoked", users[o])
Vanishes(o) == life[o] = "cleaning" /\ users[o] = 0 /\ Turn(o, "gone", 0)

\* Only a live owner admits a request, which may bring a thread with it and may
\* revoke the owner it has just entered (session_close).
Enters(o) == /\ life[o] = "live"
             /\ \E n \in {1, 2}, l \in {"live", "revoked"} : Turn(o, l, users[o] + n)

\* A user may start another one even after the revocation, and its departure
\* starts the cleaning when it is the last.
Brings(o) == users[o] > 0 /\ life[o] \in {"live", "revoked"} /\ Turn(o, life[o], users[o] + 1)
Leaves(o) == /\ users[o] > 0 /\ life[o] \in {"live", "revoked"}
             /\ Turn(o, IF users[o] = 1 /\ life[o] = "revoked" THEN "cleaning" ELSE life[o],
                     users[o] - 1)

Rests(o) == Turn(o, life[o], users[o])

LNext == /\ DOMAIN life' = Owner /\ DOMAIN users' = Owner
         /\ \A o \in Owner : \/ Issues(o) \/ Revokes(o) \/ Vanishes(o) \/ Enters(o)
                             \/ Brings(o) \/ Leaves(o) \/ Rests(o)

LSpec == LInit /\ [][LNext]_lvars
=============================================================================
