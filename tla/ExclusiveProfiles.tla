--------------------------- MODULE ExclusiveProfiles ---------------------------
(***************************************************************************)
(* What the session managers of all the processes on a machine promise     *)
(* about a profile directory: it has one user at a time, a browser is      *)
(* started on it only by that user, and the user gives it up only once its *)
(* browser is gone or adrift, out of everybody's reach.  SessionManager    *)
(* implements this.                                                        *)
(***************************************************************************)
CONSTANTS
    Task, Profile, None,
    Target  \* the profile a call is about

VARIABLES
    holder,  \* the call that has the profile, None when it is free
    up,      \* the calls whose browser runs
    adrift   \* those of them that nobody will stop any more

vars == <<holder, up, adrift>>

Init ==
    /\ holder = [f \in Profile |-> None]
    /\ up = {} /\ adrift = {}

Take(f, t) ==
    /\ holder[f] = None
    /\ holder' = [holder EXCEPT ![f] = t]
    /\ UNCHANGED <<up, adrift>>

BrowserUp(t) ==
    /\ holder[Target[t]] = t /\ t \notin up
    /\ up' = up \cup {t}
    /\ UNCHANGED <<holder, adrift>>

\* A browser goes down, adrift or not.
BrowserDown(t) ==
    /\ t \in up
    /\ up' = up \ {t} /\ adrift' = adrift \ {t}
    /\ UNCHANGED holder

\* A browser is lost, and its user keeps the profile for a while.
Drift(t) ==
    /\ t \in up
    /\ adrift' = adrift \cup {t}
    /\ UNCHANGED <<holder, up>>

\* The user gives the profile up, with its browser gone or lost at the latest now.
GiveUp(f) ==
    LET t == holder[f] IN
    /\ t # None
    /\ holder' = [holder EXCEPT ![f] = None]
    /\ \/ up' = up \ {t} /\ UNCHANGED adrift
       \/ up' = up /\ adrift' = adrift \cup (up \cap {t})

\* A process dies and leaves the browsers of all its profiles.
Die(F) ==
    /\ holder' = [f \in Profile |-> IF f \in F THEN None ELSE holder[f]]
    /\ adrift' = adrift \cup {t \in up : Target[t] \in F /\ holder[Target[t]] = t}
    /\ UNCHANGED up

Next ==
    \/ \E f \in Profile, t \in Task : Take(f, t)
    \/ \E t \in Task : BrowserUp(t) \/ BrowserDown(t) \/ Drift(t)
    \/ \E f \in Profile : GiveUp(f)
    \/ \E F \in SUBSET Profile : Die(F)

Spec == Init /\ [][Next]_vars
=============================================================================
