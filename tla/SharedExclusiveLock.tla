------------------------ MODULE SharedExclusiveLock ------------------------
(***************************************************************************)
(* What the SeaweedFS lock promises its users, whatever the waiting inside *)
(* looks like: any number of workers may be in at once, or else one        *)
(* maintenance alone; and once a maintenance has asked, nobody else enters *)
(* before it has run or given up.  The promise holds among the clients the *)
(* lock knows; it may forget all of them at once.                          *)
(***************************************************************************)
EXTENDS FiniteSets

CONSTANTS Workers, Maintainers

VARIABLES inside,   \* workers that hold the shared lock
          asking,   \* maintenances that wait for their turn
          running   \* the maintenance that holds the lock alone, if any

Init == inside = {} /\ asking = {} /\ running = {}

Enter(w) ==
  /\ w \notin inside
  /\ asking = {} /\ running = {}
  /\ inside' = inside \cup {w}
  /\ UNCHANGED <<asking, running>>

Exit(w) ==
  /\ inside' = inside \ {w}
  /\ UNCHANGED <<asking, running>>

Ask(m) ==
  /\ m \notin asking \cup running
  /\ asking' = asking \cup {m}
  /\ UNCHANGED <<inside, running>>

GiveUp(m) ==
  /\ asking' = asking \ {m}
  /\ UNCHANGED <<inside, running>>

\* With nobody in the way a maintenance starts as soon as it asks.
Run(m) ==
  /\ inside = {} /\ running = {}
  /\ asking' = asking \ {m}
  /\ running' = {m}
  /\ UNCHANGED inside

Finish(m) ==
  /\ running' = running \ {m}
  /\ UNCHANGED <<inside, asking>>

Forget == inside' = {} /\ asking' = {} /\ running' = {}

Next ==
  \/ \E w \in Workers : Enter(w) \/ Exit(w)
  \/ \E m \in Maintainers : Ask(m) \/ GiveUp(m) \/ Run(m) \/ Finish(m)
  \/ Forget

Spec == Init /\ [][Next]_<<inside, asking, running>>

\* A maintenance has the store to itself.
Exclusive == running # {} => inside = {}

\* Maintenances never overlap.
OneMaintenance == \A m, n \in running : m = n
============================================================================
