---------------------------- MODULE HealthStrip -----------------------------
(***************************************************************************)
(* The dashboard's HealthStrip (frontend/src/components/HealthStrip.tsx)   *)
(* polling GET /v1/health (backend/src/health/health.controller.ts).       *)
(*                                                                         *)
(* A poll is sent every five seconds whether or not the one before has     *)
(* been answered.  The controller awaits the database and then Redis, and  *)
(* the answers are applied in the order in which they arrive.              *)
(***************************************************************************)

CONSTANT Polls  \* the polls that can be under way at the same time

VARIABLES world,      \* which of the backend, its database and Redis is up
          mounted,    \* the effect is running
          poll,       \* per poll: where it stands, or what it has found out
          cancelled,  \* the polls of an effect that was cleaned up
          status      \* `status' with its `detail'

vars == <<world, mounted, poll, cancelled, status>>

Worlds == [backend : BOOLEAN, database : BOOLEAN, redis : BOOLEAN]

Init ==
  /\ world \in Worlds
  /\ mounted = FALSE
  /\ poll = [p \in Polls |-> "free"]
  /\ cancelled = {}
  /\ status = "checking"

\* Dependencies and the network come and go.
WorldChanges ==
  /\ \E w \in Worlds \ {world} : world' = w
  /\ UNCHANGED <<mounted, poll, cancelled, status>>

Send(p) ==
  /\ poll[p] = "free"
  /\ poll' = [poll EXCEPT ![p] = "sent"]
  /\ UNCHANGED <<world, cancelled, status>>

\* The effect: one poll at once.
Mount(p) ==
  /\ ~mounted
  /\ mounted' = TRUE
  /\ Send(p)

\* Mutant: the interval is not set.
Tick_Never(p) ==
  /\ FALSE
  /\ Send(p)
  /\ UNCHANGED mounted

\* setInterval.
Tick(p) ==
  /\ mounted
  /\ Send(p)
  /\ UNCHANGED mounted

\* The effect's cleanup.  Under StrictMode it runs again after that.
Unmount ==
  /\ mounted
  /\ mounted' = FALSE
  /\ cancelled' = {p \in Polls : poll[p] # "free"}
  /\ UNCHANGED <<world, poll, status>>

\* health(): SELECT 1, ...
CheckDatabase(p) ==
  /\ poll[p] = "sent"
  /\ world.backend
  /\ poll' = [poll EXCEPT ![p] = IF world.database THEN "up" ELSE "down"]
  /\ UNCHANGED <<world, mounted, cancelled, status>>

\* deriveStatus: a database that is down hides the state of Redis.
deriveStatus(database, redis) ==
  CASE database /\ redis -> "healthy"
    [] ~database -> "database unreachable"
    [] OTHER -> "redis unreachable"

\* ... and isReachable(); then the answer leaves.
CheckRedis(p) ==
  /\ poll[p] \in {"up", "down"}
  /\ world.backend
  /\ poll' = [poll EXCEPT ![p] = deriveStatus(@ = "up", world.redis)]
  /\ UNCHANGED <<world, mounted, cancelled, status>>

\* The backend or the way to it is gone: getHealth() will throw.
Lost(p) ==
  /\ poll[p] # "free"
  /\ ~world.backend
  /\ poll' = [poll EXCEPT ![p] = "unreachable"]
  /\ UNCHANGED <<world, mounted, cancelled, status>>

Answers == {"healthy", "database unreachable", "redis unreachable",
            "unreachable"}

\* The continuation of poll().
Apply(p) ==
  /\ poll[p] \in Answers
  /\ status' = IF p \in cancelled THEN status ELSE poll[p]
  /\ poll' = [poll EXCEPT ![p] = "free"]
  /\ cancelled' = cancelled \ {p}
  /\ UNCHANGED <<world, mounted>>

Progress(p) == CheckDatabase(p) \/ CheckRedis(p) \/ Lost(p) \/ Apply(p)

Next ==
  \/ WorldChanges
  \/ Unmount
  \/ \E p \in Polls : Mount(p) \/ Tick(p) \/ Progress(p)

\* The interval fires, and every poll is answered or fails: the pool gives up
\* on a database that does not answer and a Redis command fails rather than
\* queues; a browser's fetch is assumed to end.
Fairness == \A p \in Polls : WF_vars(Tick(p)) /\ WF_vars(Progress(p))

Spec == Init /\ [][Next]_vars /\ Fairness

-----------------------------------------------------------------------------
(* Properties.                                                             *)

\* What the strip should say of a world.
Truth(w) ==
  IF w.backend THEN deriveStatus(w.database, w.redis) ELSE "unreachable"

\* Once the world settles the strip says so and does not go back, although a
\* slow answer of an earlier poll may overtake a later one on the way.
StatusConverges ==
  \A w \in Worlds :
    <>[](mounted /\ world = w) => <>[](status = Truth(w))
=============================================================================
