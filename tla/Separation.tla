----------------------------- MODULE Separation -----------------------------
(***************************************************************************)
(* The physical step of a tick under the separation rules                  *)
(* (safety/separation.py), which takes its nominal moves from the          *)
(* geofence.  The rest of the tick, which gives vehicles their targets,    *)
(* fails, recalls and lands them, happens at any time between two steps.   *)
(*                                                                         *)
(* A vehicle is given all of its move, half of it or nothing, which is     *)
(* what the bisection for the largest safe part finds on this grid, or a   *)
(* detour 45 or 90 degrees off.  Distances are compared as squares.  The   *)
(* runner passes no flight phases, so moves are not checked against them.  *)
(***************************************************************************)
EXTENDS Geofence

CONSTANTS UAVs, None,
          Pad,        \* where a vehicle starts
          Home,       \* gcs_position
          Sites,      \* tasks and relay stations
          MinSep,     \* min_separation_m
          MaxEvents   \* bound on targets given, recalls and failures

ASSUME FleetAssumption ==
  /\ UAVs \subseteq Nat /\ IsFiniteSet(UAVs) /\ None \notin UAVs
  /\ \A u \in UAVs : InStaging(Pad[u])
  /\ InStaging(Home) /\ \A s \in Sites : InAirspace(s)
  /\ Pad \in [UAVs -> Int \X Int] /\ Home \in Int \X Int /\ Sites \subseteq Int \X Int
  /\ MinSep \in Nat /\ MaxEvents \in Nat

VARIABLES at,      \* position_xy
          target,  \* target_position
          mode,    \* what the vehicle does
          events   \* so far

vars == <<at, target, mode, events>>

-----------------------------------------------------------------------------
(* Who moves, and in which order *)

\* is_landed_at_gcs
Exempt(u) == InStaging(at[u]) /\ (mode[u] \in {"failed", "landed"} \/ target[u] = None)

Airborne == {u \in UAVs : ~Exempt(u)}
Moving == {u \in Airborne : mode[u] \notin {"failed", "landed"} /\ target[u] # None}

Tier(u) == CASE mode[u] = "task" /\ at[u] = target[u] -> 0
             [] mode[u] = "task" /\ at[u] # target[u] -> 1
             [] mode[u] = "rth"                       -> 2
             [] OTHER                                 -> 3

\* a vehicle on its way home is measured from the ground station
Remaining(u) == Square(Minus(IF mode[u] = "rth" THEN Home ELSE target[u], at[u]))

\* get_priority_key
Before(u, w) == \/ Tier(u) < Tier(w)
                \/ Tier(u) = Tier(w) /\ Remaining(u) < Remaining(w)
                \/ Tier(u) = Tier(w) /\ Remaining(u) = Remaining(w) /\ u < w

-----------------------------------------------------------------------------
(* Separation *)

\* min_continuous_separation: of two vehicles r apart that fly v relative to
\* each other, the least squared distance during a step is below `square`
Nears(r, v, square) ==
  LET a == Square(v)
      b == 2 * (r[1] * v[1] + r[2] * v[2])
      c == Square(r)
  IN  \/ c < square
      \/ a + b + c < square
      \/ 0 < -b /\ -b < 2 * a /\ 4 * a * c - b * b < 4 * a * square

\* vehicles that are too close already may not come closer
Threshold(r) == Least(Square(r), MinSep * MinSep)

\* mutant of Others: vehicles that have not got their move yet do not count
MutOthers(u, moves) == {w \in Airborne \ {u} : w \notin Moving \/ moves[w] # <<0, 0>>}

Others(u, moves) == Airborne \ {u}

\* eval_vel_safe, against approved moves, obstacles and vehicles still to move
Safe(u, v, moves) ==
  \A w \in Others(u, moves) : LET r == Minus(at[u], at[w])
                              IN  ~Nears(r, Minus(v, moves[w]), Threshold(r))

\* find_best_alpha, in halves
Share(u, v, moves) == IF Safe(u, v, moves) THEN 2
                      ELSE IF Halves(v) /\ Safe(u, Part(v, 1), moves) THEN 1 ELSE 0

\* the detours in their order, with 20 times the cosine that measures their
\* progress, at least 1
Clip(n, v) == Sign(n) * Least(Abs(n), IF Abs(v[1]) > Abs(v[2]) THEN Abs(v[1]) ELSE Abs(v[2]))
Detours(v) == << [move |-> <<Clip(v[1] - v[2], v), Clip(v[1] + v[2], v)>>, weight |-> 14],
                 [move |-> <<Clip(v[1] + v[2], v), Clip(v[2] - v[1], v)>>, weight |-> 14],
                 [move |-> <<-v[2], v[1]>>, weight |-> 1],
                 [move |-> <<v[2], -v[1]>>, weight |-> 1] >>

BestDetour(u, v, moves) ==
  LET progress == [i \in 1..4 |-> Detours(v)[i].weight * Share(u, Detours(v)[i].move, moves)]
      best == CHOOSE i \in 1..4 : \A j \in 1..4 : \/ progress[i] > progress[j]
                                                  \/ progress[i] = progress[j] /\ i <= j
  IN  Part(Detours(v)[best].move, Share(u, Detours(v)[best].move, moves))

Nominal(u) == EffectiveMove(at[u], target[u])

Approved(u, moves) ==
  LET v == Nominal(u)
      share == Share(u, v, moves)
  IN  IF share > 0 THEN Part(v, share) ELSE BestDetour(u, v, moves)

\* enforce_step: the moves when the vehicles of `turns` have had their turn
LastOf(turns) == CHOOSE u \in turns : \A w \in turns \ {u} : Before(w, u)

MovesAfter[turns \in SUBSET Moving] ==
  IF turns = {} THEN [u \in UAVs |-> <<0, 0>>]
  ELSE LET u == LastOf(turns)
           moves == MovesAfter[turns \ {u}]
       IN  [moves EXCEPT ![u] = Approved(u, moves)]

Moves == MovesAfter[Moving]

Fly == /\ \E moves \in {Moves} : at' = [u \in UAVs |-> Plus(at[u], moves[u])]
       /\ UNCHANGED <<target, mode, events>>

-----------------------------------------------------------------------------
(* What the rest of the tick does to a vehicle *)

Become(u, m, p) == /\ mode' = [mode EXCEPT ![u] = m]
                   /\ target' = [target EXCEPT ![u] = p]

Event == events < MaxEvents /\ events' = events + 1 /\ UNCHANGED at

\* a task, or a relay station
Send(u, site) == /\ mode[u] = "idle" /\ Event
                 /\ \E m \in {"idle", "task"} : Become(u, m, site)

\* every vehicle returns on a lane of its own
Recall(u) == mode[u] \in {"idle", "task"} /\ Event /\ Become(u, "rth", Pad[u])

\* the record of a lost vehicle keeps the target only if it had no task
Fail(u) == /\ mode[u] \in {"idle", "task", "rth"} /\ Event
           /\ Become(u, "failed", IF mode[u] = "task" THEN None ELSE target[u])

Finish(u) == /\ mode[u] = "task" /\ at[u] = target[u]
             /\ Become(u, "idle", None) /\ UNCHANGED <<at, events>>

Land(u) == /\ mode[u] = "rth" /\ at[u] = Pad[u]
           /\ Become(u, "landed", None) /\ UNCHANGED <<at, events>>

Ready(u) == /\ mode[u] = "landed"
            /\ Become(u, "idle", None) /\ UNCHANGED <<at, events>>

SeparationInit == /\ at = Pad
                  /\ target = [u \in UAVs |-> None]
                  /\ mode = [u \in UAVs |-> "idle"]
                  /\ events = 0

SeparationNext ==
  \/ Fly
  \/ \E u \in UAVs : \/ Recall(u) \/ Fail(u) \/ Finish(u) \/ Land(u) \/ Ready(u)
                     \/ \E site \in Sites : Send(u, site)

SeparationSpec == SeparationInit /\ [][SeparationNext]_vars

-----------------------------------------------------------------------------
(* Properties *)

\* At no moment of a step (an eighth of it apart), and not only at its ends,
\* two airborne vehicles are nearer than MinSep, or than they were before:
\* though moves are approved one by one, against vehicles that stand still until
\* it is their turn, none is approved that leaves a later one without a safe
\* move.  (separation.py, docs/SEPARATION_ENFORCEMENT_V1.md)
Apart(k, u, w) == LET r == Minus(at[u], at[w])
                      v == Minus(at'[u], at'[w])
                  IN  <<(8 - k) * r[1] + k * v[1], (8 - k) * r[2] + k * v[2]>>

KeepsDistance ==
  [][\A u \in Airborne : \A w \in Airborne \ {u} : \A k \in 0..8 :
       at' # at => Square(Apart(k, u, w)) >=
                     64 * Least(Square(Minus(at[u], at[w])), MinSep * MinSep)]_vars

\* Of the moves the geofence makes none leads out of the airspace, not even
\* across the corners between corridor and arena, whatever part of them the
\* separation rules leave: a vehicle leaves on a detour only.
IsDetour(u, v) == \A k \in 0..2 : v # Part(Nominal(u), k)

OnlyDetoursLeave ==
  [][\A u \in Moving : LET v == Minus(at'[u], at[u]) IN
       InAirspace(at[u]) /\ ~Contained(at[u], v) => IsDetour(u, v)]_vars

\* Steering through the mouth is no detour without end: from wherever the
\* separation rules have put a vehicle it comes to its target when left alone.
SteeringArrives ==
  LET reach[p \in Int \X Int, q \in Int \X Int, k \in Nat] ==
        p = q \/ (k > 0 /\ reach[Plus(p, EffectiveMove(p, q)), q, k - 1])
  IN  \A u \in UAVs : target[u] # None =>
        reach[at[u], target[u], 2 * (Depth + East + Side)]

\* docs/GEOFENCE_ENFORCEMENT_V1.md: "separation enforcement cannot invalidate
\* geofence containment": nobody is beyond the borders of the arena.
DetoursStayInside == \A u \in UAVs : at[u][1] > 0 => InArena(at[u])
=============================================================================
