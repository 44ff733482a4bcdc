------------------------------ MODULE Geofence ------------------------------
(***************************************************************************)
(* The airspace (safety/airspace.py) and the steps the geofence            *)
(* (safety/geofence.py) makes of a target, on a grid.                      *)
(*                                                                         *)
(* West of x = 0 lies the corridor with the pads, which is the staging     *)
(* area, east of it the arena; the corridor is the narrower one and lies   *)
(* in the middle.  A step is two units long in each direction it has, and  *)
(* headings are rounded to the eight of the grid.  Targets lie in the      *)
(* airspace, so that the truncation at its borders never applies.          *)
(***************************************************************************)
EXTENDS Integers, FiniteSets

CONSTANTS Depth, East,  \* length of the corridor and of the arena
          Mouth, Side,  \* half of the width of the corridor and of the arena
          Margin        \* margin_m

ASSUME AirspaceAssumption ==
  /\ Depth \in Nat /\ East \in Nat
  /\ Mouth \in Nat /\ Side \in Nat /\ Margin \in 0..Mouth /\ Mouth <= Side

Abs(n) == IF n < 0 THEN -n ELSE n
Sign(n) == IF n < 0 THEN -1 ELSE IF n > 0 THEN 1 ELSE 0
Least(m, n) == IF m < n THEN m ELSE n

Plus(p, v) == <<p[1] + v[1], p[2] + v[2]>>
Minus(p, q) == <<p[1] - q[1], p[2] - q[2]>>
Square(v) == v[1] * v[1] + v[2] * v[2]

InStaging(p) == -Depth <= p[1] /\ p[1] <= 0 /\ Abs(p[2]) <= Mouth
InArena(p) == 0 <= p[1] /\ p[1] <= East /\ Abs(p[2]) <= Side
InAirspace(p) == InStaging(p) \/ InArena(p)

\* move_towards: the target itself when it is near
Toward(p, q) ==
  LET d == Minus(q, p)
      part(near, far) == IF Abs(far) > 2 * Abs(near) THEN 0
                         ELSE Sign(near) * Least(2, Abs(near))
  IN  <<part(d[1], d[2]), part(d[2], d[1])>>

Crosses(p, q) == (p[1] < 0) # (q[1] < 0)

\* y_cross exceeds y, for a line from p to q that crosses the interface; side 1
\* looks north, side -1 south
Beyond(p, q, y, side) ==
  LET d == Minus(q, p)
  IN  side * Sign(d[1]) * (p[2] * d[1] - p[1] * d[2]) > y * Abs(d[1])

Gate == Mouth - Margin

\* mutants of Portal: none, and one that every crossing goes through
MutPortalNone(p, q) == q
MutPortalAlways(p, q) == IF Crosses(p, q) THEN <<0, Sign(p[2]) * Gate>> ELSE q

\* the way between corridor and arena leads through the mouth
Portal(p, q) ==
  IF Crosses(p, q) /\ Beyond(p, q, Gate, 1)  THEN <<0, Gate>>
  ELSE IF Crosses(p, q) /\ Beyond(p, q, Gate, -1) THEN <<0, -Gate>>
  ELSE q

\* compute_effective_movement
EffectiveMove(p, q) == Toward(p, Portal(p, q))

\* the part k / 2 of a move, where that is a place on the grid
Part(v, k) == <<(v[1] * k) \div 2, (v[2] * k) \div 2>>
Halves(v) == v[1] % 2 = 0 /\ v[2] % 2 = 0

\* the whole move stays in the airspace, also between its ends
Contained(p, v) == /\ InAirspace(Plus(p, v))
                   /\ Halves(v) => InAirspace(Plus(p, Part(v, 1)))
=============================================================================
