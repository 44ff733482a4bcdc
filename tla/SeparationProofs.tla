-------------------------- MODULE SeparationProofs --------------------------
(***************************************************************************)
(* Proofs about the separation rules and the geofence, for any fleet in    *)
(* any airspace.                                                           *)
(*                                                                         *)
(* Vehicles get their moves one by one.  What makes this safe is that each *)
(* move is checked against all other vehicles, the ones still to move as   *)
(* standing still: the moves approved so far, with those of the others     *)
(* zero, keep every pair apart (AllSafe), so that to stand still is safe   *)
(* for whoever is next, and no vehicle gets a second turn.                 *)
(*                                                                         *)
(* What keeps the vehicles inside is the geometry of the steering: a step  *)
(* toward a point of the arena, of the corridor or of its mouth, rounded   *)
(* as it is, does not leave the airspace, whatever its dimensions.         *)
(***************************************************************************)
EXTENDS Separation, LeastNumbers

Vectors == Int \X Int

Zero == <<0, 0>>

\* The types of the grid.
Placed == /\ at \in [UAVs -> Vectors]
          /\ target \in [UAVs -> Vectors \union {None}]

(***************************************************************************)
(* Arithmetic of two vehicles, r apart, that fly v relative to each other. *)
(***************************************************************************)

LEMMA VectorsClosed ==
  ASSUME NEW p \in Vectors, NEW q \in Vectors
  PROVE  /\ Plus(p, q) \in Vectors /\ Minus(p, q) \in Vectors
         /\ Square(p) \in Nat
<1>1. p[1] \in Int /\ p[2] \in Int /\ q[1] \in Int /\ q[2] \in Int
  BY DEF Vectors
<1>2. \A i \in Int : i * i \in Nat
  OBVIOUS
<1> QED
  BY <1>1, <1>2 DEF Vectors, Plus, Minus, Square

LEMMA StandingIsSafe ==
  ASSUME NEW r \in Vectors
  PROVE  ~Nears(r, Zero, Threshold(r))
<1>1. r[1] \in Int /\ r[2] \in Int /\ Square(r) \in Nat
  BY VectorsClosed DEF Vectors
<1>2. MinSep * MinSep \in Nat
  BY FleetAssumption
<1>3. Threshold(r) \in Nat /\ Threshold(r) <= Square(r)
  BY <1>1, <1>2 DEF Threshold, Least
<1>4. /\ Square(Zero) = 0
      /\ 2 * (r[1] * 0 + r[2] * 0) = 0
  BY <1>1 DEF Square, Zero
<1> QED
  BY <1>1, <1>3, <1>4 DEF Nears, Zero

LEMMA NearsBothWays ==
  ASSUME NEW p \in Vectors, NEW q \in Vectors,
         NEW v \in Vectors, NEW w \in Vectors, NEW square \in Int
  PROVE  /\ Nears(Minus(p, q), Minus(v, w), square)
            <=> Nears(Minus(q, p), Minus(w, v), square)
         /\ Threshold(Minus(p, q)) = Threshold(Minus(q, p))
<1>1. /\ p[1] \in Int /\ p[2] \in Int /\ q[1] \in Int /\ q[2] \in Int
      /\ v[1] \in Int /\ v[2] \in Int /\ w[1] \in Int /\ w[2] \in Int
  BY DEF Vectors
<1>2. \A i, j, k, l \in Int : (i - j) * (k - l) = (j - i) * (l - k)
  OBVIOUS
<1>3. /\ Square(Minus(p, q)) = Square(Minus(q, p))
      /\ Square(Minus(v, w)) = Square(Minus(w, v))
  BY <1>1, <1>2 DEF Square, Minus
<1>4. /\ Minus(p, q)[1] * Minus(v, w)[1] = Minus(q, p)[1] * Minus(w, v)[1]
      /\ Minus(p, q)[2] * Minus(v, w)[2] = Minus(q, p)[2] * Minus(w, v)[2]
  BY <1>1, <1>2 DEF Minus
<1> QED
  BY <1>3, <1>4 DEF Nears, Threshold

\* The quadratic a t^2 + b t + c stays above T between 0 and 1, at every t = k/8,
\* if it does at both ends and at its least, where that lies between them.
LEMMA QuadraticBounded ==
  ASSUME NEW a \in Nat, NEW b \in Int, NEW c \in Int, NEW T \in Int,
         T <= c, T <= a + b + c,
         ~(0 < -b /\ -b < 2 * a /\ 4 * a * c - b * b < 4 * a * T),
         NEW k \in 0..8
  PROVE  64 * T <= 64 * c + 8 * k * b + k * k * a
<1> DEFINE Q == 64 * c + 8 * k * b + k * k * a
<1>1. CASE b >= 0
  <2>1. k * b >= 0 /\ k * k * a >= 0
    BY <1>1
  <2> QED
    BY <2>1
<1>2. CASE 2 * a <= -b
  <2>1. (64 - 8 * k) * (-b) >= (64 - 8 * k) * (2 * a)
    BY <1>2
  <2>2. Q = 64 * (a + b + c) + (64 - 8 * k) * (-b) - (64 - k * k) * a
    OBVIOUS
  <2>3. (64 - 8 * k) * (2 * a) - (64 - k * k) * a = (8 - k) * (8 - k) * a
    OBVIOUS
  <2>4. (8 - k) * (8 - k) * a >= 0
    <3>1. 8 - k \in Nat
      OBVIOUS
    <3> QED
      BY <3>1
  <2> QED
    BY <2>1, <2>2, <2>3, <2>4
<1>3. CASE 0 < -b /\ -b < 2 * a
  <2>1. a > 0 /\ 4 * a * T <= 4 * a * c - b * b
    BY <1>3
  <2>2. 4 * a * Q = 64 * (4 * a * c - b * b) + (2 * k * a + 8 * b) * (2 * k * a + 8 * b)
    OBVIOUS
  <2>3. \A i \in Int : i * i >= 0
    OBVIOUS
  <2>4. (2 * k * a + 8 * b) * (2 * k * a + 8 * b) >= 0
    <3>1. 2 * k * a + 8 * b \in Int
      OBVIOUS
    <3> QED
      BY <2>3, <3>1
  <2>5. 4 * a * Q >= 4 * a * (64 * T)
    BY <2>1, <2>2, <2>4
  <2>6. \A i, j \in Int : 4 * a * i >= 4 * a * j => i >= j
    BY <2>1
  <2> QED
    BY <2>5, <2>6
<1> QED
  BY <1>1, <1>2, <1>3

LEMMA SquareOnTheWay ==
  ASSUME NEW k \in 0..8, NEW i \in Int, NEW j \in Int, NEW m \in Int, NEW n \in Int
  PROVE  ((8 - k) * i + k * (i + j)) * ((8 - k) * i + k * (i + j))
         + ((8 - k) * m + k * (m + n)) * ((8 - k) * m + k * (m + n))
         = 64 * (i * i + m * m) + 8 * k * (2 * (i * j + m * n)) + k * k * (j * j + n * n)
OBVIOUS

\* What the test of a pair by its quadratic means for where the two are.
LEMMA NotNearIsApart ==
  ASSUME NEW r \in Vectors, NEW v \in Vectors, NEW T \in Int, ~Nears(r, v, T),
         NEW s, s = Plus(r, v), NEW k \in 0..8
  PROVE  64 * T <= Square(<<(8 - k) * r[1] + k * s[1], (8 - k) * r[2] + k * s[2]>>)
<1>1. PICK i \in Int, m \in Int : r = <<i, m>>
  BY DEF Vectors
<1>2. PICK j \in Int, n \in Int : v = <<j, n>>
  BY DEF Vectors
<1> DEFINE a == j * j + n * n
           b == 2 * (i * j + m * n)
           c == i * i + m * m
<1>3. a \in Nat /\ b \in Int /\ c \in Int
  <2>1. \A x \in Int : x * x \in Nat
    OBVIOUS
  <2>2. j * j \in Nat /\ n * n \in Nat
    BY <2>1
  <2> QED
    BY <2>2
<1>4. Square(v) = a /\ Square(r) = c /\ 2 * (r[1] * v[1] + r[2] * v[2]) = b
  BY <1>1, <1>2 DEF Square
<1>5. /\ T <= c /\ T <= a + b + c
      /\ ~(0 < -b /\ -b < 2 * a /\ 4 * a * c - b * b < 4 * a * T)
  <2> HIDE DEF a, b, c
  <2> QED
    BY <1>3, <1>4 DEF Nears
<1>6. 64 * T <= 64 * c + 8 * k * b + k * k * a
  <2> HIDE DEF a, b, c
  <2> QED
    BY <1>3, <1>5, QuadraticBounded
<1> DEFINE x == (8 - k) * i + k * (i + j)
           y == (8 - k) * m + k * (m + n)
<1>7. x * x + y * y = 64 * c + 8 * k * b + k * k * a
  BY SquareOnTheWay
<1>8. Square(<<(8 - k) * r[1] + k * s[1], (8 - k) * r[2] + k * s[2]>>) = x * x + y * y
  BY <1>1, <1>2 DEF Square, Plus
<1> QED
  BY <1>6, <1>7, <1>8

(***************************************************************************)
(* One turn: a vehicle is given a move that is safe.                       *)
(***************************************************************************)

\* The moves give every two airborne vehicles room.
AllSafe(moves) == \A u \in Airborne : Safe(u, moves[u], moves)

LEMMA TypesOfPlaces ==
  ASSUME Placed, NEW u \in UAVs, NEW w \in UAVs
  PROVE  /\ at[u] \in Vectors /\ Minus(at[u], at[w]) \in Vectors
         /\ Threshold(Minus(at[u], at[w])) \in Int
<1>1. at[u] \in Vectors /\ at[w] \in Vectors
  BY DEF Placed
<1>2. Minus(at[u], at[w]) \in Vectors /\ Square(Minus(at[u], at[w])) \in Nat
  BY <1>1, VectorsClosed
<1> QED
  BY <1>1, <1>2, FleetAssumption DEF Threshold, Least

LEMMA PartsAreVectors ==
  ASSUME NEW v \in Vectors
  PROVE  /\ \A k \in 0..2 : Part(v, k) \in Vectors
         /\ Part(v, 0) = Zero /\ Part(v, 2) = v
<1>1. v[1] \in Int /\ v[2] \in Int /\ v = <<v[1], v[2]>>
  BY DEF Vectors
<1>2. \A i \in Int : \A k \in 0..2 : (i * k) \div 2 \in Int
  OBVIOUS
<1>3. \A i \in Int : (i * 0) \div 2 = 0 /\ (i * 2) \div 2 = i
  OBVIOUS
<1> QED
  BY <1>1, <1>2, <1>3 DEF Part, Vectors, Zero

\* Of a move the share is taken that is safe, and to stand is.
LEMMA ShareIsSafe ==
  ASSUME NEW u, NEW moves, NEW v \in Vectors
  PROVE  /\ Share(u, v, moves) \in 0..2
         /\ Safe(u, Zero, moves) => Safe(u, Part(v, Share(u, v, moves)), moves)
         /\ Part(v, Share(u, v, moves)) \in Vectors
<1>1. Share(u, v, moves) \in 0..2
  BY DEF Share
<1>2. /\ Share(u, v, moves) = 2 => Safe(u, v, moves)
      /\ Share(u, v, moves) = 1 => Safe(u, Part(v, 1), moves)
  BY DEF Share
<1> QED
  BY <1>1, <1>2, PartsAreVectors

LEMMA DetoursAreVectors ==
  ASSUME NEW v \in Vectors, NEW i \in 1..4
  PROVE  Detours(v)[i].move \in Vectors /\ Detours(v)[i].weight \in Nat
<1>1. v[1] \in Int /\ v[2] \in Int
  BY DEF Vectors
<1>2. \A n \in Int : Clip(n, v) \in Int
  <2>1. \A n \in Int : Abs(n) \in Int /\ Sign(n) \in {-1, 0, 1}
    BY DEF Abs, Sign
  <2>2. \A n \in Int : Least(Abs(n), IF Abs(v[1]) > Abs(v[2]) THEN Abs(v[1]) ELSE Abs(v[2])) \in Int
    BY <1>1, <2>1 DEF Least
  <2>3. \A s \in {-1, 0, 1} : \A m \in Int : s * m \in Int
    OBVIOUS
  <2> QED
    BY <2>1, <2>2, <2>3 DEF Clip
<1>3. /\ Clip(v[1] - v[2], v) \in Int /\ Clip(v[1] + v[2], v) \in Int
      /\ Clip(v[2] - v[1], v) \in Int
  BY <1>1, <1>2
<1>4. i = 1 \/ i = 2 \/ i = 3 \/ i = 4
  OBVIOUS
<1> QED
  BY <1>1, <1>3, <1>4 DEF Detours, Vectors

LEMMA BestDetourIsSafe ==
  ASSUME NEW u, NEW moves, NEW v \in Vectors
  PROVE  /\ BestDetour(u, v, moves) \in Vectors
         /\ Safe(u, Zero, moves) => Safe(u, BestDetour(u, v, moves), moves)
<1> DEFINE share(i) == Share(u, Detours(v)[i].move, moves)
           progress == [i \in 1..4 |-> Detours(v)[i].weight * share(i)]
           Best(i) == \A j \in 1..4 : \/ progress[i] > progress[j]
                                      \/ progress[i] = progress[j] /\ i <= j
           best == CHOOSE i \in 1..4 : Best(i)
<1>1. \A i \in 1..4 : progress[i] \in Nat
  <2>1. \A i \in 1..4 : Detours(v)[i].weight \in Nat /\ share(i) \in 0..2
    BY DetoursAreVectors, ShareIsSafe
  <2>2. \A m \in Nat : \A n \in 0..2 : m * n \in Nat
    OBVIOUS
  <2> HIDE DEF share
  <2> QED
    BY <2>1, <2>2
<1>2. \E i \in 1..4 : Best(i)
  <2> HIDE DEF progress
  <2> QED
    BY <1>1
<1>3. best \in 1..4
  <2> HIDE DEF Best
  <2> QED
    BY <1>2
<1>4. BestDetour(u, v, moves) = Part(Detours(v)[best].move, share(best))
  BY DEF BestDetour
<1> HIDE DEF best
<1> QED
  BY <1>3, <1>4, DetoursAreVectors, ShareIsSafe

LEMMA NominalIsVector ==
  ASSUME Placed, NEW u \in Moving
  PROVE  Nominal(u) \in Vectors
<1>1. at[u] \in Vectors /\ target[u] \in Vectors
  BY DEF Placed, Moving, Airborne
<1>2. \A p, q \in Vectors : Portal(p, q) \in Vectors
  BY AirspaceAssumption DEF Portal, Gate, Vectors
<1>3. \A p, q \in Vectors : Toward(p, q) \in Vectors
  <2> SUFFICES ASSUME NEW p \in Vectors, NEW q \in Vectors PROVE Toward(p, q) \in Vectors
    OBVIOUS
  <2>1. p[1] \in Int /\ p[2] \in Int /\ q[1] \in Int /\ q[2] \in Int
    BY DEF Vectors
  <2>2. \A n \in Int : Sign(n) * Least(2, Abs(n)) \in Int
    BY DEF Sign, Least, Abs
  <2> QED
    BY <2>1, <2>2 DEF Toward, Minus, Vectors
<1> QED
  BY <1>1, <1>2, <1>3 DEF Nominal, EffectiveMove

LEMMA ApprovedIsSafe ==
  ASSUME Placed, NEW u \in Moving, NEW moves
  PROVE  /\ Approved(u, moves) \in Vectors
         /\ Safe(u, Zero, moves) => Safe(u, Approved(u, moves), moves)
<1>1. Nominal(u) \in Vectors
  BY NominalIsVector
<1> QED
  BY <1>1, ShareIsSafe, BestDetourIsSafe DEF Approved

LEMMA TurnKeepsRoom ==
  ASSUME Placed, NEW moves \in [UAVs -> Vectors], AllSafe(moves),
         NEW u \in Moving, moves[u] = Zero
  PROVE  /\ [moves EXCEPT ![u] = Approved(u, moves)] \in [UAVs -> Vectors]
         /\ AllSafe([moves EXCEPT ![u] = Approved(u, moves)])
<1> DEFINE v == Approved(u, moves)
           later == [moves EXCEPT ![u] = v]
<1>1. u \in Airborne /\ u \in UAVs /\ Airborne \subseteq UAVs
  BY DEF Moving, Airborne
<1>2. v \in Vectors /\ Safe(u, v, moves)
  BY <1>1, ApprovedIsSafe DEF AllSafe
<1> HIDE DEF v
<1>3. /\ later \in [UAVs -> Vectors] /\ later[u] = v
      /\ \A w \in UAVs \ {u} : later[w] = moves[w]
  BY <1>1, <1>2
<1> HIDE DEF later
<1>4. \A a, b \in UAVs : /\ Threshold(Minus(at[a], at[b])) \in Int
                         /\ at[a] \in Vectors /\ later[a] \in Vectors
  BY <1>3, TypesOfPlaces
<1> DEFINE Room(a, b) == ~Nears(Minus(at[a], at[b]), Minus(later[a], later[b]),
                                Threshold(Minus(at[a], at[b])))
<1>5. ASSUME NEW b \in Airborne, b # u PROVE Room(u, b)
  BY <1>1, <1>2, <1>3, <1>5 DEF Safe, Others
<1>6. ASSUME NEW a \in Airborne, NEW b \in Airborne, a # b PROVE Room(a, b)
  <2>1. CASE a = u
    BY <1>5, <1>6, <2>1
  <2>2. CASE b = u
    <3>1. Room(u, a)
      BY <1>5, <1>6, <2>2
    <3> QED
      BY <1>1, <1>4, <2>2, <3>1, NearsBothWays
  <2>3. CASE a # u /\ b # u
    BY <1>1, <1>3, <1>6, <2>3 DEF AllSafe, Safe, Others
  <2> QED
    BY <2>1, <2>2, <2>3
<1>7. AllSafe(later)
  BY <1>6 DEF AllSafe, Safe, Others
<1> QED
  BY <1>3, <1>7 DEF later, v

(***************************************************************************)
(* All turns, in the order of the priorities.                              *)
(***************************************************************************)

LEMMA MovingIsFinite == Moving \subseteq UAVs /\ IsFiniteSet(Moving)
<1>1. Moving \subseteq UAVs
  BY DEF Moving, Airborne
<1> QED
  BY <1>1, FleetAssumption, FS_Subset

LEMMA BeforeIsOrder ==
  ASSUME Placed, NEW u \in Moving, NEW v \in Moving, NEW w \in Moving
  PROVE  /\ u # v => Before(u, v) \/ Before(v, u)
         /\ Before(u, v) /\ Before(v, w) => Before(u, w)
<1>1. \A x \in Moving : x \in Nat /\ Tier(x) \in Nat /\ Remaining(x) \in Nat
  <2> SUFFICES ASSUME NEW x \in Moving
               PROVE  x \in Nat /\ Tier(x) \in Nat /\ Remaining(x) \in Nat
    OBVIOUS
  <2>1. at[x] \in Vectors /\ target[x] \in Vectors /\ Home \in Vectors
    BY FleetAssumption DEF Placed, Moving, Airborne, Vectors
  <2>2. Remaining(x) \in Nat
    BY <2>1, VectorsClosed DEF Remaining
  <2>3. Tier(x) \in Nat
    BY DEF Tier
  <2> QED
    BY <2>2, <2>3, MovingIsFinite, FleetAssumption
<1> QED
  BY <1>1 DEF Before

LEMMA SomeoneIsLast ==
  ASSUME Placed, NEW turns \in SUBSET Moving, turns # {}
  PROVE  LastOf(turns) \in turns
<1> DEFINE IsLast(S, u) == \A w \in S \ {u} : Before(w, u)
           P == {S \in SUBSET Moving : S = {} \/ \E u \in S : IsLast(S, u)}
<1>1. ASSUME NEW S \in SUBSET Moving, S # {}, \A x \in S : S \ {x} \in P
      PROVE  S \in P
  <2>1. PICK x \in S : TRUE
    BY <1>1
  <2>2. CASE S = {x}
    BY <2>2
  <2>3. CASE S # {x}
    <3>1. PICK u \in S \ {x} : IsLast(S \ {x}, u)
      BY <1>1, <2>3
    <3>2. CASE Before(x, u)
      BY <3>1, <3>2
    <3>3. CASE Before(u, x)
      <4>1. IsLast(S, x)
        BY <3>1, <3>3, BeforeIsOrder
      <4> QED
        BY <4>1
    <3> QED
      BY <3>1, <3>2, <3>3, BeforeIsOrder
  <2> QED
    BY <2>2, <2>3
<1>2. SUBSET Moving \subseteq P
  <2>1. {} \in P
    OBVIOUS
  <2> HIDE DEF P
  <2> QED
    BY <1>1, <2>1, MovingIsFinite, SubsetsBySteps
<1> QED
  BY <1>2 DEF LastOf

\* What is written as a recursion is a function of the turns taken.
LEMMA TurnsAreTaken ==
  ASSUME Placed
  PROVE  \A turns \in SUBSET Moving : MovesAfter[turns] =
           IF turns = {} THEN [u \in UAVs |-> Zero]
           ELSE LET u == LastOf(turns)
                    moves == MovesAfter[turns \ {u}]
                IN  [moves EXCEPT ![u] = Approved(u, moves)]
<1> DEFINE Moments == [UAVs -> Vectors]
           still == [u \in UAVs |-> Zero]
           pick == [turns \in SUBSET Moving |-> LastOf(turns)]
           g == [p \in Moving \X Moments |-> [p[2] EXCEPT ![p[1]] = Approved(p[1], p[2])]]
           body(f) == [turns \in SUBSET Moving |->
                         IF turns = {} THEN still
                         ELSE LET u == LastOf(turns)
                                  moves == f[turns \ {u}]
                              IN  [moves EXCEPT ![u] = Approved(u, moves)]]
<1>1. g \in [Moving \X Moments -> Moments]
  BY ApprovedIsSafe, MovingIsFinite
<1>2. still \in Moments
  BY DEF Zero, Vectors
<1>3. Picks(pick, Moving)
  BY SomeoneIsLast DEF Picks
<1> DEFINE f == OnSubsets(Moving, Moments, still, pick, g)
<1>4. f \in [SUBSET Moving -> Moments] /\ Recurs(f, Moving, still, pick, g)
  <2>1. IsFiniteSet(Moving)
    BY MovingIsFinite
  <2> HIDE DEF Moments, still, pick, g
  <2> QED
    BY <1>1, <1>2, <1>3, <2>1, OnSubsetsSteps
<1> HIDE DEF f
<1>5. f = body(f)
  <2>1. ASSUME NEW turns \in SUBSET Moving, turns # {}
        PROVE  f[turns] = [f[turns \ {LastOf(turns)}] EXCEPT ![LastOf(turns)] =
                             Approved(LastOf(turns), f[turns \ {LastOf(turns)}])]
    <3>1. LastOf(turns) \in Moving /\ f[turns \ {LastOf(turns)}] \in Moments
      BY <1>4, <2>1, SomeoneIsLast
    <3>2. f[turns] = g[<<LastOf(turns), f[turns \ {LastOf(turns)}]>>]
      BY <1>4, <2>1 DEF Recurs
    <3> HIDE DEF Moments
    <3> QED
      BY <3>1, <3>2
  <2>2. f[{}] = still
    BY <1>4 DEF Recurs
  <2> HIDE DEF Moments, still, g, pick
  <2> QED
    BY <1>4, <2>1, <2>2
<1>6. MovesAfter = CHOOSE h : h = body(h)
  BY DEF MovesAfter, Zero
<1>7. MovesAfter = body(MovesAfter)
  <2> HIDE DEF body
  <2> QED
    BY <1>5, <1>6
<1> HIDE DEF MovesAfter
<1> QED
  BY <1>7

LEMMA MovesAreSafe ==
  ASSUME Placed
  PROVE  Moves \in [UAVs -> Vectors] /\ AllSafe(Moves)
<1> DEFINE Good(turns) == /\ MovesAfter[turns] \in [UAVs -> Vectors]
                          /\ AllSafe(MovesAfter[turns])
                          /\ \A u \in UAVs \ turns : MovesAfter[turns][u] = Zero
           P == {turns \in SUBSET Moving : Good(turns)}
<1>1. Good({})
  <2>1. MovesAfter[{}] = [u \in UAVs |-> Zero]
    BY TurnsAreTaken
  <2>2. Minus(Zero, Zero) = Zero
    BY DEF Minus, Zero
  <2>3. \A u, w \in UAVs : ~Nears(Minus(at[u], at[w]), Zero, Threshold(Minus(at[u], at[w])))
    BY TypesOfPlaces, StandingIsSafe
  <2>4. AllSafe(MovesAfter[{}])
    BY <2>1, <2>2, <2>3 DEF AllSafe, Safe, Others, Airborne
  <2> QED
    BY <2>1, <2>4 DEF Zero, Vectors
<1>2. ASSUME NEW turns \in SUBSET Moving, turns # {},
             \A x \in turns : turns \ {x} \in P
      PROVE  turns \in P
  <2> DEFINE u == LastOf(turns)
             moves == MovesAfter[turns \ {u}]
  <2>1. u \in turns /\ u \in Moving /\ u \in UAVs
    BY <1>2, SomeoneIsLast, MovingIsFinite
  <2>2. /\ moves \in [UAVs -> Vectors] /\ AllSafe(moves)
        /\ \A w \in UAVs \ (turns \ {u}) : moves[w] = Zero
    BY <1>2, <2>1
  <2>3. MovesAfter[turns] = [moves EXCEPT ![u] = Approved(u, moves)]
    BY <1>2, TurnsAreTaken
  <2> HIDE DEF u, moves
  <2>4. moves[u] = Zero
    BY <2>1, <2>2
  <2>5. MovesAfter[turns] \in [UAVs -> Vectors] /\ AllSafe(MovesAfter[turns])
    <3>1. /\ [moves EXCEPT ![u] = Approved(u, moves)] \in [UAVs -> Vectors]
          /\ AllSafe([moves EXCEPT ![u] = Approved(u, moves)])
      BY <2>1, <2>2, <2>4, TurnKeepsRoom, Zenon
    <3> QED
      BY <2>3, <3>1, Zenon
  <2>6. \A w \in UAVs \ turns : MovesAfter[turns][w] = Zero
    BY <2>1, <2>2, <2>3
  <2> QED
    BY <2>5, <2>6
<1>3. SUBSET Moving \subseteq P
  <2>1. {} \in P
    BY <1>1
  <2> HIDE DEF P
  <2> QED
    BY <1>2, <2>1, MovingIsFinite, SubsetsBySteps
<1> QED
  BY <1>3 DEF Moves

(***************************************************************************)
(* The steps.                                                              *)
(***************************************************************************)

LEMMA PlacedInit == SeparationInit => Placed
BY FleetAssumption DEF SeparationInit, Placed, Vectors

LEMMA PlacedNext == Placed /\ [SeparationNext]_vars => Placed'
<1> SUFFICES ASSUME Placed, [SeparationNext]_vars PROVE Placed'
  OBVIOUS
<1>1. CASE Fly
  <2>1. at' = [u \in UAVs |-> Plus(at[u], Moves[u])] /\ target' = target
    BY <1>1 DEF Fly
  <2>2. \A u \in UAVs : Plus(at[u], Moves[u]) \in Vectors
    BY MovesAreSafe, VectorsClosed DEF Placed
  <2> QED
    BY <2>1, <2>2 DEF Placed
<1>2. \A u \in UAVs : \A m : \A p \in Vectors \union {None} :
        Become(u, m, p) /\ at' = at => Placed'
  BY DEF Become, Placed
<1>3. ASSUME NEW u \in UAVs, Recall(u) PROVE Placed'
  BY <1>2, <1>3, FleetAssumption DEF Recall, Event, Vectors
<1>4. ASSUME NEW u \in UAVs, Fail(u) PROVE Placed'
  BY <1>2, <1>4 DEF Fail, Event, Placed
<1>5. ASSUME NEW u \in UAVs, Finish(u) \/ Land(u) \/ Ready(u) PROVE Placed'
  BY <1>2, <1>5 DEF Finish, Land, Ready
<1>6. ASSUME NEW u \in UAVs, NEW site \in Sites, Send(u, site) PROVE Placed'
  BY <1>2, <1>6, FleetAssumption DEF Send, Event, Vectors
<1>7. CASE UNCHANGED vars
  BY <1>7 DEF vars, Placed
<1> QED
  BY <1>1, <1>3, <1>4, <1>5, <1>6, <1>7 DEF SeparationNext

\* A step in which somebody moves gives every pair of airborne vehicles the
\* room it had, or the least separation, at each eighth of it.
LEMMA FlyKeepsDistance ==
  ASSUME Placed, Fly, NEW u \in Airborne, NEW w \in Airborne \ {u}, NEW k \in 0..8
  PROVE  Square(Apart(k, u, w)) >= 64 * Least(Square(Minus(at[u], at[w])), MinSep * MinSep)
<1> DEFINE r == Minus(at[u], at[w])
           v == Minus(Moves[u], Moves[w])
           s == Minus(at'[u], at'[w])
<1>1. u \in UAVs /\ w \in UAVs
  BY DEF Airborne
<1>2. /\ at[u] \in Vectors /\ at[w] \in Vectors
      /\ Moves[u] \in Vectors /\ Moves[w] \in Vectors
  BY <1>1, MovesAreSafe DEF Placed
<1>3. r \in Vectors /\ v \in Vectors /\ Threshold(r) \in Int
  BY <1>1, <1>2, VectorsClosed, TypesOfPlaces
<1>4. ~Nears(r, v, Threshold(r))
  BY MovesAreSafe DEF AllSafe, Safe, Others
<1>5. s = Plus(r, v)
  <2>1. at'[u] = Plus(at[u], Moves[u]) /\ at'[w] = Plus(at[w], Moves[w])
    BY <1>1 DEF Fly
  <2>2. \A a, b, c, d \in Int : (a + b) - (c + d) = (a - c) + (b - d)
    OBVIOUS
  <2> QED
    BY <1>2, <2>1, <2>2 DEF Plus, Minus, Vectors
<1>6. Apart(k, u, w) = <<(8 - k) * r[1] + k * s[1], (8 - k) * r[2] + k * s[2]>>
  BY DEF Apart
<1> HIDE DEF r, v, s
<1>7. 64 * Threshold(r) <= Square(Apart(k, u, w))
  BY <1>3, <1>4, <1>5, <1>6, NotNearIsApart
<1> QED
  BY <1>3, <1>7, VectorsClosed DEF Threshold, r

\* Whatever a fleet of any size has been sent to do, no two airborne vehicles
\* come nearer in a step than the separation, or than they already were:
\* to approve moves one after the other (enforce_step) leaves nobody without a
\* safe one.
THEOREM SeparationKeeps == SeparationSpec => KeepsDistance
<1> DEFINE Roomy == \A u \in Airborne : \A w \in Airborne \ {u} : \A k \in 0..8 :
             at' # at => Square(Apart(k, u, w)) >=
                           64 * Least(Square(Minus(at[u], at[w])), MinSep * MinSep)
<1>1. Placed /\ [SeparationNext]_vars => Roomy \/ UNCHANGED vars
  <2> SUFFICES ASSUME Placed, SeparationNext, at' # at PROVE Roomy
    BY DEF vars
  <2>1. Fly
    BY DEF SeparationNext, Recall, Fail, Finish, Land, Ready, Send, Event
  <2> QED
    BY <2>1, FlyKeepsDistance
<1> QED
  BY <1>1, PlacedInit, PlacedNext, PTL DEF SeparationSpec, KeepsDistance

(***************************************************************************)
(* Geofence moves stay inside.                                             *)
(*                                                                         *)
(* The airspace is not convex, and headings are rounded: a vehicle may fly *)
(* steeper than the line to its target.  A step goes no further than the   *)
(* target in either coordinate, which settles the moves within corridor or *)
(* arena and towards the edges of the mouth.  On a line through the mouth  *)
(* it can only miss it in the corridor, where it is at most two units from *)
(* a line that meets the interface Gate or less from the middle.           *)
(***************************************************************************)

\* what part computes, one coordinate of Toward
Pace(near, far) == IF Abs(far) > 2 * Abs(near) THEN 0
                   ELSE Sign(near) * Least(2, Abs(near))

LEMMA PaceBounds ==
  ASSUME NEW near \in Int, NEW far \in Int
  PROVE  /\ Pace(near, far) \in -2..2
         /\ near >= 0 => 0 <= Pace(near, far) /\ Pace(near, far) <= near
         /\ near <= 0 => near <= Pace(near, far) /\ Pace(near, far) <= 0
         /\ Pace(near, far) = 1 => near = 1
         /\ Pace(near, far) = -1 => near = -1
         /\ Pace(near, far) # 0 => /\ far <= 2 * near \/ far <= -2 * near
                                   /\ -far <= 2 * near \/ -far <= -2 * near
         /\ Pace(near, far) = 0 => \/ near = 0
                                   \/ far > 2 * near /\ far > -2 * near
                                   \/ -far > 2 * near /\ -far > -2 * near
<1>1. CASE near >= 0
  BY <1>1 DEF Pace, Abs, Sign, Least
<1>2. CASE near < 0
  BY <1>2 DEF Pace, Abs, Sign, Least
<1> QED
  BY <1>1, <1>2

\* half of a step, rounded down
LEMMA HalfBounds ==
  ASSUME NEW v \in -2..2
  PROVE  /\ (v * 0) \div 2 = 0 /\ (v * 2) \div 2 = v
         /\ (v * 1) \div 2 \in -1..1
         /\ v >= 0 => 0 <= (v * 1) \div 2 /\ (v * 1) \div 2 <= v
         /\ v <= 0 => v <= (v * 1) \div 2 /\ (v * 1) \div 2 <= 0
<1>1. v \in {-2, -1, 0, 1, 2}
  OBVIOUS
<1>2. v = -2 \/ v = -1 \/ v = 0 \/ v = 1 \/ v = 2
  BY <1>1
<1> QED
  BY <1>2

\* A line that rises by dy over dx > 0 and is not above y = g after a: a step
\* of w up stays below g, when it is short enough for its slope.
LEMMA RiseStaysBelow ==
  ASSUME NEW a \in Nat, NEW dx \in Nat, NEW dy \in Nat, NEW y \in Int, NEW g \in Int,
         NEW w \in 1..2, a >= 1, dx >= 1, dy >= 1,
         y * dx + a * dy <= g * dx, w = 2 => dx < a * dy
  PROVE  y + w <= g
<1>1. a * dy >= 1
  OBVIOUS
<1>2. (g - y) * dx = g * dx - y * dx
  OBVIOUS
<1>3. (g - y) * dx >= a * dy
  BY <1>2
<1>4. \A n \in Int : n <= 0 => n * dx <= 0
  OBVIOUS
<1>5. g - y >= 1
  BY <1>1, <1>3, <1>4
<1>6. CASE w = 2
  <2>1. (g - y) * dx > dx
    BY <1>3, <1>6
  <2>2. g - y # 1
    BY <2>1
  <2> QED
    BY <1>5, <1>6, <2>2
<1> QED
  BY <1>5, <1>6

\* A line that falls by e over dx > 0 and is not above y = g after one step.
LEMMA FallStartsLow ==
  ASSUME NEW dx \in Nat, NEW e \in Nat, NEW y \in Int, NEW g \in Int,
         dx >= 1, y * dx - e <= g * dx
  PROVE  /\ e <= 2 * dx => y <= g + 2
         /\ 2 * e < dx => y <= g
<1>1. (y - g) * dx = y * dx - g * dx
  OBVIOUS
<1>2. (y - g) * dx <= e
  BY <1>1
<1>3. \A n \in Int : n >= 1 => n * dx >= dx
  OBVIOUS
<1>4. \A n \in Int : n >= 3 => n * dx >= 3 * dx
  OBVIOUS
<1>5. y - g \in Int
  OBVIOUS
<1>6. ASSUME e <= 2 * dx PROVE y - g <= 2
  BY <1>2, <1>4, <1>5, <1>6
<1>7. ASSUME 2 * e < dx PROVE y - g <= 0
  BY <1>2, <1>3, <1>5, <1>7
<1> QED
  BY <1>6, <1>7

\* What remains of a step of Toward, all of it or half: it has the direction of
\* the target in both coordinates and does not overshoot.
Between(x, y, z) == (x <= y /\ y <= z) \/ (z <= y /\ y <= x)

LEMMA TowardInBox ==
  ASSUME NEW p \in Vectors, NEW q \in Vectors, NEW k \in 1..2
  PROVE  LET v == Toward(p, q)
             w == Part(v, k)
         IN  /\ v \in (-2..2) \X (-2..2)
             /\ v = <<Pace(q[1] - p[1], q[2] - p[2]), Pace(q[2] - p[2], q[1] - p[1])>>
             /\ w \in (-2..2) \X (-2..2)
             /\ k = 2 => w = v
             /\ k = 1 => w \in (-1..1) \X (-1..1)
             /\ Between(p[1], p[1] + w[1], q[1]) /\ Between(p[2], p[2] + w[2], q[2])
<1> DEFINE v == Toward(p, q)
           w == Part(v, k)
           dx == q[1] - p[1]
           dy == q[2] - p[2]
<1>1. p[1] \in Int /\ p[2] \in Int /\ q[1] \in Int /\ q[2] \in Int
  BY DEF Vectors
<1>2. dx \in Int /\ dy \in Int
  BY <1>1
<1>3. v = <<Pace(dx, dy), Pace(dy, dx)>>
  BY DEF Toward, Minus, Pace
<1>4. /\ Pace(dx, dy) \in -2..2
      /\ dx >= 0 => 0 <= Pace(dx, dy) /\ Pace(dx, dy) <= dx
      /\ dx <= 0 => dx <= Pace(dx, dy) /\ Pace(dx, dy) <= 0
      /\ Pace(dy, dx) \in -2..2
      /\ dy >= 0 => 0 <= Pace(dy, dx) /\ Pace(dy, dx) <= dy
      /\ dy <= 0 => dy <= Pace(dy, dx) /\ Pace(dy, dx) <= 0
  <2> HIDE DEF dx, dy
  <2> QED
    BY <1>2, PaceBounds
<1>5. w = <<(v[1] * k) \div 2, (v[2] * k) \div 2>>
  BY DEF Part
<1>6. v[1] = Pace(dx, dy) /\ v[2] = Pace(dy, dx) /\ v \in (-2..2) \X (-2..2)
  BY <1>3, <1>4
<1>7. \A z \in -2..2 : LET h == (z * k) \div 2 IN
        /\ h \in -2..2 /\ (k = 2 => h = z) /\ (k = 1 => h \in -1..1)
        /\ z >= 0 => 0 <= h /\ h <= z
        /\ z <= 0 => z <= h /\ h <= 0
  BY HalfBounds
<1>8. /\ w \in (-2..2) \X (-2..2) /\ (k = 2 => w = v)
      /\ k = 1 => w \in (-1..1) \X (-1..1)
      /\ v[1] >= 0 => 0 <= w[1] /\ w[1] <= v[1]
      /\ v[1] <= 0 => v[1] <= w[1] /\ w[1] <= 0
      /\ v[2] >= 0 => 0 <= w[2] /\ w[2] <= v[2]
      /\ v[2] <= 0 => v[2] <= w[2] /\ w[2] <= 0
  <2> HIDE DEF v, w
  <2>1. v[1] \in -2..2 /\ v[2] \in -2..2 /\ v = <<v[1], v[2]>>
    BY <1>6
  <2>2. w[1] = (v[1] * k) \div 2 /\ w[2] = (v[2] * k) \div 2
    BY <1>5
  <2> QED
    BY <1>5, <1>7, <2>1, <2>2
<1>9. /\ dx >= 0 => 0 <= w[1] /\ w[1] <= dx
      /\ dx <= 0 => dx <= w[1] /\ w[1] <= 0
      /\ dy >= 0 => 0 <= w[2] /\ w[2] <= dy
      /\ dy <= 0 => dy <= w[2] /\ w[2] <= 0
  <2>1. w[1] \in Int /\ w[2] \in Int /\ v[1] \in Int /\ v[2] \in Int
    BY <1>6, <1>8
  <2> HIDE DEF v, w, dx, dy
  <2> QED
    BY <1>2, <1>4, <1>6, <1>8, <2>1
<1>10. Between(p[1], p[1] + w[1], q[1]) /\ Between(p[2], p[2] + w[2], q[2])
  <2>1. w[1] \in Int /\ w[2] \in Int
    BY <1>8
  <2> HIDE DEF w
  <2> QED
    BY <1>1, <1>9, <2>1 DEF Between
<1> QED
  BY <1>3, <1>6, <1>8, <1>10

\* Staging area and arena are rectangles.
LEMMA BoxInside ==
  ASSUME NEW p \in Vectors, NEW q \in Vectors, NEW r \in Vectors,
         Between(p[1], r[1], q[1]), Between(p[2], r[2], q[2])
  PROVE  /\ InStaging(p) /\ InStaging(q) => InStaging(r)
         /\ InArena(p) /\ InArena(q) => InArena(r)
<1>1. /\ p[1] \in Int /\ p[2] \in Int /\ q[1] \in Int /\ q[2] \in Int
      /\ r[1] \in Int /\ r[2] \in Int
  BY DEF Vectors
<1>2. Depth \in Nat /\ East \in Nat /\ Mouth \in Nat /\ Side \in Nat
  BY AirspaceAssumption
<1> QED
  BY <1>1, <1>2 DEF Between, InStaging, InArena, Abs

LEMMA EastIsArena ==
  ASSUME NEW p \in Vectors, InAirspace(p)
  PROVE  /\ p[1] >= 0 => InArena(p)
         /\ p[1] < 0 => InStaging(p)
<1>1. p[1] \in Int /\ p[2] \in Int
  BY DEF Vectors
<1> QED
  BY <1>1, AirspaceAssumption DEF InAirspace, InStaging, InArena, Abs

\* A straight line through the interface meets it at the mouth.
LEMMA MeetsTheMouth ==
  ASSUME NEW p \in Vectors, NEW q \in Vectors,
         ~Beyond(p, q, Gate, 1), ~Beyond(p, q, Gate, -1)
  PROVE  LET dx == q[1] - p[1]
             dy == q[2] - p[2]
         IN  /\ dx > 0 => /\ p[2] * dx - p[1] * dy <= Gate * dx
                          /\ -(p[2] * dx - p[1] * dy) <= Gate * dx
             /\ dx < 0 => /\ -(p[2] * dx - p[1] * dy) <= Gate * (-dx)
                          /\ p[2] * dx - p[1] * dy <= Gate * (-dx)
<1> DEFINE dx == q[1] - p[1]
           dy == q[2] - p[2]
           n == p[2] * dx - p[1] * dy
<1>1. p[1] \in Int /\ p[2] \in Int /\ q[1] \in Int /\ q[2] \in Int
  BY DEF Vectors
<1>2. dx \in Int /\ dy \in Int /\ n \in Int
  BY <1>1
<1>3. Gate \in Int
  BY AirspaceAssumption DEF Gate
<1>4. /\ Beyond(p, q, Gate, 1) = (1 * Sign(dx) * n > Gate * Abs(dx))
      /\ Beyond(p, q, Gate, -1) = ((-1) * Sign(dx) * n > Gate * Abs(dx))
  BY DEF Beyond, Minus
<1> HIDE DEF dx, dy, n
<1>5. CASE dx > 0
  <2>1. Sign(dx) = 1 /\ Abs(dx) = dx
    BY <1>2, <1>5 DEF Sign, Abs
  <2>2. Gate * dx \in Int
    BY <1>2, <1>3
  <2>3. ~(n > Gate * dx) /\ ~(-n > Gate * dx)
    <3>1. 1 * 1 * n = n /\ (-1) * 1 * n = -n
      BY <1>2
    <3> QED
      BY <1>4, <2>1, <3>1
  <2> QED
    BY <1>2, <1>5, <2>2, <2>3 DEF dx, dy, n
<1>6. CASE dx < 0
  <2>1. Sign(dx) = -1 /\ Abs(dx) = -dx
    BY <1>2, <1>6 DEF Sign, Abs
  <2>2. Gate * (-dx) \in Int
    BY <1>2, <1>3
  <2>3. ~(-n > Gate * (-dx)) /\ ~(n > Gate * (-dx))
    <3>1. 1 * (-1) * n = -n /\ (-1) * (-1) * n = n
      BY <1>2
    <3> QED
      BY <1>4, <2>1, <3>1
  <2> QED
    BY <1>2, <1>6, <2>2, <2>3 DEF dx, dy, n
<1> QED
  BY <1>2, <1>5, <1>6 DEF dx, dy, n

\* The step of a rise towards the mouth that is still in the corridor.
LEMMA RiseInCorridor ==
  ASSUME NEW a \in Nat, NEW dx \in Nat, NEW dy \in Int, NEW y \in Int, NEW g \in Int,
         NEW v1 \in -2..2, NEW w \in -2..2, a >= 1, dx >= a,
         y * dx + a * dy <= g * dx,
         w > 0 => dy > 0,
         w = 2 => /\ v1 = 0 => dx < dy
                  /\ v1 = 1 => dx = 1
                  /\ dx <= 2 * dy
                  /\ v1 >= 0 /\ v1 < a
  PROVE  w > 0 => y + w <= g
<1> SUFFICES ASSUME w > 0 PROVE y + w <= g
  OBVIOUS
<1>1. dy \in Nat /\ dy >= 1 /\ dx >= 1
  OBVIOUS
<1>2. w = 2 => dx < a * dy
  <2> SUFFICES ASSUME w = 2 PROVE dx < a * dy
    OBVIOUS
  <2>1. CASE v1 = 0
    <3>1. a * dy >= dy
      BY <1>1
    <3> QED
      BY <2>1, <3>1
  <2>2. CASE v1 = 1
    BY <2>2
  <2>3. CASE v1 = 2
    <3>1. a >= 3
      BY <2>3
    <3>2. a * dy >= 3 * dy
      BY <1>1, <3>1
    <3> QED
      BY <1>1, <3>2
  <2> QED
    BY <2>1, <2>2, <2>3
<1> QED
  BY <1>1, <1>2, RiseStaysBelow

LEMMA LeavingCorridor ==
  ASSUME NEW p \in Vectors, NEW q \in Vectors, NEW k \in 1..2,
         InStaging(p), p[1] < 0, InArena(q),
         ~Beyond(p, q, Gate, 1), ~Beyond(p, q, Gate, -1)
  PROVE  InAirspace(Plus(p, Part(Toward(p, q), k)))
<1> DEFINE v == Toward(p, q)
           w == Part(v, k)
           dx == q[1] - p[1]
           dy == q[2] - p[2]
           r == Plus(p, w)
<1>1. /\ p[1] \in Int /\ p[2] \in Int /\ q[1] \in Int /\ q[2] \in Int
      /\ dx \in Int /\ dy \in Int
  BY DEF Vectors
<1>2. /\ Depth \in Nat /\ East \in Nat /\ Mouth \in Nat /\ Side \in Nat
      /\ Gate \in Nat /\ Gate <= Mouth /\ Mouth <= Side
  BY AirspaceAssumption DEF Gate
<1>3. /\ v \in (-2..2) \X (-2..2) /\ v[1] = Pace(dx, dy) /\ v[2] = Pace(dy, dx)
      /\ w \in (-2..2) \X (-2..2) /\ (k = 2 => w = v)
      /\ k = 1 => w \in (-1..1) \X (-1..1)
      /\ Between(p[1], p[1] + w[1], q[1]) /\ Between(p[2], p[2] + w[2], q[2])
  BY TowardInBox
<1>4. /\ -Depth <= p[1] /\ p[2] <= Mouth /\ -p[2] <= Mouth
      /\ 0 <= q[1] /\ q[1] <= East /\ q[2] <= Side /\ -q[2] <= Side
  BY <1>1, <1>2 DEF InStaging, InArena, Abs
<1>5. dx > 0 /\ dx >= -p[1] /\ -p[1] >= 1
  BY <1>1, <1>4
<1>6. /\ p[2] * dx - p[1] * dy <= Gate * dx
      /\ -(p[2] * dx - p[1] * dy) <= Gate * dx
  BY <1>5, MeetsTheMouth
<1>7. /\ v[1] \in -2..2 /\ v[2] \in -2..2 /\ w[1] \in -2..2 /\ w[2] \in -2..2
      /\ k = 2 => w[1] = v[1] /\ w[2] = v[2]
      /\ w[2] \in {2, -2} => k = 2
  BY <1>3
<1>8. /\ v[1] >= 0 /\ (v[1] = 1 => dx = 1)
      /\ v[2] # 0 => dx <= 2 * dy \/ dx <= -2 * dy
      /\ v[1] = 0 => dx < dy \/ dx < -dy
  <2> HIDE DEF dx, dy
  <2>1. /\ dx >= 0 => 0 <= Pace(dx, dy)
        /\ Pace(dx, dy) = 1 => dx = 1
        /\ Pace(dy, dx) # 0 => dx <= 2 * dy \/ dx <= -2 * dy
        /\ Pace(dx, dy) = 0 => \/ dx = 0
                               \/ dy > 2 * dx /\ dy > -2 * dx
                               \/ -dy > 2 * dx /\ -dy > -2 * dx
    <3>1. dx \in Int /\ dy \in Int
      BY <1>1
    <3>2. Pace(dx, dy) = 0 => \/ dx = 0
                              \/ dy > 2 * dx /\ dy > -2 * dx
                              \/ -dy > 2 * dx /\ -dy > -2 * dx
      BY <3>1, PaceBounds
    <3>3. Pace(dy, dx) # 0 => dx <= 2 * dy \/ dx <= -2 * dy
      BY <3>1, PaceBounds
    <3> QED
      BY <3>1, <3>2, <3>3, PaceBounds
  <2> QED
    BY <1>1, <1>3, <1>5, <2>1
<1>9. r = <<p[1] + w[1], p[2] + w[2]>> /\ r \in Vectors
  BY <1>1, <1>7 DEF Plus, Vectors
<1>10. r[1] = p[1] + w[1] /\ r[2] = p[2] + w[2] /\ r[1] \in Int /\ r[2] \in Int
  BY <1>9 DEF Vectors
<1> HIDE DEF v, w, dx, dy, r
<1>11. ASSUME r[1] >= 0 PROVE InAirspace(r)
  <2>1. r[1] <= q[1]
    BY <1>1, <1>3, <1>4, <1>5, <1>7, <1>10 DEF Between
  <2>2. r[2] <= Side /\ -r[2] <= Side
    BY <1>1, <1>2, <1>3, <1>4, <1>7, <1>10 DEF Between
  <2> QED
    BY <1>1, <1>2, <1>4, <1>7, <1>10, <1>11, <2>1, <2>2 DEF InAirspace, InArena, Abs
<1>12. ASSUME r[1] < 0 PROVE InAirspace(r)
  <2> DEFINE a == -p[1]
  <2>1. a \in Nat /\ dx \in Nat /\ dx >= a /\ a >= 1
    BY <1>1, <1>5
  <2>2. a * dy = -(p[1] * dy) /\ a * (-dy) = p[1] * dy /\ (-p[2]) * dx = -(p[2] * dx)
    BY <1>1
  <2>3. w[2] > 0 => dy > 0
    BY <1>1, <1>3, <1>7 DEF Between, dy
  <2>4. w[2] < 0 => -dy > 0
    BY <1>1, <1>3, <1>7 DEF Between, dy
  <2>5. k = 2 => v[1] < a
    BY <1>1, <1>7, <1>10, <1>12
  <2> HIDE DEF a
  <2>6. /\ p[2] * dx \in Int /\ p[1] * dy \in Int /\ Gate * dx \in Int
    BY <1>1, <1>2
  <2>7. p[2] <= Mouth /\ -p[2] <= Mouth
    BY <1>4
  <2>8. p[2] * dx + a * dy <= Gate * dx
    BY <1>6, <2>2, <2>6
  <2>9. (-p[2]) * dx + a * (-dy) <= Gate * dx
    BY <1>6, <2>2, <2>6
  <2>10. w[2] > 0 => p[2] + w[2] <= Gate
    BY <1>1, <1>2, <1>7, <1>8, <2>1, <2>3, <2>5, <2>8, RiseInCorridor
  <2>11. -w[2] > 0 => -p[2] + -w[2] <= Gate
    BY <1>1, <1>2, <1>7, <1>8, <2>1, <2>4, <2>5, <2>9, RiseInCorridor
  <2> QED
    <3>1. p[1] <= r[1]
      BY <1>1, <1>3, <1>4, <1>5, <1>7, <1>10 DEF Between
    <3>2. r[2] <= Mouth /\ -r[2] <= Mouth
      BY <1>1, <1>2, <1>4, <1>7, <1>10, <2>10, <2>11
    <3> QED
      BY <1>1, <1>2, <1>4, <1>7, <1>10, <1>12, <3>1, <3>2 DEF InAirspace, InStaging, Abs
<1> QED
  BY <1>10, <1>11, <1>12 DEF r, w, v

\* One coordinate of a step of two from the last place of the arena into the
\* corridor.
LEMMA FallInMouth ==
  ASSUME NEW D \in Nat, NEW dy \in Int, NEW y \in Int, NEW z \in Int, NEW w \in -2..2,
         D >= 1, z = y + dy, z <= Mouth, y * D + dy <= Gate * D,
         dy >= 0 => 0 <= w /\ w <= dy,
         dy <= 0 => dy <= w /\ w <= 0,
         w = -1 => dy = -1,
         w = 0 => dy = 0 \/ 2 * (-dy) < D \/ dy > 0,
         -dy <= 2 * D
  PROVE  y + w <= Mouth
<1>1. Gate \in Int /\ Gate <= Mouth /\ Mouth \in Int
  BY AirspaceAssumption DEF Gate
<1>2. CASE dy >= 0
  BY <1>1, <1>2
<1>3. CASE dy < 0
  <2> DEFINE e == -dy
  <2>1. e \in Nat /\ e >= 1 /\ e <= 2 * D
    BY <1>3
  <2>2. y * D - e <= Gate * D
    <3>1. y * D \in Int /\ Gate * D \in Int
      BY <1>1
    <3> QED
      BY <3>1
  <2> HIDE DEF e
  <2>3. y <= Gate + 2 /\ (2 * e < D => y <= Gate)
    BY <1>1, <2>1, <2>2, FallStartsLow
  <2>4. w = -2 => y + w <= Mouth
    BY <1>1, <2>3
  <2>5. w = -1 => y + w <= Mouth
    OBVIOUS
  <2>6. w = 0 => y + w <= Mouth
    BY <1>1, <1>3, <2>3 DEF e
  <2>7. w = -2 \/ w = -1 \/ w = 0
    BY <1>3
  <2> QED
    BY <2>4, <2>5, <2>6, <2>7
<1> QED
  BY <1>2, <1>3

LEMMA EnteringCorridor ==
  ASSUME NEW p \in Vectors, NEW q \in Vectors, NEW k \in 1..2,
         InArena(p), InStaging(q), q[1] < 0,
         ~Beyond(p, q, Gate, 1), ~Beyond(p, q, Gate, -1)
  PROVE  InAirspace(Plus(p, Part(Toward(p, q), k)))
<1> DEFINE v == Toward(p, q)
           w == Part(v, k)
           dx == q[1] - p[1]
           dy == q[2] - p[2]
           D == -dx
           r == Plus(p, w)
<1>1. /\ p[1] \in Int /\ p[2] \in Int /\ q[1] \in Int /\ q[2] \in Int
      /\ dx \in Int /\ dy \in Int
  BY DEF Vectors
<1>2. /\ Depth \in Nat /\ East \in Nat /\ Mouth \in Nat /\ Side \in Nat
      /\ Gate \in Nat /\ Gate <= Mouth /\ Mouth <= Side
  BY AirspaceAssumption DEF Gate
<1>3. /\ v \in (-2..2) \X (-2..2) /\ v[1] = Pace(dx, dy) /\ v[2] = Pace(dy, dx)
      /\ w \in (-2..2) \X (-2..2) /\ (k = 2 => w = v)
      /\ k = 1 => w \in (-1..1) \X (-1..1)
      /\ Between(p[1], p[1] + w[1], q[1]) /\ Between(p[2], p[2] + w[2], q[2])
  BY TowardInBox
<1>4. /\ 0 <= p[1] /\ p[1] <= East /\ p[2] <= Side /\ -p[2] <= Side
      /\ -Depth <= q[1] /\ q[1] < 0 /\ q[2] <= Mouth /\ -q[2] <= Mouth
  BY <1>1, <1>2 DEF InStaging, InArena, Abs
<1>5. dx < 0 /\ D \in Nat /\ D >= 1 /\ dx <= -p[1] - 1
  BY <1>1, <1>4
<1>6. /\ -(p[2] * dx - p[1] * dy) <= Gate * D
      /\ p[2] * dx - p[1] * dy <= Gate * D
  BY <1>5, MeetsTheMouth
<1>7. /\ v[1] \in -2..2 /\ v[2] \in -2..2 /\ w[1] \in -2..2 /\ w[2] \in -2..2
      /\ k = 2 => w[1] = v[1] /\ w[2] = v[2]
      /\ w[1] = -2 => k = 2
  BY <1>3
<1>8. /\ v[1] # 0 => -dy <= 2 * D /\ dy <= 2 * D
      /\ dy >= 0 => 0 <= v[2] /\ v[2] <= dy
      /\ dy <= 0 => dy <= v[2] /\ v[2] <= 0
      /\ v[2] = -1 => dy = -1
      /\ v[2] = 1 => dy = 1
      /\ v[2] = 0 => dy = 0 \/ (2 * (-dy) < D /\ 2 * dy < D)
  <2> HIDE DEF dx, dy
  <2>1. dx \in Int /\ dy \in Int /\ dx < 0
    BY <1>1, <1>5
  <2>2. Pace(dx, dy) # 0 => -dy <= -2 * dx /\ dy <= -2 * dx
    BY <2>1, PaceBounds
  <2>3. Pace(dy, dx) = 0 => dy = 0 \/ (-dx > 2 * dy /\ -dx > -2 * dy)
    BY <2>1, PaceBounds
  <2>4. /\ dy >= 0 => 0 <= Pace(dy, dx) /\ Pace(dy, dx) <= dy
        /\ dy <= 0 => dy <= Pace(dy, dx) /\ Pace(dy, dx) <= 0
        /\ Pace(dy, dx) = -1 => dy = -1
        /\ Pace(dy, dx) = 1 => dy = 1
    BY <2>1, PaceBounds
  <2> QED
    BY <1>3, <2>1, <2>2, <2>3, <2>4
<1>9. r = <<p[1] + w[1], p[2] + w[2]>> /\ r \in Vectors
  BY <1>1, <1>7 DEF Plus, Vectors
<1>10. r[1] = p[1] + w[1] /\ r[2] = p[2] + w[2] /\ r[1] \in Int /\ r[2] \in Int
  BY <1>9 DEF Vectors
<1>11. q[2] = p[2] + dy
  BY <1>1
<1>12. /\ (p[2] * D + p[1] * dy) = -(p[2] * dx - p[1] * dy)
       /\ ((-p[2]) * D + p[1] * (-dy)) = p[2] * dx - p[1] * dy
  BY <1>1
<1> HIDE DEF v, w, dx, dy, r, D
<1>13. q[1] <= r[1] /\ r[1] <= p[1]
  BY <1>1, <1>3, <1>4, <1>7, <1>10 DEF Between
<1>14. ASSUME r[1] >= 0 PROVE InAirspace(r)
  <2>1. r[2] <= Side /\ -r[2] <= Side
    BY <1>1, <1>2, <1>3, <1>4, <1>7, <1>10 DEF Between
  <2> QED
    BY <1>1, <1>2, <1>4, <1>10, <1>13, <1>14, <2>1 DEF InAirspace, InArena, Abs
<1>15. ASSUME r[1] < 0 PROVE InAirspace(r)
  <2>1. r[2] <= Mouth /\ -r[2] <= Mouth
    <3>1. CASE p[1] = 0
      <4>1. p[1] * dy = 0 /\ p[1] * (-dy) = 0
        BY <1>1, <3>1
      <4>2. p[2] * D <= Gate * D /\ (-p[2]) * D <= Gate * D
        <5>1. p[2] * D \in Int /\ (-p[2]) * D \in Int
          BY <1>1, <1>5
        <5> QED
          BY <1>6, <1>12, <4>1, <5>1
      <4>3. \A y \in Int : y * D <= Gate * D => y <= Gate
        <5>1. \A y \in Int : y * D - 0 <= Gate * D => y <= Gate
          <6>1. \A y \in Int : y * D - 0 <= Gate * D /\ 2 * 0 < D => y <= Gate
            BY <1>2, <1>5, FallStartsLow
          <6> QED
            BY <1>5, <6>1
        <5>2. \A y \in Int : y * D \in Int
          BY <1>5
        <5> QED
          BY <5>1, <5>2
      <4>4. p[2] <= Gate /\ -p[2] <= Gate
        BY <1>1, <4>2, <4>3
      <4> QED
        BY <1>1, <1>2, <1>3, <1>4, <1>7, <1>10, <4>4 DEF Between
    <3>2. CASE p[1] = 1
      <4>1. k = 2 /\ w[1] = -2 /\ v[1] # 0 /\ w[2] = v[2]
        BY <1>7, <1>10, <1>15, <3>2
      <4>2. p[1] * dy = dy /\ p[1] * (-dy) = -dy
        BY <1>1, <3>2
      <4>3. p[2] * D + dy <= Gate * D /\ (-p[2]) * D + -dy <= Gate * D
        BY <1>6, <1>12, <4>2
      <4>4. p[2] + v[2] <= Mouth
        BY <1>1, <1>4, <1>5, <1>7, <1>8, <1>11, <4>1, <4>3, FallInMouth
      <4>5. -q[2] = -p[2] + -dy /\ -(-dy) = dy /\ -(-v[2]) = v[2]
        BY <1>1, <1>7, <1>11
      <4>6. /\ -dy >= 0 => 0 <= -v[2] /\ -v[2] <= -dy
            /\ -dy <= 0 => -dy <= -v[2] /\ -v[2] <= 0
            /\ -v[2] = -1 => -dy = -1
            /\ -v[2] = 0 => -dy = 0 \/ 2 * (-(-dy)) < D
            /\ -(-dy) <= 2 * D
            /\ -v[2] \in -2..2 /\ -dy \in Int /\ -p[2] \in Int /\ -q[2] \in Int
        BY <1>1, <1>7, <1>8, <4>1, <4>5
      <4>7. -p[2] + -v[2] <= Mouth
        BY <1>4, <1>5, <4>3, <4>5, <4>6, FallInMouth
      <4> QED
        BY <1>1, <1>7, <1>10, <4>1, <4>4, <4>7
    <3> QED
      BY <1>1, <1>4, <1>7, <1>10, <1>15, <3>1, <3>2
  <2> QED
    BY <1>1, <1>2, <1>4, <1>10, <1>13, <1>15, <2>1 DEF InAirspace, InStaging, Abs
<1> QED
  BY <1>10, <1>14, <1>15 DEF r, w, v

\* Whatever half of its step the separation rules leave a vehicle in the
\* airspace, on its way to a target in the airspace, it stays inside.
LEMMA SteeringStaysInside ==
  ASSUME NEW p \in Vectors, NEW q \in Vectors, NEW k \in 1..2,
         InAirspace(p), InAirspace(q)
  PROVE  InAirspace(Plus(p, Part(EffectiveMove(p, q), k)))
<1> DEFINE g == Portal(p, q)
           w == Part(Toward(p, g), k)
           r == Plus(p, w)
<1> SUFFICES InAirspace(r)
  BY DEF EffectiveMove
<1>1. /\ Gate \in Nat /\ Gate <= Mouth /\ Mouth <= Side
      /\ Mouth \in Nat /\ Side \in Nat /\ Depth \in Nat /\ East \in Nat
  BY AirspaceAssumption DEF Gate
<1>2. /\ p[1] \in Int /\ p[2] \in Int /\ q[1] \in Int /\ q[2] \in Int
  BY DEF Vectors
<1>3. /\ p[1] >= 0 => InArena(p)
      /\ p[1] < 0 => InStaging(p)
      /\ q[1] >= 0 => InArena(q)
      /\ q[1] < 0 => InStaging(q)
  BY EastIsArena
<1>4. \A y \in {Gate, -Gate} : /\ <<0, y>> \in Vectors
                               /\ InStaging(<<0, y>>) /\ InArena(<<0, y>>)
  BY <1>1 DEF Vectors, InStaging, InArena, Abs
<1>5. ASSUME g \in Vectors, \/ InStaging(p) /\ InStaging(g)
                            \/ InArena(p) /\ InArena(g)
      PROVE  InAirspace(r)
  <2>1. /\ w \in (-2..2) \X (-2..2)
        /\ Between(p[1], p[1] + w[1], g[1]) /\ Between(p[2], p[2] + w[2], g[2])
    <3> HIDE DEF g
    <3> QED
      BY <1>5, TowardInBox
  <2>2. r = <<p[1] + w[1], p[2] + w[2]>> /\ r \in Vectors
    BY <1>2, <2>1 DEF Plus, Vectors
  <2> HIDE DEF r, w, g
  <2> QED
    BY <1>5, <2>1, <2>2, BoxInside DEF InAirspace
<1>6. CASE g # q
  <2>1. \E y \in {Gate, -Gate} : g = <<0, y>>
    BY <1>6 DEF Portal
  <2>2. (InStaging(p) \/ InArena(p)) /\ InStaging(g) /\ InArena(g) /\ g \in Vectors
    BY <1>2, <1>3, <1>4, <2>1
  <2> QED
    BY <1>5, <2>2
<1>7. CASE g = q /\ ~Crosses(p, q)
  <2>1. (InStaging(p) /\ InStaging(q)) \/ (InArena(p) /\ InArena(q))
    <3>1. (p[1] < 0) <=> (q[1] < 0)
      BY <1>7 DEF Crosses
    <3> QED
      BY <1>2, <1>3, <3>1
  <2> QED
    BY <1>5, <1>7, <2>1
<1>8. CASE g = q /\ Crosses(p, q)
  <2>1. (~Beyond(p, q, Gate, 1) /\ ~Beyond(p, q, Gate, -1))
        \/ \E y \in {Gate, -Gate} : g = <<0, y>>
    BY <1>8 DEF Portal
  <2>2. CASE \E y \in {Gate, -Gate} : g = <<0, y>>
    <3>1. (InStaging(p) \/ InArena(p)) /\ InStaging(g) /\ InArena(g) /\ g \in Vectors
      BY <1>2, <1>3, <1>4, <2>2
    <3> QED
      BY <1>5, <3>1
  <2>3. CASE ~Beyond(p, q, Gate, 1) /\ ~Beyond(p, q, Gate, -1)
    <3>1. (p[1] < 0) <=> ~(q[1] < 0)
      BY <1>8 DEF Crosses
    <3>2. ASSUME p[1] < 0 PROVE InAirspace(Plus(p, Part(Toward(p, q), k)))
      BY <1>2, <1>3, <2>3, <3>1, <3>2, LeavingCorridor
    <3>3. ASSUME p[1] >= 0 PROVE InAirspace(Plus(p, Part(Toward(p, q), k)))
      BY <1>2, <1>3, <2>3, <3>1, <3>3, EnteringCorridor
    <3> QED
      BY <1>2, <1>8, <3>2, <3>3
  <2> QED
    BY <2>1, <2>2, <2>3
<1> QED
  BY <1>6, <1>7, <1>8

(***************************************************************************)
(* Targets are pads and sites, which lie in the airspace.                  *)
(***************************************************************************)

TargetsInside == \A u \in UAVs : target[u] # None => InAirspace(target[u])

LEMMA TargetsInsideInit == SeparationInit => TargetsInside
BY DEF SeparationInit, TargetsInside

LEMMA TargetsInsideNext ==
  Placed /\ TargetsInside /\ [SeparationNext]_vars => TargetsInside'
<1> SUFFICES ASSUME Placed, TargetsInside, [SeparationNext]_vars PROVE TargetsInside'
  OBVIOUS
<1>1. CASE Fly
  BY <1>1 DEF Fly, TargetsInside
<1>2. \A u \in UAVs : \A m, p :
        Become(u, m, p) /\ (p = None \/ InAirspace(p)) => TargetsInside'
  BY DEF Become, TargetsInside, Placed
<1>3. ASSUME NEW u \in UAVs, Recall(u) PROVE TargetsInside'
  BY <1>2, <1>3, FleetAssumption DEF Recall, InAirspace
<1>4. ASSUME NEW u \in UAVs, Fail(u) PROVE TargetsInside'
  BY <1>2, <1>4 DEF Fail, TargetsInside
<1>5. ASSUME NEW u \in UAVs, Finish(u) \/ Land(u) \/ Ready(u) PROVE TargetsInside'
  BY <1>2, <1>5 DEF Finish, Land, Ready
<1>6. ASSUME NEW u \in UAVs, NEW site \in Sites, Send(u, site) PROVE TargetsInside'
  BY <1>2, <1>6, FleetAssumption DEF Send
<1>7. CASE UNCHANGED vars
  BY <1>7 DEF vars, TargetsInside
<1> QED
  BY <1>1, <1>3, <1>4, <1>5, <1>6, <1>7 DEF SeparationNext

\* No part of a nominal move leaves, not even between its ends.
LEMMA PartsAreContained ==
  ASSUME NEW p \in Vectors, NEW q \in Vectors, NEW k \in 0..2,
         InAirspace(p), InAirspace(q)
  PROVE  Contained(p, Part(EffectiveMove(p, q), k))
<1> DEFINE e == EffectiveMove(p, q)
           g == Portal(p, q)
           v == Part(e, k)
<1>1. /\ Plus(p, Zero) = p /\ Part(Zero, 1) = Zero
      /\ Zero \in Vectors
  BY DEF Plus, Part, Zero, Vectors
<1>2. g \in Vectors
  BY AirspaceAssumption DEF Portal, Gate, Vectors
<1>3. /\ e \in Vectors
      /\ k = 1 => v \in (-1..1) \X (-1..1)
  <2> HIDE DEF g
  <2>1. e = Toward(p, g)
    BY DEF EffectiveMove, g
  <2>2. Toward(p, g) \in (-2..2) \X (-2..2)
    BY <1>2, TowardInBox
  <2>3. k = 1 => Part(Toward(p, g), k) \in (-1..1) \X (-1..1)
    BY <1>2, TowardInBox
  <2> QED
    BY <2>1, <2>2, <2>3 DEF Vectors
<1>4. k = 0 => v = Zero
  BY <1>3, PartsAreVectors
<1>5. k = 2 => v = e
  BY <1>3, PartsAreVectors
<1>6. k = 1 /\ Halves(v) => v = Zero
  <2> HIDE DEF v
  <2>1. \A z \in -1..1 : z % 2 = 0 => z = 0
    OBVIOUS
  <2> QED
    BY <1>3, <2>1 DEF Halves, Zero
<1>7. InAirspace(Plus(p, v))
  <2>1. CASE k = 0
    BY <1>1, <1>4, <2>1
  <2>2. CASE k \in 1..2
    BY <2>2, SteeringStaysInside
  <2> QED
    BY <2>1, <2>2
<1>8. Halves(v) => InAirspace(Plus(p, Part(v, 1)))
  <2>1. CASE v = Zero
    BY <1>1, <2>1
  <2>2. CASE k = 2
    <3>1. InAirspace(Plus(p, Part(e, 1)))
      BY SteeringStaysInside
    <3> QED
      BY <1>5, <2>2, <3>1
  <2> QED
    BY <1>4, <1>6, <2>1, <2>2
<1> QED
  BY <1>7, <1>8 DEF Contained

\* In an airspace of any size, with a mouth of any width, whatever part of the
\* moves of the geofence the separation rules leave: who leaves the airspace is
\* on a detour.
THEOREM GeofenceContains == SeparationSpec => OnlyDetoursLeave
<1> DEFINE Detoured == \A u \in Moving : LET v == Minus(at'[u], at[u]) IN
             InAirspace(at[u]) /\ ~Contained(at[u], v) => IsDetour(u, v)
<1>1. Placed /\ TargetsInside => Detoured
  <2> SUFFICES ASSUME Placed, TargetsInside, NEW u \in Moving, InAirspace(at[u]),
                      NEW k \in 0..2
               PROVE  Contained(at[u], Part(Nominal(u), k))
    BY DEF IsDetour
  <2>1. /\ u \in UAVs /\ target[u] # None /\ at[u] \in Vectors
        /\ target[u] \in Vectors /\ InAirspace(target[u])
    BY DEF Moving, Airborne, Placed, TargetsInside
  <2> QED
    BY <2>1, PartsAreContained DEF Nominal
<1>2. SeparationInit => Placed /\ TargetsInside
  BY PlacedInit, TargetsInsideInit
<1>3. Placed /\ TargetsInside /\ [SeparationNext]_vars => Placed' /\ TargetsInside'
  BY PlacedNext, TargetsInsideNext
<1> QED
  BY <1>1, <1>2, <1>3, PTL DEF SeparationSpec, OnlyDetoursLeave
=============================================================================
