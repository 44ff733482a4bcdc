---------------------------- MODULE RelayProofs ----------------------------
(***************************************************************************)
(* Proofs about the mission with relays, for any fleet and any tasks.      *)
(*                                                                         *)
(* A chain changes in few ways: it is registered for a team, a post is     *)
(* given to a candidate that nobody has reserved or to the replacement     *)
(* that was waiting for it, or it is torn down.  The invariant adds to the *)
(* types what makes these changes harmless: a task has one holder, and     *)
(* whoever a command in the batch gives a task or a relay role is free     *)
(* until the command is carried out.  Two more invariants are about the    *)
(* part of a tick from the monitoring to the flight: nobody works behind a *)
(* degraded chain it needs, and nobody is sent out but over occupied       *)
(* stations.                                                               *)
(***************************************************************************)
EXTENDS ConnectivityMission, LeastNumbers

(***************************************************************************)
(* Choices: the first of a finite set in some order.                       *)
(***************************************************************************)

Ordered(M, R) ==
  /\ \A x, y \in M : <<x, y>> \in R \/ <<y, x>> \in R
  /\ \A x, y, z \in M : <<x, y>> \in R /\ <<y, z>> \in R => <<x, z>> \in R

LEMMA SomeoneIsFirst ==
  ASSUME NEW M, IsFiniteSet(M), NEW R, Ordered(M, R),
         NEW S \in SUBSET M, S # {}
  PROVE  \E x \in S : \A y \in S : <<x, y>> \in R
<1> DEFINE Leads(x, T) == \A y \in T : <<x, y>> \in R
           P == {T \in SUBSET M : T = {} \/ \E x \in T : Leads(x, T)}
<1>1. ASSUME NEW T \in SUBSET M, T # {}, \A x \in T : T \ {x} \in P
      PROVE  T \in P
  <2>1. PICK x \in T : TRUE
    BY <1>1
  <2>2. CASE T = {x}
    BY <2>2 DEF Ordered
  <2>3. CASE T # {x}
    <3>1. PICK z \in T \ {x} : Leads(z, T \ {x})
      BY <1>1, <2>3
    <3>2. x \in M /\ z \in M /\ T \subseteq M
      BY <2>1, <3>1
    <3>3. CASE <<z, x>> \in R
      BY <3>1, <3>3
    <3>4. CASE <<x, z>> \in R
      <4>1. Leads(x, T)
        BY <3>1, <3>2, <3>4 DEF Ordered
      <4> QED
        BY <2>1, <4>1
    <3> QED
      BY <3>2, <3>3, <3>4 DEF Ordered
  <2> QED
    BY <2>2, <2>3
<1>2. SUBSET M \subseteq P
  <2>1. {} \in P
    OBVIOUS
  <2> HIDE DEF P
  <2> QED
    BY <1>1, <2>1, SubsetsBySteps
<1> QED
  BY <1>2

LEMMA FarEndIsLast == FarEnd \in Nat /\ \A t \in Tasks : t \in 1..FarEnd
<1>1. Tasks \subseteq Nat \ {0} /\ IsFiniteSet(Tasks)
  BY FleetAssumption
<1>2. CASE Tasks = {}
  BY <1>2 DEF FarEnd
<1>3. CASE Tasks # {}
  <2> DEFINE R == {p \in Tasks \X Tasks : p[2] <= p[1]}
  <2>1. Ordered(Tasks, R)
    BY <1>1 DEF Ordered
  <2>2. \E t \in Tasks : \A o \in Tasks : <<t, o>> \in R
    <3> HIDE DEF R
    <3> QED
      BY <1>1, <1>3, <2>1, SomeoneIsFirst, ZenonT(40)
  <2>3. \E t \in Tasks : \A o \in Tasks : o <= t
    BY <2>2
  <2>4. FarEnd \in Tasks /\ \A o \in Tasks : o <= FarEnd
    BY <1>3, <2>3 DEF FarEnd
  <2> QED
    BY <1>1, <2>4
<1> QED
  BY <1>2, <1>3

LEMMA PlacesAreNumbers ==
  /\ Places \subseteq Nat /\ 0 \in Places
  /\ \A t \in Tasks : t \in Places /\ 1..(t-1) \subseteq Places
<1>1. FarEnd \in Nat /\ \A t \in Tasks : t \in 1..FarEnd
  BY FarEndIsLast
<1> QED
  BY <1>1 DEF Places

LEMMA NoneIsNobody == None \notin UAVs /\ None \notin Nat /\ None \notin Tasks
BY FleetAssumption

(***************************************************************************)
(* Sequences of commands.                                                  *)
(***************************************************************************)

LEMMA SequenceOver ==
  ASSUME NEW S, NEW T, NEW s \in Seq(S), \A i \in 1..Len(s) : s[i] \in T
  PROVE  s \in Seq(T)
OBVIOUS

LEMMA FunctionIsSequence ==
  ASSUME NEW n \in Nat, NEW S, NEW f \in [1..n -> S]
  PROVE  f \in Seq(S) /\ Len(f) = n
OBVIOUS

LEMMA AppendedTo ==
  ASSUME NEW S, NEW s \in Seq(S), NEW x \in S
  PROVE  /\ Append(s, x) \in Seq(S) /\ Len(Append(s, x)) = Len(s) + 1
         /\ Append(s, x)[Len(s) + 1] = x
         /\ \A i \in 1..Len(s) : Append(s, x)[i] = s[i]
OBVIOUS

LEMMA ConcatenatedTo ==
  ASSUME NEW S, NEW p \in Seq(S), NEW q \in Seq(S)
  PROVE  /\ p \o q \in Seq(S) /\ Len(p \o q) = Len(p) + Len(q)
         /\ \A j \in 1..Len(p) : (p \o q)[j] = p[j]
         /\ \A j \in 1..Len(q) : (p \o q)[Len(p) + j] = q[j]
<1>1. p \o q \in Seq(S) /\ Len(p \o q) = Len(p) + Len(q)
  OBVIOUS
<1>2. \A j \in 1..Len(p) : (p \o q)[j] = p[j]
  OBVIOUS
<1>3. \A j \in 1..Len(q) : (p \o q)[Len(p) + j] = q[j]
  OBVIOUS
<1> QED
  BY <1>1, <1>2, <1>3

LEMMA FlattenedIsSequence ==
  ASSUME NEW n \in Nat, NEW S, NEW parts, DOMAIN parts = 1..n, parts \in Seq(Seq(S))
  PROVE  FlattenSeq(parts) \in Seq(S)
<1>1. Len(parts) = n /\ \A i \in 1..n : parts[i] \in Seq(S)
  OBVIOUS
<1>2. CASE n = 0
  BY <1>1, <1>2 DEF FlattenSeq
<1>3. CASE n # 0
  <2> DEFINE X == Seq(S)
             body(e) == [i \in 1..n |-> IF i = 1 THEN parts[i] ELSE e[i-1] \o parts[i]]
             g == [p \in (1..n) \X X |-> IF p[1] = 1 THEN parts[1]
                                         ELSE p[2] \o parts[p[1]]]
             a == parts[1]
  <2>1. FlattenSeq(parts) = (CHOOSE e : e = body(e))[n]
    BY <1>1, <1>3 DEF FlattenSeq
  <2>2. a \in X /\ StepsTo(g, n, X)
    <3>1. \A x, y \in X : x \o y \in X
      OBVIOUS
    <3>2. \A i \in 1..n : parts[i] \in X
      BY <1>1
    <3>3. a \in X
      BY <1>3, <3>2
    <3> HIDE DEF X, a
    <3> QED
      BY <3>1, <3>2, <3>3 DEF StepsTo, a
  <2>3. PICK f \in [0..n -> X] : ClimbsTo(f, n, a, g)
    <3> HIDE DEF X, a, g
    <3> QED
      BY <2>2, LoopExists
  <2> DEFINE h == [i \in 1..n |-> f[i]]
  <2>4. h = body(h)
    <3>1. ASSUME NEW i \in 1..n
          PROVE  h[i] = IF i = 1 THEN parts[i] ELSE h[i-1] \o parts[i]
      <4>1. f[i] = g[<<i, f[i-1]>>] /\ f[i-1] \in X
        <5>1. i - 1 \in 0..n
          OBVIOUS
        <5> HIDE DEF X, g, a
        <5> QED
          BY <2>3, <5>1 DEF ClimbsTo
      <4>2. f[i] = IF i = 1 THEN parts[1] ELSE f[i-1] \o parts[i]
        BY <4>1
      <4> HIDE DEF g, X
      <4>3. i # 1 => i - 1 \in 1..n
        OBVIOUS
      <4> QED
        BY <4>2, <4>3
    <3> HIDE DEF g, X
    <3> QED
      BY <3>1
  <2> DEFINE flat == CHOOSE e : e = body(e)
  <2>5. flat = body(flat)
    <3> HIDE DEF body
    <3> QED
      BY <2>4
  <2> HIDE DEF h, g, a
  <2>6. FlattenSeq(parts) = flat[n]
    BY <2>1
  <2> HIDE DEF flat
  <2> DEFINE T == {k \in Nat : k + 1 \in 1..n => flat[k+1] \in X}
  <2>7. 0 \in T
    BY <1>1, <2>5
  <2>8. ASSUME NEW k \in Nat, k \in T PROVE k + 1 \in T
    <3> SUFFICES ASSUME k + 2 \in 1..n PROVE flat[k+2] \in X
      OBVIOUS
    <3>1. k + 1 \in 1..n /\ k + 2 # 1 /\ (k + 2) - 1 = k + 1
      OBVIOUS
    <3>2. flat[k+2] = flat[k+1] \o parts[k+2]
      BY <2>5, <3>1
    <3>3. flat[k+1] \in X /\ parts[k+2] \in X
      BY <1>1, <2>8, <3>1
    <3> QED
      BY <3>2, <3>3
  <2>9. Nat \subseteq T
    <3> HIDE DEF T
    <3> QED
      BY <2>7, <2>8, NaturalsBySteps
  <2>10. n - 1 \in T /\ (n - 1) + 1 = n
    <3>1. n - 1 \in Nat /\ (n - 1) + 1 = n
      BY <1>3
    <3> HIDE DEF T
    <3> QED
      BY <2>9, <3>1
  <2> QED
    BY <1>3, <2>6, <2>10
<1> QED
  BY <1>2, <1>3

(***************************************************************************)
(* The types.                                                              *)
(***************************************************************************)

Chains == UNION {ChainFor(t) : t \in Tasks}

Single == [replacement : UAVs, place : Places, surveyor : UAVs]

Managers ==
  [chains : [Tasks -> Chains \union {None}], chainOf : [UAVs -> Tasks \union {None}],
   member : [UAVs -> Tasks \union {None}], terminal : [UAVs -> UAVs \union {None}],
   serves : [UAVs -> UAVs \union {None}], station : [UAVs -> Places \union {None}],
   users : [UAVs -> SUBSET UAVs], singles : [UAVs -> Single \union {None}]]

Kept(m) == /\ m \in Managers
           /\ \A t \in Live(m) : m.chains[t] \in ChainFor(t)
           /\ \A u \in UAVs : m.chainOf[u] # None => m.chainOf[u] \in Live(m)

FleetTyped == /\ fleet \in [UAVs -> Vehicle]
              /\ task \in [Tasks -> {"hidden", "open", "taken", "done"}]

(***************************************************************************)
(* Choosing relays.                                                        *)
(***************************************************************************)

LEMMA ScoreIsInteger ==
  ASSUME FleetTyped, NEW u \in UAVs, NEW place \in Places
  PROVE  Score(u, place) \in Int
<1>1. fleet[u].at \in Nat /\ place \in Nat /\ fleet[u].role \in {"IDLE", "SURVEYOR", "RELAY"}
  BY PlacesAreNumbers DEF FleetTyped, Vehicle
<1>2. Gap(fleet[u].at, place) \in Int
  BY <1>1 DEF Gap
<1> QED
  BY <1>1, <1>2 DEF Score

LEMMA SelectedIsFree ==
  ASSUME FleetTyped, NEW m, NEW place \in Places, NEW excluded,
         Select(m, place, excluded) # None
  PROVE  /\ Select(m, place, excluded) \in UAVs \ excluded
         /\ Eligible(m, Select(m, place, excluded), place)
<1> DEFINE pool == {u \in UAVs \ excluded : Eligible(m, u, place)}
           Better(u, v) == \/ Score(u, place) > Score(v, place)
                           \/ Score(u, place) = Score(v, place) /\ u <= v
           R == {p \in UAVs \X UAVs : Better(p[1], p[2])}
<1>1. pool # {} /\ Select(m, place, excluded)
                     = CHOOSE u \in pool : \A v \in pool : Better(u, v)
  BY DEF Select
<1>2. Ordered(UAVs, R)
  <2>1. \A u \in UAVs : u \in Nat /\ Score(u, place) \in Int
    BY FleetAssumption, ScoreIsInteger
  <2> QED
    BY <2>1 DEF Ordered
<1>3. \E u \in pool : \A v \in pool : <<u, v>> \in R
  <2>1. pool \in SUBSET UAVs /\ IsFiniteSet(UAVs)
    BY FleetAssumption
  <2> HIDE DEF R, pool
  <2> QED
    BY <1>1, <1>2, <2>1, SomeoneIsFirst
<1>4. \E u \in pool : \A v \in pool : Better(u, v)
  BY <1>3
<1>5. Select(m, place, excluded) \in pool
  <2> HIDE DEF pool, Better
  <2> QED
    BY <1>1, <1>4
<1> QED
  BY <1>5

\* A team has as many members as there are stations, each of them free,
\* not excluded, and nobody twice.
IsTeam(m, s, n, excluded, team) ==
  /\ team \in [1..n -> UAVs]
  /\ \A i, j \in 1..n : i # j => team[i] # team[j]
  /\ \A i \in 1..n : /\ team[i] \notin excluded \union {s}
                     /\ Eligible(m, team[i], i)

LEMMA TeamIsApart ==
  ASSUME FleetTyped, NEW m, NEW s \in UAVs, NEW n \in Nat, 1..n \subseteq Places,
         NEW excluded, Team(m, s, n, excluded) # None
  PROVE  IsTeam(m, s, n, excluded, Team(m, s, n, excluded))
<1> DEFINE X == Seq(UAVs \union {None})
           Chosen(k, e) == Select(m, k, excluded \union {s} \union Range(e))
           body(e) == [k \in 0..n |-> IF k = 0 THEN <<>>
                                      ELSE LET chosen == e[k-1]
                                           IN  Append(chosen, Chosen(k, chosen))]
           g == [p \in (1..n) \X X |-> Append(p[2], Chosen(p[1], p[2]))]
           a == <<>>
<1>1. \A k \in 1..n, e \in X : Chosen(k, e) \in UAVs \union {None}
  BY SelectedIsFree
<1>2. a \in X /\ StepsTo(g, n, X)
  <2>1. \A e \in X, u \in UAVs \union {None} : Append(e, u) \in X
    OBVIOUS
  <2>2. a \in X
    OBVIOUS
  <2> HIDE DEF X, Chosen, a
  <2> QED
    BY <1>1, <2>1, <2>2 DEF StepsTo
<1>3. PICK f \in [0..n -> X] : ClimbsTo(f, n, a, g)
  <2> HIDE DEF X, a, g
  <2> QED
    BY <1>2, LoopExists
<1>4. f = body(f)
  <2>1. \A k \in 1..n : f[k] = Append(f[k-1], Chosen(k, f[k-1]))
    <3> SUFFICES ASSUME NEW k \in 1..n PROVE f[k] = Append(f[k-1], Chosen(k, f[k-1]))
      OBVIOUS
    <3>1. k - 1 \in 0..n
      OBVIOUS
    <3>2. f[k] = g[<<k, f[k-1]>>] /\ f[k-1] \in X
      BY <1>3, <3>1 DEF ClimbsTo
    <3> HIDE DEF X, Chosen
    <3> QED
      BY <3>2
  <2>2. f[0] = <<>>
    BY <1>3 DEF ClimbsTo
  <2>3. \A k \in 0..n : k # 0 => k \in 1..n
    OBVIOUS
  <2> HIDE DEF X, Chosen, g
  <2> QED
    BY <1>3, <2>1, <2>2, <2>3
<1> DEFINE team == CHOOSE e : e = body(e)
<1>5. team = body(team)
  <2> HIDE DEF body
  <2> QED
    BY <1>4
<1>6. Team(m, s, n, excluded) = IF None \in Range(team[n]) THEN None ELSE team[n]
  BY DEF Team
<1> HIDE DEF team, g, a
<1> DEFINE Good(k, e) ==
             /\ e \in X /\ Len(e) = k
             /\ \A i \in 1..k : e[i] # None =>
                  /\ e[i] \in UAVs \ (excluded \union {s}) /\ Eligible(m, e[i], i)
                  /\ \A j \in 1..k : i # j => e[i] # e[j]
           T == {k \in Nat : k <= n => Good(k, team[k])}
<1>7. 0 \in T
  BY <1>5
<1>8. ASSUME NEW k \in Nat, k \in T PROVE k + 1 \in T
  <2> SUFFICES ASSUME k + 1 \in 1..n PROVE Good(k + 1, team[k+1])
    OBVIOUS
  <2> DEFINE e == team[k]
             u == Chosen(k + 1, e)
  <2>1. Good(k, e)
    BY <1>8
  <2>2. team[k+1] = Append(e, u)
    <3>1. k + 1 \in 0..n /\ k + 1 # 0 /\ (k + 1) - 1 = k
      OBVIOUS
    <3> HIDE DEF Chosen
    <3> QED
      BY <1>5, <3>1
  <2>3. u # None => /\ u \in UAVs \ (excluded \union {s}) /\ Eligible(m, u, k + 1)
                    /\ u \notin Range(e)
    BY SelectedIsFree
  <2>4. u \in UAVs \union {None}
    BY <2>3
  <2> HIDE DEF Chosen, u
  <2>5. \A i \in 1..k : e[i] \in Range(e)
    BY <2>1 DEF Range
  <2> HIDE DEF e
  <2>6. /\ Append(e, u) \in X /\ Len(Append(e, u)) = k + 1 /\ Append(e, u)[k+1] = u
        /\ \A i \in 1..k : Append(e, u)[i] = e[i]
    <3> DEFINE S == UAVs \union {None}
    <3>1. e \in Seq(S) /\ Len(e) = k /\ u \in S
      BY <2>1, <2>4
    <3>2. X = Seq(S)
      OBVIOUS
    <3> HIDE DEF S, X
    <3>3. /\ Append(e, u) \in Seq(S) /\ Len(Append(e, u)) = Len(e) + 1
          /\ Append(e, u)[Len(e) + 1] = u
          /\ \A i \in 1..Len(e) : Append(e, u)[i] = e[i]
      BY <3>1, AppendedTo
    <3> QED
      BY <3>1, <3>2, <3>3
  <2> HIDE DEF X
  <2> DEFINE d == Append(e, u)
  <2>7. \A i \in 1..(k+1) : i = k + 1 \/ i \in 1..k
    OBVIOUS
  <2> HIDE DEF d
  <2>8. ASSUME NEW i \in 1..(k+1), d[i] # None
        PROVE  /\ d[i] \in UAVs \ (excluded \union {s}) /\ Eligible(m, d[i], i)
               /\ \A j \in 1..(k+1) : i # j => d[i] # d[j]
    <3>1. CASE i = k + 1
      BY <2>3, <2>5, <2>6, <2>7, <2>8, <3>1 DEF d
    <3>2. CASE i \in 1..k
      <4>1. d[i] = e[i] /\ d[i] \in Range(e)
        BY <2>5, <2>6, <3>2 DEF d
      <4>2. \A j \in 1..(k+1) : i # j => d[i] # d[j]
        BY <2>1, <2>3, <2>6, <2>7, <2>8, <3>2, <4>1 DEF d
      <4> QED
        BY <2>1, <2>8, <3>2, <4>1, <4>2
    <3> QED
      BY <2>7, <3>1, <3>2
  <2> QED
    BY <2>2, <2>6, <2>8 DEF d
<1>9. Good(n, team[n])
  <2>1. Nat \subseteq T
    <3> HIDE DEF T
    <3> QED
      BY <1>7, <1>8, NaturalsBySteps
  <2> HIDE DEF Good
  <2> QED
    BY <2>1
<1>10. None \notin Range(team[n]) /\ Team(m, s, n, excluded) = team[n]
  BY <1>6
<1>11. \A i \in 1..n : team[n][i] # None
  BY <1>9, <1>10 DEF Range
<1> QED
  BY <1>9, <1>10, <1>11 DEF IsTeam

(***************************************************************************)
(* The batch.  A command that gives its vehicle a task or a relay role     *)
(* waits only for a vehicle without a task, and no vehicle is given two    *)
(* tasks.                                                                  *)
(***************************************************************************)

Commands ==
  {c \in [type : DOMAIN Rank, uav : UAVs, place : Places \union {None},
          whom : UAVs \union {None}, served : UAVs \union {None}] :
     /\ c.type = "HandoffRelay" => c.whom \in UAVs
     /\ c.type = "AssignTask" => c.place \in Tasks}

Engages(c) == c.type \in {"AssignTask", "AssignRelayRole"}

Sound == {c \in Commands : Engages(c) => fleet[c.uav].task = None}

\* what is sent everywhere but in planning
Plain == {c \in Sound : c.type # "AssignTask"}

\* what sends nobody away from the ground station by more than a step
Near == {c \in Plain : c.type = "SetTarget" => c.place \in {0, 1, fleet[c.uav].at}}

OneTaskEach(b) ==
  \A i, j \in 1..Len(b) :
    i # j /\ b[i].type = "AssignTask" /\ b[j].type = "AssignTask"
      => b[i].uav # b[j].uav

BatchSound == batch \in Seq(Sound) /\ OneTaskEach(batch)

\* a task is taken exactly when a vehicle holds it, which is one
Held ==
  /\ \A t \in Tasks : (task[t] = "taken") <=> (\E u \in UAVs : fleet[u].task = t)
  /\ \A u, v \in UAVs : fleet[u].task # None /\ fleet[u].task = fleet[v].task => u = v

\* what must hold of the agenda for each loop
Scheduled ==
  /\ stage = "chains" => \A v \in agenda :
       /\ v \in Nat \X Tasks \X Nat
       /\ v[2] \in Live(mgr) /\ v[3] \in 0..(v[2] - 1)
  /\ stage \notin {"chains", "plan"} => agenda \subseteq UAVs
  /\ stage = "plan" => agenda \subseteq Tasks
  /\ stage = "singles" => \A u \in agenda : mgr.singles[u] # None
  /\ stage = "surveyors" => agenda = {} \/ 1 \in Places
  /\ stage \in {"monitor", "serve"} => \A u \in agenda : fleet[u].task # None
  /\ stage = "recall" => \A u \in agenda : fleet[u].task = None

AllApart(m) == \A t \in Live(m) : Apart(m.chains[t])

RelayInv ==
  /\ FleetTyped /\ Held /\ BatchSound
  /\ Kept(mgr) /\ AllApart(mgr)
  /\ Scheduled

LEMMA RankOfTypes == \A c \in Commands : Rank[c.type] \in Nat
BY DEF Commands, Rank

LEMMA FirstIsWaiting ==
  ASSUME batch \in Seq(Commands), batch # <<>>
  PROVE  LET i == FirstOf(batch)
         IN  /\ i \in 1..Len(batch)
             /\ \A j \in 1..Len(batch) : batch[j].uav = batch[i].uav
                  => Rank[batch[i].type] <= Rank[batch[j].type]
<1> DEFINE D == DOMAIN batch
           Leads(i, j) ==
             \/ batch[i].uav < batch[j].uav
             \/ /\ batch[i].uav = batch[j].uav
                /\ \/ Rank[batch[i].type] < Rank[batch[j].type]
                   \/ Rank[batch[i].type] = Rank[batch[j].type] /\ i <= j
           R == {p \in D \X D : Leads(p[1], p[2])}
<1>1. D = 1..Len(batch) /\ Len(batch) \in Nat /\ 1 \in D
  OBVIOUS
<1>2. \A i \in D : /\ batch[i].uav \in Nat /\ Rank[batch[i].type] \in Nat
                   /\ i \in Nat
  <2>1. \A i \in D : batch[i] \in Commands
    OBVIOUS
  <2>2. \A c \in Commands : c.uav \in Nat
    BY FleetAssumption DEF Commands
  <2> QED
    BY <1>1, <2>1, <2>2, RankOfTypes
<1>3. Ordered(D, R)
  <2>1. \A i, j \in D : Leads(i, j) \/ Leads(j, i)
    BY <1>2
  <2>2. \A i, j, k \in D : Leads(i, j) /\ Leads(j, k) => Leads(i, k)
    BY <1>2
  <2> HIDE DEF Leads, D
  <2> QED
    BY <2>1, <2>2 DEF Ordered
<1>4. \E i \in D : \A j \in D : <<i, j>> \in R
  <2>1. IsFiniteSet(D)
    BY <1>1, FS_Interval
  <2> HIDE DEF R, D
  <2> QED
    BY <1>1, <1>3, <2>1, SomeoneIsFirst
<1>5. \E i \in D : \A j \in D : Leads(i, j)
  BY <1>4
<1>6. FirstOf(batch) = CHOOSE i \in D : \A j \in D : Leads(i, j)
  BY DEF FirstOf
<1>7. FirstOf(batch) \in D /\ \A j \in D : Leads(FirstOf(batch), j)
  <2> HIDE DEF Leads, D
  <2> QED
    BY <1>5, <1>6
<1>8. \A i, j \in D : Leads(i, j) /\ batch[j].uav = batch[i].uav
                        => Rank[batch[i].type] <= Rank[batch[j].type]
  BY <1>2
<1> HIDE DEF Leads
<1> QED
  BY <1>1, <1>7, <1>8

LEMMA GapCloses ==
  ASSUME NEW S, NEW s \in Seq(S), NEW i \in 1..Len(s),
         NEW p \in Seq(S), NEW q \in Seq(S), Len(p) = i - 1, Len(q) = Len(s) - i,
         \A j \in 1..(i - 1) : p[j] = s[j],
         \A j \in 1..(Len(s) - i) : q[j] = s[j + i]
  PROVE  /\ p \o q \in Seq(S) /\ Len(p \o q) = Len(s) - 1
         /\ \A j \in 1..(Len(s) - 1) : (p \o q)[j] = s[IF j < i THEN j ELSE j + 1]
<1>1. p \o q \in Seq(S) /\ Len(p \o q) = Len(s) - 1
  <2>1. p \o q \in Seq(S)
    BY ConcatenatedTo
  <2>2. Len(p \o q) = Len(p) + Len(q)
    BY ConcatenatedTo
  <2> QED
    BY <2>1, <2>2
<1>2. /\ \A j \in 1..Len(p) : (p \o q)[j] = p[j]
      /\ \A j \in 1..Len(q) : (p \o q)[Len(p) + j] = q[j]
  <2>1. \A j \in 1..Len(p) : (p \o q)[j] = p[j]
    BY ConcatenatedTo
  <2>2. \A j \in 1..Len(q) : (p \o q)[Len(p) + j] = q[j]
    BY ConcatenatedTo
  <2> QED
    BY <2>1, <2>2
<1>3. ASSUME NEW j \in 1..(Len(s) - 1)
      PROVE  (p \o q)[j] = s[IF j < i THEN j ELSE j + 1]
  <2>1. CASE j < i
    <3>1. j \in 1..(i - 1) /\ j \in 1..Len(p)
      BY <2>1
    <3> QED
      BY <1>2, <2>1, <3>1
  <2>2. CASE ~(j < i)
    <3> DEFINE k == j - Len(p)
    <3>1. k \in 1..Len(q) /\ k \in 1..(Len(s) - i) /\ Len(p) + k = j /\ k + i = j + 1
      BY <2>2
    <3> HIDE DEF k
    <3> QED
      BY <1>2, <2>2, <3>1
  <2> QED
    BY <2>1, <2>2
<1> QED
  BY <1>1, <1>3

\* What is left in the batch are commands that were there, each of them once.
LEMMA TheRestStays ==
  ASSUME NEW S, NEW s \in Seq(S), NEW i \in 1..Len(s)
  PROVE  /\ RemoveAt(s, i) \in Seq(S)
         /\ Len(RemoveAt(s, i)) = Len(s) - 1
         /\ \A j \in 1..(Len(s) - 1) :
              RemoveAt(s, i)[j] = s[IF j < i THEN j ELSE j + 1]
<1>1. /\ SubSeq(s, 1, i - 1) \in Seq(S) /\ Len(SubSeq(s, 1, i - 1)) = i - 1
      /\ \A j \in 1..(i - 1) : SubSeq(s, 1, i - 1)[j] = s[j]
  OBVIOUS
<1>2. /\ SubSeq(s, i + 1, Len(s)) \in Seq(S)
      /\ Len(SubSeq(s, i + 1, Len(s))) = Len(s) - i
      /\ \A j \in 1..(Len(s) - i) : SubSeq(s, i + 1, Len(s))[j] = s[j + i]
  OBVIOUS
<1>3. RemoveAt(s, i) = SubSeq(s, 1, i - 1) \o SubSeq(s, i + 1, Len(s))
  BY DEF RemoveAt
<1> DEFINE p == SubSeq(s, 1, i - 1)
           q == SubSeq(s, i + 1, Len(s))
<1>4. /\ p \in Seq(S) /\ Len(p) = i - 1 /\ q \in Seq(S) /\ Len(q) = Len(s) - i
      /\ \A j \in 1..(i - 1) : p[j] = s[j]
      /\ \A j \in 1..(Len(s) - i) : q[j] = s[j + i]
  BY <1>1, <1>2
<1> HIDE DEF p, q
<1>5. /\ p \o q \in Seq(S) /\ Len(p \o q) = Len(s) - 1
      /\ \A j \in 1..(Len(s) - 1) : (p \o q)[j] = s[IF j < i THEN j ELSE j + 1]
  BY <1>4, GapCloses
<1> QED
  BY <1>3, <1>5 DEF p, q

(***************************************************************************)
(* Whose turn it is.                                                       *)
(***************************************************************************)
LEMMA LeastOf ==
  ASSUME NEW A, A # {}, NEW f, \A x \in A : f[x] \in Nat
  PROVE  \E x \in A : \A y \in A : f[x] <= f[y]
<1> DEFINE T == {f[x] : x \in A}
<1>1. T \subseteq Nat /\ T # {}
  OBVIOUS
<1>2. \E n \in T : \A k \in T : n <= k
  <2> HIDE DEF T
  <2> QED
    BY <1>1, LeastNatural
<1> QED
  BY <1>2

LEMMA TurnIsNext ==
  ASSUME Scheduled, agenda # {}
  PROVE  Turn \in agenda
<1>1. CASE stage # "chains"
  <2>1. agenda \subseteq Nat
    BY <1>1, FleetAssumption DEF Scheduled
  <2>2. \E x \in agenda : \A y \in agenda : x <= y
    BY <2>1, LeastNatural
  <2>3. \E x \in agenda : \A y \in agenda : Precedes(x, y)
    BY <1>1, <2>2 DEF Precedes
  <2> QED
    BY <2>3 DEF Turn
<1>2. CASE stage = "chains"
  <2>1. \A x \in agenda : x[1] \in Nat /\ x[3] \in Nat
    BY <1>2 DEF Scheduled
  <2> DEFINE f == [x \in agenda |-> x[1]]
  <2>2. PICK a \in agenda : \A y \in agenda : f[a] <= f[y]
    BY <2>1, LeastOf, Zenon
  <2> DEFINE B == {x \in agenda : x[1] = a[1]}
             g == [x \in B |-> x[3]]
  <2>3. B # {} /\ \A x \in B : g[x] \in Nat
    BY <2>1, <2>2
  <2>4. PICK b \in B : \A y \in B : g[b] <= g[y]
    <3> HIDE DEF B, g
    <3> QED
      BY <2>3, LeastOf, Zenon
  <2>5. \A y \in agenda : Precedes(b, y)
    <3> TAKE y \in agenda
    <3>1. b[1] = a[1] /\ a[1] <= y[1] /\ b \in agenda
      BY <2>2, <2>4
    <3>2. y[1] = a[1] => b[3] <= y[3]
      BY <2>4
    <3> QED
      BY <1>2, <2>1, <3>1, <3>2 DEF Precedes
  <2> QED
    BY <2>4, <2>5 DEF Turn
<1> QED
  BY <1>1, <1>2

(***************************************************************************)
(* What is sent.                                                           *)
(***************************************************************************)
LEMMA Joined ==
  ASSUME NEW S, NEW p \in Seq(S), NEW q \in Seq(S)
  PROVE  p \o q \in Seq(S)
BY ConcatenatedTo

LEMMA Alone ==
  ASSUME NEW S, NEW c \in S
  PROVE  << c >> \in Seq(S)
OBVIOUS

LEMMA NothingSent == <<>> \in Seq(Plain) /\ <<>> \in Seq(Near)
OBVIOUS

LEMMA NearIsPlain ==
  ASSUME NEW s \in Seq(Near)
  PROVE  s \in Seq(Plain)
<1> DEFINE N == Near
           P == Plain
<1>1. s \in Seq(N) /\ \A c \in N : c \in P
  BY DEF Near
<1> HIDE DEF N, P
<1>2. s \in Seq(P)
  BY <1>1, SequenceOver
<1> QED
  BY <1>2 DEF P

LEMMA PlainCommand ==
  ASSUME NEW c \in [type : DOMAIN Rank, uav : UAVs, place : Places \union {None},
                    whom : UAVs \union {None}, served : UAVs \union {None}],
         c.type # "AssignTask",
         c.type = "HandoffRelay" => c.whom \in UAVs,
         c.type = "AssignRelayRole" => fleet[c.uav].task = None
  PROVE  /\ << c >> \in Seq(Plain)
         /\ (c.type = "SetTarget" => c.place \in {0, 1, fleet[c.uav].at}) => << c >> \in Seq(Near)
<1>1. c \in Plain
  BY DEF Plain, Sound, Commands, Engages
<1>2. (c.type = "SetTarget" => c.place \in {0, 1, fleet[c.uav].at}) => c \in Near
  BY <1>1 DEF Near
<1> QED
  BY <1>1, <1>2, Alone

LEMMA TypesRanked ==
  DOMAIN Rank = {"AssignRelayRole", "AssignTask", "HandoffRelay", "ReleaseRelayRole",
                 "ReleaseTask", "SetTarget", "StartRTH"}
BY DEF Rank

LEMMA OrdersArePlain ==
  ASSUME NEW u \in UAVs
  PROVE  /\ StartRTH(u) \in Seq(Plain) /\ ReleaseTask(u) \in Seq(Plain)
         /\ Release(u) \in Seq(Plain) /\ ReleaseAsSurveyor(u) \in Seq(Plain)
         /\ SendHome(u) \in Seq(Plain)
         /\ Release(u) \in Seq(Near) /\ StartRTH(u) \in Seq(Near)
         /\ ReleaseTask(u) \in Seq(Near)
         /\ \A p \in Places : /\ SetTarget(u, p) \in Seq(Plain)
                              /\ p \in {0, 1, fleet[u].at} => SetTarget(u, p) \in Seq(Near)
<1>1. StartRTH(u) \in Seq(Plain) /\ StartRTH(u) \in Seq(Near)
  BY PlainCommand, TypesRanked DEF StartRTH, Cmd
<1>2. ReleaseTask(u) \in Seq(Plain) /\ ReleaseTask(u) \in Seq(Near)
  BY PlainCommand, TypesRanked DEF ReleaseTask, Cmd
<1>3. Release(u) \in Seq(Plain) /\ Release(u) \in Seq(Near)
  BY PlainCommand, TypesRanked DEF Release, Cmd
<1>4. ReleaseAsSurveyor(u) \in Seq(Plain)
  BY PlainCommand, TypesRanked DEF ReleaseAsSurveyor, Cmd
<1>5. SendHome(u) \in Seq(Plain)
  BY <1>1, <1>3, Joined DEF SendHome
<1>6. ASSUME NEW p \in Places
      PROVE  /\ SetTarget(u, p) \in Seq(Plain)
             /\ p \in {0, 1, fleet[u].at} => SetTarget(u, p) \in Seq(Near)
  <2> DEFINE c == [Cmd("SetTarget", u) EXCEPT !.place = p]
  <2>1. /\ c \in [type : DOMAIN Rank, uav : UAVs, place : Places \union {None},
                  whom : UAVs \union {None}, served : UAVs \union {None}]
        /\ c.type = "SetTarget" /\ c.uav = u /\ c.place = p
    BY TypesRanked DEF Cmd
  <2>2. SetTarget(u, p) = << c >>
    BY DEF SetTarget
  <2> HIDE DEF c
  <2> QED
    BY <2>1, <2>2, PlainCommand
<1> QED
  BY <1>1, <1>2, <1>3, <1>4, <1>5, <1>6

LEMMA CallsArePlain ==
  ASSUME NEW u \in UAVs, fleet[u].task = None, NEW p \in Places,
         NEW s \in UAVs \union {None}
  PROVE  /\ AssignRelay(u, p, s) \in Seq(Near) /\ AssignRelay(u, p, s) \in Seq(Plain)
         /\ Dispatch(u, p, s) \in Seq(Plain)
<1>1. AssignRelay(u, p, s) \in Seq(Plain) /\ AssignRelay(u, p, s) \in Seq(Near)
  BY PlainCommand, TypesRanked DEF AssignRelay, Cmd
<1> QED
  BY <1>1, OrdersArePlain, Joined DEF Dispatch

LEMMA SwapsArePlain ==
  ASSUME NEW inc \in UAVs \union {None}, NEW rep \in UAVs, NEW p \in Places,
         NEW s \in UAVs \union {None}
  PROVE  SwapCommands(inc, rep, p, s) \in Seq(Plain)
<1>1. ASSUME NEW u \in UAVs PROVE Handoff(u, rep, p, s) \in Seq(Plain)
  <2> DEFINE c == [Cmd("HandoffRelay", u) EXCEPT !.whom = rep, !.place = p, !.served = s]
  <2>1. << c >> \in Seq(Plain)
    BY PlainCommand, TypesRanked DEF Cmd
  <2>2. Handoff(u, rep, p, s) = << c >> \o SetTarget(rep, p)
    BY DEF Handoff
  <2> HIDE DEF c
  <2> QED
    BY <2>1, <2>2, OrdersArePlain, Joined
<1>2. CASE inc = None
  BY <1>1, <1>2 DEF SwapCommands
<1>3. CASE inc # None
  <2>1. inc \in UAVs
    BY <1>3
  <2>2. SwapCommands(inc, rep, p, s) = Handoff(inc, rep, p, s) \o SendHome(inc)
    BY <1>3 DEF SwapCommands
  <2>3. Handoff(inc, rep, p, s) \in Seq(Plain) /\ SendHome(inc) \in Seq(Plain)
    BY <1>1, <2>1, OrdersArePlain
  <2> QED
    BY <2>2, <2>3, Joined
<1> QED
  BY <1>2, <1>3

LEMMA AllSent ==
  ASSUME NEW S, NEW n \in Nat, NEW parts \in [1..n -> Seq(S)]
  PROVE  FlattenSeq(parts) \in Seq(S)
<1>1. DOMAIN parts = 1..n
  OBVIOUS
<1>2. parts \in Seq(Seq(S))
  <2> DEFINE X == Seq(S)
  <2>1. parts \in [1..n -> X]
    OBVIOUS
  <2> HIDE DEF X
  <2>2. parts \in Seq(X)
    BY <2>1, FunctionIsSequence
  <2> QED
    BY <2>2 DEF X
<1> QED
  BY <1>1, <1>2, FlattenedIsSequence

LEMMA StagingIsPlain ==
  ASSUME NEW t \in Tasks, NEW c \in ChainFor(t)
  PROVE  StagingCommands(c) \in Seq(Plain)
<1> DEFINE n == t - 1
           parts == [i \in Stations(c) |->
                       LET u == c.relays[i]
                       IN  IF Active(u) /\ fleet[u].to # Staging(c, i)
                             THEN SetTarget(u, Staging(c, i)) ELSE <<>>]
<1>1. n \in Nat /\ Stations(c) = 1..n
  BY FleetAssumption DEF Stations, ChainFor
<1>2. ASSUME NEW i \in 1..n PROVE parts[i] \in Seq(Plain)
  <2>1. c.relays[i] \in UAVs /\ Staging(c, i) \in Places
    BY <1>2, PlacesAreNumbers DEF ChainFor, Staging
  <2>2. SetTarget(c.relays[i], Staging(c, i)) \in Seq(Plain)
    BY <2>1, OrdersArePlain
  <2> QED
    BY <1>1, <2>2, NothingSent
<1>3. parts \in [1..n -> Seq(Plain)]
  <2>1. parts = [i \in 1..n |-> parts[i]]
    BY <1>1
  <2> HIDE DEF parts, n
  <2> QED
    BY <1>2, <2>1
<1>4. StagingCommands(c) = FlattenSeq(parts)
  BY DEF StagingCommands
<1> HIDE DEF parts, n
<1> QED
  BY <1>1, <1>3, <1>4, AllSent

LEMMA MusterIsNear ==
  ASSUME NEW n \in Nat, 1..n \subseteq Places, NEW team \in [1..n -> UAVs],
         \A i \in 1..n : fleet[team[i]].task = None, NEW s \in UAVs
  PROVE  Muster(team, s) \in Seq(Near)
<1> DEFINE parts == [i \in DOMAIN team |-> AssignRelay(team[i], i, s)
                       \o SetTarget(team[i], IF i = 1 THEN 1 ELSE 0)]
<1>1. ASSUME NEW i \in 1..n PROVE parts[i] \in Seq(Near)
  <2>1. team[i] \in UAVs /\ i \in Places /\ (IF i = 1 THEN 1 ELSE 0) \in Places \intersect {0, 1}
    BY PlacesAreNumbers
  <2>2. AssignRelay(team[i], i, s) \in Seq(Near)
    BY <2>1, CallsArePlain
  <2>3. SetTarget(team[i], IF i = 1 THEN 1 ELSE 0) \in Seq(Near)
    BY <2>1, OrdersArePlain
  <2>4. parts[i] = AssignRelay(team[i], i, s) \o SetTarget(team[i], IF i = 1 THEN 1 ELSE 0)
    OBVIOUS
  <2> QED
    BY <2>2, <2>3, <2>4, Joined
<1>2. parts = [i \in 1..n |-> parts[i]]
  OBVIOUS
<1>3. Muster(team, s) = FlattenSeq(parts)
  BY DEF Muster
<1> HIDE DEF parts
<1>4. parts \in [1..n -> Seq(Near)]
  BY <1>1, <1>2
<1> QED
  BY <1>3, <1>4, AllSent

LEMMA LiveChain ==
  ASSUME NEW m, Kept(m), NEW t \in Live(m)
  PROVE  /\ t \in Tasks /\ m.chains[t] \in ChainFor(t)
         /\ Stations(m.chains[t]) = 1..(t-1) /\ t - 1 \in Nat
         /\ 1..(t-1) \subseteq Places
         /\ Replacements(m.chains[t]) \subseteq UAVs
         /\ Range(m.chains[t].relays) \subseteq UAVs
<1>1. t \in Tasks /\ m.chains[t] \in ChainFor(t)
  BY DEF Kept, Live
<1>2. t - 1 \in Nat /\ 1..(t-1) \subseteq Places
  BY <1>1, FleetAssumption, PlacesAreNumbers
<1>3. Stations(m.chains[t]) = 1..(t-1)
  BY <1>1 DEF Stations, ChainFor
<1>4. Replacements(m.chains[t]) \subseteq UAVs
  BY <1>1, <1>3 DEF Replacements, ChainFor, Pending
<1>5. Range(m.chains[t].relays) \subseteq UAVs
  BY <1>1 DEF Range, ChainFor
<1> QED
  BY <1>1, <1>2, <1>3, <1>4, <1>5

LEMMA TeardownIsNear ==
  ASSUME NEW m, Kept(m), NEW t \in Live(m)
  PROVE  TeardownCommands(m, t) \in Seq(Near)
<1> DEFINE F == Freed(m, t)
           n == Cardinality(F)
           order == SetToSeq(F)
           parts == [i \in DOMAIN order |->
                       LET u == order[i] IN Release(u) \o SetTarget(u, 0)]
<1>1. F \subseteq UAVs
  BY LiveChain DEF Freed
<1>2. IsFiniteSet(F) /\ n \in Nat
  BY <1>1, FleetAssumption, FS_Subset, FS_CardinalityType
<1>3. order \in [1..n -> F]
  <2>1. \E f \in [1..n -> F] : IsInjective(f)
    <3>1. PICK f \in [1..n -> F] : \A x, y \in 1..n : x # y => f[x] # f[y]
      BY <1>2, FS_CardinalityType DEF ExistsBijection, Bijection, Injection, IsInjective
    <3> QED
      BY <3>1 DEF IsInjective
  <2> QED
    BY <2>1 DEF SetToSeq
<1> HIDE DEF F, n, order
<1>4. ASSUME NEW i \in 1..n PROVE parts[i] \in Seq(Near)
  <2>1. order[i] \in UAVs /\ 0 \in Places
    BY <1>1, <1>3, PlacesAreNumbers
  <2>2. Release(order[i]) \in Seq(Near) /\ SetTarget(order[i], 0) \in Seq(Near)
    BY <2>1, OrdersArePlain
  <2>3. parts[i] = Release(order[i]) \o SetTarget(order[i], 0)
    BY <1>3
  <2> QED
    BY <2>2, <2>3, Joined
<1>5. parts = [i \in 1..n |-> parts[i]]
  BY <1>3
<1>6. TeardownCommands(m, t) = FlattenSeq(parts)
  BY DEF TeardownCommands, order, F
<1> HIDE DEF parts
<1>7. parts \in [1..n -> Seq(Near)]
  BY <1>4, <1>5
<1> QED
  BY <1>2, <1>6, <1>7, AllSent

LEMMA TasksStayApart ==
  ASSUME NEW S, NEW b \in Seq(S), OneTaskEach(b), NEW cs \in Seq(S), NEW k \in Nat,
         \A i \in 1..Len(cs) : cs[i].type = "AssignTask" =>
           i = k /\ \A j \in 1..Len(b) : b[j].uav # cs[i].uav
  PROVE  OneTaskEach(b \o cs)
<1> DEFINE d == b \o cs
<1>1. Len(d) = Len(b) + Len(cs)
  BY ConcatenatedTo
<1>2. \A j \in 1..Len(b) : d[j] = b[j]
  BY ConcatenatedTo
<1>3. \A j \in 1..Len(cs) : d[Len(b) + j] = cs[j]
  BY ConcatenatedTo
<1>4. Len(b) \in Nat /\ Len(cs) \in Nat
  OBVIOUS
<1> HIDE DEF d
<1>5. \A i \in 1..Len(d) : i \in 1..Len(b) \/ \E j \in 1..Len(cs) : i = Len(b) + j
  <2> TAKE i \in 1..Len(d)
  <2>1. i \in 1..Len(b) \/ (i - Len(b) \in 1..Len(cs) /\ i = Len(b) + (i - Len(b)))
    BY <1>1, <1>4
  <2> QED
    BY <2>1
<1>6. ASSUME NEW i \in 1..Len(d), NEW j \in 1..Len(d), i # j,
             d[i].type = "AssignTask", d[j].type = "AssignTask"
      PROVE  d[i].uav # d[j].uav
  <2>1. CASE i \in 1..Len(b) /\ j \in 1..Len(b)
    BY <1>2, <1>6, <2>1 DEF OneTaskEach
  <2>2. CASE i \in 1..Len(b) /\ \E l \in 1..Len(cs) : j = Len(b) + l
    BY <1>2, <1>3, <1>6, <2>2
  <2>3. CASE j \in 1..Len(b) /\ \E l \in 1..Len(cs) : i = Len(b) + l
    BY <1>2, <1>3, <1>6, <2>3
  <2>4. CASE /\ \E l \in 1..Len(cs) : i = Len(b) + l
             /\ \E l \in 1..Len(cs) : j = Len(b) + l
    BY <1>3, <1>6, <2>4
  <2> QED
    BY <1>5, <2>1, <2>2, <2>3, <2>4
<1> QED
  BY <1>6 DEF OneTaskEach, d

LEMMA SentIsSound ==
  ASSUME BatchSound, NEW cs \in Seq(Plain)
  PROVE  batch \o cs \in Seq(Sound) /\ OneTaskEach(batch \o cs)
<1> DEFINE S == Sound
<1>1. batch \in Seq(S) /\ OneTaskEach(batch)
  BY DEF BatchSound
<1>2. \A i \in 1..Len(cs) : cs[i] \in Plain
  OBVIOUS
<1>3. \A i \in 1..Len(cs) : cs[i] \in S /\ cs[i].type # "AssignTask"
  BY <1>2 DEF Plain
<1>4. cs \in Seq(S)
  <2> DEFINE P == Plain
  <2>1. cs \in Seq(P)
    OBVIOUS
  <2> HIDE DEF S, P
  <2> QED
    BY <1>3, <2>1, SequenceOver
<1> HIDE DEF S
<1>5. batch \o cs \in Seq(S)
  BY <1>1, <1>4, ConcatenatedTo
<1>6. OneTaskEach(batch \o cs)
  BY <1>1, <1>3, <1>4, TasksStayApart
<1> QED
  BY <1>5, <1>6 DEF S

\* whoever has no task stays without
NobodyTakes == \A u \in UAVs : fleet'[u].task = fleet[u].task \/ fleet'[u].task = None

LEMMA BatchStaysSound ==
  ASSUME BatchSound, NobodyTakes,
         UNCHANGED batch \/ \E cs \in Seq(Plain) : Send(cs)
  PROVE  BatchSound'
<1>1. batch' \in Seq(Sound) /\ OneTaskEach(batch')
  <2>1. CASE UNCHANGED batch
    BY <2>1 DEF BatchSound
  <2>2. CASE \E cs \in Seq(Plain) : Send(cs)
    <3>1. PICK cs \in Seq(Plain) : Send(cs)
      BY <2>2
    <3> HIDE DEF Plain
    <3> QED
      BY <3>1, SentIsSound DEF Send
  <2> QED
    BY <2>1, <2>2
<1>2. \A c \in Sound : c \in Sound'
  BY DEF Sound, Commands, Engages, NobodyTakes
<1>3. batch' \in Seq(Sound')
  <2> DEFINE S == Sound
             T == Sound'
  <2>1. batch' \in Seq(S) /\ \A c \in S : c \in T
    BY <1>1, <1>2
  <2> HIDE DEF S, T
  <2>2. \A i \in 1..Len(batch') : batch'[i] \in T
    BY <2>1
  <2>3. batch' \in Seq(T)
    BY <2>1, <2>2, SequenceOver
  <2> QED
    BY <2>3 DEF T
<1> QED
  BY <1>1, <1>3 DEF BatchSound, OneTaskEach

(***************************************************************************)
(* The dictionaries.                                                       *)
(***************************************************************************)
LEMMA ChainsTyped ==
  ASSUME NEW m, Kept(m), NEW t \in Tasks, NEW c \in ChainFor(t) \union {None}
  PROVE  [m.chains EXCEPT ![t] = c] \in [Tasks -> Chains \union {None}]
<1>1. m.chains \in [Tasks -> Chains \union {None}]
  BY DEF Kept, Managers
<1>2. c \in Chains \union {None}
  BY DEF Chains
<1> QED
  BY <1>1, <1>2

\* another chain for task t: nothing else changes in the chains
Rechained(m, n, t, c) == n.chains = [m.chains EXCEPT ![t] = c]

LEMMA ChainReplaced ==
  ASSUME NEW m, Kept(m), NEW t \in Tasks, NEW c \in ChainFor(t),
         NEW n \in Managers, Rechained(m, n, t, c),
         \A u \in UAVs : n.chainOf[u] \in {m.chainOf[u], t, None}
  PROVE  /\ Kept(n) /\ Live(n) = Live(m) \union {t} /\ n.chains[t] = c
         /\ AllApart(m) /\ Apart(c) => AllApart(n)
<1>1. m.chains \in [Tasks -> Chains \union {None}]
  BY DEF Kept, Managers
<1>2. n.chains[t] = c /\ \A o \in Tasks : o # t => n.chains[o] = m.chains[o]
  BY <1>1 DEF Rechained
<1>3. c # None
  BY NoneAssumption
<1>4. Live(n) = Live(m) \union {t}
  BY <1>2, <1>3 DEF Live
<1>5. Kept(n)
  <2>1. \A o \in Live(n) : n.chains[o] \in ChainFor(o)
    BY <1>2, <1>4 DEF Kept, Live
  <2>2. \A u \in UAVs : n.chainOf[u] # None => n.chainOf[u] \in Live(n)
    BY <1>4 DEF Kept
  <2> QED
    BY <2>1, <2>2 DEF Kept
<1>6. ASSUME AllApart(m), Apart(c) PROVE AllApart(n)
  BY <1>2, <1>4, <1>6 DEF AllApart, Live
<1> QED
  BY <1>2, <1>4, <1>5, <1>6

LEMMA ChainsUntouched ==
  ASSUME NEW m, Kept(m), NEW n \in Managers, n.chains = m.chains, n.chainOf = m.chainOf
  PROVE  Kept(n) /\ Live(n) = Live(m) /\ (AllApart(m) => AllApart(n))
BY DEF Kept, Live, AllApart

LEMMA ChainEnded ==
  ASSUME NEW m, Kept(m), NEW t \in Tasks, NEW n \in Managers, Rechained(m, n, t, None),
         \A u \in UAVs : n.chainOf[u] \in {m.chainOf[u], None} \ {t}
  PROVE  Kept(n) /\ Live(n) = Live(m) \ {t} /\ (AllApart(m) => AllApart(n))
<1>1. m.chains \in [Tasks -> Chains \union {None}]
  BY DEF Kept, Managers
<1>2. n.chains[t] = None /\ \A o \in Tasks : o # t => n.chains[o] = m.chains[o]
  BY <1>1 DEF Rechained
<1>3. Live(n) = Live(m) \ {t}
  BY <1>2 DEF Live
<1>4. \A u \in UAVs : n.chainOf[u] # None => n.chainOf[u] \in Live(n)
  BY <1>3 DEF Kept
<1> QED
  BY <1>2, <1>3, <1>4 DEF Kept, Live, AllApart

\* A post may go to somebody who holds it already or is in no chain.
LEMMA StillApart ==
  ASSUME NEW t \in Tasks, NEW c \in ChainFor(t), Apart(c), NEW d \in ChainFor(t),
         NEW i \in 1..(t-1), NEW u,
         d.surveyor = c.surveyor,
         \A j \in 1..(t-1) : j # i => d.relays[j] = c.relays[j] /\ d.pending[j] = c.pending[j],
         Posted(d, i) \subseteq Posted(c, i) \union {u},
         \/ u \in Posted(c, i)
         \/ u # c.surveyor /\ \A j \in 1..(t-1) : u \notin Posted(c, j),
         d.pending[i] # None => d.pending[i].replacement # d.relays[i]
  PROVE  Apart(d)
<1>1. Stations(c) = 1..(t-1) /\ Stations(d) = 1..(t-1)
  BY DEF Stations, ChainFor
<1>2. \A j \in 1..(t-1) : j # i => Posted(d, j) = Posted(c, j)
  BY DEF Posted
<1>3. \A j \in 1..(t-1) : /\ c.surveyor \notin Posted(c, j)
                          /\ c.pending[j] # None => c.pending[j].replacement # c.relays[j]
                          /\ \A k \in 1..(t-1) : j # k => Posted(c, j) \intersect Posted(c, k) = {}
  BY <1>1 DEF Apart
<1>4. \A j \in 1..(t-1) : d.surveyor \notin Posted(d, j)
  BY <1>2, <1>3
<1>5. \A j \in 1..(t-1) : d.pending[j] # None => d.pending[j].replacement # d.relays[j]
  BY <1>3
<1>6. \A j, k \in 1..(t-1) : j # k => Posted(d, j) \intersect Posted(d, k) = {}
  BY <1>2, <1>3
<1> QED
  BY <1>1, <1>4, <1>5, <1>6 DEF Apart

LEMMA MarkedIsApart ==
  ASSUME NEW t, NEW c \in ChainFor(t), Apart(c), NEW status
  PROVE  Apart([c EXCEPT !.status = status])
BY ZenonT(40) DEF Apart, Posted, Stations, ChainFor

\* m and n are the same but for the chain of t, which is c, and for the records
\* of who relays for whom
Becomes(m, n, t, c) ==
  /\ Kept(n) /\ Live(n) = Live(m) /\ Rechained(m, n, t, c)
  /\ n.chains[t] = c /\ c \in ChainFor(t)
  /\ n.singles = m.singles /\ n.chainOf = m.chainOf

LEMMA ItBecomes ==
  ASSUME NEW m, Kept(m), NEW t \in Live(m), NEW c \in ChainFor(t),
         NEW n \in Managers, Rechained(m, n, t, c), n.singles = m.singles, n.chainOf = m.chainOf
  PROVE  Becomes(m, n, t, c)
<1>1. t \in Tasks
  BY LiveChain
<1>0. \A u \in UAVs : n.chainOf[u] \in {m.chainOf[u], t, None}
  OBVIOUS
<1>2. Kept(n) /\ n.chains[t] = c
  BY <1>0, <1>1, ChainReplaced
<1>3. Live(n) = Live(m) \union {t}
  BY <1>0, <1>1, ChainReplaced
<1> QED
  BY <1>2, <1>3 DEF Becomes

LEMMA BecomesInTurn ==
  ASSUME NEW m, Kept(m), NEW t \in Live(m), NEW n, NEW k, NEW c, NEW d,
         Becomes(m, n, t, c), Becomes(n, k, t, d)
  PROVE  Becomes(m, k, t, d)
<1>1. m.chains \in [Tasks -> Chains \union {None}]
  BY DEF Kept, Managers
<1>2. k.chains = [m.chains EXCEPT ![t] = d]
  BY <1>1 DEF Becomes, Rechained
<1> QED
  BY <1>2 DEF Becomes, Rechained

LEMMA BecomesApart ==
  ASSUME NEW m, Kept(m), AllApart(m), NEW t \in Live(m), NEW n, NEW c,
         Becomes(m, n, t, c), Apart(c)
  PROVE  Kept(n) /\ AllApart(n) /\ Live(n) = Live(m)
<1>1. t \in Tasks
  BY LiveChain
<1>2. n \in Managers /\ c \in ChainFor(t) /\ Rechained(m, n, t, c)
  BY DEF Becomes, Kept
<1>3. AllApart(n)
  <2>1. \A u \in UAVs : n.chainOf[u] \in {m.chainOf[u], t, None}
    BY DEF Becomes
  <2> QED
    BY <1>1, <1>2, <2>1, ChainReplaced DEF Becomes
<1> QED
  BY <1>3 DEF Becomes

LEMMA MarkedBecomes ==
  ASSUME NEW m, Kept(m), NEW t \in Live(m),
         NEW status \in {"FORMING", "ACTIVE", "HANDOFF", "DEGRADED"}
  PROVE  Becomes(m, Marked(m, t, status), t, [m.chains[t] EXCEPT !.status = status])
<1> DEFINE n == Marked(m, t, status)
           d == [m.chains[t] EXCEPT !.status = status]
<1>1. t \in Tasks /\ m.chains[t] \in ChainFor(t)
  BY LiveChain
<1>2. d \in ChainFor(t)
  BY <1>1 DEF ChainFor
<1>3. m \in Managers /\ m.chains \in [Tasks -> Chains \union {None}]
  BY DEF Kept, Managers
<1>4. n = [m EXCEPT !.chains = [m.chains EXCEPT ![t] = d]]
  BY <1>1, <1>3 DEF Marked
<1>5. [m.chains EXCEPT ![t] = d] \in [Tasks -> Chains \union {None}]
  BY <1>1, <1>2, ChainsTyped
<1>6. n \in Managers /\ Rechained(m, n, t, d) /\ n.singles = m.singles /\ n.chainOf = m.chainOf
  BY <1>3, <1>4, <1>5 DEF Managers, Rechained
<1> HIDE DEF n, d
<1>7. Becomes(m, n, t, d)
  BY <1>2, <1>6, ItBecomes
<1> QED
  BY <1>7 DEF n, d

LEMMA SettledBecomes ==
  ASSUME NEW m, Kept(m), NEW t \in Live(m), NEW i \in 1..(t-1)
  PROVE  LET c == m.chains[t]
         IN  Becomes(m, Settled(m, t, i), t,
                     [c EXCEPT !.pending = [c.pending EXCEPT ![i] = None]])
<1> DEFINE n == Settled(m, t, i)
           c == m.chains[t]
           d == [c EXCEPT !.pending = [c.pending EXCEPT ![i] = None]]
<1>1. t \in Tasks /\ c \in ChainFor(t)
  BY LiveChain
<1>2. d \in ChainFor(t)
  BY <1>1 DEF ChainFor
<1>3. m \in Managers /\ m.chains \in [Tasks -> Chains \union {None}]
  BY DEF Kept, Managers
<1>4. n = [m EXCEPT !.chains = [m.chains EXCEPT ![t] = d]]
  BY <1>1, <1>3 DEF Settled
<1>5. [m.chains EXCEPT ![t] = d] \in [Tasks -> Chains \union {None}]
  BY <1>1, <1>2, ChainsTyped
<1>6. n \in Managers /\ Rechained(m, n, t, d) /\ n.singles = m.singles /\ n.chainOf = m.chainOf
  BY <1>3, <1>4, <1>5 DEF Managers, Rechained
<1> HIDE DEF n, d
<1>7. Becomes(m, n, t, d)
  BY <1>2, <1>6, ItBecomes
<1> QED
  BY <1>7 DEF n, d

LEMMA AttachBecomes ==
  ASSUME NEW m, Kept(m), NEW t \in Live(m), NEW i \in 1..(t-1), NEW u \in UAVs
  PROVE  LET c == m.chains[t]
         IN  Becomes(m, Attach(m, t, i, u), t,
                     [c EXCEPT !.relays = [c.relays EXCEPT ![i] = u]])
<1> DEFINE n == Attach(m, t, i, u)
           c == m.chains[t]
           d == [c EXCEPT !.relays = [c.relays EXCEPT ![i] = u]]
           s == c.surveyor
           last == IF i = Len(c.relays) THEN u ELSE m.terminal[s]
<1>1. t \in Tasks /\ c \in ChainFor(t) /\ i \in Places
  BY LiveChain
<1>2. d \in ChainFor(t) /\ s \in UAVs
  BY <1>1 DEF ChainFor
<1>3. m \in Managers /\ m.chains \in [Tasks -> Chains \union {None}]
  BY DEF Kept, Managers
<1>4. n = [m EXCEPT !.chains = [m.chains EXCEPT ![t] = d],
                    !.member = [m.member EXCEPT ![u] = t],
                    !.serves = [m.serves EXCEPT ![u] = s],
                    !.station = [m.station EXCEPT ![u] = i],
                    !.terminal = [m.terminal EXCEPT ![s] = last]]
  BY <1>1, <1>2, <1>3 DEF Attach, Managers
<1>5. [m.chains EXCEPT ![t] = d] \in [Tasks -> Chains \union {None}]
  BY <1>1, <1>2, ChainsTyped
<1>6. last \in UAVs \union {None}
  BY <1>2, <1>3 DEF Managers
<1> HIDE DEF n, d, s, last
<1>7. n \in Managers /\ Rechained(m, n, t, d) /\ n.singles = m.singles /\ n.chainOf = m.chainOf
  BY <1>1, <1>2, <1>3, <1>4, <1>5, <1>6 DEF Managers, Rechained
<1>8. Becomes(m, n, t, d)
  BY <1>2, <1>7, ItBecomes
<1> QED
  BY <1>8 DEF n, d

LEMMA UntouchedBecomes ==
  ASSUME NEW m, Kept(m), NEW t \in Live(m), NEW n \in Managers,
         n.chains = m.chains, n.singles = m.singles, n.chainOf = m.chainOf
  PROVE  Becomes(m, n, t, m.chains[t])
<1>1. m.chains \in [Tasks -> Chains \union {None}] /\ m.chains[t] \in ChainFor(t)
  BY LiveChain DEF Kept, Managers
<1>2. Rechained(m, n, t, m.chains[t])
  BY <1>1 DEF Rechained
<1> QED
  BY <1>1, <1>2, ItBecomes

LEMMA DetachKeeps ==
  ASSUME NEW m, Kept(m), NEW u \in UAVs \union {None}
  PROVE  LET n == Detach(m, u) IN
         Kept(n) /\ n \in Managers /\ n.chains = m.chains /\ n.singles = m.singles /\ n.chainOf = m.chainOf
<1> DEFINE n == Detach(m, u)
<1>1. m \in Managers
  BY DEF Kept
<1>2. n \in Managers /\ n.chains = m.chains /\ n.singles = m.singles /\ n.chainOf = m.chainOf
  BY <1>1 DEF Detach, Managers
<1> QED
  BY <1>2, ChainsUntouched

LEMMA AwaitBecomes ==
  ASSUME NEW m, Kept(m), NEW t \in Live(m), NEW i \in 1..(t-1),
         NEW inc \in UAVs \union {None}, NEW rep \in UAVs
  PROVE  LET c == m.chains[t]
         IN  Becomes(m, Await(m, t, i, inc, rep), t,
                     [c EXCEPT !.pending = [c.pending EXCEPT
                                  ![i] = [incumbent |-> inc, replacement |-> rep]],
                               !.status = "HANDOFF"])
<1> DEFINE n == Await(m, t, i, inc, rep)
           c == m.chains[t]
           d == [c EXCEPT !.pending = [c.pending EXCEPT
                                  ![i] = [incumbent |-> inc, replacement |-> rep]],
                          !.status = "HANDOFF"]
<1>1. t \in Tasks /\ c \in ChainFor(t) /\ i \in Places
  BY LiveChain
<1>2. d \in ChainFor(t)
  BY <1>1 DEF ChainFor, Pending
<1>3. m \in Managers /\ m.chains \in [Tasks -> Chains \union {None}]
  BY DEF Kept, Managers
<1>4. n = [m EXCEPT !.chains = [m.chains EXCEPT ![t] = d],
                    !.station = [m.station EXCEPT ![rep] = i]]
  BY <1>1, <1>3 DEF Await, ChainFor
<1>5. [m.chains EXCEPT ![t] = d] \in [Tasks -> Chains \union {None}]
  BY <1>1, <1>2, ChainsTyped
<1> HIDE DEF n, d
<1>6. n \in Managers /\ Rechained(m, n, t, d) /\ n.singles = m.singles /\ n.chainOf = m.chainOf
  BY <1>1, <1>3, <1>4, <1>5 DEF Managers, Rechained
<1>7. Becomes(m, n, t, d)
  BY <1>2, <1>6, ItBecomes
<1> QED
  BY <1>7 DEF n, d

LEMMA WrittenBecomes ==
  ASSUME NEW m, Kept(m), NEW t \in Live(m), NEW i \in 1..(t-1),
         m.chains[t].pending[i] # None
  PROVE  LET c == m.chains[t]
             n == Written(m, t, i)
             d == n.chains[t]
         IN  /\ Becomes(m, n, t, d)
             /\ d.surveyor = c.surveyor /\ d.relays = c.relays
             /\ \A j \in 1..(t-1) : j # i => d.pending[j] = c.pending[j]
             /\ d.pending[i] \in Pending
             /\ d.pending[i].replacement = c.pending[i].replacement
<1> DEFINE c == m.chains[t]
           n == Written(m, t, i)
           p == c.pending[i]
           inc == p.incumbent
<1>1. t \in Tasks /\ c \in ChainFor(t)
  BY LiveChain
<1>2. p \in Pending
  BY <1>1 DEF ChainFor
<1>3. CASE inc = None \/ Active(inc)
  <2>1. n = m
    BY <1>3 DEF Written
  <2>2. Becomes(m, m, t, c)
    <3>1. m \in Managers
      BY DEF Kept
    <3> QED
      BY <3>1, UntouchedBecomes
  <2> QED
    BY <1>2, <2>1, <2>2
<1>4. CASE ~(inc = None \/ Active(inc))
  <2> DEFINE k == Detach(m, inc)
             q == [p EXCEPT !.incumbent = None]
             d == [c EXCEPT !.status = "DEGRADED",
                            !.pending = [c.pending EXCEPT ![i] = q]]
  <2>1. inc \in UAVs /\ q \in Pending /\ q.replacement = p.replacement
    BY <1>2, <1>4 DEF Pending
  <2>2. d \in ChainFor(t)
    BY <1>1, <2>1 DEF ChainFor
  <2>3. Kept(k) /\ k \in Managers /\ k.chains = m.chains /\ k.singles = m.singles /\ k.chainOf = m.chainOf
    BY <2>1, DetachKeeps
  <2>4. n = [k EXCEPT !.chains = [k.chains EXCEPT ![t] = d]]
    <3>1. n = [Marked(k, t, "DEGRADED") EXCEPT !.chains[t].pending[i].incumbent = None]
      BY <1>4 DEF Written
    <3>2. k.chains \in [Tasks -> Chains \union {None}] /\ k.chains[t] = c
      BY <2>3 DEF Managers
    <3> HIDE DEF k, n
    <3>3. Marked(k, t, "DEGRADED")
            = [k EXCEPT !.chains = [k.chains EXCEPT ![t] = [c EXCEPT !.status = "DEGRADED"]]]
      BY <1>1, <2>3, <3>2 DEF Marked
    <3> DEFINE e == [c EXCEPT !.status = "DEGRADED"]
               l == [k EXCEPT !.chains = [k.chains EXCEPT ![t] = e]]
    <3>4. e \in ChainFor(t) /\ e.pending = c.pending
      BY <1>1 DEF ChainFor
    <3>5. l.chains[t] = e /\ l.chains = [k.chains EXCEPT ![t] = e]
      BY <1>1, <2>3, <3>2 DEF Managers
    <3>6. n = [l EXCEPT !.chains = [l.chains EXCEPT ![t] =
                 [l.chains[t] EXCEPT !.pending = [l.chains[t].pending EXCEPT ![i] =
                    [l.chains[t].pending[i] EXCEPT !.incumbent = None]]]]]
      BY <3>1, <3>3
    <3>7. d = [e EXCEPT !.pending = [e.pending EXCEPT ![i] = [e.pending[i] EXCEPT !.incumbent = None]]]
      BY <1>1, <3>4 DEF ChainFor
    <3>8. n = [l EXCEPT !.chains = [l.chains EXCEPT ![t] = d]]
      BY <3>5, <3>6, <3>7
    <3>9. [l.chains EXCEPT ![t] = d] = [k.chains EXCEPT ![t] = d]
      BY <1>1, <3>2, <3>5
    <3> HIDE DEF d, e
    <3> QED
      BY <2>3, <3>8, <3>9 DEF Managers
  <2>5. [k.chains EXCEPT ![t] = d] \in [Tasks -> Chains \union {None}]
    BY <1>1, <2>2, <2>3, ChainsTyped
  <2> HIDE DEF k, n, d
  <2>6. n \in Managers /\ Rechained(m, n, t, d) /\ n.singles = m.singles /\ n.chainOf = m.chainOf
    BY <2>3, <2>4, <2>5 DEF Managers, Rechained
  <2>7. Becomes(m, n, t, d)
    BY <2>2, <2>6, ItBecomes
  <2>8. n.chains[t] = d
    BY <2>7 DEF Becomes
  <2>9. /\ d.surveyor = c.surveyor /\ d.relays = c.relays
        /\ \A j \in 1..(t-1) : j # i => d.pending[j] = c.pending[j]
        /\ d.pending[i] = q
    BY <1>1 DEF d, ChainFor
  <2> QED
    BY <2>1, <2>7, <2>8, <2>9 DEF n
<1> QED
  BY <1>3, <1>4

\* Whoever nobody has reserved has no post in any chain and is the surveyor of none.
LEMMA ReservedPosts ==
  ASSUME NEW m, Kept(m), NEW t \in Live(m), NEW u, u \notin Reserved(m)
  PROVE  LET c == m.chains[t]
         IN  u # c.surveyor /\ \A i \in 1..(t-1) : u \notin Posted(c, i)
<1> DEFINE c == m.chains[t]
<1>1. c \in ChainFor(t) /\ Stations(c) = 1..(t-1)
  BY LiveChain
<1>2. c.surveyor \in Reserved(m) /\ Range(c.relays) \subseteq Reserved(m)
  BY DEF Reserved
<1>3. \A i \in 1..(t-1) : c.relays[i] \in Range(c.relays)
  BY <1>1 DEF Range, ChainFor
<1>4. ASSUME NEW i \in 1..(t-1), c.pending[i] # None
      PROVE  c.pending[i].replacement \in Reserved(m)
  <2>1. c.pending[i].replacement \in Replacements(c)
    BY <1>1, <1>4 DEF Replacements
  <2>2. c.pending[i].replacement \in UAVs
    BY <2>1, LiveChain
  <2>3. InPendingHandoff(m, c.pending[i].replacement)
    BY <2>1 DEF InPendingHandoff
  <2> QED
    BY <2>2, <2>3 DEF Reserved
<1> QED
  BY <1>2, <1>3, <1>4 DEF Posted

(***************************************************************************)
(* The loop over the chains.                                               *)
(***************************************************************************)
SentPlain == UNCHANGED batch \/ \E cs \in Seq(Plain) : Send(cs)

LEMMA FleetStays ==
  ASSUME RelayInv, UNCHANGED <<fleet, task>>, SentPlain,
         Kept(mgr'), AllApart(mgr'), Scheduled'
  PROVE  RelayInv'
<1>1. FleetTyped' /\ Held'
  BY DEF RelayInv, FleetTyped, Held
<1>2. BatchSound'
  BY BatchStaysSound DEF RelayInv, SentPlain, NobodyTakes
<1> QED
  BY <1>1, <1>2 DEF RelayInv

LEMMA FewerToVisit ==
  ASSUME Scheduled, UNCHANGED <<stage, fleet>>, agenda' \subseteq agenda,
         stage = "chains" => \A v \in agenda' : v[2] \in Live(mgr'),
         stage = "singles" => \A u \in agenda' : mgr'.singles[u] # None
  PROVE  Scheduled'
BY DEF Scheduled

LEMMA VisitOfChain ==
  ASSUME RelayInv, stage = "chains", agenda # {}
  PROVE  LET t == Turn[2]
             i == Turn[3]
             c == mgr.chains[t]
         IN  /\ Turn \in agenda /\ t \in Live(mgr) /\ t \in Tasks
             /\ c \in ChainFor(t) /\ c.surveyor \in UAVs /\ Apart(c)
             /\ i > 0 => /\ i \in 1..(t-1) /\ i \in Places /\ c.relays[i] \in UAVs
                         /\ c.pending[i] # None =>
                              /\ c.pending[i] \in Pending
                              /\ c.pending[i].replacement \in UAVs
                              /\ c.pending[i].incumbent \in UAVs \union {None}
<1> DEFINE t == Turn[2]
           i == Turn[3]
           c == mgr.chains[t]
<1>1. Turn \in agenda /\ t \in Live(mgr) /\ i \in 0..(t-1)
  BY TurnIsNext DEF RelayInv, Scheduled
<1>2. t \in Tasks /\ c \in ChainFor(t) /\ t - 1 \in Nat /\ 1..(t-1) \subseteq Places
  BY <1>1, LiveChain DEF RelayInv
<1>3. Apart(c)
  BY <1>1 DEF RelayInv, AllApart
<1>4. c.surveyor \in UAVs
  BY <1>2 DEF ChainFor
<1> HIDE DEF i, t
<1>5. ASSUME i > 0
      PROVE  /\ i \in 1..(t-1) /\ i \in Places /\ c.relays[i] \in UAVs
             /\ c.pending[i] # None =>
                  /\ c.pending[i] \in Pending
                  /\ c.pending[i].replacement \in UAVs
                  /\ c.pending[i].incumbent \in UAVs \union {None}
  <2>1. i \in 1..(t-1)
    BY <1>1, <1>2, <1>5
  <2>2. i \in Places /\ c.relays[i] \in UAVs
    BY <1>2, <2>1 DEF ChainFor
  <2>3. c.pending[i] # None => c.pending[i] \in Pending
    BY <1>2, <2>1 DEF ChainFor
  <2> QED
    BY <2>1, <2>2, <2>3 DEF Pending
<1> QED
  BY <1>1, <1>2, <1>3, <1>4, <1>5 DEF i, t

LEMMA PostChanged ==
  ASSUME RelayInv, agenda # {}, AtStation, UNCHANGED <<fleet, task, stage>>, SentPlain,
         NEW d, Becomes(mgr, mgr', Turn[2], d), Apart(d)
  PROVE  RelayInv'
<1>1. stage = "chains" /\ agenda' \subseteq agenda
  BY DEF AtStation, Rest
<1>2. Kept(mgr) /\ AllApart(mgr) /\ Turn[2] \in Live(mgr)
  BY <1>1, VisitOfChain DEF RelayInv
<1>3. Kept(mgr') /\ AllApart(mgr') /\ Live(mgr') = Live(mgr)
  BY <1>2, BecomesApart
<1>4. Scheduled'
  <2>1. \A v \in agenda' : v[2] \in Live(mgr')
    BY <1>1, <1>3 DEF RelayInv, Scheduled
  <2> QED
    BY <1>1, <2>1, FewerToVisit DEF RelayInv
<1> QED
  BY <1>3, <1>4, FleetStays

LEMMA SelectedIsTyped ==
  ASSUME RelayInv, NEW m, NEW place \in Places, NEW excluded,
         Select(m, place, excluded) # None
  PROVE  LET u == Select(m, place, excluded)
         IN  u \in UAVs /\ u \notin excluded /\ fleet[u].task = None
BY SelectedIsFree DEF RelayInv, Eligible

LEMMA UnderwayKeeps ==
  ASSUME RelayInv, agenda # {}, ReplacementUnderway, UNCHANGED <<fleet, task, stage>>
  PROVE  RelayInv'
<1> DEFINE t == Turn[2]
           i == Turn[3]
           c == mgr.chains[t]
           n == Written(mgr, t, i)
           e == n.chains[t]
           d == [e EXCEPT !.status = "HANDOFF"]
<1>1. AtStation /\ stage = "chains" /\ i > 0 /\ c.pending[i] # None
      /\ mgr' = Marked(n, t, "HANDOFF") /\ UNCHANGED batch
  BY DEF ReplacementUnderway, AtStation
<1>2. t \in Live(mgr) /\ t \in Tasks /\ c \in ChainFor(t) /\ Apart(c) /\ i \in 1..(t-1)
  BY <1>1, VisitOfChain
<1>3. /\ Becomes(mgr, n, t, e)
      /\ e.surveyor = c.surveyor /\ e.relays = c.relays
      /\ \A j \in 1..(t-1) : j # i => e.pending[j] = c.pending[j]
      /\ e.pending[i] \in Pending
      /\ e.pending[i].replacement = c.pending[i].replacement
  <2>1. Kept(mgr) /\ t \in Live(mgr) /\ i \in 1..(t-1) /\ mgr.chains[t].pending[i] # None
    BY <1>1, <1>2 DEF RelayInv
  <2> HIDE DEF t, i
  <2> QED
    BY <2>1, WrittenBecomes
<1> HIDE DEF n
<1>4. Kept(n) /\ t \in Live(n) /\ e \in ChainFor(t)
  BY <1>2, <1>3 DEF Becomes
<1>5. Becomes(n, mgr', t, d)
  BY <1>1, <1>4, MarkedBecomes
<1>6. Becomes(mgr, mgr', t, d)
  BY <1>2, <1>3, <1>5, BecomesInTurn DEF RelayInv
<1>7. Apart(e)
  <2> DEFINE u == c.pending[i].replacement
  <2>1. u \in Posted(c, i) /\ u # c.relays[i]
    BY <1>1, <1>2 DEF Posted, Apart, Stations, ChainFor
  <2>2. Posted(e, i) \subseteq Posted(c, i) \union {u}
    BY <1>3, <2>1 DEF Posted
  <2>3. e.pending[i] # None => e.pending[i].replacement # e.relays[i]
    BY <1>3, <2>1
  <2> HIDE DEF u, c, e, t, i
  <2> QED
    BY <1>2, <1>3, <1>4, <2>1, <2>2, <2>3, StillApart
<1>8. Apart(d)
  BY <1>4, <1>7, MarkedIsApart
<1> HIDE DEF d
<1> QED
  BY <1>1, <1>6, <1>8, PostChanged DEF SentPlain

LEMMA SwapBecomes ==
  ASSUME NEW m, Kept(m), NEW t \in Live(m), NEW i \in 1..(t-1),
         NEW inc \in UAVs \union {None}, NEW rep \in UAVs
  PROVE  LET c == m.chains[t]
         IN  Becomes(m, Swap(m, t, i, inc, rep), t,
                     [c EXCEPT !.relays = [c.relays EXCEPT ![i] = rep]])
<1> DEFINE n == Attach(m, t, i, rep)
           k == Detach(n, inc)
           c == m.chains[t]
           d == [c EXCEPT !.relays = [c.relays EXCEPT ![i] = rep]]
<1>1. Becomes(m, n, t, d)
  BY AttachBecomes
<1> HIDE DEF n, d, c
<1>2. Kept(n) /\ t \in Live(n) /\ n.chains[t] = d
  BY <1>1 DEF Becomes
<1>3. k \in Managers /\ k.chains = n.chains /\ k.singles = n.singles /\ k.chainOf = n.chainOf
  BY <1>2, DetachKeeps
<1> HIDE DEF k
<1>4. Becomes(n, k, t, d)
  BY <1>2, <1>3, UntouchedBecomes
<1>5. Becomes(m, k, t, d)
  BY <1>1, <1>4, BecomesInTurn
<1> QED
  BY <1>5 DEF Swap, k, n, d, c

\* A post nobody waits for goes to somebody nobody has reserved.
LEMMA PostGiven ==
  ASSUME NEW m, Kept(m), NEW t \in Live(m), NEW i \in 1..(t-1), NEW u \in UAVs,
         u \notin Reserved(m), Apart(m.chains[t]), m.chains[t].pending[i] = None
  PROVE  LET c == m.chains[t] IN
         /\ Apart([c EXCEPT !.relays = [c.relays EXCEPT ![i] = u]])
         /\ \A inc \in UAVs \union {None} :
              Apart([c EXCEPT !.pending = [c.pending EXCEPT
                                  ![i] = [incumbent |-> inc, replacement |-> u]],
                              !.status = "HANDOFF"])
<1> DEFINE c == m.chains[t]
<1>1. c \in ChainFor(t) /\ t \in Tasks
  BY LiveChain
<1>2. u # c.surveyor /\ \A j \in 1..(t-1) : u \notin Posted(c, j)
  BY ReservedPosts
<1> HIDE DEF c
<1>3. ASSUME NEW d \in ChainFor(t), d.surveyor = c.surveyor,
             \A j \in 1..(t-1) : j # i => d.relays[j] = c.relays[j] /\ d.pending[j] = c.pending[j],
             Posted(d, i) \subseteq Posted(c, i) \union {u},
             d.pending[i] # None => d.pending[i].replacement # d.relays[i]
      PROVE  Apart(d)
  BY <1>1, <1>2, <1>3, StillApart DEF c
<1>4. c.pending[i] = None /\ u # c.relays[i]
  BY <1>2 DEF Posted, c
<1>5. Apart([c EXCEPT !.relays = [c.relays EXCEPT ![i] = u]])
  <2> DEFINE d == [c EXCEPT !.relays = [c.relays EXCEPT ![i] = u]]
  <2>1. /\ d \in ChainFor(t) /\ d.surveyor = c.surveyor /\ d.pending = c.pending
        /\ d.relays[i] = u /\ \A j \in 1..(t-1) : j # i => d.relays[j] = c.relays[j]
    BY <1>1 DEF ChainFor
  <2> HIDE DEF d
  <2>2. Posted(d, i) \subseteq Posted(c, i) \union {u}
    BY <1>4, <2>1 DEF Posted
  <2>3. Apart(d)
    BY <1>3, <1>4, <2>1, <2>2
  <2> QED
    BY <2>3 DEF d
<1>6. ASSUME NEW inc \in UAVs \union {None}
      PROVE  Apart([c EXCEPT !.pending = [c.pending EXCEPT
                                  ![i] = [incumbent |-> inc, replacement |-> u]],
                             !.status = "HANDOFF"])
  <2> DEFINE p == [incumbent |-> inc, replacement |-> u]
             d == [c EXCEPT !.pending = [c.pending EXCEPT ![i] = p], !.status = "HANDOFF"]
  <2>1. p \in Pending /\ p.replacement = u
    BY DEF Pending
  <2> HIDE DEF p
  <2>2. /\ d \in ChainFor(t) /\ d.surveyor = c.surveyor /\ d.relays = c.relays
        /\ d.pending[i] = p /\ \A j \in 1..(t-1) : j # i => d.pending[j] = c.pending[j]
    BY <1>1, <2>1 DEF ChainFor
  <2> HIDE DEF d
  <2>3. Posted(d, i) \subseteq Posted(c, i) \union {u}
    BY <2>1, <2>2 DEF Posted
  <2>4. Apart(d)
    BY <1>3, <1>4, <2>1, <2>2, <2>3
  <2> QED
    BY <2>4 DEF d, p
<1> QED
  BY <1>5, <1>6 DEF c

LEMMA DegradedKeeps ==
  ASSUME RelayInv, agenda # {}, AtStation, UNCHANGED <<fleet, task, stage, batch>>,
         mgr' = Marked(mgr, Turn[2], "DEGRADED")
  PROVE  RelayInv'
<1> DEFINE t == Turn[2]
           d == [mgr.chains[t] EXCEPT !.status = "DEGRADED"]
<1>1. stage = "chains" /\ Kept(mgr)
  BY DEF AtStation, RelayInv
<1>2. t \in Live(mgr) /\ mgr.chains[t] \in ChainFor(t) /\ Apart(mgr.chains[t])
  BY <1>1, VisitOfChain
<1>3. Becomes(mgr, mgr', t, d)
  BY <1>1, <1>2, MarkedBecomes
<1>4. Apart(d)
  BY <1>2, MarkedIsApart
<1> HIDE DEF d
<1> QED
  BY <1>3, <1>4, PostChanged DEF SentPlain

LEMMA LostKeeps ==
  ASSUME RelayInv, agenda # {}, RelayLost, UNCHANGED <<fleet, task, stage>>
  PROVE  RelayInv'
<1> DEFINE t == Turn[2]
           i == Turn[3]
           c == mgr.chains[t]
           new == Select(mgr, i, Reserved(mgr))
<1>1. AtStation /\ stage = "chains" /\ i > 0 /\ c.pending[i] = None
  BY DEF RelayLost, AtStation
<1>2. /\ t \in Live(mgr) /\ Apart(c) /\ i \in 1..(t-1) /\ i \in Places
      /\ c.surveyor \in UAVs /\ c.relays[i] \in UAVs /\ Kept(mgr)
  BY <1>1, VisitOfChain DEF RelayInv
<1>3. CASE new = None
  BY <1>1, <1>3, DegradedKeeps DEF RelayLost
<1>4. CASE new # None
  <2>1. new \in UAVs /\ new \notin Reserved(mgr) /\ fleet[new].task = None
    BY <1>2, <1>4, SelectedIsTyped
  <2>2. mgr' = Swap(mgr, t, i, c.relays[i], new) /\ Send(Dispatch(new, i, c.surveyor))
    BY <1>4 DEF RelayLost
  <2> DEFINE d == [c EXCEPT !.relays = [c.relays EXCEPT ![i] = new]]
  <2> HIDE DEF new, i, t
  <2>3. Becomes(mgr, mgr', t, d)
    BY <1>2, <2>1, <2>2, SwapBecomes
  <2>4. Apart(d)
    BY <1>1, <1>2, <2>1, PostGiven
  <2>5. SentPlain
    <3>1. Dispatch(new, i, c.surveyor) \in Seq(Plain)
      BY <1>2, <2>1, CallsArePlain
    <3> QED
      BY <2>2, <3>1 DEF SentPlain
  <2> HIDE DEF d
  <2> QED
    BY <1>1, <2>3, <2>4, <2>5, PostChanged DEF t
<1> QED
  BY <1>3, <1>4

LEMMA TiresKeeps ==
  ASSUME RelayInv, agenda # {}, RelayTires, UNCHANGED <<fleet, task, stage>>
  PROVE  RelayInv'
<1> DEFINE t == Turn[2]
           i == Turn[3]
           c == mgr.chains[t]
           new == Select(mgr, i, Reserved(mgr))
           r == c.relays[i]
<1>1. AtStation /\ stage = "chains" /\ i > 0 /\ c.pending[i] = None
  BY DEF RelayTires, AtStation
<1>2. /\ t \in Live(mgr) /\ Apart(c) /\ i \in 1..(t-1) /\ i \in Places
      /\ c.surveyor \in UAVs /\ r \in UAVs /\ Kept(mgr)
  BY <1>1, VisitOfChain DEF RelayInv
<1>3. CASE mgr' = Marked(mgr, t, "DEGRADED") /\ UNCHANGED batch
  BY <1>1, <1>3, DegradedKeeps
<1>4. CASE /\ new # None
           /\ mgr' = Swap(mgr, t, i, r, new)
           /\ Send(SwapCommands(r, new, i, c.surveyor))
  <2>1. new \in UAVs /\ new \notin Reserved(mgr) /\ fleet[new].task = None
    BY <1>2, <1>4, SelectedIsTyped
  <2> DEFINE d == [c EXCEPT !.relays = [c.relays EXCEPT ![i] = new]]
  <2> HIDE DEF new, i, t, r
  <2>3. Becomes(mgr, mgr', t, d)
    BY <1>2, <1>4, <2>1, SwapBecomes
  <2>4. Apart(d)
    BY <1>1, <1>2, <2>1, PostGiven
  <2>5. SentPlain
    <3>1. SwapCommands(r, new, i, c.surveyor) \in Seq(Plain)
      BY <1>2, <2>1, SwapsArePlain
    <3> QED
      BY <1>4, <3>1 DEF SentPlain
  <2> HIDE DEF d
  <2> QED
    BY <1>1, <2>3, <2>4, <2>5, PostChanged DEF t
<1>5. CASE /\ new # None
           /\ mgr' = Await(mgr, t, i, r, new)
           /\ Send(Dispatch(new, i, c.surveyor))
  <2>1. new \in UAVs /\ new \notin Reserved(mgr) /\ fleet[new].task = None
    BY <1>2, <1>5, SelectedIsTyped
  <2> DEFINE d == [c EXCEPT !.pending = [c.pending EXCEPT
                                  ![i] = [incumbent |-> r, replacement |-> new]],
                            !.status = "HANDOFF"]
  <2> HIDE DEF new, i, t, r
  <2>3. Becomes(mgr, mgr', t, d)
    BY <1>2, <1>5, <2>1, AwaitBecomes
  <2>4. Apart(d)
    BY <1>1, <1>2, <2>1, PostGiven
  <2>5. SentPlain
    <3>1. Dispatch(new, i, c.surveyor) \in Seq(Plain)
      BY <1>2, <2>1, CallsArePlain
    <3> QED
      BY <1>5, <3>1 DEF SentPlain
  <2> HIDE DEF d
  <2> QED
    BY <1>1, <2>3, <2>4, <2>5, PostChanged DEF t
<1> QED
  BY <1>3, <1>4, <1>5 DEF RelayTires

LEMMA SettledIsApart ==
  ASSUME NEW t \in Tasks, NEW c \in ChainFor(t), Apart(c), NEW i \in 1..(t-1)
  PROVE  Apart([c EXCEPT !.pending = [c.pending EXCEPT ![i] = None]])
<1> DEFINE d == [c EXCEPT !.pending = [c.pending EXCEPT ![i] = None]]
           u == c.relays[i]
<1>1. /\ d \in ChainFor(t) /\ d.surveyor = c.surveyor /\ d.relays = c.relays
      /\ d.pending[i] = None /\ \A j \in 1..(t-1) : j # i => d.pending[j] = c.pending[j]
  BY DEF ChainFor
<1> HIDE DEF d
<1>2. u \in Posted(c, i) /\ Posted(d, i) \subseteq Posted(c, i) \union {u}
  BY <1>1 DEF Posted
<1>3. Apart(d)
  BY <1>1, <1>2, StillApart
<1> QED
  BY <1>3 DEF d

LEMMA ReplacementLostKeeps ==
  ASSUME RelayInv, agenda # {}, ReplacementLost, UNCHANGED <<fleet, task, stage>>
  PROVE  RelayInv'
<1> DEFINE t == Turn[2]
           i == Turn[3]
           c == mgr.chains[t]
           p == c.pending[i]
           k == Settled(mgr, t, i)
           m1 == [k EXCEPT !.station[p.replacement] = None]
           d == [c EXCEPT !.pending = [c.pending EXCEPT ![i] = None]]
           new == IF p.incumbent # None /\ Active(p.incumbent)
                    THEN Select(m1, i, Reserved(m1)) ELSE None
           first == IF Active(p.replacement) /\ fleet[p.replacement].role = "RELAY"
                      THEN Release(p.replacement) ELSE <<>>
           second == IF new = None THEN <<>> ELSE Dispatch(new, i, c.surveyor)
<1>1. AtStation /\ stage = "chains" /\ i > 0 /\ p # None
  BY DEF ReplacementLost, AtStation
<1>2. /\ mgr' = IF new = None THEN Marked(m1, t, "DEGRADED")
                ELSE Await(m1, t, i, p.incumbent, new)
      /\ Send(first \o second)
  BY DEF ReplacementLost
<1>3. /\ t \in Live(mgr) /\ t \in Tasks /\ c \in ChainFor(t) /\ Apart(c)
      /\ i \in 1..(t-1) /\ i \in Places /\ c.surveyor \in UAVs /\ Kept(mgr)
      /\ p.replacement \in UAVs /\ p.incumbent \in UAVs \union {None}
  BY <1>1, VisitOfChain DEF RelayInv
<1> HIDE DEF t, i
<1>4. Becomes(mgr, k, t, d)
  BY <1>3, SettledBecomes
<1>5. Apart(d)
  BY <1>3, SettledIsApart
<1>6. Becomes(mgr, m1, t, d)
  <2> HIDE DEF k, d, p
  <2>1. Kept(k) /\ k \in Managers /\ t \in Live(k) /\ k.chains[t] = d
    BY <1>3, <1>4 DEF Becomes, Kept
  <2>2. m1 \in Managers /\ m1.chains = k.chains /\ m1.singles = k.singles /\ m1.chainOf = k.chainOf
    BY <1>3, <2>1 DEF Managers
  <2> HIDE DEF m1
  <2>3. Becomes(k, m1, t, d)
    BY <2>1, <2>2, UntouchedBecomes
  <2> QED
    BY <1>3, <1>4, <2>3, BecomesInTurn
<1>7. d.pending[i] = None
  BY <1>3 DEF ChainFor
<1> HIDE DEF m1, d, k
<1>8. Kept(m1) /\ t \in Live(m1) /\ m1.chains[t] = d /\ d \in ChainFor(t)
  BY <1>3, <1>6 DEF Becomes
<1>9. new # None => new \in UAVs /\ new \notin Reserved(m1) /\ fleet[new].task = None
  BY <1>3, SelectedIsTyped
<1> HIDE DEF new
<1>10. SentPlain
  <2>1. first \in Seq(Plain)
    BY <1>3, OrdersArePlain, NothingSent
  <2>2. second \in Seq(Plain)
    BY <1>3, <1>9, CallsArePlain, NothingSent
  <2>3. first \o second \in Seq(Plain)
    BY <2>1, <2>2, Joined
  <2> QED
    BY <1>2, <2>3 DEF SentPlain
<1>11. CASE new = None
  <2> DEFINE e == [d EXCEPT !.status = "DEGRADED"]
  <2>1. Becomes(m1, mgr', t, e)
    BY <1>2, <1>8, <1>11, MarkedBecomes
  <2>2. Becomes(mgr, mgr', t, e)
    BY <1>3, <1>6, <2>1, BecomesInTurn
  <2>3. Apart(e)
    BY <1>5, <1>8, MarkedIsApart
  <2> HIDE DEF e
  <2> QED
    BY <1>1, <1>10, <2>2, <2>3, PostChanged DEF t
<1>12. CASE new # None
  <2> DEFINE e == [d EXCEPT !.pending = [d.pending EXCEPT
                               ![i] = [incumbent |-> p.incumbent, replacement |-> new]],
                            !.status = "HANDOFF"]
  <2>1. Becomes(m1, mgr', t, e)
    BY <1>2, <1>3, <1>8, <1>9, <1>12, AwaitBecomes
  <2>2. Becomes(mgr, mgr', t, e)
    BY <1>3, <1>6, <2>1, BecomesInTurn
  <2>3. Apart(e)
    BY <1>3, <1>5, <1>7, <1>8, <1>9, <1>12, PostGiven
  <2> HIDE DEF e
  <2> QED
    BY <1>1, <1>10, <2>2, <2>3, PostChanged DEF t
<1> QED
  BY <1>11, <1>12

LEMMA ArrivalKeeps ==
  ASSUME RelayInv, agenda # {}, ReplacementArrives, UNCHANGED <<fleet, task, stage>>
  PROVE  RelayInv'
<1> DEFINE t == Turn[2]
           i == Turn[3]
           c == mgr.chains[t]
           rep == c.pending[i].replacement
           m1 == Written(mgr, t, i)
           d == m1.chains[t]
           inc == d.pending[i].incumbent
           k == Swap(m1, t, i, inc, rep)
           e == [d EXCEPT !.relays = [d.relays EXCEPT ![i] = rep]]
           m2 == Settled(k, t, i)
           f == [e EXCEPT !.pending = [e.pending EXCEPT ![i] = None]]
<1>1. /\ AtStation /\ stage = "chains" /\ i > 0 /\ c.pending[i] # None
      /\ mgr' = IF \/ m2.chains[t].status = "DEGRADED"
                   \/ Replacements(m2.chains[t]) # {} THEN m2
                ELSE Marked(m2, t, "ACTIVE")
      /\ Send(SwapCommands(inc, rep, i, m2.chains[t].surveyor))
  BY DEF ReplacementArrives, AtStation
<1>2. /\ t \in Live(mgr) /\ t \in Tasks /\ c \in ChainFor(t) /\ Apart(c)
      /\ i \in 1..(t-1) /\ i \in Places /\ Kept(mgr)
      /\ rep \in UAVs /\ c.surveyor \in UAVs
  BY <1>1, VisitOfChain DEF RelayInv
<1> HIDE DEF t, i
<1>3. /\ Becomes(mgr, m1, t, d)
      /\ d.surveyor = c.surveyor /\ d.relays = c.relays
      /\ \A j \in 1..(t-1) : j # i => d.pending[j] = c.pending[j]
      /\ d.pending[i] \in Pending
  BY <1>1, <1>2, WrittenBecomes
<1> HIDE DEF m1
<1>4. inc \in UAVs \union {None} /\ Kept(m1) /\ t \in Live(m1) /\ d \in ChainFor(t)
  BY <1>2, <1>3 DEF Becomes, Pending
<1> HIDE DEF inc, rep
<1>5. Becomes(m1, k, t, e)
  BY <1>2, <1>4, SwapBecomes
<1>6. Becomes(mgr, k, t, e)
  BY <1>2, <1>3, <1>5, BecomesInTurn
<1> HIDE DEF k, e
<1>7. Kept(k) /\ t \in Live(k) /\ k.chains[t] = e /\ e \in ChainFor(t)
  BY <1>2, <1>6 DEF Becomes
<1>8. Becomes(k, m2, t, f)
  BY <1>2, <1>7, SettledBecomes
<1>9. Becomes(mgr, m2, t, f)
  BY <1>2, <1>6, <1>8, BecomesInTurn
<1> HIDE DEF m2
<1>10. Kept(m2) /\ t \in Live(m2) /\ m2.chains[t] = f /\ f \in ChainFor(t)
  BY <1>2, <1>9 DEF Becomes
<1>11. /\ f.surveyor = c.surveyor /\ f.relays[i] = rep /\ f.pending[i] = None
       /\ \A j \in 1..(t-1) : j # i => f.relays[j] = c.relays[j] /\ f.pending[j] = c.pending[j]
  BY <1>2, <1>3, <1>4, <1>7 DEF ChainFor, e
<1> HIDE DEF f
<1>12. Apart(f)
  <2>1. rep \in Posted(c, i)
    BY <1>1 DEF Posted, rep
  <2>2. Posted(f, i) \subseteq Posted(c, i) \union {rep}
    BY <1>11 DEF Posted
  <2> HIDE DEF c
  <2> QED
    BY <1>2, <1>10, <1>11, <2>1, <2>2, StillApart
<1>13. SentPlain
  <2>1. SwapCommands(inc, rep, i, f.surveyor) \in Seq(Plain)
    BY <1>2, <1>4, <1>11, SwapsArePlain
  <2> QED
    BY <1>1, <1>10, <2>1 DEF SentPlain
<1>14. CASE mgr' = m2
  BY <1>1, <1>9, <1>12, <1>13, <1>14, PostChanged DEF t
<1>15. CASE mgr' = Marked(m2, t, "ACTIVE")
  <2> DEFINE g == [f EXCEPT !.status = "ACTIVE"]
  <2>1. Becomes(m2, mgr', t, g)
    BY <1>10, <1>15, MarkedBecomes
  <2>2. Becomes(mgr, mgr', t, g)
    BY <1>2, <1>9, <2>1, BecomesInTurn
  <2>3. Apart(g)
    BY <1>10, <1>12, MarkedIsApart
  <2> HIDE DEF g
  <2> QED
    BY <1>1, <1>13, <2>2, <2>3, PostChanged DEF t
<1> QED
  BY <1>1, <1>14, <1>15

LEMMA TeardownEnds ==
  ASSUME NEW m, Kept(m), NEW t \in Live(m), NEW n \in Teardown(m, t)
  PROVE  /\ Kept(n) /\ Live(n) = Live(m) \ {t} /\ (AllApart(m) => AllApart(n))
         /\ n.singles = m.singles
<1> DEFINE leaving == Leaving(m, t)
           freed   == Freed(m, t)
           shared  == Shared(m, t)
<1>0. PICK heir \in Heirs(m, t) : n = Inherited(m, t, heir)
  BY DEF Teardown
<1>1. m \in Managers /\ t \in Tasks
  BY LiveChain DEF Kept
<1>2. \A u \in shared : heir[u] \in UAVs
  BY <1>0 DEF Heirs
<1>3. [m.chains EXCEPT ![t] = None] \in [Tasks -> Chains \union {None}]
  BY <1>1, ChainsTyped
<1> DEFINE chainOf == [u \in UAVs |-> IF u \in leaving THEN None ELSE m.chainOf[u]]
           terminal == [u \in UAVs |-> IF u \in leaving THEN None ELSE m.terminal[u]]
           users == [u \in UAVs |->
                     IF u \in freed THEN {}
                     ELSE IF u \in Range(m.chains[t].relays)
                                     \union Replacements(m.chains[t])
                     THEN m.users[u] \ leaving ELSE m.users[u]]
           station == [u \in UAVs |-> IF u \in freed THEN None ELSE m.station[u]]
           serves == [u \in UAVs |-> IF u \in freed THEN None
                                   ELSE IF u \in shared THEN heir[u] ELSE m.serves[u]]
           member == [u \in UAVs |-> IF u \in freed THEN None
                      ELSE IF u \in shared /\ m.chainOf[heir[u]] # None
                      THEN m.chainOf[heir[u]] ELSE m.member[u]]
<1>4. n = [m EXCEPT !.chains = [m.chains EXCEPT ![t] = None], !.chainOf = chainOf,
                    !.terminal = terminal, !.users = users, !.station = station,
                    !.serves = serves, !.member = member]
  BY <1>0, <1>1 DEF Inherited, Managers
<1>5. /\ chainOf \in [UAVs -> Tasks \union {None}] /\ terminal \in [UAVs -> UAVs \union {None}]
      /\ users \in [UAVs -> SUBSET UAVs] /\ station \in [UAVs -> Places \union {None}]
  <2> HIDE DEF leaving, freed
  <2> QED
    BY <1>1 DEF Managers
<1>6. serves \in [UAVs -> UAVs \union {None}] /\ member \in [UAVs -> Tasks \union {None}]
  <2> HIDE DEF leaving, freed, shared
  <2> QED
    BY <1>1, <1>2 DEF Managers
<1> HIDE DEF chainOf, terminal, users, station, serves, member
<1>7. n \in Managers /\ Rechained(m, n, t, None) /\ n.singles = m.singles
  BY <1>1, <1>3, <1>4, <1>5, <1>6 DEF Managers, Rechained
<1>8. \A u \in UAVs : n.chainOf[u] \in {m.chainOf[u], None} \ {t}
  <2>1. \A u \in UAVs : n.chainOf[u] = IF u \in leaving THEN None ELSE m.chainOf[u]
    BY <1>1, <1>4 DEF Managers, chainOf
  <2>2. t # None /\ \A u \in UAVs : m.chainOf[u] = t => u \in leaving
    BY <1>1, NoneIsNobody DEF Leaving
  <2> HIDE DEF leaving
  <2> QED
    BY <2>1, <2>2
<1>9. Kept(n) /\ Live(n) = Live(m) \ {t} /\ (AllApart(m) => AllApart(n))
  BY <1>1, <1>7, <1>8, ChainEnded
<1> QED
  BY <1>7, <1>9

LEMMA AbandonKeeps ==
  ASSUME RelayInv, agenda # {}, AbandonChain, UNCHANGED <<fleet, task, stage>>
  PROVE  RelayInv'
<1> DEFINE t == Turn[2]
<1>1. /\ stage = "chains" /\ mgr' \in Teardown(mgr, t) /\ Send(TeardownCommands(mgr, t))
      /\ agenda' = {v \in agenda : v[2] # t}
  BY DEF AbandonChain
<1>2. t \in Live(mgr) /\ Kept(mgr) /\ AllApart(mgr)
  BY <1>1, VisitOfChain DEF RelayInv
<1> HIDE DEF t
<1>3. Kept(mgr') /\ AllApart(mgr') /\ Live(mgr') = Live(mgr) \ {t}
  BY <1>1, <1>2, TeardownEnds
<1>4. SentPlain
  BY <1>1, <1>2, TeardownIsNear, NearIsPlain DEF SentPlain
<1>5. Scheduled'
  <2>1. \A v \in agenda' : v[2] \in Live(mgr')
    BY <1>1, <1>3 DEF RelayInv, Scheduled
  <2> QED
    BY <1>1, <2>1, FewerToVisit DEF RelayInv
<1> QED
  BY <1>3, <1>4, <1>5, FleetStays

(***************************************************************************)
(* The loops over relays and surveyors without a chain.                    *)
(***************************************************************************)
LEMMA ChainsRest ==
  ASSUME RelayInv, Rest, stage # "chains", UNCHANGED <<fleet, task, stage>>, SentPlain,
         mgr' \in Managers, mgr'.chains = mgr.chains, mgr'.chainOf = mgr.chainOf,
         stage = "singles" => \A u \in agenda' : mgr'.singles[u] # None
  PROVE  RelayInv'
<1>1. Kept(mgr') /\ AllApart(mgr')
  BY ChainsUntouched DEF RelayInv
<1>2. Scheduled'
  BY FewerToVisit DEF RelayInv, Rest
<1> QED
  BY <1>1, <1>2, FleetStays

LEMMA AppointedTyped ==
  ASSUME NEW m \in Managers, NEW u \in UAVs, NEW place \in Places, NEW s \in UAVs
  PROVE  LET n == Appoint(m, u, place, s)
         IN  n \in Managers /\ n.chains = m.chains /\ n.singles = m.singles /\ n.chainOf = m.chainOf
BY DEF Appoint, Managers

LEMMA RetiredTyped ==
  ASSUME NEW m \in Managers, NEW u \in UAVs
  PROVE  LET n == Retire(m, u)
         IN  n \in Managers /\ n.chains = m.chains /\ n.singles = m.singles /\ n.chainOf = m.chainOf
BY DEF Retire, Managers

LEMMA ReplacedTyped ==
  ASSUME NEW m \in Managers, NEW u \in UAVs, NEW v \in UAVs, NEW place \in Places,
         NEW s \in UAVs
  PROVE  LET n == Retire(Appoint(m, u, place, s), v)
         IN  n \in Managers /\ n.chains = m.chains /\ n.singles = m.singles /\ n.chainOf = m.chainOf
<1> DEFINE k == Appoint(m, u, place, s)
<1>1. k \in Managers /\ k.chains = m.chains /\ k.singles = m.singles /\ k.chainOf = m.chainOf
  BY AppointedTyped
<1> HIDE DEF k
<1>2. LET n == Retire(k, v)
      IN  n \in Managers /\ n.chains = k.chains /\ n.singles = k.singles /\ n.chainOf = k.chainOf
  BY <1>1, RetiredTyped
<1> QED
  BY <1>1, <1>2 DEF k

LEMMA VisitOfVehicle ==
  ASSUME RelayInv, agenda # {}, stage \notin {"chains", "plan"}
  PROVE  Turn \in agenda /\ Turn \in UAVs
BY TurnIsNext DEF RelayInv, Scheduled

LEMMA SingleHandoffKeeps ==
  ASSUME RelayInv, agenda # {}, SingleHandoff, UNCHANGED <<fleet, task, stage>>
  PROVE  RelayInv'
<1> DEFINE inc == Turn
           h == mgr.singles[inc]
           m1 == [mgr EXCEPT !.singles[inc] = None]
<1>1. stage = "singles" /\ Rest /\ mgr \in Managers
  BY DEF SingleHandoff, RelayInv, Kept
<1>2. inc \in agenda /\ inc \in UAVs /\ mgr.singles[inc] # None
  BY <1>1, VisitOfVehicle DEF RelayInv, Scheduled
<1>3. h \in Single
  BY <1>1, <1>2 DEF Managers
<1>4. h.replacement \in UAVs /\ h.place \in Places /\ h.surveyor \in UAVs
  BY <1>3 DEF Single
<1>5. \/ /\ mgr' = Retire(Appoint(m1, h.replacement, h.place, h.surveyor), inc)
         /\ Send(SwapCommands(inc, h.replacement, h.place, h.surveyor))
      \/ /\ mgr' = [m1 EXCEPT !.station[h.replacement] = None]
         /\ Send(IF Active(h.replacement) /\ fleet[h.replacement].role = "RELAY"
                   THEN Release(h.replacement) ELSE <<>>)
  BY DEF SingleHandoff
<1> HIDE DEF inc, h
<1>6. /\ m1 \in Managers /\ m1.chains = mgr.chains /\ m1.chainOf = mgr.chainOf
      /\ m1.singles = [mgr.singles EXCEPT ![inc] = None]
  BY <1>1, <1>2 DEF Managers
<1> HIDE DEF m1
<1>7. mgr' \in Managers /\ mgr'.chains = m1.chains /\ mgr'.singles = m1.singles
      /\ mgr'.chainOf = m1.chainOf
  <2>1. CASE mgr' = Retire(Appoint(m1, h.replacement, h.place, h.surveyor), inc)
    BY <1>2, <1>4, <1>6, <2>1, ReplacedTyped, SMTT(30)
  <2>2. CASE mgr' = [m1 EXCEPT !.station[h.replacement] = None]
    BY <1>6, <2>2 DEF Managers
  <2> QED
    BY <1>5, <2>1, <2>2
<1>8. SentPlain
  <2>1. SwapCommands(inc, h.replacement, h.place, h.surveyor) \in Seq(Plain)
    BY <1>2, <1>4, SwapsArePlain
  <2>2. (IF Active(h.replacement) /\ fleet[h.replacement].role = "RELAY"
           THEN Release(h.replacement) ELSE <<>>) \in Seq(Plain)
    BY <1>4, OrdersArePlain, NothingSent
  <2> QED
    BY <1>5, <2>1, <2>2 DEF SentPlain
<1>9. \A u \in agenda' : mgr'.singles[u] # None
  <2> TAKE u \in agenda'
  <2>1. u \in agenda /\ u # inc /\ u \in UAVs /\ mgr.singles[u] # None
    BY <1>1 DEF Rest, inc, RelayInv, Scheduled
  <2>2. mgr.singles \in [UAVs -> Single \union {None}]
    BY <1>1 DEF Managers
  <2> QED
    BY <1>6, <1>7, <2>1, <2>2
<1> QED
  BY <1>1, <1>6, <1>7, <1>8, <1>9, ChainsRest

LEMMA WhereAndForWhom ==
  ASSUME RelayInv, NEW u \in UAVs
  PROVE  Beneficiary(u) \in UAVs \union {None} /\ Post(u) \in Places
<1>1. mgr \in Managers /\ fleet[u] \in Vehicle
  BY DEF RelayInv, Kept, FleetTyped
<1>2. mgr.serves[u] \in UAVs \union {None} /\ mgr.station[u] \in Places \union {None}
  BY <1>1 DEF Managers
<1> QED
  BY <1>1, <1>2 DEF Beneficiary, Post, OrElse, Vehicle

LEMMA SingleRelayLostKeeps ==
  ASSUME RelayInv, agenda # {}, SingleRelayLost, UNCHANGED <<fleet, task, stage>>
  PROVE  RelayInv'
<1> DEFINE u == Turn
           s == Beneficiary(u)
           place == Post(u)
           new == IF s = None THEN None ELSE Select(mgr, place, {u, s})
<1>1. stage = "relays" /\ Rest /\ mgr \in Managers
  BY DEF SingleRelayLost, RelayInv, Kept
<1>2. u \in UAVs
  BY <1>1, VisitOfVehicle
<1>3. \/ mgr' = Retire(mgr, u) /\ UNCHANGED batch
      \/ /\ new # None
         /\ mgr' = Retire(Appoint(mgr, new, place, s), u)
         /\ Send(Dispatch(new, place, s))
  BY DEF SingleRelayLost
<1> HIDE DEF u
<1>4. s \in UAVs \union {None} /\ place \in Places
  BY <1>2, WhereAndForWhom
<1>5. new # None => s \in UAVs /\ new \in UAVs /\ fleet[new].task = None
  BY <1>4, SelectedIsTyped
<1> HIDE DEF s, place, new
<1>6. CASE mgr' = Retire(mgr, u) /\ UNCHANGED batch
  <2>1. mgr' \in Managers /\ mgr'.chains = mgr.chains /\ mgr'.chainOf = mgr.chainOf
    BY <1>1, <1>2, <1>6, RetiredTyped
  <2> QED
    BY <1>1, <1>6, <2>1, ChainsRest DEF SentPlain
<1>7. CASE /\ new # None
           /\ mgr' = Retire(Appoint(mgr, new, place, s), u)
           /\ Send(Dispatch(new, place, s))
  <2>1. mgr' \in Managers /\ mgr'.chains = mgr.chains /\ mgr'.chainOf = mgr.chainOf
    BY <1>1, <1>2, <1>4, <1>5, <1>7, ReplacedTyped, SMTT(30)
  <2>2. SentPlain
    BY <1>4, <1>5, <1>7, CallsArePlain DEF SentPlain
  <2> QED
    BY <1>1, <2>1, <2>2, ChainsRest
<1> QED
  BY <1>3, <1>6, <1>7

LEMMA SingleRelayTiresKeeps ==
  ASSUME RelayInv, agenda # {}, SingleRelayTires, UNCHANGED <<fleet, task, stage>>
  PROVE  RelayInv'
<1> DEFINE u == Turn
           s == Beneficiary(u)
           place == Post(u)
           new == Select(mgr, place, Reserved(mgr) \union {s})
           h == [replacement |-> new, place |-> place, surveyor |-> s]
<1>1. stage = "relays" /\ Rest /\ mgr \in Managers
  BY DEF SingleRelayTires, RelayInv, Kept
<1>2. u \in UAVs
  BY <1>1, VisitOfVehicle
<1>3. \/ UNCHANGED <<mgr, batch>>
      \/ /\ s # None /\ new # None
         /\ \/ /\ mgr' = Retire(Appoint(mgr, new, place, s), u)
               /\ Send(SwapCommands(u, new, place, s))
            \/ /\ mgr' = [mgr EXCEPT !.station[new] = place, !.singles[u] = h]
               /\ Send(Dispatch(new, place, s))
  BY DEF SingleRelayTires
<1> HIDE DEF u
<1>4. s \in UAVs \union {None} /\ place \in Places
  BY <1>2, WhereAndForWhom
<1>5. new # None => new \in UAVs /\ fleet[new].task = None
  BY <1>4, SelectedIsTyped
<1> HIDE DEF s, place, new
<1>6. CASE UNCHANGED <<mgr, batch>>
  BY <1>1, <1>6, ChainsRest DEF SentPlain
<1>7. CASE /\ s # None /\ new # None
           /\ mgr' = Retire(Appoint(mgr, new, place, s), u)
           /\ Send(SwapCommands(u, new, place, s))
  <2>1. mgr' \in Managers /\ mgr'.chains = mgr.chains /\ mgr'.chainOf = mgr.chainOf
    BY <1>1, <1>2, <1>4, <1>5, <1>7, ReplacedTyped, SMTT(30)
  <2>2. SentPlain
    BY <1>2, <1>4, <1>5, <1>7, SwapsArePlain DEF SentPlain
  <2> QED
    BY <1>1, <2>1, <2>2, ChainsRest
<1>8. CASE /\ s # None /\ new # None
           /\ mgr' = [mgr EXCEPT !.station[new] = place, !.singles[u] = h]
           /\ Send(Dispatch(new, place, s))
  <2>0. h \in Single
    BY <1>4, <1>5, <1>8 DEF Single
  <2> HIDE DEF h
  <2>1. mgr' \in Managers /\ mgr'.chains = mgr.chains /\ mgr'.chainOf = mgr.chainOf
    BY <1>1, <1>2, <1>4, <1>5, <1>8, <2>0 DEF Managers
  <2>2. SentPlain
    BY <1>4, <1>5, <1>8, CallsArePlain DEF SentPlain
  <2> QED
    BY <1>1, <2>1, <2>2, ChainsRest
<1> QED
  BY <1>3, <1>6, <1>7, <1>8

LEMMA SupportKeeps ==
  ASSUME RelayInv, agenda # {}, SupportSurveyor, UNCHANGED <<fleet, task, stage>>
  PROVE  RelayInv'
<1> DEFINE s == Turn
           new == Select(mgr, 1, {s})
<1>1. stage = "surveyors" /\ Rest /\ mgr \in Managers
  BY DEF SupportSurveyor, RelayInv, Kept
<1>2. s \in UAVs /\ 1 \in Places
  BY <1>1, VisitOfVehicle DEF RelayInv, Scheduled
<1>3. \/ UNCHANGED <<mgr, batch>>
      \/ new # None /\ mgr' = Appoint(mgr, new, 1, s) /\ Send(Dispatch(new, 1, s))
  BY DEF SupportSurveyor
<1> HIDE DEF s
<1>4. new # None => new \in UAVs /\ fleet[new].task = None
  BY <1>2, SelectedIsTyped
<1> HIDE DEF new
<1>5. CASE UNCHANGED <<mgr, batch>>
  BY <1>1, <1>5, ChainsRest DEF SentPlain
<1>6. CASE new # None /\ mgr' = Appoint(mgr, new, 1, s) /\ Send(Dispatch(new, 1, s))
  <2>1. mgr' \in Managers /\ mgr'.chains = mgr.chains /\ mgr'.chainOf = mgr.chainOf
    BY <1>1, <1>2, <1>4, <1>6, AppointedTyped
  <2>2. SentPlain
    BY <1>2, <1>4, <1>6, CallsArePlain DEF SentPlain
  <2> QED
    BY <1>1, <2>1, <2>2, ChainsRest
<1> QED
  BY <1>3, <1>5, <1>6

LEMMA ReleaseIdleKeeps ==
  ASSUME RelayInv, agenda # {}, ReleaseIdleRelay, UNCHANGED <<fleet, task, stage>>
  PROVE  RelayInv'
<1> DEFINE u == Turn
           s == mgr.serves[u]
           others == mgr.users[u] \ {s}
<1>1. stage = "idle" /\ Rest /\ mgr \in Managers
  BY DEF ReleaseIdleRelay, RelayInv, Kept
<1>2. u \in UAVs
  BY <1>1, VisitOfVehicle
<1>3. \/ /\ others # {}
         /\ \E o \in others : mgr' = [mgr EXCEPT !.users[u] = others, !.serves[u] = o]
         /\ UNCHANGED batch
      \/ /\ mgr' = [Retire(mgr, u) EXCEPT !.users[u] = {}, !.terminal[s] = None]
         /\ Send(IF fleet[u].role = "RELAY" THEN ReleaseAsSurveyor(u) ELSE <<>>)
  BY DEF ReleaseIdleRelay
<1> HIDE DEF u
<1>4. others \subseteq UAVs
  BY <1>1, <1>2 DEF Managers
<1> HIDE DEF others, s
<1>5. CASE /\ others # {}
           /\ \E o \in others : mgr' = [mgr EXCEPT !.users[u] = others, !.serves[u] = o]
           /\ UNCHANGED batch
  <2>1. PICK heir \in others : mgr' = [mgr EXCEPT !.users[u] = others, !.serves[u] = heir]
    BY <1>5
  <2>2. mgr' \in Managers /\ mgr'.chains = mgr.chains /\ mgr'.chainOf = mgr.chainOf
    BY <1>1, <1>2, <1>4, <1>5, <2>1 DEF Managers
  <2> QED
    BY <1>1, <1>5, <2>2, ChainsRest DEF SentPlain
<1>6. CASE /\ mgr' = [Retire(mgr, u) EXCEPT !.users[u] = {}, !.terminal[s] = None]
           /\ Send(IF fleet[u].role = "RELAY" THEN ReleaseAsSurveyor(u) ELSE <<>>)
  <2> DEFINE k == Retire(mgr, u)
  <2>1. k \in Managers /\ k.chains = mgr.chains /\ k.chainOf = mgr.chainOf
    BY <1>1, <1>2, RetiredTyped
  <2> HIDE DEF k
  <2>2. mgr' \in Managers /\ mgr'.chains = mgr.chains /\ mgr'.chainOf = mgr.chainOf
    BY <1>2, <1>6, <2>1 DEF Managers, k
  <2>3. SentPlain
    BY <1>2, <1>6, OrdersArePlain, NothingSent DEF SentPlain
  <2> QED
    BY <1>1, <2>2, <2>3, ChainsRest
<1> QED
  BY <1>3, <1>5, <1>6

LEMMA RelayStepKeeps ==
  ASSUME RelayInv, StepRelays
  PROVE  RelayInv'
BY AbandonKeeps, ReplacementLostKeeps, UnderwayKeeps, ArrivalKeeps, LostKeeps,
   TiresKeeps, SingleHandoffKeeps, SingleRelayLostKeeps, SingleRelayTiresKeeps,
   SupportKeeps, ReleaseIdleKeeps DEF StepRelays

(***************************************************************************)
(* Monitoring and planning.                                                *)
(***************************************************************************)
LEMMA MonitorKeeps ==
  ASSUME RelayInv, MonitorSurveyor
  PROVE  RelayInv' /\ SentPlain
<1> DEFINE s == Turn
           c == ChainOf(s)
           t == mgr.chainOf[s]
           forming == c # None /\ c.status = "FORMING"
           staging == IF forming THEN StagingCommands(c) ELSE <<>>
           down == IF c = None THEN <<>> ELSE TeardownCommands(mgr, t)
           ready == c = None \/ PhysicallyReady(c)
<1>1. /\ stage = "monitor" /\ agenda # {} /\ Rest /\ mgr \in Managers
      /\ Kept(mgr) /\ AllApart(mgr)
      /\ UNCHANGED <<fleet, task, stage>>
  BY DEF MonitorSurveyor, RelayInv, Kept
<1>2. s \in UAVs /\ s \in agenda
  BY <1>1, VisitOfVehicle
<1>3. \/ /\ mgr' \in IF c = None THEN {mgr} ELSE Teardown(mgr, t)
         /\ Send(staging \o ReleaseTask(s) \o StartRTH(s) \o down)
      \/ /\ mgr' = IF forming /\ ready THEN Marked(mgr, t, "ACTIVE") ELSE mgr
         /\ Send(staging \o Hold(s, ready))
  BY DEF MonitorSurveyor
<1> HIDE DEF s
<1>4. c # None => t \in Live(mgr) /\ t \in Tasks /\ c = mgr.chains[t] /\ c \in ChainFor(t)
  <2> SUFFICES ASSUME c # None
               PROVE  t \in Live(mgr) /\ t \in Tasks /\ c = mgr.chains[t] /\ c \in ChainFor(t)
    OBVIOUS
  <2>1. t # None /\ c = mgr.chains[t]
    BY DEF ChainOf
  <2>2. t \in Tasks
    BY <1>1, <1>2, <2>1 DEF Managers
  <2>3. t \in Live(mgr)
    BY <2>1, <2>2 DEF Live
  <2> QED
    BY <1>1, <2>1, <2>2, <2>3, LiveChain
<1>5. staging \in Seq(Plain)
  <2>1. CASE forming
    BY <1>4, <2>1, StagingIsPlain
  <2>2. CASE ~forming
    BY <2>2, NothingSent
  <2> QED
    BY <2>1, <2>2
<1>6. down \in Seq(Plain)
  <2>1. CASE c = None
    BY <2>1, NothingSent
  <2>2. CASE c # None
    <3> HIDE DEF t, c
    <3> QED
      BY <1>1, <1>4, <2>2, TeardownIsNear, NearIsPlain
  <2> QED
    BY <2>1, <2>2
<1>7. Hold(s, ready) \in Seq(Plain)
  <2> DEFINE place == IF ready THEN fleet[s].task ELSE 0
  <2>1. CASE place \in Places
    <3>1. SetTarget(s, place) \in Seq(Plain)
      BY <1>2, <2>1, OrdersArePlain
    <3> QED
      BY <3>1, NothingSent DEF Hold, Redirect
  <2>2. CASE place \notin Places
    <3>1. fleet[s].task \in Tasks \union {None}
      BY <1>2 DEF RelayInv, FleetTyped, Vehicle
    <3>2. fleet[s].task # None
      BY <1>1, <1>2 DEF RelayInv, Scheduled
    <3> QED
      BY <2>2, <3>1, <3>2, PlacesAreNumbers
  <2> QED
    BY <2>1, <2>2
<1> HIDE DEF t, c, forming, staging, down, ready
<1>8. SentPlain
  <2>1. staging \o ReleaseTask(s) \in Seq(Plain)
    BY <1>2, <1>5, OrdersArePlain, Joined
  <2>2. staging \o ReleaseTask(s) \o StartRTH(s) \in Seq(Plain)
    BY <1>2, <2>1, OrdersArePlain, Joined
  <2>3. staging \o ReleaseTask(s) \o StartRTH(s) \o down \in Seq(Plain)
    BY <1>6, <2>2, Joined
  <2>4. staging \o Hold(s, ready) \in Seq(Plain)
    BY <1>5, <1>7, Joined
  <2> QED
    BY <1>3, <2>3, <2>4 DEF SentPlain
<1>9. Kept(mgr') /\ AllApart(mgr')
  <2>1. CASE mgr' = mgr
    BY <1>1, <2>1
  <2>2. CASE c # None /\ mgr' \in Teardown(mgr, t)
    BY <1>1, <1>4, <2>2, TeardownEnds
  <2>3. CASE forming /\ mgr' = Marked(mgr, t, "ACTIVE")
    <3> DEFINE d == [c EXCEPT !.status = "ACTIVE"]
    <3>1. c # None
      BY <2>3 DEF forming
    <3>2. Becomes(mgr, mgr', t, d)
      BY <1>1, <1>4, <2>3, <3>1, MarkedBecomes
    <3>3. Apart(c)
      BY <1>1, <1>4, <3>1 DEF AllApart
    <3>4. Apart(d)
      BY <1>4, <3>1, <3>3, MarkedIsApart
    <3> HIDE DEF d
    <3> QED
      BY <1>1, <1>4, <3>1, <3>2, <3>4, BecomesApart
  <2> QED
    BY <1>3, <2>1, <2>2, <2>3
<1>10. Scheduled'
  BY <1>1, FewerToVisit DEF RelayInv, Rest
<1> QED
  BY <1>1, <1>8, <1>9, <1>10, FleetStays

LEMMA WhereFrom ==
  ASSUME NEW S, NEW p \in Seq(S), NEW q \in Seq(S)
  PROVE  \A i \in 1..Len(p \o q) :
           \/ i \in 1..Len(p) /\ (p \o q)[i] = p[i]
           \/ \E j \in 1..Len(q) : i = Len(p) + j /\ (p \o q)[i] = q[j]
<1> TAKE i \in 1..Len(p \o q)
<1>1. Len(p \o q) = Len(p) + Len(q)
  BY ConcatenatedTo
<1>2. \A j \in 1..Len(p) : (p \o q)[j] = p[j]
  BY ConcatenatedTo
<1>3. \A j \in 1..Len(q) : (p \o q)[Len(p) + j] = q[j]
  BY ConcatenatedTo
<1>4. i \in 1..Len(p) \/ (i - Len(p) \in 1..Len(q) /\ i = Len(p) + (i - Len(p)))
  BY <1>1
<1> QED
  BY <1>2, <1>3, <1>4

LEMMA OneAssignment ==
  ASSUME NEW u \in UAVs, fleet[u].task = None, NEW t \in Tasks,
         NEW p \in Seq(Plain), NEW q \in Seq(Plain)
  PROVE  LET x  == [Cmd("AssignTask", u) EXCEPT !.place = t]
             cs == p \o AssignTask(u, t) \o q
         IN  /\ x \in Sound /\ x.uav = u /\ x.place = t /\ cs \in Seq(Sound)
             /\ \A i \in 1..Len(cs) : cs[i].type = "AssignTask" => i = Len(p) + 1 /\ cs[i] = x
<1> DEFINE S == Sound
           x == [Cmd("AssignTask", u) EXCEPT !.place = t]
           o == << x >>
           r == p \o o
           cs == r \o q
<1>1. x \in S /\ x.uav = u /\ x.place = t
  BY TypesRanked, PlacesAreNumbers DEF Cmd, Sound, Commands, Engages
<1>2. \A c \in Plain : c \in S /\ c.type # "AssignTask"
  BY DEF Plain
<1>3. p \in Seq(S) /\ q \in Seq(S)
  <2> DEFINE P == Plain
  <2>1. p \in Seq(P) /\ q \in Seq(P) /\ \A c \in P : c \in S
    BY <1>2
  <2> HIDE DEF P, S
  <2>2. (\A i \in 1..Len(p) : p[i] \in S) /\ (\A i \in 1..Len(q) : q[i] \in S)
    BY <2>1
  <2> QED
    BY <2>1, <2>2, SequenceOver
<1>4. /\ \A i \in 1..Len(p) : p[i].type # "AssignTask"
      /\ \A i \in 1..Len(q) : q[i].type # "AssignTask"
  <2> DEFINE P == Plain
  <2>1. p \in Seq(P) /\ q \in Seq(P) /\ \A c \in P : c.type # "AssignTask"
    BY <1>2
  <2> HIDE DEF P
  <2> QED
    BY <2>1
<1>5. cs = p \o AssignTask(u, t) \o q
  BY DEF AssignTask
<1> HIDE DEF S, x
<1>8. o \in Seq(S) /\ Len(o) = 1 /\ o[1] = x
  BY <1>1
<1> HIDE DEF o
<1>9. r \in Seq(S)
  BY <1>3, <1>8, ConcatenatedTo
<1>10. \A i \in 1..Len(r) : r[i].type = "AssignTask" => i = Len(p) + 1 /\ r[i] = x
  <2> HIDE DEF r, o
  <2>0. \A i \in 1..Len(p \o o) :
           \/ i \in 1..Len(p) /\ (p \o o)[i] = p[i]
           \/ \E j \in 1..Len(o) : i = Len(p) + j /\ (p \o o)[i] = o[j]
    BY <1>3, <1>8, WhereFrom, SMTT(60)
  <2>1. \A i \in 1..Len(r) :
           \/ i \in 1..Len(p) /\ r[i] = p[i]
           \/ \E j \in 1..Len(o) : i = Len(p) + j /\ r[i] = o[j]
    BY <2>0 DEF r
  <2> SUFFICES ASSUME NEW i \in 1..Len(r), r[i].type = "AssignTask"
               PROVE  i = Len(p) + 1 /\ r[i] = x
    OBVIOUS
  <2>2. ~(i \in 1..Len(p) /\ r[i] = p[i])
    BY <1>4
  <2>3. PICK j \in 1..Len(o) : i = Len(p) + j /\ r[i] = o[j]
    BY <2>1, <2>2
  <2>4. j = 1
    BY <1>8
  <2> QED
    BY <1>8, <2>3, <2>4
<1> HIDE DEF r
<1>11. cs \in Seq(S)
  BY <1>3, <1>9, ConcatenatedTo
<1>12. \A i \in 1..Len(cs) : cs[i].type = "AssignTask" => i = Len(p) + 1 /\ cs[i] = x
  <2>1. \A i \in 1..Len(cs) :
           \/ i \in 1..Len(r) /\ cs[i] = r[i]
           \/ \E j \in 1..Len(q) : i = Len(r) + j /\ cs[i] = q[j]
    BY <1>3, <1>9, WhereFrom
  <2> QED
    BY <1>4, <1>10, <2>1
<1> HIDE DEF cs
<1> QED
  BY <1>1, <1>5, <1>11, <1>12 DEF S, x

LEMMA PlannedIsSound ==
  ASSUME BatchSound, NEW u \in UAVs, u \notin Enlisted, fleet[u].task = None,
         NEW t \in Tasks, NEW p \in Seq(Plain), NEW q \in Seq(Plain),
         UNCHANGED fleet, Send(p \o AssignTask(u, t) \o q)
  PROVE  BatchSound'
<1> DEFINE S == Sound
           x == [Cmd("AssignTask", u) EXCEPT !.place = t]
           cs == p \o AssignTask(u, t) \o q
           k == Len(p) + 1
<1>1. /\ x.uav = u /\ cs \in Seq(S)
      /\ \A i \in 1..Len(cs) : cs[i].type = "AssignTask" => i = k /\ cs[i] = x
  BY OneAssignment
<1>2. batch' = batch \o cs
  BY DEF Send
<1>3. batch \in Seq(S) /\ OneTaskEach(batch)
  BY DEF BatchSound
<1>4. \A j \in 1..Len(batch) : batch[j].uav # u
  <2>1. DOMAIN batch = 1..Len(batch)
    BY <1>3
  <2> QED
    BY <2>1 DEF Enlisted
<1>5. k \in Nat
  OBVIOUS
<1> HIDE DEF S, x, cs, k
<1>6. OneTaskEach(batch \o cs)
  <2>1. \A i \in 1..Len(cs) : cs[i].type = "AssignTask" =>
          i = k /\ \A j \in 1..Len(batch) : batch[j].uav # cs[i].uav
    BY <1>1, <1>4
  <2> QED
    BY <1>1, <1>3, <1>5, <2>1, TasksStayApart
<1>7. batch \o cs \in Seq(S)
  BY <1>1, <1>3, ConcatenatedTo
<1>8. Sound' = Sound
  BY DEF Sound, Commands, Engages
<1>9. batch' \in Seq(Sound) /\ OneTaskEach(batch')
  BY <1>2, <1>6, <1>7 DEF S
<1> QED
  BY <1>8, <1>9 DEF BatchSound, OneTaskEach

LEMMA RegisteredKeeps ==
  ASSUME NEW m, Kept(m), AllApart(m), NEW t \in Tasks, t - 1 \in Nat \ {0},
         NEW s \in UAVs, NEW team, NEW excluded, IsTeam(m, s, t - 1, excluded, team)
  PROVE  Kept(Register(m, t, s, team)) /\ AllApart(Register(m, t, s, team))
<1> DEFINE k == t - 1
           old == m.chains[t]
           gone == IF old = None THEN {} ELSE {old.surveyor} \ {s}
           place(u) == CHOOSE i \in DOMAIN team : team[i] = u
           inTeam(u) == u \in Range(team)
           c == [surveyor |-> s, relays |-> team, status |-> "FORMING",
                 pending |-> [i \in DOMAIN team |-> None]]
           n == Register(m, t, s, team)
<1>1. /\ team \in [1..k -> UAVs] /\ \A i, j \in 1..k : i # j => team[i] # team[j]
      /\ \A i \in 1..k : team[i] # s
  BY DEF IsTeam
<1>2. m \in Managers /\ 1..k \subseteq Places
  BY PlacesAreNumbers DEF Kept
<1>3. c \in ChainFor(t)
  BY <1>1 DEF ChainFor
<1>4. Apart(c)
  BY <1>1 DEF Apart, Posted, Stations
<1>5. Last(team) \in UAVs
  <2>0. k \in Nat \ {0}
    OBVIOUS
  <2> HIDE DEF k
  <2>1. k \in Nat /\ k \in 1..k
    BY <2>0
  <2>2. Len(team) = k
    BY <1>1, <2>1, FunctionIsSequence
  <2> QED
    BY <1>1, <2>1, <2>2 DEF Last
<1>6. \A u \in UAVs : inTeam(u) => place(u) \in Places
  <2> SUFFICES ASSUME NEW u \in UAVs, inTeam(u) PROVE place(u) \in Places
    OBVIOUS
  <2>1. \E i \in DOMAIN team : team[i] = u
    BY DEF Range
  <2>2. place(u) \in DOMAIN team
    BY <2>1
  <2> QED
    BY <1>1, <1>2, <2>2
<1>7. [m.chains EXCEPT ![t] = c] \in [Tasks -> Chains \union {None}]
  BY <1>3, ChainsTyped
<1> HIDE DEF c, gone, inTeam, place
<1> DEFINE chainOf == [u \in UAVs |-> IF u = s THEN t
                                    ELSE IF u \in gone THEN None ELSE m.chainOf[u]]
           terminal == [u \in UAVs |-> IF u = s THEN Last(team)
                                     ELSE IF u \in gone THEN None ELSE m.terminal[u]]
           member == [u \in UAVs |-> IF inTeam(u) THEN t ELSE m.member[u]]
           serves == [u \in UAVs |-> IF inTeam(u) THEN s ELSE m.serves[u]]
           station == [u \in UAVs |-> IF inTeam(u) THEN place(u) ELSE m.station[u]]
           users == [u \in UAVs |->
                     (IF old # None /\ u \in Range(old.relays) THEN m.users[u] \ gone
                      ELSE m.users[u]) \union (IF inTeam(u) THEN {s} ELSE {})]
<1>8. n = [m EXCEPT !.chains = [m.chains EXCEPT ![t] = c], !.chainOf = chainOf,
                    !.terminal = terminal, !.member = member, !.serves = serves,
                    !.station = station, !.users = users]
  BY <1>2 DEF Register, Managers, c, gone, inTeam, place
<1>9. /\ chainOf \in [UAVs -> Tasks \union {None}] /\ terminal \in [UAVs -> UAVs \union {None}]
      /\ member \in [UAVs -> Tasks \union {None}] /\ serves \in [UAVs -> UAVs \union {None}]
  BY <1>2, <1>5 DEF Managers
<1>10. station \in [UAVs -> Places \union {None}] /\ users \in [UAVs -> SUBSET UAVs]
  BY <1>2, <1>6 DEF Managers
<1> HIDE DEF n, chainOf, terminal, member, serves, station, users
<1>11. n \in Managers /\ Rechained(m, n, t, c)
  BY <1>2, <1>7, <1>8, <1>9, <1>10 DEF Managers, Rechained
<1>12. \A u \in UAVs : n.chainOf[u] \in {m.chainOf[u], t, None}
  BY <1>2, <1>8 DEF Managers, chainOf
<1>13. Kept(n)
  BY <1>3, <1>11, <1>12, ChainReplaced
<1>14. AllApart(n)
  BY <1>3, <1>4, <1>11, <1>12, ChainReplaced
<1> QED
  BY <1>13, <1>14 DEF n

\* what the planner may do for task t: nothing, or give it to a vehicle alone, or
\* with a chain
PlanSends(t) ==
  \/ UNCHANGED <<batch, mgr>>
  \/ \E u \in Candidates, p \in Seq(Near), q \in Seq(Near) :
       /\ Send(p \o AssignTask(u, t) \o q)
       /\ \/ (t <= 1 \/ Covered(t)) /\ UNCHANGED mgr
          \/ \E team : /\ q = SetTarget(u, fleet[u].at)
                       /\ t - 1 \in Nat \ {0}
                       /\ IsTeam(mgr, u, t - 1, Enlisted \union Busy, team)
                       /\ mgr' = Register(mgr, t, u, team)

LEMMA PlannedFor ==
  ASSUME RelayInv, PlanTask
  PROVE  /\ stage = "plan"
         /\ \E t \in Tasks : /\ t - 1 \in Nat /\ agenda' = agenda \ {t}
                             /\ PlanSends(t)
<1>0. PICK t \in agenda :
        /\ agenda' = agenda \ {t}
        /\ \/ UNCHANGED <<batch, mgr>>
           \/ \E u \in Candidates :
                /\ Feasible(u, t)
                /\ LET team == TeamFor(u, t) IN
                   IF team = <<>>
                     THEN Send(AssignTask(u, t)) /\ UNCHANGED mgr
                     ELSE /\ mgr' = Register(mgr, t, u, team)
                          /\ Send(Muster(team, u) \o AssignTask(u, t)
                                    \o SetTarget(u, fleet[u].at))
  BY DEF PlanTask
<1>1. /\ stage = "plan" /\ UNCHANGED <<fleet, task, stage>>
      /\ Kept(mgr) /\ FleetTyped
  BY DEF PlanTask, RelayInv
<1>2. t \in Tasks /\ t - 1 \in Nat
  <2>1. t \in Tasks
    BY <1>1 DEF RelayInv, Scheduled
  <2> QED
    BY <2>1, FleetAssumption
<1>3. UNCHANGED <<batch, mgr>> => PlanSends(t)
  BY DEF PlanSends
<1>4. ASSUME NEW u \in Candidates, Feasible(u, t),
             LET team == TeamFor(u, t) IN
             IF team = <<>>
               THEN Send(AssignTask(u, t)) /\ UNCHANGED mgr
               ELSE /\ mgr' = Register(mgr, t, u, team)
                    /\ Send(Muster(team, u) \o AssignTask(u, t)
                              \o SetTarget(u, fleet[u].at))
      PROVE  PlanSends(t)
  <2> DEFINE team == TeamFor(u, t)
             excluded == Enlisted \union Busy
  <2>1. u \in UAVs /\ fleet[u].at \in Places
    BY <1>1 DEF Candidates, FleetTyped, Vehicle
  <2>2. CASE t <= 1 \/ Covered(t)
    <3> DEFINE x == AssignTask(u, t)
    <3>1. Send(x) /\ UNCHANGED mgr
      BY <1>4, <2>2 DEF TeamFor
    <3>2. x \in Seq(Commands)
      <4>1. [Cmd("AssignTask", u) EXCEPT !.place = t] \in Commands
        BY <1>2, <2>1, TypesRanked, PlacesAreNumbers DEF Cmd, Commands
      <4> QED
        BY <4>1 DEF AssignTask
    <3>3. (<<>> \o x) \o <<>> = x
      <4> HIDE DEF x
      <4> QED
        BY <3>2
    <3>4. Send(<<>> \o AssignTask(u, t) \o <<>>)
      BY <3>1, <3>3
    <3> HIDE DEF x
    <3> QED
      BY <2>2, <3>1, <3>4, NothingSent DEF PlanSends
  <2>3. CASE ~(t <= 1 \/ Covered(t))
    <3>1. team = Team(mgr, u, t - 1, excluded) /\ team # None /\ t > 1
      BY <1>2, <1>4, <2>3, FleetAssumption DEF TeamFor, Feasible
    <3>2. t - 1 \in Nat \ {0} /\ 1..(t-1) \subseteq Places
      BY <1>2, <3>1, PlacesAreNumbers
    <3>3. IsTeam(mgr, u, t - 1, excluded, team)
      BY <1>1, <2>1, <3>1, <3>2, TeamIsApart
    <3>4. team \in [1..(t-1) -> UAVs] /\ \A i \in 1..(t-1) : fleet[team[i]].task = None
      BY <3>3 DEF IsTeam, Eligible
    <3>5. team # <<>>
      <4> DEFINE n == t - 1
                 w == team
      <4>1. n \in Nat \ {0} /\ w \in [1..n -> UAVs]
        BY <3>2, <3>4
      <4> HIDE DEF n, w
      <4>2. 1 \in DOMAIN w
        BY <4>1
      <4>3. w # <<>>
        BY <4>2
      <4> QED
        BY <4>3 DEF w
    <3>6. /\ mgr' = Register(mgr, t, u, team)
          /\ Send(Muster(team, u) \o AssignTask(u, t) \o SetTarget(u, fleet[u].at))
      BY <1>4, <3>5
    <3> HIDE DEF team, excluded
    <3>7. Muster(team, u) \in Seq(Near)
      BY <1>2, <2>1, <3>2, <3>4, MusterIsNear
    <3>8. SetTarget(u, fleet[u].at) \in Seq(Near)
      BY <2>1, OrdersArePlain
    <3> QED
      BY <3>2, <3>3, <3>6, <3>7, <3>8 DEF PlanSends, excluded
  <2> QED
    BY <2>2, <2>3
<1>5. PlanSends(t)
  BY <1>0, <1>3, <1>4
<1> QED
  BY <1>0, <1>1, <1>2, <1>5

LEMMA PlanKeeps ==
  ASSUME RelayInv, PlanTask
  PROVE  RelayInv'
<1> DEFINE excluded == Enlisted \union Busy
<1>1. /\ stage = "plan" /\ UNCHANGED <<fleet, task, stage>>
      /\ Kept(mgr) /\ AllApart(mgr) /\ BatchSound /\ FleetTyped
  BY DEF PlanTask, RelayInv
<1>2. PICK t \in Tasks : agenda' = agenda \ {t} /\ PlanSends(t)
  BY PlannedFor
<1>3. Scheduled'
  BY <1>1, <1>2, FewerToVisit DEF RelayInv
<1>4. CASE UNCHANGED <<batch, mgr>>
  BY <1>1, <1>3, <1>4, FleetStays DEF SentPlain
<1> HIDE DEF excluded
<1>5. ASSUME NEW u \in Candidates, NEW p \in Seq(Near), NEW q \in Seq(Near),
             Send(p \o AssignTask(u, t) \o q),
             \/ UNCHANGED mgr
             \/ \E team : /\ t - 1 \in Nat \ {0} /\ IsTeam(mgr, u, t - 1, excluded, team)
                          /\ mgr' = Register(mgr, t, u, team)
      PROVE  RelayInv'
  <2>1. u \in UAVs /\ u \notin Enlisted /\ fleet[u].task = None
    BY DEF Candidates
  <2>2. BatchSound'
    <3>1. p \in Seq(Plain) /\ q \in Seq(Plain)
      BY NearIsPlain
    <3> QED
      BY <1>1, <1>2, <1>5, <2>1, <3>1, PlannedIsSound
  <2>3. Kept(mgr') /\ AllApart(mgr')
    BY <1>1, <1>2, <1>5, <2>1, RegisteredKeeps
  <2>4. FleetTyped' /\ Held'
    BY <1>1 DEF RelayInv, FleetTyped, Held
  <2> QED
    BY <1>3, <2>2, <2>3, <2>4 DEF RelayInv
<1> QED
  BY <1>2, <1>4, <1>5 DEF PlanSends, excluded

(***************************************************************************)
(* The tasks and who holds them.                                           *)
(***************************************************************************)
LEMMA RecordsWritten ==
  ASSUME FleetTyped, NEW u \in UAVs, NEW r \in Vehicle, Write(u, r)
  PROVE  /\ fleet' \in [UAVs -> Vehicle] /\ fleet'[u] = r
         /\ \A v \in UAVs : v # u => fleet'[v] = fleet[v]
BY DEF FleetTyped, Write

LEMMA SameHolders ==
  ASSUME Held, UNCHANGED task, \A u \in UAVs : fleet'[u].task = fleet[u].task
  PROVE  Held' /\ NobodyTakes
BY DEF Held, NobodyTakes

LEMMA TaskDropped ==
  ASSUME FleetTyped, Held, NEW u \in UAVs, fleet'[u].task = None,
         \A v \in UAVs : v # u => fleet'[v].task = fleet[v].task,
         task' = Dropped(u)
  PROVE  /\ task' \in [Tasks -> {"hidden", "open", "taken", "done"}]
         /\ Held' /\ NobodyTakes
<1>1. task' \in [Tasks -> {"hidden", "open", "taken", "done"}]
  BY DEF FleetTyped, Dropped
<1>2. NobodyTakes
  BY DEF NobodyTakes
<1>3. ASSUME NEW t \in Tasks
      PROVE  (task'[t] = "taken") <=> (\E v \in UAVs : fleet'[v].task = t)
  <2>1. t # None /\ task'[t] = IF t = fleet[u].task THEN "open" ELSE task[t]
    BY NoneIsNobody DEF Dropped
  <2>2. CASE t = fleet[u].task
    BY <2>1, <2>2 DEF Held
  <2>3. CASE t # fleet[u].task
    BY <2>1, <2>3 DEF Held
  <2> QED
    BY <2>2, <2>3
<1>4. \A v, w \in UAVs : fleet'[v].task # None /\ fleet'[v].task = fleet'[w].task => v = w
  BY DEF Held
<1> QED
  BY <1>1, <1>2, <1>3, <1>4 DEF Held

LEMMA TaskDone ==
  ASSUME FleetTyped, Held, NEW u \in UAVs, fleet[u].task # None, fleet'[u].task = None,
         \A v \in UAVs : v # u => fleet'[v].task = fleet[v].task,
         task' = [task EXCEPT ![fleet[u].task] = "done"]
  PROVE  /\ task' \in [Tasks -> {"hidden", "open", "taken", "done"}]
         /\ Held' /\ NobodyTakes
<1>0. fleet[u].task \in Tasks
  BY DEF FleetTyped, Vehicle
<1>1. task' \in [Tasks -> {"hidden", "open", "taken", "done"}]
  BY <1>0 DEF FleetTyped
<1>2. NobodyTakes
  BY DEF NobodyTakes
<1>3. ASSUME NEW t \in Tasks
      PROVE  (task'[t] = "taken") <=> (\E v \in UAVs : fleet'[v].task = t)
  <2>1. t # None /\ task'[t] = IF t = fleet[u].task THEN "done" ELSE task[t]
    BY NoneIsNobody DEF FleetTyped
  <2>2. CASE t = fleet[u].task
    BY <2>1, <2>2 DEF Held
  <2>3. CASE t # fleet[u].task
    BY <2>1, <2>3 DEF Held
  <2> QED
    BY <2>2, <2>3
<1>4. \A v, w \in UAVs : fleet'[v].task # None /\ fleet'[v].task = fleet'[w].task => v = w
  BY DEF Held
<1> QED
  BY <1>1, <1>2, <1>3, <1>4 DEF Held

LEMMA TaskTaken ==
  ASSUME FleetTyped, Held, NEW u \in UAVs, fleet[u].task = None,
         NEW t \in Tasks, task[t] = "open", fleet'[u].task = t,
         \A v \in UAVs : v # u => fleet'[v].task = fleet[v].task,
         task' = [task EXCEPT ![t] = "taken"]
  PROVE  /\ task' \in [Tasks -> {"hidden", "open", "taken", "done"}] /\ Held'
<1>1. task' \in [Tasks -> {"hidden", "open", "taken", "done"}]
  BY DEF FleetTyped
<1>2. \A v \in UAVs : fleet[v].task # t
  BY DEF Held
<1>3. ASSUME NEW o \in Tasks
      PROVE  (task'[o] = "taken") <=> (\E v \in UAVs : fleet'[v].task = o)
  <2>1. o # None /\ task'[o] = IF o = t THEN "taken" ELSE task[o]
    BY NoneIsNobody DEF FleetTyped
  <2>2. CASE o = t
    BY <2>1, <2>2
  <2>3. CASE o # t
    BY <2>1, <2>3 DEF Held
  <2> QED
    BY <2>2, <2>3
<1>4. \A v, w \in UAVs : fleet'[v].task # None /\ fleet'[v].task = fleet'[w].task => v = w
  BY <1>2 DEF Held
<1> QED
  BY <1>1, <1>3, <1>4 DEF Held

LEMMA HomewardTyped ==
  ASSUME NEW r \in Vehicle
  PROVE  Homeward(r) \in Vehicle /\ Homeward(r).task = None
BY PlacesAreNumbers DEF Homeward, Vehicle

LEMMA SurveyingTyped ==
  ASSUME NEW r \in Vehicle, NEW t \in Tasks, t \in Places
  PROVE  Surveying(r, t) \in Vehicle /\ Surveying(r, t).task = t
BY DEF Surveying, Vehicle

(***************************************************************************)
(* Service and the return of vehicles.                                     *)
(***************************************************************************)
LEMMA ServeKeeps ==
  ASSUME RelayInv, Serve
  PROVE  RelayInv' /\ SentPlain
<1> DEFINE u == Turn
           t == mgr.chainOf[u]
           alone == ChainOf(u) = None
           down == IF alone THEN <<>> ELSE TeardownCommands(mgr, t)
<1>1. /\ stage = "serve" /\ agenda # {} /\ Rest /\ UNCHANGED stage
      /\ Kept(mgr) /\ AllApart(mgr) /\ FleetTyped /\ Held /\ BatchSound
  BY DEF Serve, RelayInv
<1>2. u \in UAVs /\ u \in agenda /\ fleet[u].task # None
  BY <1>1, VisitOfVehicle DEF RelayInv, Scheduled
<1>3. \/ UNCHANGED <<fleet, task, batch, mgr>>
      \/ /\ fleet' = [fleet EXCEPT ![u].task = None, ![u].role = "IDLE"]
         /\ task' = [task EXCEPT ![fleet[u].task] = "done"]
         /\ mgr' \in IF alone THEN {mgr} ELSE Teardown(mgr, t)
         /\ Send(Release(u) \o SetTarget(u, 0) \o down)
  BY DEF Serve
<1>4. agenda' = agenda \ {u}
  BY <1>1 DEF Rest
<1> HIDE DEF u
<1>6. ~alone => t \in Live(mgr)
  BY <1>1, <1>2 DEF Kept, ChainOf
<1>7. CASE UNCHANGED <<fleet, task, batch, mgr>>
  <2>1. Scheduled'
    BY <1>1, <1>4, <1>7, FewerToVisit DEF RelayInv
  <2> QED
    BY <1>1, <1>7, <2>1, FleetStays DEF SentPlain
<1>8. CASE /\ fleet' = [fleet EXCEPT ![u].task = None, ![u].role = "IDLE"]
           /\ task' = [task EXCEPT ![fleet[u].task] = "done"]
           /\ mgr' \in IF alone THEN {mgr} ELSE Teardown(mgr, t)
           /\ Send(Release(u) \o SetTarget(u, 0) \o down)
  <2>1. /\ fleet' \in [UAVs -> Vehicle] /\ fleet'[u].task = None
        /\ \A v \in UAVs : v # u => fleet'[v].task = fleet[v].task
    <3> DEFINE r == [fleet[u] EXCEPT !.task = None, !.role = "IDLE"]
    <3>1. fleet[u] \in Vehicle
      BY <1>1, <1>2 DEF FleetTyped
    <3>2. r \in Vehicle /\ r.task = None
      BY <3>1 DEF Vehicle
    <3>3. fleet' = [fleet EXCEPT ![u] = r]
      BY <1>8
    <3> HIDE DEF r
    <3>4. Write(u, r)
      BY <3>3 DEF Write
    <3> QED
      BY <1>1, <1>2, <3>2, <3>4, RecordsWritten
  <2>2. FleetTyped' /\ Held' /\ NobodyTakes
    BY <1>1, <1>2, <1>8, <2>1, TaskDone DEF FleetTyped
  <2>3. Kept(mgr') /\ AllApart(mgr')
    <3> HIDE DEF t, alone
    <3> QED
      BY <1>1, <1>6, <1>8, TeardownEnds
  <2>4. down \in Seq(Plain)
    <3> HIDE DEF t, alone
    <3>1. CASE alone
      BY <3>1, NothingSent
    <3>2. CASE ~alone
      BY <1>1, <1>6, <3>2, TeardownIsNear, NearIsPlain
    <3> QED
      BY <3>1, <3>2
  <2> HIDE DEF down
  <2>5. Release(u) \o SetTarget(u, 0) \o down \in Seq(Plain)
    <3>1. Release(u) \in Seq(Plain) /\ SetTarget(u, 0) \in Seq(Plain)
      BY <1>2, OrdersArePlain, PlacesAreNumbers
    <3>2. Release(u) \o SetTarget(u, 0) \in Seq(Plain)
      BY <3>1, Joined
    <3> QED
      BY <2>4, <3>2, Joined
  <2>6. BatchSound'
    BY <1>1, <1>8, <2>2, <2>5, BatchStaysSound
  <2>7. Scheduled'
    <3>1. agenda \subseteq UAVs /\ \A v \in agenda : fleet[v].task # None
      BY <1>1 DEF RelayInv, Scheduled
    <3>2. \A v \in agenda' : fleet'[v].task # None
      BY <1>4, <2>1, <3>1
    <3> QED
      BY <1>1, <1>4, <3>1, <3>2 DEF Scheduled
  <2> QED
    BY <1>8, <2>2, <2>3, <2>5, <2>6, <2>7 DEF RelayInv, SentPlain
<1> QED
  BY <1>3, <1>7, <1>8

LEMMA RecallKeeps ==
  ASSUME RelayInv, Recall
  PROVE  RelayInv'
<1> DEFINE u == Turn
<1>1. /\ stage = "recall" /\ agenda # {} /\ UNCHANGED <<task, batch, mgr, stage>>
      /\ fleet' = [fleet EXCEPT ![u] = Homeward(@)] /\ agenda' = agenda \ {u}
      /\ FleetTyped /\ Held /\ BatchSound
  BY DEF Recall, RelayInv, Rest
<1>2. /\ u \in UAVs /\ u \in agenda
      /\ agenda \subseteq UAVs /\ \A v \in agenda : fleet[v].task = None
  BY <1>1, VisitOfVehicle DEF RelayInv, Scheduled
<1> HIDE DEF u
<1>3. Homeward(fleet[u]) \in Vehicle /\ Homeward(fleet[u]).task = None
  BY <1>1, <1>2, HomewardTyped DEF FleetTyped
<1>4. /\ fleet' \in [UAVs -> Vehicle]
      /\ \A v \in UAVs : fleet'[v].task = fleet[v].task
  BY <1>1, <1>2, <1>3 DEF FleetTyped
<1>5. FleetTyped' /\ Held' /\ NobodyTakes
  BY <1>1, <1>4, SameHolders DEF FleetTyped
<1>6. BatchSound'
  BY <1>1, <1>5, BatchStaysSound
<1>7. Scheduled'
  BY <1>1, <1>2, <1>4 DEF Scheduled
<1>8. Kept(mgr') /\ AllApart(mgr')
  BY <1>1 DEF RelayInv
<1> QED
  BY <1>5, <1>6, <1>7, <1>8 DEF RelayInv

(***************************************************************************)
(* The world.                                                              *)
(***************************************************************************)
LEMMA FlownTyped ==
  ASSUME NEW r \in Vehicle
  PROVE  Flown(r) \in Vehicle /\ Flown(r).task = r.task
<1>1. Toward(r) \in Places
  <2>1. r.at \in Places /\ r.to \in Places \union {None} /\ FarEnd \in Nat
    BY FarEndIsLast DEF Vehicle
  <2> QED
    BY <2>1 DEF Toward, Places
<1> HIDE DEF Toward
<1>2. Flown(r) \in Vehicle
  BY <1>1 DEF Flown, Vehicle
<1>3. Flown(r).task = r.task
  BY DEF Flown, Vehicle
<1> QED
  BY <1>2, <1>3

LEMMA ChargedTyped ==
  ASSUME NEW r \in Vehicle
  PROVE  Charged(r) \in Vehicle /\ Charged(r).task = r.task
BY DEF Charged, Vehicle

LEMMA WorldMoves ==
  ASSUME RelayInv, UNCHANGED <<mgr, batch>>, stage' \in {"world", "struck"},
         agenda' \subseteq UAVs, FleetTyped', Held', NobodyTakes
  PROVE  RelayInv'
<1>1. BatchSound'
  BY BatchStaysSound DEF RelayInv
<1>2. Scheduled'
  BY DEF Scheduled
<1> QED
  BY <1>1, <1>2 DEF RelayInv

LEMMA FlyKeeps ==
  ASSUME RelayInv, Fly
  PROVE  RelayInv'
<1>1. /\ UNCHANGED <<mgr, batch, task>> /\ stage' = "world" /\ agenda' = {}
      /\ FleetTyped /\ Held
  BY DEF Fly, Pass, RelayInv
<1>2. \E moved : /\ fleet' = [u \in UAVs |-> moved[u]]
                 /\ \A u \in UAVs : moved[u] \in {fleet[u], Charged(fleet[u]), Flown(fleet[u])}
  <2>1. PICK held \in SUBSET Holdable, charged \in SUBSET Chargeable :
          fleet' = [u \in UAVs |-> IF u \in held \/ fleet[u].failed THEN fleet[u]
                                   ELSE IF u \in charged THEN Charged(fleet[u])
                                   ELSE Flown(fleet[u])]
    BY DEF Fly
  <2> QED
    BY <2>1
<1>3. /\ fleet' \in [UAVs -> Vehicle]
      /\ \A u \in UAVs : fleet'[u].task = fleet[u].task
  BY <1>1, <1>2, FlownTyped, ChargedTyped DEF FleetTyped
<1>4. FleetTyped' /\ Held' /\ NobodyTakes
  BY <1>1, <1>3, SameHolders DEF FleetTyped
<1> QED
  BY <1>1, <1>4, WorldMoves

LEMMA LostTyped ==
  ASSUME NEW r \in Vehicle
  PROVE  Lost(r) \in Vehicle /\ Lost(r).task = None
BY DEF Lost, Vehicle

LEMMA WorldKeeps ==
  ASSUME RelayInv, World
  PROVE  RelayInv'
<1>1. FleetTyped /\ Held /\ (stage \in {"world", "struck"} => agenda \subseteq UAVs)
  BY DEF RelayInv, Scheduled
<1>2. ASSUME NEW u \in UAVs, NEW r \in Vehicle, r.task = None, Write(u, r),
             task' = Dropped(u), UNCHANGED <<mgr, batch, agenda>>,
             stage \in {"world", "struck"}, stage' \in {"world", "struck"}
      PROVE  RelayInv'
  <2>1. /\ fleet' \in [UAVs -> Vehicle] /\ fleet'[u].task = None
        /\ \A v \in UAVs : v # u => fleet'[v].task = fleet[v].task
    BY <1>1, <1>2, RecordsWritten
  <2>2. FleetTyped' /\ Held' /\ NobodyTakes
    BY <1>1, <1>2, <2>1, TaskDropped DEF FleetTyped
  <2> QED
    BY <1>1, <1>2, <2>2, WorldMoves
<1>3. ASSUME NEW u \in UAVs, NEW r \in Vehicle, r.task = fleet[u].task, Write(u, r),
             UNCHANGED <<task, mgr, batch, agenda>>,
             stage \in {"world", "struck"}, stage' \in {"world", "struck"}
      PROVE  RelayInv'
  <2>1. /\ fleet' \in [UAVs -> Vehicle]
        /\ \A v \in UAVs : fleet'[v].task = fleet[v].task
    BY <1>1, <1>3, RecordsWritten
  <2>2. FleetTyped' /\ Held' /\ NobodyTakes
    BY <1>1, <1>3, <2>1, SameHolders DEF FleetTyped
  <2> QED
    BY <1>1, <1>3, <2>2, WorldMoves
<1>4. ASSUME NEW u \in UAVs, Fail(u) PROVE RelayInv'
  <2>1. Lost(fleet[u]) \in Vehicle /\ Lost(fleet[u]).task = None
    BY <1>1, LostTyped DEF FleetTyped
  <2> QED
    BY <1>2, <1>4, <2>1 DEF Fail, Incident
<1>5. ASSUME NEW u \in UAVs, Recover(u) PROVE RelayInv'
  <2> DEFINE r == [fleet[u] EXCEPT !.failed = FALSE, !.role = "IDLE"]
  <2>1. r \in Vehicle /\ r.task = fleet[u].task
    BY <1>1, ZenonT(40) DEF FleetTyped, Vehicle
  <2>2. Write(u, r) /\ UNCHANGED <<task, mgr, batch, agenda>>
        /\ stage = "world" /\ stage' = "world"
    BY <1>5 DEF Recover, Incident
  <2> HIDE DEF r
  <2> QED
    BY <1>3, <2>1, <2>2
<1>6. ASSUME NEW u \in UAVs, Tire(u) PROVE RelayInv'
  <2>0. PICK now \in {"used", "weary"} : Write(u, [fleet[u] EXCEPT !.condition = now])
    BY <1>6 DEF Tire
  <2> DEFINE r == [fleet[u] EXCEPT !.condition = now]
  <2>1. r \in Vehicle /\ r.task = fleet[u].task
    BY <1>1 DEF FleetTyped, Vehicle
  <2>2. Write(u, r) /\ UNCHANGED <<task, mgr, batch, agenda>>
        /\ stage = "world" /\ stage' = "world"
    BY <1>6, <2>0 DEF Tire, Incident
  <2> HIDE DEF r
  <2> QED
    BY <1>3, <2>1, <2>2
<1>7. ASSUME NEW u \in UAVs, TriggerRTH(u) PROVE RelayInv'
  <2>1. Homeward(fleet[u]) \in Vehicle /\ Homeward(fleet[u]).task = None
    BY <1>1, HomewardTyped DEF FleetTyped
  <2> QED
    BY <1>2, <1>7, <2>1 DEF TriggerRTH
<1>8. ASSUME NEW t \in Tasks, Discover(t) PROVE RelayInv'
  <2>1. /\ task[t] = "hidden" /\ task' = [task EXCEPT ![t] = "open"]
        /\ UNCHANGED <<fleet, batch, mgr, agenda, stage>> /\ stage = "world"
    BY <1>8 DEF Discover, Incident
  <2>2. FleetTyped' /\ NobodyTakes
    BY <1>1, <2>1 DEF FleetTyped, NobodyTakes
  <2>3. Held'
    BY <1>1, <2>1 DEF FleetTyped, Held
  <2> QED
    BY <1>1, <2>1, <2>2, <2>3, WorldMoves
<1> QED
  BY <1>4, <1>5, <1>6, <1>7, <1>8 DEF World

(***************************************************************************)
(* From loop to loop.                                                      *)
(***************************************************************************)
LEMMA ChainsAreVisited ==
  ASSUME RelayInv, NEW a \in Agendas("chains"), NEW v \in a
  PROVE  v \in Nat \X Tasks \X Nat /\ v[2] \in Live(mgr) /\ v[3] \in 0..(v[2] - 1)
<1>1. PICK turn \in Injection(Visited, 1..Cardinality(Visited)) :
        a = UNION {{turn[t]} \X {t} \X ChainVisits(t) : t \in Visited}
  BY DEF Agendas
<1>2. PICK t \in Visited : v \in {turn[t]} \X {t} \X ChainVisits(t)
  BY <1>1
<1>3. turn[t] \in Nat
  <2>1. Visited \subseteq Tasks /\ IsFiniteSet(Tasks)
    BY FleetAssumption DEF Visited, Live
  <2>2. Cardinality(Visited) \in Nat
    BY <2>1, FS_Subset, FS_CardinalityType
  <2>3. turn \in [Visited -> 1..Cardinality(Visited)]
    BY <1>1 DEF Injection
  <2> QED
    BY <2>2, <2>3
<1>4. t \in Live(mgr) /\ t \in Tasks /\ t - 1 \in Nat
  BY LiveChain DEF Visited, RelayInv
<1>5. ChainVisits(t) \subseteq 0..(t - 1)
  <2>1. mgr.chains[t].relays \in [1..(t-1) -> UAVs]
    BY <1>4, LiveChain DEF RelayInv, ChainFor
  <2> DEFINE r == mgr.chains[t].relays
             n == t - 1
  <2> HIDE DEF r, n
  <2>2. Len(r) = n
    BY <1>4, <2>1, FunctionIsSequence DEF r, n
  <2> QED
    BY <2>2 DEF ChainVisits, r, n
<1>6. v[1] = turn[t] /\ v[2] = t /\ v[3] \in ChainVisits(t) /\ v = <<v[1], v[2], v[3]>>
  BY <1>2
<1>7. v[3] \in Nat
  BY <1>4, <1>5, <1>6
<1> QED
  BY <1>3, <1>4, <1>5, <1>6, <1>7

LEMMA NobodyHasTask ==
  ASSUME FleetTyped, Held, AllDone, NEW u \in UAVs
  PROVE  fleet[u].task = None
BY DEF FleetTyped, Held, Vehicle, AllDone

LEMMA ProceedKeeps ==
  ASSUME RelayInv, Proceed
  PROVE  RelayInv'
<1>1. /\ UNCHANGED <<fleet, task, batch, mgr>> /\ agenda' \in Agendas(stage')
      /\ FleetTyped /\ Held
  BY DEF Proceed, RelayInv
<1>2. Scheduled'
  <2>1. CASE stage' = "chains"
    <3>1. \A v \in agenda' : /\ v \in Nat \X Tasks \X Nat
                             /\ v[2] \in Live(mgr) /\ v[3] \in 0..(v[2] - 1)
      BY <1>1, <2>1, ChainsAreVisited
    <3> QED
      BY <1>1, <2>1, <3>1 DEF Scheduled
  <2>2. CASE stage' = "singles"
    BY <1>1, <2>2 DEF Scheduled, Agendas, SingleVisits, Singled
  <2>3. CASE stage' = "surveyors"
    <3>1. agenda' = StrandedSurveyors /\ agenda' \subseteq UAVs
      BY <1>1, <2>3 DEF Agendas, StrandedSurveyors
    <3>2. \A s \in StrandedSurveyors : fleet[s].at \in 0..FarEnd /\ fleet[s].at > 1
      BY <1>1 DEF StrandedSurveyors, FleetTyped, Vehicle, Places
    <3>3. agenda' = {} \/ 1 \in Places
      BY <3>1, <3>2, FarEndIsLast DEF Places
    <3> QED
      BY <2>3, <3>1, <3>3 DEF Scheduled, Places, FarEnd
  <2>4. CASE stage' \in {"relays", "idle"}
    BY <1>1, <2>4 DEF Scheduled, Agendas, RelayVisits, IdleRelays
  <2>5. CASE stage' = "monitor"
    BY <1>1, <2>5 DEF Scheduled, Agendas, ActiveSurveyors
  <2>6. CASE stage' = "plan"
    BY <1>1, <2>6 DEF Scheduled, Agendas
  <2>7. CASE stage' = "serve"
    BY <1>1, <2>7 DEF Scheduled, Agendas, Workers
  <2>8. CASE stage' = "recall"
    <3>1. agenda' = Recalled
      BY <1>1, <2>8 DEF Agendas
    <3>2. \A u \in Recalled : u \in UAVs /\ fleet[u].task = None
      BY <1>1, NobodyHasTask DEF Recalled
    <3> QED
      BY <1>1, <2>8, <3>1, <3>2 DEF Scheduled
  <2>9. CASE stage' \notin {"chains", "singles", "relays", "surveyors", "idle",
                            "monitor", "plan", "serve", "recall"}
    BY <1>1, <2>9 DEF Scheduled, Agendas
  <2> QED
    BY <2>1, <2>2, <2>3, <2>4, <2>5, <2>6, <2>7, <2>8, <2>9
<1>3. Kept(mgr') /\ AllApart(mgr') /\ SentPlain
  BY <1>1 DEF RelayInv, SentPlain
<1> QED
  BY <1>1, <1>2, <1>3, FleetStays

LEMMA InitKeeps ==
  ASSUME Init
  PROVE  RelayInv
<1>1. FleetTyped
  BY PlacesAreNumbers DEF Init, FleetTyped, Vehicle
<1>2. Held
  BY NoneIsNobody DEF Init, Held
<1>3. BatchSound
  <2>1. batch = <<>> /\ <<>> \in Seq(Sound) /\ Len(<<>>) = 0
    BY DEF Init
  <2> QED
    BY <2>1 DEF BatchSound, OneTaskEach
<1>4. mgr \in Managers /\ Live(mgr) = {}
  BY DEF Init, ManagerInit, Managers, NoChain, NoOne, Live
<1>5. Kept(mgr) /\ AllApart(mgr)
  <2>1. \A u \in UAVs : mgr.chainOf[u] = None
    BY DEF Init, ManagerInit, NoOne
  <2> QED
    BY <1>4, <2>1 DEF Kept, AllApart
<1>6. Scheduled
  BY DEF Init, Scheduled
<1> QED
  BY <1>1, <1>2, <1>3, <1>5, <1>6 DEF RelayInv

(***************************************************************************)
(* The store carries out a command.                                        *)
(***************************************************************************)
LEMMA RestIsSound ==
  ASSUME BatchSound, NEW i \in 1..Len(batch), batch' = RemoveAt(batch, i),
         \A j \in 1..Len(batch) : j # i => batch[j] \in Sound'
  PROVE  BatchSound'
<1> DEFINE S == Sound
           T == Sound'
           n == Len(batch) - 1
           from(j) == IF j < i THEN j ELSE j + 1
<1>1. batch \in Seq(S) /\ OneTaskEach(batch) /\ Len(batch) \in Nat
  BY DEF BatchSound
<1>2. n \in Nat
  BY <1>1
<1>3. \A j \in 1..n : from(j) \in 1..Len(batch) /\ from(j) # i
  BY <1>1
<1>4. \A j, k \in 1..n : j # k => from(j) # from(k)
  BY <1>1
<1> HIDE DEF S
<1>5. /\ batch' \in Seq(S) /\ Len(batch') = n
      /\ \A j \in 1..n : batch'[j] = batch[from(j)]
  BY <1>1, TheRestStays
<1> HIDE DEF n, from, T
<1>6. \A j \in 1..Len(batch') : batch'[j] \in T
  BY <1>3, <1>5 DEF T
<1>7. batch' \in Seq(T)
  BY <1>5, <1>6, SequenceOver
<1>8. OneTaskEach(batch')
  BY <1>1, <1>3, <1>4, <1>5 DEF OneTaskEach
<1> QED
  BY <1>7, <1>8 DEF BatchSound, OneTaskEach, T

LEMMA ObeyKeeps ==
  ASSUME RelayInv, stage \in Obeying, Obey, UNCHANGED <<mgr, stage, agenda>>
  PROVE  RelayInv'
<1> DEFINE i == FirstOf(batch)
           c == batch[i]
           u == c.uav
<1>1. FleetTyped /\ Held /\ BatchSound /\ batch \in Seq(Sound) /\ OneTaskEach(batch)
  BY DEF RelayInv, BatchSound
<1>2. \A d \in Sound : d \in Commands
  BY DEF Sound
<1>3. batch \in Seq(Commands)
  <2> DEFINE S == Sound
             T == Commands
  <2>1. batch \in Seq(S) /\ \A d \in S : d \in T
    BY <1>1, <1>2
  <2> HIDE DEF S, T
  <2>2. batch \in Seq(T)
    BY <2>1, SequenceOver
  <2> QED
    BY <2>2 DEF T
<1>4. /\ i \in 1..Len(batch)
      /\ \A j \in 1..Len(batch) : batch[j].uav = u => Rank[c.type] <= Rank[batch[j].type]
  BY <1>3, FirstIsWaiting DEF Obey
<1>5. batch' = RemoveAt(batch, i)
  BY DEF Obey
<1>6. \/ AssignRelayRole(c)  \/ HandoffRelay(c)  \/ TakeTask(c)  \/ ReleaseRelayRole(c)
      \/ GiveUpTask(c)       \/ SetTargetPosition(c)  \/ Return(c)
  BY DEF Obey
<1> HIDE DEF i
<1>7. /\ c \in Sound /\ u \in UAVs /\ c.place \in Places \union {None}
      /\ c.served \in UAVs \union {None}
      /\ c.type = "HandoffRelay" => c.whom \in UAVs
      /\ c.type = "AssignTask" => c.place \in Tasks /\ fleet[u].task = None
  <2>1. c \in Sound
    BY <1>1, <1>4
  <2> HIDE DEF c
  <2> QED
    BY <2>1 DEF Sound, Commands, Engages
<1>8. \A j \in 1..Len(batch) : batch[j] \in Sound
  BY <1>1
<1>9. Scheduled'
  BY DEF RelayInv, Scheduled, Obeying
<1>10. ASSUME FleetTyped', Held', \A j \in 1..Len(batch) : j # i => batch[j] \in Sound'
       PROVE  RelayInv'
  <2>1. BatchSound'
    BY <1>1, <1>4, <1>5, <1>10, RestIsSound
  <2> QED
    BY <1>9, <1>10, <2>1 DEF RelayInv
<1>11. NobodyTakes => \A d \in Sound : d \in Sound'
  BY DEF Sound, Commands, Engages, NobodyTakes
<1>12. ASSUME FleetTyped', Held', NobodyTakes PROVE RelayInv'
  BY <1>8, <1>10, <1>11, <1>12
<1> HIDE DEF c
<1>13. ASSUME NEW v \in UAVs, NEW r \in Vehicle, r.task = None, Write(v, r),
              task' = Dropped(v)
       PROVE  RelayInv'
  <2>1. /\ fleet' \in [UAVs -> Vehicle] /\ fleet'[v].task = None
        /\ \A w \in UAVs : w # v => fleet'[w].task = fleet[w].task
    BY <1>1, <1>13, RecordsWritten
  <2>2. FleetTyped' /\ Held' /\ NobodyTakes
    BY <1>1, <1>13, <2>1, TaskDropped DEF FleetTyped
  <2> QED
    BY <1>12, <2>2
<1>14. ASSUME NEW r \in Vehicle, r.task = fleet[u].task, Write(u, r), UNCHANGED task
       PROVE  RelayInv'
  <2>1. /\ fleet' \in [UAVs -> Vehicle]
        /\ \A v \in UAVs : fleet'[v].task = fleet[v].task
    BY <1>1, <1>7, <1>14, RecordsWritten
  <2>2. FleetTyped' /\ Held' /\ NobodyTakes
    BY <1>1, <1>14, <2>1, SameHolders DEF FleetTyped
  <2> QED
    BY <1>12, <2>2
<1>15. ASSUME UNCHANGED <<fleet, task>> PROVE RelayInv'
  <2>1. FleetTyped' /\ Held' /\ NobodyTakes
    BY <1>1, <1>15 DEF FleetTyped, Held, NobodyTakes
  <2> QED
    BY <1>12, <2>1
<1>16. \A v \in UAVs : fleet[v] \in Vehicle
  BY <1>1 DEF FleetTyped
<1>17. ASSUME NEW v \in UAVs
       PROVE  /\ Relaying(fleet[v], c.place, c.served) \in Vehicle
              /\ Relaying(fleet[v], c.place, c.served).task = None
  BY <1>7, <1>16 DEF Relaying, Vehicle
<1>18. CASE AssignRelayRole(c)
  BY <1>7, <1>13, <1>17, <1>18 DEF AssignRelayRole
<1>19. CASE HandoffRelay(c)
  BY <1>7, <1>13, <1>17, <1>19 DEF HandoffRelay
<1>20. CASE TakeTask(c)
  <2>1. CASE UNCHANGED <<fleet, task>>
    BY <1>15, <2>1
  <2>2. CASE /\ task[c.place] = "open"
             /\ Write(u, Surveying(fleet[u], c.place))
             /\ task' = [task EXCEPT ![c.place] = "taken"]
    <3>1. c.type = "AssignTask" /\ c.place \in Tasks /\ fleet[u].task = None
      BY <1>7, <1>20 DEF TakeTask
    <3>2. /\ Surveying(fleet[u], c.place) \in Vehicle
          /\ Surveying(fleet[u], c.place).task = c.place
      <4>1. fleet[u] \in Vehicle /\ c.place \in Tasks /\ c.place \in Places
        BY <1>7, <1>16, <3>1, PlacesAreNumbers
      <4> QED
        BY <4>1, SurveyingTyped
    <3>3. /\ fleet' \in [UAVs -> Vehicle] /\ fleet'[u].task = c.place
          /\ \A v \in UAVs : v # u => fleet'[v].task = fleet[v].task
      BY <1>1, <1>7, <2>2, <3>2, RecordsWritten
    <3>4. FleetTyped' /\ Held'
      BY <1>1, <1>7, <2>2, <3>1, <3>3, TaskTaken DEF FleetTyped
    <3>5. ASSUME NEW j \in 1..Len(batch), j # i PROVE batch[j] \in Sound'
      <4>1. batch[j] \in Sound /\ batch[j].uav \in UAVs
        BY <1>8 DEF Sound, Commands
      <4>2. CASE batch[j].uav # u
        BY <3>3, <4>1, <4>2 DEF Sound, Commands, Engages
      <4>3. CASE batch[j].uav = u
        <5>1. batch[j].type # "AssignTask"
          BY <1>1, <1>4, <3>1, <3>5, <4>3 DEF OneTaskEach, c
        <5>2. batch[j].type # "AssignRelayRole"
          <6>1. Rank["AssignTask"] <= Rank[batch[j].type]
            BY <1>4, <3>1, <4>3 DEF c
          <6> QED
            BY <6>1 DEF Rank
        <5> QED
          BY <4>1, <5>1, <5>2 DEF Sound, Commands, Engages
      <4> QED
        BY <4>2, <4>3
    <3> QED
      BY <1>10, <3>4, <3>5
  <2> QED
    BY <1>20, <2>1, <2>2 DEF TakeTask
<1>21. CASE ReleaseRelayRole(c)
  <2> DEFINE r == [fleet[u] EXCEPT !.role = IF c.whom = u THEN "SURVEYOR" ELSE "IDLE",
                                   !.relayFor = None]
  <2>1. r \in Vehicle /\ r.task = fleet[u].task
    BY <1>7, <1>16 DEF Vehicle
  <2>2. UNCHANGED task /\ (UNCHANGED fleet \/ Write(u, r))
    BY <1>21 DEF ReleaseRelayRole
  <2> HIDE DEF r
  <2> QED
    BY <1>14, <1>15, <2>1, <2>2
<1>22. CASE GiveUpTask(c)
  <2> DEFINE r == [fleet[u] EXCEPT !.task = None, !.to = None]
  <2>1. r \in Vehicle /\ r.task = None
    BY <1>7, <1>16 DEF Vehicle
  <2>2. Write(u, r) /\ task' = Dropped(u)
    BY <1>22 DEF GiveUpTask
  <2> HIDE DEF r
  <2> QED
    BY <1>7, <1>13, <2>1, <2>2
<1>23. CASE SetTargetPosition(c)
  <2> DEFINE r == [fleet[u] EXCEPT !.to = c.place]
  <2>1. r \in Vehicle /\ r.task = fleet[u].task
    BY <1>7, <1>16 DEF Vehicle
  <2>2. Write(u, r) /\ UNCHANGED task
    BY <1>23 DEF SetTargetPosition
  <2> HIDE DEF r
  <2> QED
    BY <1>14, <2>1, <2>2
<1>24. CASE Return(c)
  <2>1. Homeward(fleet[u]) \in Vehicle /\ Homeward(fleet[u]).task = None
    BY <1>7, <1>16, HomewardTyped
  <2> QED
    BY <1>7, <1>13, <1>24, <2>1 DEF Return
<1> QED
  BY <1>6, <1>18, <1>19, <1>20, <1>21, <1>22, <1>23, <1>24

(***************************************************************************)
(* Degraded chains.  From the monitoring of a tick to its flight nobody    *)
(* moves or fails and no chain becomes degraded.  The monitoring takes     *)
(* every surveyor off its degraded chain; whoever gets a task after that   *)
(* has a chain that forms, or one somebody else reaches for it.            *)
(***************************************************************************)
Late == {"monitor", "monitored", "plan", "planned", "serve", "served", "recall", "fly"}

RelaysAreFree == \A u \in UAVs : fleet[u].role = "RELAY" => fleet[u].task = None

\* s may have task t when the fleet flies
Provided(s, t) == Degraded(s) => WithinReach(s, t)

\* so it is for the tasks given out, and for the surveyors but those still to be monitored
Promised == \A c \in Range(batch) : c.type = "AssignTask" => Provided(c.uav, c.place)

Backed == \A s \in ActiveSurveyors :
            (stage = "monitor" /\ s \in agenda) \/ Provided(s, fleet[s].task)

BackedInv ==
  /\ RelayInv /\ RelaysAreFree
  /\ stage \in Late => Promised /\ Backed

\* what holds of the steps between monitoring and flight
Steady == \A u \in UAVs : fleet'[u].at = fleet[u].at /\ (Active(u) => Active(u)')

NoneDegrades == \A s \in UAVs : Degraded(s)' => Degraded(s)

LEMMA ReachStays ==
  ASSUME Steady, NEW s \in UAVs, NEW t, WithinReach(s, t)
  PROVE  WithinReach(s, t)'
<1>1. ASSUME NEW u \in UAVs, Connected(u) PROVE Connected(u)'
  BY <1>1 DEF Connected, Steady
<1>2. CASE t <= 1
  BY <1>2 DEF WithinReach
<1>3. ASSUME NEW r \in UAVs \ {s}, Connected(r), Gap(fleet[r].at, t) <= 1
      PROVE  WithinReach(s, t)'
  <2>1. Connected(r)' /\ fleet'[r].at = fleet[r].at
    BY <1>1, <1>3 DEF Steady
  <2>2. Gap(fleet'[r].at, t) <= 1
    BY <1>3, <2>1
  <2> QED
    BY <2>1, <2>2 DEF WithinReach, Gap
<1> QED
  BY <1>2, <1>3 DEF WithinReach

LEMMA ProvidedStays ==
  ASSUME Steady, NoneDegrades, NEW s \in UAVs, NEW t, Provided(s, t)
  PROVE  Provided(s, t)'
BY ReachStays DEF Provided, NoneDegrades

LEMMA StillPromised ==
  ASSUME Promised, Steady, NoneDegrades, BatchSound,
         \A c \in Range(batch') :
           c \in Range(batch) \/ (c.type = "AssignTask" => Provided(c.uav, c.place)')
  PROVE  Promised'
<1> SUFFICES ASSUME NEW c \in Range(batch'), c.type = "AssignTask"
             PROVE  Provided(c.uav, c.place)'
  BY DEF Promised
<1>1. CASE c \in Range(batch)
  <2>1. c \in Sound
    <3> DEFINE S == Sound
    <3>1. batch \in Seq(S)
      BY DEF BatchSound
    <3> HIDE DEF S
    <3>2. c \in S
      BY <1>1, <3>1 DEF Range
    <3> QED
      BY <3>2 DEF S
  <2>2. c.uav \in UAVs
    BY <2>1 DEF Sound, Commands
  <2>3. Provided(c.uav, c.place)
    BY <1>1 DEF Promised
  <2>4. PICK u, t : u \in UAVs /\ u = c.uav /\ t = c.place
    BY <2>2
  <2>5. Provided(u, t)'
    BY <2>3, <2>4, ProvidedStays
  <2> QED
    BY <2>4, <2>5
<1> QED
  BY <1>1

LEMMA StillBacked ==
  ASSUME Backed, Steady, NoneDegrades,
         \A s \in ActiveSurveyors' :
           \/ /\ s \in ActiveSurveyors /\ fleet'[s].task = fleet[s].task
              /\ stage = "monitor" /\ s \in agenda => stage' = "monitor" /\ s \in agenda'
           \/ Provided(s, fleet[s].task)'
  PROVE  Backed'
<1> SUFFICES ASSUME NEW s \in ActiveSurveyors',
                    ~(stage' = "monitor" /\ s \in agenda')
             PROVE  Provided(s, fleet[s].task)'
  BY DEF Backed
<1>1. CASE /\ s \in ActiveSurveyors /\ fleet'[s].task = fleet[s].task
           /\ stage = "monitor" /\ s \in agenda => stage' = "monitor" /\ s \in agenda'
  <2>1. s \in UAVs /\ Provided(s, fleet[s].task)
    BY <1>1 DEF Backed, ActiveSurveyors
  <2>2. PICK t : t = fleet[s].task
    OBVIOUS
  <2>3. Provided(s, t)'
    BY <2>1, <2>2, ProvidedStays
  <2> QED
    BY <1>1, <2>2, <2>3 DEF Provided, WithinReach
<1> QED
  BY <1>1

LEMMA RangeOfJoined ==
  ASSUME NEW S, NEW p \in Seq(S), NEW q \in Seq(S)
  PROVE  Range(p \o q) = Range(p) \union Range(q)
<1>1. p \o q \in Seq(S) /\ Len(p \o q) = Len(p) + Len(q)
  <2>1. p \o q \in Seq(S)
    BY ConcatenatedTo
  <2>2. Len(p \o q) = Len(p) + Len(q)
    BY ConcatenatedTo
  <2> QED
    BY <2>1, <2>2
<1>2. /\ DOMAIN (p \o q) = 1..(Len(p) + Len(q))
      /\ DOMAIN p = 1..Len(p) /\ DOMAIN q = 1..Len(q)
  BY <1>1
<1>3. Range(p \o q) \subseteq Range(p) \union Range(q)
  <2>1. \A i \in 1..Len(p \o q) :
           \/ i \in 1..Len(p) /\ (p \o q)[i] = p[i]
           \/ \E j \in 1..Len(q) : i = Len(p) + j /\ (p \o q)[i] = q[j]
    BY WhereFrom
  <2> QED
    BY <1>1, <1>2, <2>1 DEF Range
<1>4. Range(p) \union Range(q) \subseteq Range(p \o q)
  <2>1. \A j \in 1..Len(p) : (p \o q)[j] = p[j]
    BY ConcatenatedTo
  <2>2. \A j \in 1..Len(q) : (p \o q)[Len(p) + j] = q[j]
    BY ConcatenatedTo
  <2>3. /\ \A j \in 1..Len(p) : j \in 1..(Len(p) + Len(q))
        /\ \A j \in 1..Len(q) : Len(p) + j \in 1..(Len(p) + Len(q))
    OBVIOUS
  <2> QED
    BY <1>2, <2>1, <2>2, <2>3 DEF Range
<1> QED
  BY <1>3, <1>4

\* what a batch holds after commands were sent
LEMMA SentIsAdded ==
  ASSUME NEW S, batch \in Seq(S), NEW cs \in Seq(S), Send(cs)
  PROVE  Range(batch') = Range(batch) \union Range(cs)
BY RangeOfJoined DEF Send

LEMMA PlainPromises ==
  ASSUME Promised, Steady, NoneDegrades, BatchSound, SentPlain
  PROVE  Promised'
<1>1. CASE UNCHANGED batch
  BY <1>1, StillPromised
<1>2. ASSUME NEW cs \in Seq(Plain), Send(cs) PROVE Promised'
  <2> DEFINE S == Sound
  <2>1. \A i \in 1..Len(cs) : cs[i] \in S /\ cs[i].type # "AssignTask"
    <3>1. \A c \in Plain : c \in S /\ c.type # "AssignTask"
      BY DEF Plain
    <3> DEFINE P == Plain
    <3>2. cs \in Seq(P) /\ \A c \in P : c \in S /\ c.type # "AssignTask"
      BY <3>1
    <3> HIDE DEF P, S
    <3> QED
      BY <3>2
  <2>2. cs \in Seq(S)
    <3> DEFINE P == Plain
    <3>1. cs \in Seq(P)
      OBVIOUS
    <3> HIDE DEF P, S
    <3> QED
      BY <2>1, <3>1, SequenceOver
  <2>3. batch \in Seq(S)
    BY DEF BatchSound
  <2> HIDE DEF S
  <2>4. Range(batch') \subseteq Range(batch) \union Range(cs)
    BY <1>2, <2>2, <2>3, SentIsAdded
  <2>5. \A c \in Range(cs) : c.type # "AssignTask"
    BY <2>1, <2>2 DEF Range
  <2> QED
    BY <2>4, <2>5, StillPromised
<1> QED
  BY <1>1, <1>2 DEF SentPlain

\* what becomes of the chains
LEMMA NobodyLeftBehind ==
  ASSUME Kept(mgr), NEW t \in Live(mgr), mgr' \in Teardown(mgr, t)
  PROVE  /\ NoneDegrades
         /\ \A s \in UAVs : mgr.chainOf[s] = t => ~Degraded(s)'
<1>1. mgr \in Managers /\ t \in Tasks
  BY LiveChain DEF Kept
<1>2. /\ mgr'.chains = [mgr.chains EXCEPT ![t] = None]
      /\ mgr'.chainOf = [u \in UAVs |-> IF u \in Leaving(mgr, t) THEN None ELSE mgr.chainOf[u]]
  BY <1>1 DEF Teardown, Inherited, Managers
<1>3. \A s \in UAVs : mgr.chainOf[s] = t => mgr'.chainOf[s] = None
  BY <1>2 DEF Leaving
<1>4. \A s \in UAVs : mgr'.chainOf[s] # None => /\ mgr'.chainOf[s] = mgr.chainOf[s]
                                                /\ mgr.chainOf[s] # t
  BY <1>2, <1>3
<1>5. \A s \in UAVs : mgr.chainOf[s] \in Tasks \union {None}
  BY <1>1 DEF Managers
<1>6. \A o \in Tasks \ {t} : mgr'.chains[o] = mgr.chains[o]
  BY <1>1, <1>2 DEF Managers
<1>7. ASSUME NEW s \in UAVs, Degraded(s)' PROVE Degraded(s) /\ mgr.chainOf[s] # t
  <2>1. mgr'.chainOf[s] # None /\ mgr'.chains[mgr'.chainOf[s]].status = "DEGRADED"
        /\ mgr'.chains[mgr'.chainOf[s]] # None
    BY <1>7 DEF Degraded, ChainOf
  <2> QED
    BY <1>4, <1>5, <1>6, <2>1 DEF Degraded, ChainOf
<1> QED
  BY <1>7 DEF NoneDegrades

LEMMA OperationalAgain ==
  ASSUME Kept(mgr), NEW t \in Live(mgr), mgr' = Marked(mgr, t, "ACTIVE")
  PROVE  NoneDegrades /\ \A s \in UAVs : mgr.chainOf[s] = t => ~Degraded(s)'
<1>1. mgr \in Managers /\ t \in Tasks /\ mgr.chains[t] \in ChainFor(t)
  BY LiveChain DEF Kept
<1>2. /\ mgr'.chains = [mgr.chains EXCEPT ![t].status = "ACTIVE"]
      /\ mgr'.chainOf = mgr.chainOf
  BY <1>1 DEF Marked, Managers
<1>3. /\ mgr'.chains[t].status = "ACTIVE"
      /\ \A o \in Tasks \ {t} : mgr'.chains[o] = mgr.chains[o]
  BY <1>1, <1>2 DEF Managers, ChainFor
<1>4. \A s \in UAVs : mgr.chainOf[s] \in Tasks \union {None}
  BY <1>1 DEF Managers
<1>5. ASSUME NEW s \in UAVs, Degraded(s)' PROVE Degraded(s) /\ mgr.chainOf[s] # t
  BY <1>2, <1>3, <1>4, <1>5 DEF Degraded, ChainOf
<1> QED
  BY <1>5 DEF NoneDegrades

LEMMA RegisteredForms ==
  ASSUME Kept(mgr), NEW t \in Tasks, NEW u \in UAVs, NEW team,
         mgr' = Register(mgr, t, u, team)
  PROVE  NoneDegrades /\ ~Degraded(u)'
<1>1. mgr \in Managers
  BY DEF Kept
<1> DEFINE gone == IF mgr.chains[t] = None THEN {} ELSE {mgr.chains[t].surveyor} \ {u}
           c == [surveyor |-> u, relays |-> team, status |-> "FORMING",
                 pending |-> [i \in DOMAIN team |-> None]]
<1>2. /\ mgr'.chains = [mgr.chains EXCEPT ![t] = c]
      /\ mgr'.chainOf = [v \in UAVs |-> IF v = u THEN t
                                        ELSE IF v \in gone THEN None ELSE mgr.chainOf[v]]
  BY <1>1 DEF Register, Managers
<1>3. c.status = "FORMING"
  OBVIOUS
<1> HIDE DEF gone, c
<1>4. \A s \in UAVs : mgr.chainOf[s] \in Tasks \union {None}
  BY <1>1 DEF Managers
<1>5. mgr'.chains[t] = c /\ \A o \in Tasks \ {t} : mgr'.chains[o] = mgr.chains[o]
  BY <1>1, <1>2 DEF Managers
<1>6. t # None
  BY NoneIsNobody
<1>7. mgr'.chainOf[u] = t
  BY <1>2
<1>8. ASSUME NEW s \in UAVs, Degraded(s)' PROVE Degraded(s) /\ mgr'.chainOf[s] # t
  <2>1. /\ mgr'.chainOf[s] # None /\ mgr'.chains[mgr'.chainOf[s]] # None
        /\ mgr'.chains[mgr'.chainOf[s]].status = "DEGRADED"
    BY <1>8 DEF Degraded, ChainOf
  <2>2. mgr'.chainOf[s] # t
    BY <1>3, <1>5, <2>1
  <2>3. mgr'.chainOf[s] = mgr.chainOf[s]
    BY <1>2, <2>1, <2>2
  <2> QED
    BY <1>4, <1>5, <2>1, <2>2, <2>3 DEF Degraded, ChainOf
<1> QED
  BY <1>7, <1>8 DEF NoneDegrades

LEMMA MonitorBacks ==
  ASSUME BackedInv, MonitorSurveyor
  PROVE  Promised' /\ Backed'
<1>1. /\ stage = "monitor" /\ agenda # {} /\ Rest
      /\ Kept(mgr) /\ BatchSound /\ Promised /\ Backed
      /\ UNCHANGED <<fleet, stage>>
  BY DEF MonitorSurveyor, BackedInv, RelayInv, Late
<1>2. PICK s \in UAVs : s = Turn
  BY <1>1, VisitOfVehicle DEF BackedInv
<1> DEFINE c == ChainOf(s)
           t == mgr.chainOf[s]
           forming == c # None /\ c.status = "FORMING"
           ready == c = None \/ PhysicallyReady(c)
<1>3. \/ mgr' \in IF c = None THEN {mgr} ELSE Teardown(mgr, t)
      \/ /\ c = None \/ c.status # "DEGRADED"
         /\ mgr' = IF forming /\ ready THEN Marked(mgr, t, "ACTIVE") ELSE mgr
  BY <1>2 DEF MonitorSurveyor, Severed
<1>4. c # None => t \in Live(mgr)
  <2> SUFFICES ASSUME c # None PROVE t \in Live(mgr)
    OBVIOUS
  <2>1. t # None /\ c = mgr.chains[t]
    BY DEF ChainOf
  <2>2. t \in Tasks
    BY <1>1, <1>2, <2>1 DEF Kept, Managers
  <2> QED
    BY <2>1, <2>2 DEF Live
<1>5. Degraded(s) <=> c # None /\ c.status = "DEGRADED"
  BY DEF Degraded
<1>7. forming => c # None /\ c.status # "DEGRADED"
  OBVIOUS
<1> HIDE DEF t, c, forming, ready
<1>8. NoneDegrades /\ ~Degraded(s)'
  <2>1. CASE mgr' = mgr /\ ~Degraded(s)
    BY <1>2, <2>1 DEF NoneDegrades, Degraded, ChainOf
  <2>2. CASE c # None /\ mgr' \in Teardown(mgr, t)
    BY <1>1, <1>2, <1>4, <2>2, NobodyLeftBehind DEF t
  <2>3. CASE forming /\ mgr' = Marked(mgr, t, "ACTIVE")
    BY <1>1, <1>2, <1>4, <1>7, <2>3, OperationalAgain DEF t
  <2> QED
    BY <1>3, <1>5, <2>1, <2>2, <2>3
<1>9. Steady
  BY <1>1 DEF Steady, Active
<1>10. Promised'
  BY <1>1, <1>8, <1>9, MonitorKeeps, PlainPromises DEF BackedInv
<1>11. ActiveSurveyors' = ActiveSurveyors
  BY <1>1 DEF ActiveSurveyors, Active
<1>12. \A v \in ActiveSurveyors' :
         \/ /\ v \in ActiveSurveyors /\ fleet'[v].task = fleet[v].task
            /\ stage = "monitor" /\ v \in agenda => stage' = "monitor" /\ v \in agenda'
         \/ Provided(v, fleet[v].task)'
  <2> TAKE v \in ActiveSurveyors'
  <2>1. CASE v = s
    BY <1>8, <2>1 DEF Provided
  <2>2. CASE v # s
    BY <1>1, <1>2, <1>11, <2>2 DEF Rest
  <2> QED
    BY <2>1, <2>2
<1>13. Backed'
  BY <1>1, <1>8, <1>9, <1>12, StillBacked
<1> QED
  BY <1>10, <1>13

LEMMA SameSurveyors ==
  ASSUME Backed, Steady, NoneDegrades, stage # "monitor",
         \A s \in ActiveSurveyors' : s \in ActiveSurveyors /\ fleet'[s].task = fleet[s].task
  PROVE  Backed'
BY StillBacked

LEMMA PlanBacks ==
  ASSUME BackedInv, PlanTask
  PROVE  Promised' /\ Backed'
<1>0. PICK t \in Tasks : PlanSends(t) /\ stage = "plan"
  BY PlannedFor DEF BackedInv
<1>1. /\ stage = "plan" /\ PlanSends(t) /\ Kept(mgr) /\ BatchSound
      /\ Promised /\ Backed /\ UNCHANGED fleet
  BY <1>0 DEF BackedInv, RelayInv, Late, PlanTask
<1>2. Steady
  BY <1>1 DEF Steady, Active
<1>3. ActiveSurveyors' = ActiveSurveyors
  BY <1>1 DEF ActiveSurveyors, Active
<1>4. NoneDegrades => Backed'
  BY <1>1, <1>2, <1>3, SameSurveyors
<1>5. UNCHANGED mgr => NoneDegrades
  BY DEF NoneDegrades, Degraded, ChainOf
<1>6. CASE UNCHANGED <<batch, mgr>>
  BY <1>1, <1>2, <1>4, <1>5, <1>6, StillPromised
<1>7. ASSUME NEW u \in Candidates, NEW p \in Seq(Near), NEW q \in Seq(Near),
             Send(p \o AssignTask(u, t) \o q),
             NoneDegrades, Provided(u, t)'
      PROVE  Promised' /\ Backed'
  <2> DEFINE S == Sound
             x == [Cmd("AssignTask", u) EXCEPT !.place = t]
             cs == p \o AssignTask(u, t) \o q
  <2>1. u \in UAVs /\ fleet[u].task = None
    BY DEF Candidates
  <2>2. /\ x.uav = u /\ x.place = t /\ cs \in Seq(S)
        /\ \A i \in 1..Len(cs) : cs[i].type = "AssignTask" => cs[i] = x
    <3>1. p \in Seq(Plain) /\ q \in Seq(Plain)
      BY NearIsPlain
    <3> QED
      BY <1>1, <2>1, <3>1, OneAssignment
  <2>3. batch \in Seq(S) /\ Send(cs)
    BY <1>1, <1>7 DEF BatchSound
  <2> HIDE DEF S, x, cs
  <2>4. Range(batch') \subseteq Range(batch) \union Range(cs)
    BY <2>2, <2>3, SentIsAdded
  <2>5. \A c \in Range(cs) : c.type = "AssignTask" => c = x
    BY <2>2 DEF Range
  <2>6. ASSUME NEW c \in Range(batch')
        PROVE  c \in Range(batch) \/ (c.type = "AssignTask" => Provided(c.uav, c.place)')
    <3>1. CASE c \in Range(cs) /\ c.type = "AssignTask"
      <4>1. c.uav = u /\ c.place = t
        BY <2>2, <2>5, <3>1
      <4> QED
        BY <1>7, <4>1
    <3> QED
      BY <2>4, <3>1
  <2> QED
    BY <1>1, <1>2, <1>4, <1>7, <2>6, StillPromised
<1>8. ASSUME NEW u \in Candidates, t <= 1 \/ Covered(t), UNCHANGED mgr
      PROVE  NoneDegrades /\ Provided(u, t)'
  <2>1. u \in UAVs /\ fleet[u].role # "RELAY"
    BY DEF Candidates
  <2>2. WithinReach(u, t)
    BY <1>8, <2>1 DEF WithinReach, Covered
  <2> QED
    BY <1>2, <1>5, <1>8, <2>1, <2>2, ReachStays, ProvidedStays DEF Provided
<1>9. ASSUME NEW u \in Candidates, NEW team, mgr' = Register(mgr, t, u, team)
      PROVE  NoneDegrades /\ Provided(u, t)'
  BY <1>1, <1>9, RegisteredForms DEF Provided, Candidates
<1> QED
  BY <1>1, <1>6, <1>7, <1>8, <1>9 DEF PlanSends

\* surveyors that were there before with the task they have, or that need no chain
SurveyorsKept ==
  \A s \in ActiveSurveyors' :
    \/ s \in ActiveSurveyors /\ fleet'[s].task = fleet[s].task
    \/ Provided(s, fleet[s].task)'

LEMMA Rewritten ==
  ASSUME FleetTyped, RelaysAreFree, NoneDegrades,
         NEW v \in UAVs, NEW r \in Vehicle, Write(v, r),
         r.at = fleet[v].at, r.failed = fleet[v].failed,
         r.condition = "home" => fleet[v].condition = "home",
         \/ r.task = None
         \/ /\ r.task = fleet[v].task /\ r.condition = fleet[v].condition
            /\ r.role # "RELAY" /\ (r.role = "SURVEYOR" => fleet[v].role = "SURVEYOR")
         \/ r.role = "SURVEYOR" /\ Provided(v, r.task)
  PROVE  RelaysAreFree' /\ Steady /\ SurveyorsKept
<1>1. /\ fleet'[v] = r
      /\ \A w \in UAVs : w # v => fleet'[w] = fleet[w]
  BY RecordsWritten
<1>2. RelaysAreFree'
  BY <1>1 DEF RelaysAreFree
<1>3. Steady
  BY <1>1 DEF Steady, Active
<1>4. ASSUME NEW s \in ActiveSurveyors'
      PROVE  \/ s \in ActiveSurveyors /\ fleet'[s].task = fleet[s].task
             \/ Provided(s, fleet[s].task)'
  <2>1. s \in UAVs
    BY DEF ActiveSurveyors
  <2>2. CASE s # v
    BY <1>1, <2>1, <2>2 DEF ActiveSurveyors, Active
  <2>3. CASE s = v
    <3>1. r.task # None /\ r.role = "SURVEYOR" /\ ~r.failed /\ r.condition # "home"
      BY <1>1, <2>3 DEF ActiveSurveyors, Active
    <3>2. CASE /\ r.task = fleet[v].task /\ r.condition = fleet[v].condition
               /\ r.role = "SURVEYOR" => fleet[v].role = "SURVEYOR"
      BY <1>1, <2>3, <3>1, <3>2 DEF ActiveSurveyors, Active
    <3>3. CASE Provided(v, r.task)
      <4>1. Provided(v, r.task)'
        BY <1>3, <3>3, ProvidedStays
      <4> QED
        BY <1>1, <2>3, <4>1 DEF Provided, WithinReach
    <3> QED
      BY <3>1, <3>2, <3>3
  <2> QED
    BY <2>2, <2>3
<1> QED
  BY <1>2, <1>3, <1>4 DEF SurveyorsKept

LEMMA ServeBacks ==
  ASSUME BackedInv, Serve
  PROVE  RelaysAreFree' /\ Promised' /\ Backed'
<1>1. /\ stage = "serve" /\ agenda # {} /\ UNCHANGED stage
      /\ Kept(mgr) /\ FleetTyped /\ BatchSound /\ RelaysAreFree /\ Promised /\ Backed
  BY DEF Serve, BackedInv, RelayInv, Late
<1>2. SentPlain
  BY ServeKeeps DEF BackedInv
<1>3. PICK u \in UAVs : u = Turn /\ fleet[u].task # None
  <2>1. Turn \in UAVs /\ Turn \in agenda
    BY <1>1, VisitOfVehicle DEF BackedInv
  <2>2. fleet[Turn].task # None
    BY <1>1, <2>1 DEF BackedInv, RelayInv, Scheduled
  <2> QED
    BY <2>1, <2>2
<1> DEFINE t == mgr.chainOf[u]
<1>4. \/ UNCHANGED <<fleet, task, batch, mgr>>
      \/ /\ fleet' = [fleet EXCEPT ![u].task = None, ![u].role = "IDLE"]
         /\ mgr' \in IF ChainOf(u) = None THEN {mgr} ELSE Teardown(mgr, t)
  BY <1>3 DEF Serve
<1>5. NoneDegrades
  <2>1. UNCHANGED mgr => NoneDegrades
    BY DEF NoneDegrades, Degraded, ChainOf
  <2>3. ChainOf(u) # None => t \in Live(mgr)
    BY <1>1 DEF Kept, ChainOf
  <2>4. mgr' = mgr \/ (t \in Live(mgr) /\ mgr' \in Teardown(mgr, t))
    BY <1>4, <2>3
  <2> HIDE DEF t
  <2> QED
    BY <1>1, <2>1, <2>4, NobodyLeftBehind
<1> HIDE DEF t
<1>6. CASE UNCHANGED fleet
  <2>1. Steady /\ ActiveSurveyors' = ActiveSurveyors /\ RelaysAreFree'
    BY <1>1, <1>6 DEF Steady, Active, ActiveSurveyors, RelaysAreFree
  <2>2. Backed'
    BY <1>1, <1>5, <1>6, <2>1, SameSurveyors
  <2> QED
    BY <1>1, <1>2, <1>5, <2>1, <2>2, PlainPromises
<1>7. CASE fleet' = [fleet EXCEPT ![u].task = None, ![u].role = "IDLE"]
  <2> DEFINE r == [fleet[u] EXCEPT !.task = None, !.role = "IDLE"]
  <2>1. fleet[u] \in Vehicle
    BY <1>1 DEF FleetTyped
  <2>2. /\ r \in Vehicle /\ r.task = None
        /\ r.at = fleet[u].at /\ r.failed = fleet[u].failed /\ r.condition = fleet[u].condition
    BY <2>1 DEF Vehicle
  <2>3. Write(u, r)
    BY <1>7 DEF Write
  <2>4. PICK w \in Vehicle : w = r
    BY <2>2
  <2> HIDE DEF r
  <2>5. RelaysAreFree' /\ Steady /\ SurveyorsKept
    BY <1>1, <1>5, <2>2, <2>3, <2>4, Rewritten
  <2>6. Promised'
    BY <1>1, <1>2, <1>5, <2>5, PlainPromises
  <2>7. Backed'
    BY <1>1, <1>5, <2>5, StillBacked DEF SurveyorsKept
  <2> QED
    BY <2>5, <2>6, <2>7
<1> QED
  BY <1>4, <1>6, <1>7

LEMMA RecallBacks ==
  ASSUME BackedInv, Recall
  PROVE  RelaysAreFree' /\ Promised' /\ Backed'
<1>1. /\ stage = "recall" /\ agenda # {} /\ UNCHANGED <<batch, mgr, stage>>
      /\ fleet' = [fleet EXCEPT ![Turn] = Homeward(@)]
      /\ FleetTyped /\ BatchSound /\ RelaysAreFree /\ Promised /\ Backed
  BY DEF Recall, BackedInv, RelayInv, Late
<1>2. PICK u \in UAVs : u = Turn
  BY <1>1, VisitOfVehicle DEF BackedInv
<1>3. fleet[u] \in Vehicle
  BY <1>1 DEF FleetTyped
<1>4. PICK r : r = Homeward(fleet[u])
  OBVIOUS
<1>5. /\ r \in Vehicle /\ r.task = None /\ r.condition = "returning"
      /\ r.at = fleet[u].at /\ r.failed = fleet[u].failed
  BY <1>3, <1>4, HomewardTyped DEF Homeward, Vehicle
<1>6. Write(u, r)
  BY <1>1, <1>2, <1>4 DEF Write
<1>7. NoneDegrades
  BY <1>1 DEF NoneDegrades, Degraded, ChainOf
<1>8. RelaysAreFree' /\ Steady /\ SurveyorsKept
  BY <1>1, <1>5, <1>6, <1>7, Rewritten
<1>9. Promised'
  BY <1>1, <1>7, <1>8, StillPromised
<1>10. Backed'
  BY <1>1, <1>7, <1>8, StillBacked DEF SurveyorsKept
<1> QED
  BY <1>8, <1>9, <1>10

\* what apply does first, and what it leaves
LEMMA FirstIsObeyed ==
  ASSUME BatchSound, Obey
  PROVE  \E c \in Sound :
           /\ c \in Range(batch)
           /\ Range(batch') \subseteq Range(batch) /\ Range(batch) \ {c} \subseteq Range(batch')
           /\ \A d \in Range(batch) : d.uav = c.uav => Rank[c.type] <= Rank[d.type]
           /\ \/ AssignRelayRole(c)  \/ HandoffRelay(c)  \/ TakeTask(c)  \/ ReleaseRelayRole(c)
              \/ GiveUpTask(c)       \/ SetTargetPosition(c)  \/ Return(c)
<1>1. batch \in Seq(Sound) /\ batch # <<>>
  BY DEF BatchSound, Obey
<1>2. batch \in Seq(Commands)
  <2> DEFINE S == Sound
             T == Commands
  <2>1. batch \in Seq(S) /\ \A d \in S : d \in T
    BY <1>1 DEF Sound
  <2> HIDE DEF S, T
  <2>2. batch \in Seq(T)
    BY <2>1, SequenceOver
  <2> QED
    BY <2>2 DEF T
<1>3. PICK i \in 1..Len(batch) :
        /\ i = FirstOf(batch)
        /\ \A j \in 1..Len(batch) : batch[j].uav = batch[i].uav
             => Rank[batch[i].type] <= Rank[batch[j].type]
  BY <1>1, <1>2, FirstIsWaiting
<1>4. PICK c \in Sound : c = batch[i]
  BY <1>1
<1>5. DOMAIN batch = 1..Len(batch)
  BY <1>1
<1>6. Range(batch') \subseteq Range(batch) /\ Range(batch) \ {c} \subseteq Range(batch')
  <2> DEFINE S == Sound
             n == Len(batch) - 1
             from(j) == IF j < i THEN j ELSE j + 1
  <2>1. batch \in Seq(S) /\ batch' = RemoveAt(batch, i)
    BY <1>1, <1>3 DEF Obey
  <2> HIDE DEF S
  <2>2. /\ batch' \in Seq(S) /\ Len(batch') = n
        /\ \A j \in 1..n : batch'[j] = batch[from(j)]
    BY <2>1, TheRestStays
  <2>3. Len(batch) \in Nat /\ DOMAIN batch' = 1..n
    BY <2>1, <2>2
  <2>4. \A j \in 1..n : from(j) \in 1..Len(batch)
    BY <2>3
  <2>5. \A k \in 1..Len(batch) : k # i => \E j \in 1..n : from(j) = k
    <3> TAKE k \in 1..Len(batch)
    <3>1. CASE k < i
      <4>1. k \in 1..n /\ from(k) = k
        BY <2>3, <3>1
      <4> QED
        BY <4>1
    <3>2. CASE k > i
      <4>1. k - 1 \in 1..n /\ from(k - 1) = k
        BY <2>3, <3>2
      <4> QED
        BY <4>1
    <3> QED
      BY <2>3, <3>1, <3>2
  <2> HIDE DEF n, from
  <2>6. Range(batch') \subseteq Range(batch)
    BY <1>5, <2>2, <2>3, <2>4 DEF Range
  <2>7. ASSUME NEW d \in Range(batch), d # c PROVE d \in Range(batch')
    <3>1. PICK k \in 1..Len(batch) : d = batch[k]
      BY <1>5 DEF Range
    <3>2. k # i
      BY <1>4, <2>7, <3>1
    <3>3. PICK j \in 1..n : from(j) = k
      BY <2>5, <3>2
    <3>4. batch'[j] = d /\ j \in DOMAIN batch'
      BY <2>2, <2>3, <3>1, <3>3
    <3> QED
      BY <3>4 DEF Range
  <2> QED
    BY <2>6, <2>7
<1>7. c \in Range(batch) /\ \A d \in Range(batch) : d.uav = c.uav => Rank[c.type] <= Rank[d.type]
  BY <1>3, <1>4, <1>5 DEF Range
<1>8. \/ AssignRelayRole(c)  \/ HandoffRelay(c)  \/ TakeTask(c)  \/ ReleaseRelayRole(c)
      \/ GiveUpTask(c)       \/ SetTargetPosition(c)  \/ Return(c)
  BY <1>3, <1>4 DEF Obey
<1> QED
  BY <1>6, <1>7, <1>8

LEMMA ObeyBacks ==
  ASSUME BackedInv, stage \in Obeying, Obey, UNCHANGED <<mgr, stage, agenda>>
  PROVE  RelaysAreFree' /\ (stage \in Late => Promised' /\ Backed' /\ Steady)
<1>1. FleetTyped /\ BatchSound /\ RelaysAreFree /\ stage # "monitor"
  BY DEF BackedInv, RelayInv, Obeying
<1>2. NoneDegrades
  BY DEF NoneDegrades, Degraded, ChainOf
<1>3. PICK c \in Sound :
        /\ c \in Range(batch) /\ Range(batch') \subseteq Range(batch)
        /\ \/ AssignRelayRole(c)  \/ HandoffRelay(c)  \/ TakeTask(c)  \/ ReleaseRelayRole(c)
           \/ GiveUpTask(c)       \/ SetTargetPosition(c)  \/ Return(c)
  BY <1>1, FirstIsObeyed
<1>7. /\ c.uav \in UAVs /\ c.place \in Places \union {None}
      /\ c.served \in UAVs \union {None}
      /\ c.type = "HandoffRelay" => c.whom \in UAVs
      /\ c.type = "AssignTask" => c.place \in Tasks
  BY DEF Sound, Commands
<1>9. ASSUME RelaysAreFree', Steady, SurveyorsKept
      PROVE  RelaysAreFree' /\ (stage \in Late => Promised' /\ Backed' /\ Steady)
  <2> SUFFICES ASSUME stage \in Late PROVE Promised' /\ Backed'
    BY <1>9
  <2>1. Promised /\ Backed
    BY DEF BackedInv
  <2>2. Promised'
    BY <1>1, <1>2, <1>3, <1>9, <2>1, StillPromised
  <2>3. Backed'
    BY <1>1, <1>2, <1>9, <2>1, StillBacked DEF SurveyorsKept
  <2> QED
    BY <2>2, <2>3
<1>10. CASE UNCHANGED fleet
  <2>1. RelaysAreFree' /\ Steady /\ SurveyorsKept
    BY <1>1, <1>10 DEF RelaysAreFree, Steady, Active, SurveyorsKept, ActiveSurveyors
  <2> QED
    BY <1>9, <2>1
<1>11. \A v \in UAVs : fleet[v] \in Vehicle
  BY <1>1 DEF FleetTyped
<1>12. ASSUME NEW v \in UAVs, Write(v, Relaying(fleet[v], c.place, c.served))
       PROVE  RelaysAreFree' /\ Steady /\ SurveyorsKept
  <2>1. PICK r : r = Relaying(fleet[v], c.place, c.served)
    OBVIOUS
  <2>2. /\ r \in Vehicle /\ r.task = None /\ r.condition = fleet[v].condition
        /\ r.at = fleet[v].at /\ r.failed = fleet[v].failed
    BY <1>7, <1>11, <2>1 DEF Relaying, Vehicle
  <2> QED
    BY <1>1, <1>2, <1>12, <2>1, <2>2, Rewritten
<1>13. CASE AssignRelayRole(c)
  BY <1>7, <1>9, <1>12, <1>13 DEF AssignRelayRole
<1>14. CASE HandoffRelay(c)
  BY <1>7, <1>9, <1>12, <1>14 DEF HandoffRelay
<1>15. CASE TakeTask(c) /\ ~UNCHANGED fleet
  <2>1. /\ c.type = "AssignTask" /\ c.place \in Tasks
        /\ Write(c.uav, Surveying(fleet[c.uav], c.place))
    BY <1>7, <1>15 DEF TakeTask
  <2>2. PICK r : r = Surveying(fleet[c.uav], c.place)
    OBVIOUS
  <2>3. /\ r \in Vehicle /\ r.task = c.place /\ r.role = "SURVEYOR"
        /\ r.condition = fleet[c.uav].condition
        /\ r.at = fleet[c.uav].at /\ r.failed = fleet[c.uav].failed
    BY <1>7, <1>11, <2>1, <2>2, PlacesAreNumbers DEF Surveying, Vehicle
  <2>4. CASE stage \in Late
    <3>1. Provided(c.uav, r.task)
      BY <1>3, <2>1, <2>3, <2>4 DEF BackedInv, Promised
    <3>2. RelaysAreFree' /\ Steady /\ SurveyorsKept
      BY <1>1, <1>2, <1>7, <2>1, <2>2, <2>3, <3>1, Rewritten
    <3> QED
      BY <1>9, <3>2
  <2>5. CASE stage \notin Late
    <3>1. fleet'[c.uav] = r /\ \A v \in UAVs : v # c.uav => fleet'[v] = fleet[v]
      BY <1>1, <1>7, <2>1, <2>2, <2>3, RecordsWritten
    <3> QED
      BY <1>1, <2>3, <2>5, <3>1 DEF RelaysAreFree
  <2> QED
    BY <2>4, <2>5
<1>16. CASE ReleaseRelayRole(c) /\ ~UNCHANGED fleet
  <2> DEFINE x == [fleet[c.uav] EXCEPT
                     !.role = IF c.whom = c.uav THEN "SURVEYOR" ELSE "IDLE",
                     !.relayFor = None]
  <2>1. Write(c.uav, x) /\ fleet[c.uav].role # "IDLE"
    BY <1>16 DEF ReleaseRelayRole
  <2>2. PICK r : r = x
    OBVIOUS
  <2>3. /\ r \in Vehicle /\ r.task = fleet[c.uav].task /\ r.role \in {"SURVEYOR", "IDLE"}
        /\ r.condition = fleet[c.uav].condition
        /\ r.at = fleet[c.uav].at /\ r.failed = fleet[c.uav].failed
    BY <1>7, <1>11, <2>2 DEF Vehicle
  <2>4. fleet[c.uav].role = "SURVEYOR" \/ r.task = None
    BY <1>1, <1>7, <1>11, <2>1, <2>3 DEF RelaysAreFree, Vehicle
  <2> HIDE DEF x
  <2>5. RelaysAreFree' /\ Steady /\ SurveyorsKept
    BY <1>1, <1>2, <1>7, <2>1, <2>2, <2>3, <2>4, Rewritten
  <2> QED
    BY <1>9, <2>5
<1>17. CASE GiveUpTask(c)
  <2> DEFINE x == [fleet[c.uav] EXCEPT !.task = None, !.to = None]
  <2>1. Write(c.uav, x)
    BY <1>17 DEF GiveUpTask
  <2>2. PICK r : r = x
    OBVIOUS
  <2>3. /\ r \in Vehicle /\ r.task = None
        /\ r.condition = fleet[c.uav].condition
        /\ r.at = fleet[c.uav].at /\ r.failed = fleet[c.uav].failed
    BY <1>7, <1>11, <2>2 DEF Vehicle
  <2> HIDE DEF x
  <2>4. RelaysAreFree' /\ Steady /\ SurveyorsKept
    BY <1>1, <1>2, <1>7, <2>1, <2>2, <2>3, Rewritten
  <2> QED
    BY <1>9, <2>4
<1>18. CASE SetTargetPosition(c)
  <2> DEFINE x == [fleet[c.uav] EXCEPT !.to = c.place]
  <2>1. Write(c.uav, x)
    BY <1>18 DEF SetTargetPosition
  <2>2. PICK r : r = x
    OBVIOUS
  <2>3. /\ r \in Vehicle /\ r.task = fleet[c.uav].task /\ r.role = fleet[c.uav].role
        /\ r.condition = fleet[c.uav].condition
        /\ r.at = fleet[c.uav].at /\ r.failed = fleet[c.uav].failed
    BY <1>7, <1>11, <2>2 DEF Vehicle
  <2>4. r.role = "RELAY" => r.task = None
    BY <1>1, <1>7, <2>3 DEF RelaysAreFree
  <2> HIDE DEF x
  <2>5. RelaysAreFree' /\ Steady /\ SurveyorsKept
    BY <1>1, <1>2, <1>7, <2>1, <2>2, <2>3, <2>4, Rewritten
  <2> QED
    BY <1>9, <2>5
<1>19. CASE Return(c)
  <2>1. Write(c.uav, Homeward(fleet[c.uav]))
    BY <1>19 DEF Return
  <2>2. PICK r : r = Homeward(fleet[c.uav])
    OBVIOUS
  <2>3. /\ r \in Vehicle /\ r.task = None /\ r.condition = "returning"
        /\ r.at = fleet[c.uav].at /\ r.failed = fleet[c.uav].failed
    <3>1. fleet[c.uav] \in Vehicle
      BY <1>7, <1>11
    <3>2. r \in Vehicle /\ r.task = None
      BY <2>2, <3>1, HomewardTyped
    <3> QED
      BY <2>2, <3>1, <3>2 DEF Homeward, Vehicle
  <2>4. RelaysAreFree' /\ Steady /\ SurveyorsKept
    BY <1>1, <1>2, <1>7, <2>1, <2>2, <2>3, Rewritten
  <2> QED
    BY <1>9, <2>4
<1> QED
  BY <1>3, <1>10, <1>13, <1>14, <1>15, <1>16, <1>17, <1>18, <1>19

\* between flight and the monitoring no promise is kept, but relays stay free
LEMMA WorldFrees ==
  ASSUME RelayInv, RelaysAreFree, World \/ Fly
  PROVE  RelaysAreFree' /\ stage' \in {"world", "struck"}
<1>1. FleetTyped
  BY DEF RelayInv
<1>2. \A u \in UAVs : fleet[u] \in Vehicle
  BY <1>1 DEF FleetTyped
<1>3. ASSUME NEW u \in UAVs, NEW r \in Vehicle, Write(u, r), r.role = "RELAY" => r.task = None
      PROVE  RelaysAreFree'
  BY <1>1, <1>3, RecordsWritten DEF RelaysAreFree
<1>4. ASSUME NEW u \in UAVs, Fail(u) PROVE RelaysAreFree'
  BY <1>2, <1>3, <1>4, LostTyped DEF Fail
<1>5. ASSUME NEW u \in UAVs, Recover(u) PROVE RelaysAreFree'
  <2> DEFINE r == [fleet[u] EXCEPT !.failed = FALSE, !.role = "IDLE"]
  <2>1. r \in Vehicle /\ r.role = "IDLE" /\ Write(u, r)
    BY <1>2, <1>5 DEF Recover, Vehicle
  <2> HIDE DEF r
  <2> QED
    BY <1>3, <2>1
<1>6. ASSUME NEW u \in UAVs, Tire(u) PROVE RelaysAreFree'
  <2>0. PICK now \in {"used", "weary"} : Write(u, [fleet[u] EXCEPT !.condition = now])
    BY <1>6 DEF Tire
  <2> DEFINE r == [fleet[u] EXCEPT !.condition = now]
  <2>1. /\ r \in Vehicle /\ r.role = fleet[u].role /\ r.task = fleet[u].task
        /\ Write(u, r)
    BY <1>2, <2>0 DEF Vehicle
  <2> HIDE DEF r
  <2> QED
    BY <1>3, <2>1 DEF RelaysAreFree
<1>7. ASSUME NEW u \in UAVs, TriggerRTH(u) PROVE RelaysAreFree'
  BY <1>2, <1>3, <1>7, HomewardTyped DEF TriggerRTH
<1>8. ASSUME NEW t \in Tasks, Discover(t) PROVE RelaysAreFree'
  BY <1>8 DEF Discover, RelaysAreFree
<1>9. CASE World
  <2>1. stage' \in {"world", "struck"}
    BY <1>9 DEF World, Fail, Recover, Tire, TriggerRTH, Discover, Incident
  <2> QED
    BY <1>4, <1>5, <1>6, <1>7, <1>8, <1>9, <2>1 DEF World
<1>10. CASE Fly
  <2>1. \A u \in UAVs : fleet'[u] \in {fleet[u], Charged(fleet[u]), Flown(fleet[u])}
    BY <1>10 DEF Fly
  <2>2. \A u \in UAVs : /\ Flown(fleet[u]).role \in {fleet[u].role, "IDLE"}
                        /\ Charged(fleet[u]).role = "IDLE"
    BY <1>2 DEF Flown, Charged, Vehicle
  <2>3. \A u \in UAVs : Flown(fleet[u]).task = fleet[u].task
    BY <1>2, FlownTyped
  <2>4. RelaysAreFree'
    BY <2>1, <2>2, <2>3 DEF RelaysAreFree
  <2> QED
    BY <1>10, <2>4 DEF Fly, Pass
<1> QED
  BY <1>9, <1>10

\* the loops in their order
InOrder == stage \in {Loops[i] : i \in 1..16}

LEMMA LoopsNamed ==
  /\ DOMAIN Loops = 1..16
  /\ Loops[8] = "relayed" /\ Loops[9] = "monitor" /\ Loops[16] = "fly"
  /\ \A i, j \in 1..16 : Loops[i] = Loops[j] => i = j
  /\ \A i \in 1..16 : Loops[i] \in Late <=> i > 8
BY DEF Loops, Late

LEMMA NextLoop ==
  ASSUME InOrder, Proceed
  PROVE  \E here \in 1..15, k \in 1..16 :
           /\ here < k /\ stage = Loops[here] /\ stage' = Loops[k]
           /\ \A i \in 1..16 : here < i /\ i < k => ~HasWork(Loops[i])
<1> DEFINE here == CHOOSE i \in DOMAIN Loops : Loops[i] = stage
           later == {i \in DOMAIN Loops : i > here /\ HasWork(Loops[i])}
           k == CHOOSE i \in later : \A j \in later : i <= j
<1>1. stage' = Loops[k] /\ stage # "fly"
  BY DEF Proceed
<1>2. here \in 1..16 /\ stage = Loops[here]
  <2>1. \E i \in DOMAIN Loops : Loops[i] = stage
    BY LoopsNamed DEF InOrder
  <2> QED
    BY <2>1, LoopsNamed
<1> HIDE DEF here
<1>3. here \in 1..15
  BY <1>1, <1>2, LoopsNamed
<1>4. later \subseteq 1..16 /\ 16 \in later
  BY <1>3, LoopsNamed DEF HasWork
<1> HIDE DEF later
<1>5. k \in later /\ \A j \in later : k <= j
  <2>1. later \subseteq Nat /\ later # {}
    BY <1>4
  <2>2. \E i \in later : \A j \in later : i <= j
    BY <2>1, LeastNatural
  <2> QED
    BY <2>2
<1> HIDE DEF k
<1>6. k \in 1..16 /\ here < k
  BY <1>4, <1>5, LoopsNamed DEF later
<1>7. \A i \in 1..16 : here < i /\ i < k => ~HasWork(Loops[i])
  <2> SUFFICES ASSUME NEW i \in 1..16, here < i, i < k, HasWork(Loops[i]) PROVE FALSE
    OBVIOUS
  <2>1. i \in later
    BY LoopsNamed DEF later
  <2>2. k <= i
    BY <1>5, <2>1
  <2> QED
    BY <1>6, <2>2
<1> QED
  BY <1>1, <1>2, <1>3, <1>6, <1>7

LEMMA ProceedBacks ==
  ASSUME BackedInv, InOrder, Proceed
  PROVE  /\ RelaysAreFree' /\ InOrder'
         /\ stage' \in Late => Promised' /\ Backed'
<1>1. /\ UNCHANGED <<fleet, task, batch, mgr>> /\ agenda = {} /\ agenda' \in Agendas(stage')
      /\ stage \in Obeying => batch = <<>>
      /\ FleetTyped /\ BatchSound /\ RelaysAreFree
  BY DEF Proceed, BackedInv, RelayInv
<1>2. PICK here \in 1..15, k \in 1..16 :
        /\ here < k /\ stage = Loops[here] /\ stage' = Loops[k]
        /\ \A i \in 1..16 : here < i /\ i < k => ~HasWork(Loops[i])
  BY NextLoop
<1>3. RelaysAreFree' /\ InOrder'
  BY <1>1, <1>2 DEF RelaysAreFree, InOrder
<1>4. Steady /\ NoneDegrades /\ ActiveSurveyors' = ActiveSurveyors
  BY <1>1 DEF Steady, NoneDegrades, Active, Degraded, ChainOf, ActiveSurveyors
<1>5. Promised => Promised'
  BY <1>1, <1>4, StillPromised
<1> SUFFICES ASSUME stage' \in Late PROVE Promised' /\ Backed'
  BY <1>3
<1>6. k > 8
  BY <1>2, LoopsNamed
<1>7. CASE here > 8
  <2>1. stage \in Late
    BY <1>2, <1>7, LoopsNamed
  <2>2. Promised /\ Backed
    BY <2>1 DEF BackedInv
  <2>3. \A s \in ActiveSurveyors' :
          /\ s \in ActiveSurveyors /\ fleet'[s].task = fleet[s].task
          /\ s \notin agenda
    BY <1>1, <1>4
  <2>4. Backed'
    BY <1>4, <2>2, <2>3, StillBacked
  <2> QED
    BY <1>5, <2>2, <2>4
<1>8. CASE here <= 8
  <2>1. batch = <<>>
    <3>1. CASE here = 8
      BY <1>1, <1>2, <3>1, LoopsNamed DEF Obeying
    <3>2. CASE here < 8
      <4>1. ~HasWork("relayed")
        BY <1>2, <1>6, <3>2, LoopsNamed
      <4> QED
        BY <4>1 DEF HasWork, Obeying
    <3> QED
      BY <1>8, <3>1, <3>2
  <2>2. Promised
    BY <2>1 DEF Promised, Range
  <2>3. CASE k = 9
    <3>1. stage' = "monitor" /\ agenda' = ActiveSurveyors
      BY <1>1, <1>2, <2>3, LoopsNamed DEF Agendas
    <3> QED
      BY <1>4, <1>5, <2>2, <3>1 DEF Backed
  <2>4. CASE k # 9
    <3>1. ~HasWork("monitor")
      BY <1>2, <1>6, <1>8, <2>4, LoopsNamed
    <3>2. ActiveSurveyors = {}
      BY <3>1 DEF HasWork, Agendas
    <3> QED
      BY <1>4, <1>5, <2>2, <3>2 DEF Backed
  <2> QED
    BY <2>3, <2>4
<1> QED
  BY <1>7, <1>8

LEMMA StepIsEarly ==
  ASSUME StepRelays
  PROVE  stage \notin Late /\ UNCHANGED <<fleet, stage>>
BY DEF StepRelays, Late, AbandonChain, AtStation, ReplacementLost, ReplacementUnderway,
       ReplacementArrives, RelayLost, RelayTires, SingleHandoff, SingleRelayLost,
       SingleRelayTires, SupportSurveyor, ReleaseIdleRelay

(***************************************************************************)
(* Surveyors behind their relays.  From the monitoring of a tick to its    *)
(* flight the place a surveyor is sent to, and the one it heads for when   *)
(* nothing else is on its way to it, has only occupied stations of its     *)
(* chain before it; a target follows the task it comes with.               *)
(***************************************************************************)
\* on the way to place p vehicle s passes only occupied stations of its chain
Guarded(s, p) ==
  mgr.chainOf[s] # None /\ p # None /\ p > fleet[s].at =>
    \A i \in 1..(mgr.chainOf[s] - 1) : i < p => Occupied(i)

\* the batch has a command of this type for vehicle s
Told(s, type) == \E d \in Range(batch) : d.uav = s /\ d.type = type

Steered ==
  /\ \A c \in Range(batch) : c.type = "SetTarget" => Guarded(c.uav, c.place)
  /\ \A c \in Range(batch) : c.type = "AssignTask" =>
       Guarded(c.uav, c.place) \/ Told(c.uav, "SetTarget")
  /\ \A s \in ActiveSurveyors :
       \/ stage = "monitor" /\ s \in agenda
       \/ Guarded(s, fleet[s].to) \/ Told(s, "SetTarget") \/ Told(s, "ReleaseTask")

\* nothing is left over when the fleet flies
Emptied == stage \in {"world", "struck", "recall", "fly"} => batch = <<>>

SteeredInv ==
  /\ BackedInv /\ InOrder /\ Emptied
  /\ stage \in Late => Steered

LEMMA OccupiedStays ==
  ASSUME Steady, NEW i, Occupied(i)
  PROVE  Occupied(i)'
BY DEF Steady, Occupied

LEMMA GuardedStays ==
  ASSUME Steady, NEW s \in UAVs, NEW p, mgr'.chainOf[s] \in {mgr.chainOf[s], None},
         Guarded(s, p)
  PROVE  Guarded(s, p)'
<1>1. \A i : Occupied(i) => Occupied(i)'
  BY OccupiedStays
<1>2. fleet'[s].at = fleet[s].at
  BY DEF Steady
<1> QED
  BY <1>1, <1>2 DEF Guarded

\* where nobody has to fly out, or who has no chain, needs no relays
LEMMA NothingToGuard ==
  ASSUME FleetTyped, NEW s \in UAVs, NEW p,
         mgr.chainOf[s] = None \/ p \in {0, 1, fleet[s].at, None}
  PROVE  Guarded(s, p)
<1>1. fleet[s].at \in Nat
  BY PlacesAreNumbers DEF FleetTyped, Vehicle, Places
<1> QED
  BY <1>1 DEF Guarded

LEMMA SentAre ==
  ASSUME NEW S, NEW s \in Seq(S), NEW c \in Range(s)
  PROVE  c \in S
BY DEF Range

\* The guards hold on when commands are sent that keep them.  Only somebody new to
\* its chain, who has neither a task nor a command yet, may be an exception.
LEMMA StillSteered ==
  ASSUME Steered, Steady, batch \in Seq(Sound), NEW sent,
         Range(batch') = Range(batch) \union sent,
         \A v \in UAVs : \/ mgr'.chainOf[v] \in {mgr.chainOf[v], None}
                         \/ v \notin ActiveSurveyors /\ \A c \in Range(batch) : c.uav # v,
         \A c \in sent : c.type = "SetTarget" => Guarded(c.uav, c.place)',
         \A c \in sent : c.type = "AssignTask" =>
           Guarded(c.uav, c.place)' \/ Told(c.uav, "SetTarget")',
         \A s \in ActiveSurveyors' :
           \/ /\ s \in ActiveSurveyors /\ fleet'[s].to = fleet[s].to
              /\ stage = "monitor" /\ s \in agenda => stage' = "monitor" /\ s \in agenda'
           \/ Guarded(s, fleet[s].to)' \/ Told(s, "SetTarget")' \/ Told(s, "ReleaseTask")'
  PROVE  Steered'
<1>1. \A s, type : Told(s, type) => Told(s, type)'
  BY DEF Told
<1>2. \A c \in Range(batch) : c.uav \in UAVs
  <2> TAKE c \in Range(batch)
  <2>1. c \in Sound
    BY SentAre
  <2> QED
    BY <2>1 DEF Sound, Commands
<1>3. ASSUME NEW c \in Range(batch'), c.type = "SetTarget" PROVE Guarded(c.uav, c.place)'
  <2>1. CASE c \in Range(batch)
    <3>1. Guarded(c.uav, c.place)
      BY <1>3, <2>1 DEF Steered
    <3>2. PICK v, p : v \in UAVs /\ v = c.uav /\ p = c.place
      BY <1>2, <2>1
    <3>3. Guarded(v, p)'
      BY <2>1, <3>1, <3>2, GuardedStays
    <3> QED
      BY <3>2, <3>3
  <2> QED
    BY <1>3, <2>1
<1>4. ASSUME NEW c \in Range(batch'), c.type = "AssignTask"
      PROVE  Guarded(c.uav, c.place)' \/ Told(c.uav, "SetTarget")'
  <2>1. CASE c \in Range(batch) /\ Guarded(c.uav, c.place)
    <3>1. PICK v, p : v \in UAVs /\ v = c.uav /\ p = c.place
      BY <1>2, <2>1
    <3>2. Guarded(v, p)'
      BY <2>1, <3>1, GuardedStays
    <3> QED
      BY <3>1, <3>2
  <2>2. CASE c \in Range(batch) /\ Told(c.uav, "SetTarget")
    BY <1>1, <2>2
  <2> QED
    BY <1>4, <2>1, <2>2 DEF Steered
<1>5. ASSUME NEW s \in ActiveSurveyors'
      PROVE  \/ stage' = "monitor" /\ s \in agenda'
             \/ Guarded(s, fleet[s].to)' \/ Told(s, "SetTarget")' \/ Told(s, "ReleaseTask")'
  <2>1. CASE /\ s \in ActiveSurveyors /\ fleet'[s].to = fleet[s].to
             /\ stage = "monitor" /\ s \in agenda => stage' = "monitor" /\ s \in agenda'
    <3>1. s \in UAVs /\ mgr'.chainOf[s] \in {mgr.chainOf[s], None}
      BY <2>1 DEF ActiveSurveyors
    <3>2. PICK p : p = fleet[s].to
      OBVIOUS
    <3>3. Guarded(s, p) => Guarded(s, p)'
      BY <3>1, GuardedStays
    <3>4. Guarded(s, p)' => Guarded(s, fleet[s].to)'
      BY <2>1, <3>2 DEF Guarded
    <3> QED
      BY <1>1, <2>1, <3>2, <3>3, <3>4 DEF Steered
  <2> QED
    BY <1>5, <2>1
<1> QED
  BY <1>3, <1>4, <1>5 DEF Steered

\* commands that send nobody out but over occupied stations of its chain
Led == {c \in Plain : c.type = "SetTarget" => Guarded(c.uav, c.place)}

LEMMA NearIsLed ==
  ASSUME FleetTyped, NEW s \in Seq(Near)
  PROVE  s \in Seq(Led)
<1>1. ASSUME NEW c \in Near PROVE c \in Led
  <2>1. c \in Plain /\ c.uav \in UAVs
    BY DEF Near, Plain, Sound, Commands
  <2>2. c.type = "SetTarget" => Guarded(c.uav, c.place)
    BY <2>1, NothingToGuard DEF Near
  <2> QED
    BY <2>1, <2>2 DEF Led
<1> DEFINE N == Near
           L == Led
<1>2. s \in Seq(N) /\ \A c \in N : c \in L
  BY <1>1
<1> HIDE DEF N, L
<1>3. s \in Seq(L)
  BY <1>2, SequenceOver
<1> QED
  BY <1>3 DEF L

LEMMA TargetIsLed ==
  ASSUME NEW u \in UAVs, NEW p \in Places, Guarded(u, p)
  PROVE  SetTarget(u, p) \in Seq(Led)
<1> DEFINE c == [Cmd("SetTarget", u) EXCEPT !.place = p]
<1>1. c.type = "SetTarget" /\ c.uav = u /\ c.place = p /\ SetTarget(u, p) = << c >>
  BY DEF Cmd, SetTarget
<1>2. << c >> \in Seq(Plain)
  BY <1>1, OrdersArePlain
<1> HIDE DEF c
<1>3. c \in Plain
  <2> DEFINE P == Plain
             one == << c >>
  <2>1. one \in Seq(P) /\ Len(one) = 1 /\ one[1] = c
    BY <1>2
  <2> HIDE DEF P, one
  <2>2. c \in P
    BY <2>1
  <2> QED
    BY <2>2 DEF P
<1>4. c \in Led
  BY <1>1, <1>3 DEF Led
<1> QED
  BY <1>1, <1>4, Alone

\* a relay leaves the holding area when the stations before its own are occupied
LEMMA StagingIsLed ==
  ASSUME FleetTyped, NEW t \in Tasks, NEW c \in ChainFor(t)
  PROVE  StagingCommands(c) \in Seq(Led)
<1> DEFINE n == t - 1
           parts == [i \in Stations(c) |->
                       LET u == c.relays[i]
                       IN  IF Active(u) /\ fleet[u].to # Staging(c, i)
                             THEN SetTarget(u, Staging(c, i)) ELSE <<>>]
<1>1. n \in Nat /\ Stations(c) = 1..n
  BY FleetAssumption DEF Stations, ChainFor
<1>2. ASSUME NEW i \in 1..n PROVE parts[i] \in Seq(Led)
  <2>1. c.relays[i] \in UAVs /\ Staging(c, i) \in Places
    BY <1>2, PlacesAreNumbers DEF ChainFor, Staging
  <2>2. CASE Staging(c, i) = 0
    <3>1. Guarded(c.relays[i], 0)
      BY <2>1, NothingToGuard
    <3> QED
      BY <1>1, <2>1, <2>2, <3>1, TargetIsLed, Alone
  <2>3. CASE Staging(c, i) # 0
    <3>1. Staging(c, i) = i /\ \A j \in 1..(i - 1) : InPlace(c, j)
      BY <2>3 DEF Staging
    <3>2. \A j \in 1..(i - 1) : c.relays[j] \in UAVs
      BY <1>1 DEF ChainFor
    <3>3. \A j \in 1..(i - 1) : Occupied(j)
      BY <3>1, <3>2 DEF InPlace, OnMission, Occupied
    <3>4. Guarded(c.relays[i], i)
      BY <3>3, FleetAssumption DEF Guarded
    <3>5. SetTarget(c.relays[i], i) \in Seq(Led)
      BY <2>1, <3>1, <3>4, TargetIsLed
    <3> QED
      BY <1>1, <3>1, <3>5
  <2> QED
    BY <2>2, <2>3
<1>3. parts \in [1..n -> Seq(Led)]
  <2>1. parts = [i \in 1..n |-> parts[i]]
    BY <1>1
  <2> HIDE DEF parts, n
  <2> QED
    BY <1>2, <2>1
<1>4. StagingCommands(c) = FlattenSeq(parts)
  BY DEF StagingCommands
<1> HIDE DEF parts, n
<1> QED
  BY <1>1, <1>3, <1>4, AllSent

LEMMA LedIsAdded ==
  ASSUME BatchSound, NEW cs \in Seq(Led), Send(cs)
  PROVE  /\ batch \in Seq(Sound)
         /\ Range(batch') = Range(batch) \union Range(cs)
         /\ \A c \in Range(cs) : c \in Led
<1> DEFINE S == Sound
           L == Led
<1>1. batch \in Seq(S) /\ cs \in Seq(L) /\ \A c \in L : c \in S
  BY DEF BatchSound, Led, Plain
<1> HIDE DEF S, L
<1>2. \A i \in 1..Len(cs) : cs[i] \in S
  BY <1>1
<1>3. cs \in Seq(S)
  BY <1>1, <1>2, SequenceOver
<1>4. Range(batch') = Range(batch) \union Range(cs)
  BY <1>1, <1>3, SentIsAdded
<1>5. \A c \in Range(cs) : c \in L
  BY <1>1, SentAre
<1> QED
  BY <1>1, <1>4, <1>5 DEF S, L

\* what a surveyor needs to stay guarded when commands are sent
StaysSteered ==
  \A s \in ActiveSurveyors' :
    \/ /\ s \in ActiveSurveyors /\ fleet'[s].to = fleet[s].to
       /\ stage = "monitor" /\ s \in agenda => stage' = "monitor" /\ s \in agenda'
    \/ Guarded(s, fleet[s].to)' \/ Told(s, "SetTarget")' \/ Told(s, "ReleaseTask")'

LEMMA StillLed ==
  ASSUME Steered, Steady, BatchSound, NEW cs \in Seq(Led), Send(cs),
         \A v \in UAVs : mgr'.chainOf[v] \in {mgr.chainOf[v], None}, StaysSteered
  PROVE  Steered'
<1>1. /\ batch \in Seq(Sound) /\ Range(batch') = Range(batch) \union Range(cs)
      /\ \A c \in Range(cs) : c \in Led
  BY LedIsAdded
<1>2. \A c \in Range(cs) : c.type = "SetTarget" => Guarded(c.uav, c.place)'
  <2> SUFFICES ASSUME NEW c \in Range(cs), c.type = "SetTarget"
               PROVE  Guarded(c.uav, c.place)'
    OBVIOUS
  <2>1. c.uav \in UAVs /\ Guarded(c.uav, c.place)
    BY <1>1 DEF Led, Plain, Sound, Commands
  <2>2. PICK v, p : v \in UAVs /\ v = c.uav /\ p = c.place
    BY <2>1
  <2>3. Guarded(v, p)'
    BY <2>1, <2>2, GuardedStays
  <2> QED
    BY <2>2, <2>3
<1>3. \A c \in Range(cs) : c.type = "AssignTask" =>
        Guarded(c.uav, c.place)' \/ Told(c.uav, "SetTarget")'
  BY <1>1 DEF Led, Plain
<1> QED
  BY <1>1, <1>2, <1>3, StillSteered DEF StaysSteered

\* nothing is sent
LEMMA StillQuiet ==
  ASSUME Steered, Steady, BatchSound, UNCHANGED <<batch, mgr>>, StaysSteered
  PROVE  Steered'
<1>1. batch \in Seq(Sound)
  BY DEF BatchSound
<1>2. PICK none : none = {}
  OBVIOUS
<1>3. /\ Range(batch') = Range(batch) \union none
      /\ \A c \in none : FALSE
      /\ \A v \in UAVs : mgr'.chainOf[v] = mgr.chainOf[v]
  BY <1>2
<1> QED
  BY <1>1, <1>3, StillSteered DEF StaysSteered

LEMMA ChainsEnd ==
  ASSUME Kept(mgr), NEW t \in Live(mgr), mgr' \in Teardown(mgr, t)
  PROVE  \A v \in UAVs : mgr'.chainOf[v] \in {mgr.chainOf[v], None}
<1>1. mgr \in Managers
  BY DEF Kept
<1>2. mgr'.chainOf = [u \in UAVs |-> IF u \in Leaving(mgr, t) THEN None ELSE mgr.chainOf[u]]
  BY <1>1 DEF Teardown, Inherited, Managers
<1> QED
  BY <1>2

LEMMA ToldOf ==
  ASSUME NEW u \in UAVs
  PROVE  /\ \E d \in Range(ReleaseTask(u)) : d.uav = u /\ d.type = "ReleaseTask"
         /\ \A p : \E d \in Range(SetTarget(u, p)) : d.uav = u /\ d.type = "SetTarget"
<1>1. \A d : d \in Range(<< d >>)
  BY DEF Range
<1>2. \E d \in Range(ReleaseTask(u)) : d.uav = u /\ d.type = "ReleaseTask"
  BY <1>1 DEF ReleaseTask, Cmd
<1>3. ASSUME NEW p PROVE \E d \in Range(SetTarget(u, p)) : d.uav = u /\ d.type = "SetTarget"
  <2> DEFINE d == [Cmd("SetTarget", u) EXCEPT !.place = p]
  <2>1. d.uav = u /\ d.type = "SetTarget" /\ SetTarget(u, p) = << d >>
    BY DEF Cmd, SetTarget
  <2> HIDE DEF d
  <2> QED
    BY <1>1, <2>1
<1> QED
  BY <1>2, <1>3

LEMMA AmongTheJoined ==
  ASSUME NEW S, NEW p \in Seq(S), NEW x \in Seq(S), NEW q \in Seq(S)
  PROVE  p \o x \o q \in Seq(S) /\ Range(x) \subseteq Range(p \o x \o q)
<1>1. p \o x \in Seq(S)
  BY Joined
<1>2. p \o x \o q \in Seq(S)
  BY <1>1, Joined
<1>3. Range(p \o x) = Range(p) \union Range(x)
  BY RangeOfJoined
<1>4. Range((p \o x) \o q) = Range(p \o x) \union Range(q)
  BY <1>1, RangeOfJoined, ZenonT(30)
<1> QED
  BY <1>2, <1>3, <1>4

LEMMA MonitorSteers ==
  ASSUME BackedInv, Steered, MonitorSurveyor
  PROVE  Steered'
<1>1. /\ stage = "monitor" /\ agenda # {} /\ Rest
      /\ Kept(mgr) /\ BatchSound /\ FleetTyped
      /\ UNCHANGED <<fleet, stage>>
      /\ Turn \in agenda /\ fleet[Turn].task # None
  <2>1. stage = "monitor" /\ agenda # {} /\ RelayInv
    BY DEF MonitorSurveyor, BackedInv
  <2>2. Turn \in agenda
    BY <2>1, TurnIsNext DEF RelayInv
  <2> QED
    BY <2>1, <2>2 DEF MonitorSurveyor, RelayInv, Scheduled
<1>2. PICK s \in UAVs : s = Turn
  BY <1>1, VisitOfVehicle DEF BackedInv
<1> DEFINE c == ChainOf(s)
           t == mgr.chainOf[s]
           forming == c # None /\ c.status = "FORMING"
           ready == c = None \/ PhysicallyReady(c)
           staging == IF forming THEN StagingCommands(c) ELSE <<>>
           down == IF c = None THEN <<>> ELSE TeardownCommands(mgr, t)
           place == IF ready THEN fleet[s].task ELSE 0
<1>3. \/ /\ mgr' \in IF c = None THEN {mgr} ELSE Teardown(mgr, t)
         /\ Send(staging \o ReleaseTask(s) \o StartRTH(s) \o down)
      \/ /\ mgr' = IF forming /\ ready THEN Marked(mgr, t, "ACTIVE") ELSE mgr
         /\ Send(staging \o Redirect(s, place))
  BY <1>2 DEF MonitorSurveyor, Hold
<1>4. c # None => t \in Live(mgr) /\ t \in Tasks /\ c = mgr.chains[t] /\ c \in ChainFor(t)
  <2> SUFFICES ASSUME c # None
               PROVE  t \in Live(mgr) /\ t \in Tasks /\ c = mgr.chains[t] /\ c \in ChainFor(t)
    OBVIOUS
  <2>1. t # None /\ c = mgr.chains[t]
    BY DEF ChainOf
  <2>2. t \in Live(mgr)
    BY <1>1, <2>1 DEF Kept
  <2> QED
    BY <1>1, <2>1, <2>2, LiveChain
<1>5. c = None => t = None
  <2> SUFFICES ASSUME c = None, t # None PROVE FALSE
    OBVIOUS
  <2>1. t \in Live(mgr)
    BY <1>1 DEF Kept
  <2> QED
    BY <2>1 DEF Live, ChainOf
<1>6. staging \in Seq(Led)
  <2>1. CASE forming
    BY <1>1, <1>4, <2>1, StagingIsLed
  <2>2. CASE ~forming
    BY <2>2
  <2> QED
    BY <2>1, <2>2
<1>7. down \in Seq(Led)
  <2>1. CASE c = None
    BY <2>1
  <2>2. CASE c # None
    <3> HIDE DEF t, c
    <3> QED
      BY <1>1, <1>4, <2>2, TeardownIsNear, NearIsLed
  <2> QED
    BY <2>1, <2>2
<1>8. \E p \in Places : p = place /\ Guarded(s, p)
  <2>1. fleet[s].task \in Tasks
    BY <1>1, <1>2 DEF FleetTyped, Vehicle
  <2>2. place \in Places
    BY <2>1, PlacesAreNumbers
  <2> SUFFICES ASSUME NEW p \in Places, p = place PROVE Guarded(s, p)
    BY <2>2
  <2>3. CASE ~ready
    <3>1. p = 0
      BY <2>3
    <3> QED
      BY <1>1, <3>1, NothingToGuard
  <2>4. CASE c = None
    <3>1. mgr.chainOf[s] = None
      BY <1>5, <2>4
    <3> QED
      BY <1>1, <3>1, NothingToGuard
  <2>5. CASE c # None /\ PhysicallyReady(c)
    <3>1. Stations(c) = 1..(t - 1)
      BY <1>1, <1>4, <2>5, LiveChain
    <3>2. \A i \in 1..(t - 1) : c.relays[i] \in UAVs
      BY <1>4, <2>5 DEF ChainFor
    <3>3. \A i \in 1..(t - 1) : Occupied(i)
      BY <2>5, <3>1, <3>2 DEF PhysicallyReady, InPlace, OnMission, Occupied
    <3> QED
      BY <3>3 DEF Guarded
  <2> QED
    BY <2>3, <2>4, <2>5
<1>9. \A v \in UAVs : mgr'.chainOf[v] \in {mgr.chainOf[v], None}
  <2>1. CASE mgr' = mgr
    BY <2>1
  <2>2. CASE c # None /\ mgr' \in Teardown(mgr, t)
    BY <1>1, <1>4, <2>2, ChainsEnd
  <2>3. CASE mgr' = Marked(mgr, t, "ACTIVE")
    BY <1>1, <2>3 DEF Marked, Kept, Managers
  <2> QED
    BY <1>3, <2>1, <2>2, <2>3
<1>10. ActiveSurveyors' = ActiveSurveyors /\ Steady
  BY <1>1 DEF ActiveSurveyors, Active, Steady
<1>11. ASSUME \/ Guarded(s, fleet[s].to)' \/ Told(s, "SetTarget")' \/ Told(s, "ReleaseTask")'
       PROVE  StaysSteered
  <2> SUFFICES ASSUME NEW v \in ActiveSurveyors', v # s
               PROVE  /\ v \in ActiveSurveyors /\ fleet'[v].to = fleet[v].to
                      /\ v \in agenda => stage' = "monitor" /\ v \in agenda'
    BY <1>11 DEF StaysSteered
  <2> QED
    BY <1>1, <1>2, <1>10 DEF Rest
<1> HIDE DEF t, c, forming, ready, staging, down, place
<1>12. PICK p \in Places : p = place /\ Guarded(s, p)
  BY <1>8
<1>13. CASE Send(staging \o ReleaseTask(s) \o StartRTH(s) \o down)
  <2> DEFINE x == ReleaseTask(s)
             y == StartRTH(s)
             r == staging \o x \o y
             cs == r \o down
  <2>1. x \in Seq(Led) /\ y \in Seq(Led)
    BY <1>1, OrdersArePlain, NearIsLed
  <2>2. \E d \in Range(x) : d.uav = s /\ d.type = "ReleaseTask"
    BY ToldOf
  <2> HIDE DEF x, y
  <2>3. r \in Seq(Led) /\ Range(x) \subseteq Range(r)
    BY <1>6, <2>1, AmongTheJoined
  <2>4. Send(cs)
    BY <1>13 DEF x, y
  <2> HIDE DEF r
  <2>5. cs \in Seq(Led)
    BY <1>7, <2>3, Joined
  <2>6. Range(cs) = Range(r) \union Range(down)
    BY <1>7, <2>3, RangeOfJoined
  <2> HIDE DEF cs
  <2>7. Range(batch') = Range(batch) \union Range(cs)
    BY <1>1, <2>4, <2>5, LedIsAdded
  <2>8. Told(s, "ReleaseTask")'
    BY <2>2, <2>3, <2>6, <2>7 DEF Told
  <2>9. StaysSteered
    BY <1>11, <2>8
  <2> QED
    BY <1>1, <1>9, <1>10, <2>4, <2>5, <2>9, StillLed
<1>14. CASE Send(staging \o Redirect(s, place))
  <2>1. CASE fleet[s].to = place
    <3> DEFINE cs == staging \o <<>>
    <3>1. cs \in Seq(Led) /\ Send(cs)
      BY <1>6, <1>14, <2>1, Joined DEF Redirect
    <3>3. Guarded(s, p)'
      BY <1>9, <1>10, <1>12, GuardedStays
    <3>4. Guarded(s, fleet[s].to)'
      BY <1>1, <1>12, <2>1, <3>3 DEF Guarded
    <3>5. StaysSteered
      BY <1>11, <3>4
    <3> HIDE DEF cs
    <3> QED
      BY <1>1, <1>9, <1>10, <3>1, <3>5, StillLed
  <2>2. CASE fleet[s].to # place
    <3> DEFINE x == SetTarget(s, p)
               cs == staging \o x
    <3>1. x \in Seq(Led)
      BY <1>12, TargetIsLed
    <3>2. \E d \in Range(x) : d.uav = s /\ d.type = "SetTarget"
      BY ToldOf
    <3>3. Send(cs)
      BY <1>14, <1>12, <2>2 DEF Redirect
    <3> HIDE DEF x
    <3>4. cs \in Seq(Led) /\ Range(cs) = Range(staging) \union Range(x)
      BY <1>6, <3>1, Joined, RangeOfJoined
    <3> HIDE DEF cs
    <3>5. Range(batch') = Range(batch) \union Range(cs)
      BY <1>1, <3>3, <3>4, LedIsAdded
    <3>6. Told(s, "SetTarget")'
      BY <3>2, <3>4, <3>5 DEF Told
    <3>7. StaysSteered
      BY <1>11, <3>6
    <3> QED
      BY <1>1, <1>9, <1>10, <3>3, <3>4, <3>7, StillLed
  <2> QED
    BY <2>1, <2>2
<1> QED
  BY <1>3, <1>13, <1>14

LEMMA NothingNewToGuard ==
  ASSUME FleetTyped, UNCHANGED fleet, NEW s \in UAVs, NEW p \in {0, 1, fleet[s].at, None}
  PROVE  Guarded(s, p)'
<1>1. fleet[s].at \in Nat
  BY PlacesAreNumbers DEF FleetTyped, Vehicle, Places
<1> QED
  BY <1>1 DEF Guarded

\* whoever can work task t without a chain of its own flies there over occupied places
LEMMA CoveredIsGuarded ==
  ASSUME FleetTyped, NEW u \in UAVs, NEW t \in Tasks, t <= 1 \/ Covered(t)
  PROVE  Guarded(u, t)
<1>1. t \in Nat \ {0}
  BY FleetAssumption
<1>2. CASE t <= 1
  <2>1. t = 1
    BY <1>1, <1>2
  <2> QED
    BY <2>1, NothingToGuard
<1>3. CASE Covered(t)
  <2>1. PICK r \in UAVs : Connected(r) /\ Gap(fleet[r].at, t) <= 1
    BY <1>3 DEF Covered
  <2>2. fleet[r].at \in Nat
    BY PlacesAreNumbers DEF FleetTyped, Vehicle, Places
  <2>3. fleet[r].at >= t - 1
    BY <1>1, <2>1, <2>2 DEF Gap
  <2>4. \A i \in 1..fleet[r].at : Occupied(i)
    <3> TAKE i \in 1..fleet[r].at
    <3>1. CASE i = fleet[r].at
      BY <2>1, <3>1 DEF Connected, Occupied
    <3>2. CASE i # fleet[r].at
      <4>1. i \in 1..(fleet[r].at - 1)
        BY <2>2, <3>2
      <4> QED
        BY <2>1, <4>1 DEF Connected, Occupied
    <3> QED
      BY <3>1, <3>2
  <2>5. ASSUME mgr.chainOf[u] # None, NEW i \in 1..(mgr.chainOf[u] - 1), i < t
        PROVE  Occupied(i)
    <3>1. i \in 1..fleet[r].at
      BY <1>1, <2>2, <2>3, <2>5
    <3> QED
      BY <2>4, <3>1
  <2> QED
    BY <2>5 DEF Guarded
<1> QED
  BY <1>2, <1>3

LEMMA PlanSteers ==
  ASSUME BackedInv, Steered, PlanTask
  PROVE  Steered'
<1>0. PICK t \in Tasks : PlanSends(t) /\ stage = "plan"
  BY PlannedFor DEF BackedInv
<1>1. /\ stage = "plan" /\ PlanSends(t) /\ Kept(mgr) /\ BatchSound /\ FleetTyped
      /\ UNCHANGED fleet
  BY <1>0 DEF BackedInv, RelayInv, PlanTask
<1>2. Steady /\ ActiveSurveyors' = ActiveSurveyors
  BY <1>1 DEF Steady, Active, ActiveSurveyors
<1>3. StaysSteered
  BY <1>1, <1>2 DEF StaysSteered
<1>4. CASE UNCHANGED <<batch, mgr>>
  BY <1>1, <1>2, <1>3, <1>4, StillQuiet
<1>5. ASSUME NEW u \in Candidates, NEW p \in Seq(Near), NEW q \in Seq(Near),
             Send(p \o AssignTask(u, t) \o q),
             \A v \in UAVs : v # u => mgr'.chainOf[v] \in {mgr.chainOf[v], None},
             Guarded(u, t)' \/ q = SetTarget(u, fleet[u].at)
      PROVE  Steered'
  <2> DEFINE S == Sound
             x == [Cmd("AssignTask", u) EXCEPT !.place = t]
             a == AssignTask(u, t)
             r == p \o a
             cs == r \o q
  <2>1. u \in UAVs /\ fleet[u].task = None /\ u \notin Enlisted
    BY DEF Candidates
  <2>2. p \in Seq(Plain) /\ q \in Seq(Plain) /\ \A c \in Near : c \in S /\ c.type # "AssignTask"
    BY NearIsPlain DEF Near, Plain
  <2>3. x \in S /\ x.uav = u /\ x.place = t /\ x.type = "AssignTask" /\ cs \in Seq(S)
    BY <1>1, <2>1, <2>2, OneAssignment DEF Cmd
  <2>4. batch \in Seq(S) /\ Send(cs) /\ a = << x >>
    BY <1>1, <1>5 DEF BatchSound, AssignTask
  <2> HIDE DEF x, a
  <2>5. a \in Seq(S) /\ \A c \in Range(a) : c = x
    BY <2>3, <2>4 DEF Range
  <2>6. /\ \A c \in Range(p) : c \in Near
        /\ \A c \in Range(q) : c \in Near
    <3> DEFINE N == Near
    <3>1. p \in Seq(N) /\ q \in Seq(N)
      OBVIOUS
    <3> HIDE DEF N
    <3>2. /\ \A c \in Range(p) : c \in N
          /\ \A c \in Range(q) : c \in N
      BY <3>1, SentAre
    <3> QED
      BY <3>2 DEF N
  <2>7. p \in Seq(S) /\ q \in Seq(S)
    <3> DEFINE N == Near
    <3>1. p \in Seq(N) /\ q \in Seq(N) /\ \A c \in N : c \in S
      BY <2>2
    <3> HIDE DEF N, S
    <3>2. (\A i \in 1..Len(p) : p[i] \in S) /\ (\A i \in 1..Len(q) : q[i] \in S)
      BY <3>1
    <3> QED
      BY <3>1, <3>2, SequenceOver
  <2> HIDE DEF S
  <2>8. r \in Seq(S) /\ Range(r) = Range(p) \union Range(a)
    BY <2>5, <2>7, Joined, RangeOfJoined
  <2> HIDE DEF r
  <2>9. Range(cs) = Range(r) \union Range(q)
    BY <2>7, <2>8, RangeOfJoined
  <2> HIDE DEF cs
  <2>10. Range(batch') = Range(batch) \union Range(cs)
    BY <2>3, <2>4, SentIsAdded
  <2>11. \A v \in UAVs : \/ mgr'.chainOf[v] \in {mgr.chainOf[v], None}
                         \/ v \notin ActiveSurveyors /\ \A c \in Range(batch) : c.uav # v
    BY <1>5, <2>1 DEF ActiveSurveyors, Enlisted, Range
  <2>12. ASSUME NEW c \in Range(cs), c.type = "SetTarget"
         PROVE  Guarded(c.uav, c.place)'
    <3>1. c # x
      BY <2>3, <2>12
    <3>2. c \in Near
      BY <2>5, <2>6, <2>8, <2>9, <3>1
    <3>3. c.uav \in UAVs /\ c.place \in {0, 1, fleet[c.uav].at}
      BY <2>12, <3>2 DEF Near, Plain, Sound, Commands
    <3>4. PICK v, k : v \in UAVs /\ v = c.uav /\ k = c.place
      BY <3>3
    <3>5. Guarded(v, k)'
      BY <1>1, <3>3, <3>4, NothingNewToGuard
    <3> QED
      BY <3>4, <3>5
  <2>13. ASSUME NEW c \in Range(cs), c.type = "AssignTask"
         PROVE  Guarded(c.uav, c.place)' \/ Told(c.uav, "SetTarget")'
    <3>1. c = x
      BY <2>2, <2>5, <2>6, <2>8, <2>9, <2>13
    <3>2. CASE Guarded(u, t)'
      BY <2>3, <3>1, <3>2
    <3>3. CASE q = SetTarget(u, fleet[u].at)
      <4>1. \E d \in Range(q) : d.uav = u /\ d.type = "SetTarget"
        BY <2>1, <3>3, ToldOf
      <4> QED
        BY <2>3, <2>9, <2>10, <3>1, <4>1 DEF Told
    <3> QED
      BY <1>5, <3>2, <3>3
  <2> QED
    BY <1>2, <1>3, <2>4, <2>10, <2>11, <2>12, <2>13, StillSteered DEF S, StaysSteered
<1>6. ASSUME NEW u \in Candidates, t <= 1 \/ Covered(t), UNCHANGED mgr
      PROVE  /\ Guarded(u, t)'
             /\ \A v \in UAVs : v # u => mgr'.chainOf[v] \in {mgr.chainOf[v], None}
  <2>1. u \in UAVs
    BY DEF Candidates
  <2>2. Guarded(u, t)
    BY <1>1, <1>6, <2>1, CoveredIsGuarded
  <2> QED
    BY <1>2, <1>6, <2>1, <2>2, GuardedStays
<1>7. ASSUME NEW u \in Candidates, NEW team, mgr' = Register(mgr, t, u, team)
      PROVE  \A v \in UAVs : v # u => mgr'.chainOf[v] \in {mgr.chainOf[v], None}
  <2> DEFINE gone == IF mgr.chains[t] = None THEN {} ELSE {mgr.chains[t].surveyor} \ {u}
  <2>1. mgr'.chainOf = [v \in UAVs |-> IF v = u THEN t
                                       ELSE IF v \in gone THEN None ELSE mgr.chainOf[v]]
    BY <1>1, <1>7 DEF Register, Kept, Managers
  <2> HIDE DEF gone
  <2> QED
    BY <2>1
<1> QED
  BY <1>1, <1>4, <1>5, <1>6, <1>7 DEF PlanSends

LEMMA ServeSteers ==
  ASSUME BackedInv, Steered, Serve
  PROVE  Steered'
<1>1. /\ stage = "serve" /\ agenda # {} /\ UNCHANGED stage
      /\ Kept(mgr) /\ FleetTyped /\ BatchSound
  BY DEF Serve, BackedInv, RelayInv
<1>2. PICK u \in UAVs : u = Turn /\ fleet[u].task # None
  <2>1. Turn \in UAVs /\ Turn \in agenda
    BY <1>1, VisitOfVehicle DEF BackedInv
  <2>2. fleet[Turn].task # None
    BY <1>1, <2>1 DEF BackedInv, RelayInv, Scheduled
  <2> QED
    BY <2>1, <2>2
<1> DEFINE t == mgr.chainOf[u]
           alone == ChainOf(u) = None
           down == IF alone THEN <<>> ELSE TeardownCommands(mgr, t)
<1>3. \/ UNCHANGED <<fleet, batch, mgr>>
      \/ /\ fleet' = [fleet EXCEPT ![u].task = None, ![u].role = "IDLE"]
         /\ mgr' \in IF alone THEN {mgr} ELSE Teardown(mgr, t)
         /\ Send(Release(u) \o SetTarget(u, 0) \o down)
  BY <1>2 DEF Serve
<1>4. CASE UNCHANGED <<fleet, batch, mgr>>
  <2>1. Steady /\ ActiveSurveyors' = ActiveSurveyors
    BY <1>4 DEF Steady, Active, ActiveSurveyors
  <2>2. StaysSteered
    BY <1>1, <1>4, <2>1 DEF StaysSteered
  <2> QED
    BY <1>1, <1>4, <2>1, <2>2, StillQuiet
<1>5. CASE /\ fleet' = [fleet EXCEPT ![u].task = None, ![u].role = "IDLE"]
           /\ mgr' \in IF alone THEN {mgr} ELSE Teardown(mgr, t)
           /\ Send(Release(u) \o SetTarget(u, 0) \o down)
  <2>2. ~alone => t \in Live(mgr)
    BY <1>1 DEF Kept, ChainOf
  <2> HIDE DEF t, alone
  <2>3. down \in Seq(Led)
    <3>1. CASE alone
      BY <3>1
    <3>2. CASE ~alone
      BY <1>1, <2>2, <3>2, TeardownIsNear, NearIsLed
    <3> QED
      BY <3>1, <3>2
  <2>4. \A v \in UAVs : mgr'.chainOf[v] \in {mgr.chainOf[v], None}
    BY <1>1, <1>5, <2>2, ChainsEnd
  <2> HIDE DEF down
  <2> DEFINE x == Release(u)
             y == SetTarget(u, 0)
  <2>5. x \in Seq(Led) /\ y \in Seq(Led)
    BY <1>1, OrdersArePlain, NearIsLed, PlacesAreNumbers
  <2>6. Send(x \o y \o down)
    BY <1>5
  <2> HIDE DEF x, y
  <2>7. x \o y \o down \in Seq(Led)
    BY <2>3, <2>5, AmongTheJoined
  <2>8. fleet[u] \in Vehicle /\ fleet \in [UAVs -> Vehicle]
    BY <1>1 DEF FleetTyped
  <2>9. /\ fleet'[u].task = None
        /\ \A v \in UAVs : v # u => fleet'[v] = fleet[v]
        /\ \A v \in UAVs : /\ fleet'[v].at = fleet[v].at /\ fleet'[v].failed = fleet[v].failed
                           /\ fleet'[v].condition = fleet[v].condition
    BY <1>5, <2>8 DEF Vehicle
  <2>10. Steady
    BY <2>9 DEF Steady, Active
  <2>11. StaysSteered
    BY <1>1, <2>9 DEF StaysSteered, ActiveSurveyors, Active
  <2> QED
    BY <1>1, <2>4, <2>6, <2>7, <2>10, <2>11, StillLed
<1> QED
  BY <1>3, <1>4, <1>5

LEMMA RecallSteers ==
  ASSUME BackedInv, Steered, Recall
  PROVE  Steered'
<1>1. /\ stage = "recall" /\ agenda # {} /\ UNCHANGED <<batch, mgr, stage>>
      /\ fleet' = [fleet EXCEPT ![Turn] = Homeward(@)]
      /\ FleetTyped /\ BatchSound
  BY DEF Recall, BackedInv, RelayInv
<1>2. PICK u \in UAVs : u = Turn
  BY <1>1, VisitOfVehicle DEF BackedInv
<1>3. fleet[u] \in Vehicle
  BY <1>1 DEF FleetTyped
<1>4. PICK r : r = Homeward(fleet[u])
  OBVIOUS
<1>5. /\ r \in Vehicle /\ r.task = None /\ r.condition = "returning"
      /\ r.at = fleet[u].at /\ r.failed = fleet[u].failed
  BY <1>3, <1>4, HomewardTyped DEF Homeward, Vehicle
<1>6. fleet'[u] = r /\ \A v \in UAVs : v # u => fleet'[v] = fleet[v]
  BY <1>1, <1>2, <1>4 DEF FleetTyped
<1>7. Steady
  BY <1>5, <1>6 DEF Steady, Active
<1>8. StaysSteered
  BY <1>1, <1>5, <1>6 DEF StaysSteered, ActiveSurveyors, Active
<1> QED
  BY <1>1, <1>7, <1>8, StillQuiet

\* The first command of a vehicle is carried out and leaves the batch: a target
\* comes after the task it goes with.
LEMMA ObeyedStaysSteered ==
  ASSUME Steered, Steady, batch \in Seq(Sound), UNCHANGED <<mgr, stage, agenda>>,
         stage # "monitor", NEW c \in Range(batch),
         Range(batch') \subseteq Range(batch), Range(batch) \ {c} \subseteq Range(batch'),
         \A d \in Range(batch) : d.uav = c.uav => Rank[c.type] <= Rank[d.type],
         \A s \in ActiveSurveyors' :
           \/ /\ s \in ActiveSurveyors /\ fleet'[s].to = fleet[s].to
              /\ ~(c.uav = s /\ c.type \in {"SetTarget", "ReleaseTask"})
           \/ Guarded(s, fleet[s].to)' \/ Told(s, "SetTarget")'
  PROVE  Steered'
<1>1. \A d \in Range(batch) : d.uav \in UAVs
  <2> TAKE d \in Range(batch)
  <2>1. d \in Sound
    BY SentAre
  <2> QED
    BY <2>1 DEF Sound, Commands
<1>2. ASSUME NEW d \in Range(batch), Guarded(d.uav, d.place) PROVE Guarded(d.uav, d.place)'
  <2>1. PICK v, p : v \in UAVs /\ v = d.uav /\ p = d.place
    BY <1>1
  <2>2. Guarded(v, p)'
    BY <1>2, <2>1, GuardedStays
  <2> QED
    BY <2>1, <2>2
<1>3. ASSUME NEW d \in Range(batch'), d.type = "SetTarget" PROVE Guarded(d.uav, d.place)'
  BY <1>2, <1>3 DEF Steered
<1>4. ASSUME NEW d \in Range(batch'), d.type = "AssignTask"
      PROVE  Guarded(d.uav, d.place)' \/ Told(d.uav, "SetTarget")'
  <2>1. CASE Guarded(d.uav, d.place)
    BY <1>2, <2>1
  <2>2. CASE Told(d.uav, "SetTarget")
    <3>1. PICK e \in Range(batch) : e.uav = d.uav /\ e.type = "SetTarget"
      BY <2>2 DEF Told
    <3>2. e # c
      BY <1>4, <3>1 DEF Rank
    <3> QED
      BY <3>1, <3>2 DEF Told
  <2> QED
    BY <1>4, <2>1, <2>2 DEF Steered
<1>5. ASSUME NEW s \in ActiveSurveyors'
      PROVE  Guarded(s, fleet[s].to)' \/ Told(s, "SetTarget")' \/ Told(s, "ReleaseTask")'
  <2>1. CASE /\ s \in ActiveSurveyors /\ fleet'[s].to = fleet[s].to
             /\ ~(c.uav = s /\ c.type \in {"SetTarget", "ReleaseTask"})
    <3>1. Guarded(s, fleet[s].to) \/ Told(s, "SetTarget") \/ Told(s, "ReleaseTask")
      BY <2>1 DEF Steered
    <3>2. CASE Guarded(s, fleet[s].to)
      <4>1. PICK v, p : v \in UAVs /\ v = s /\ p = fleet[s].to
        BY <2>1 DEF ActiveSurveyors
      <4>2. Guarded(v, p)'
        BY <3>2, <4>1, GuardedStays
      <4> QED
        BY <2>1, <4>1, <4>2
    <3>3. ASSUME NEW type \in {"SetTarget", "ReleaseTask"}, Told(s, type)
          PROVE  Told(s, type)'
      <4>1. PICK e \in Range(batch) : e.uav = s /\ e.type = type
        BY <3>3 DEF Told
      <4>2. e # c
        BY <2>1, <4>1
      <4> QED
        BY <4>1, <4>2 DEF Told
    <3> QED
      BY <3>1, <3>2, <3>3
  <2> QED
    BY <1>5, <2>1
<1> QED
  BY <1>3, <1>4, <1>5 DEF Steered

LEMMA ObeySteers ==
  ASSUME BackedInv, Steered, stage \in Obeying, stage \in Late, Obey,
         UNCHANGED <<mgr, stage, agenda>>
  PROVE  Steered'
<1>1. /\ FleetTyped /\ BatchSound /\ RelaysAreFree /\ stage # "monitor"
      /\ batch \in Seq(Sound)
  BY DEF BackedInv, RelayInv, Obeying, BatchSound
<1>2. Steady
  BY ObeyBacks
<1>3. PICK c \in Sound :
        /\ c \in Range(batch)
        /\ Range(batch') \subseteq Range(batch) /\ Range(batch) \ {c} \subseteq Range(batch')
        /\ \A d \in Range(batch) : d.uav = c.uav => Rank[c.type] <= Rank[d.type]
        /\ \/ AssignRelayRole(c)  \/ HandoffRelay(c)  \/ TakeTask(c)  \/ ReleaseRelayRole(c)
           \/ GiveUpTask(c)       \/ SetTargetPosition(c)  \/ Return(c)
  BY <1>1, FirstIsObeyed
<1>4. /\ c.uav \in UAVs
      /\ c.type = "HandoffRelay" => c.whom \in UAVs
      /\ fleet \in [UAVs -> Vehicle]
  BY <1>1 DEF Sound, Commands, FleetTyped
<1> DEFINE Kind(s) ==
             \/ /\ s \in ActiveSurveyors /\ fleet'[s].to = fleet[s].to
                /\ ~(c.uav = s /\ c.type \in {"SetTarget", "ReleaseTask"})
             \/ Guarded(s, fleet[s].to)' \/ Told(s, "SetTarget")'
<1>5. (\A s \in ActiveSurveyors' : Kind(s)) => Steered'
  BY <1>1, <1>2, <1>3, ObeyedStaysSteered
<1> SUFFICES ASSUME NEW s \in ActiveSurveyors' PROVE Kind(s)
  BY <1>5
<1>6. s \in UAVs /\ fleet'[s].task # None /\ fleet'[s].role = "SURVEYOR" /\ Active(s)'
  BY DEF ActiveSurveyors
<1>7. ASSUME NEW v \in UAVs, NEW r, Write(v, r)
      PROVE  fleet'[v] = r /\ (s # v => s \in ActiveSurveyors /\ fleet'[s] = fleet[s])
  BY <1>4, <1>6, <1>7 DEF Write, ActiveSurveyors, Active
<1>8. CASE UNCHANGED fleet /\ c.type \notin {"SetTarget", "ReleaseTask"}
  BY <1>8 DEF ActiveSurveyors, Active
<1>9. ASSUME NEW v \in UAVs, Write(v, Relaying(fleet[v], c.place, c.served)),
             c.type \notin {"SetTarget", "ReleaseTask"}
      PROVE  Kind(s)
  <2>1. PICK r : r = Relaying(fleet[v], c.place, c.served)
    OBVIOUS
  <2>2. r.task = None
    BY <1>4, <2>1 DEF Relaying, Vehicle
  <2> QED
    BY <1>6, <1>7, <1>9, <2>1, <2>2
<1>10. CASE AssignRelayRole(c)
  BY <1>4, <1>9, <1>10 DEF AssignRelayRole
<1>11. CASE HandoffRelay(c)
  BY <1>4, <1>9, <1>11 DEF HandoffRelay
<1>12. CASE TakeTask(c) /\ ~UNCHANGED fleet
  <2>1. c.type = "AssignTask" /\ Write(c.uav, Surveying(fleet[c.uav], c.place))
    BY <1>12 DEF TakeTask
  <2>2. PICK r : r = Surveying(fleet[c.uav], c.place)
    OBVIOUS
  <2>3. r.to = c.place
    BY <1>4, <2>2 DEF Surveying, Vehicle
  <2>4. CASE s # c.uav
    BY <1>4, <1>7, <2>1, <2>2, <2>4
  <2>5. CASE s = c.uav /\ Guarded(c.uav, c.place)
    <3>1. PICK p : p = c.place
      OBVIOUS
    <3>2. Guarded(s, p)'
      BY <1>2, <1>6, <2>5, <3>1, GuardedStays
    <3>3. fleet'[s].to = p
      BY <1>4, <1>7, <2>1, <2>2, <2>3, <2>5, <3>1
    <3> QED
      BY <3>2, <3>3
  <2>6. CASE s = c.uav /\ Told(c.uav, "SetTarget")
    <3>1. PICK e \in Range(batch) : e.uav = s /\ e.type = "SetTarget"
      BY <2>6 DEF Told
    <3>2. e \in Range(batch')
      BY <1>3, <2>1, <3>1
    <3> QED
      BY <3>1, <3>2 DEF Told
  <2> QED
    BY <1>3, <2>1, <2>4, <2>5, <2>6 DEF Steered
<1>13. CASE ReleaseRelayRole(c) /\ ~UNCHANGED fleet
  <2> DEFINE x == [fleet[c.uav] EXCEPT
                     !.role = IF c.whom = c.uav THEN "SURVEYOR" ELSE "IDLE",
                     !.relayFor = None]
  <2>1. /\ c.type = "ReleaseRelayRole" /\ Write(c.uav, x)
        /\ fleet[c.uav].role # "IDLE"
    BY <1>13 DEF ReleaseRelayRole
  <2>2. PICK r : r = x
    OBVIOUS
  <2>3. /\ r.task = fleet[c.uav].task /\ r.to = fleet[c.uav].to
        /\ r.condition = fleet[c.uav].condition /\ r.failed = fleet[c.uav].failed
        /\ fleet[c.uav].role \in {"IDLE", "SURVEYOR", "RELAY"}
    BY <1>4, <2>2 DEF Vehicle
  <2> HIDE DEF x
  <2>4. fleet'[c.uav] = r /\ (s # c.uav => s \in ActiveSurveyors /\ fleet'[s] = fleet[s])
    BY <1>4, <1>7, <2>1, <2>2
  <2>5. s = c.uav => fleet[s].role = "SURVEYOR"
    BY <1>1, <1>6, <2>1, <2>3, <2>4 DEF RelaysAreFree
  <2> QED
    BY <1>6, <2>1, <2>3, <2>4, <2>5 DEF ActiveSurveyors, Active
<1>14. CASE GiveUpTask(c)
  <2> DEFINE x == [fleet[c.uav] EXCEPT !.task = None, !.to = None]
  <2>1. Write(c.uav, x) /\ x.task = None
    BY <1>4, <1>14 DEF GiveUpTask, Vehicle
  <2> HIDE DEF x
  <2>2. fleet'[c.uav] = x /\ (s # c.uav => s \in ActiveSurveyors /\ fleet'[s] = fleet[s])
    BY <1>4, <1>7, <2>1
  <2> QED
    BY <1>6, <2>1, <2>2
<1>15. CASE SetTargetPosition(c)
  <2> DEFINE x == [fleet[c.uav] EXCEPT !.to = c.place]
  <2>1. /\ c.type = "SetTarget" /\ Write(c.uav, x) /\ x.to = c.place
    BY <1>4, <1>15 DEF SetTargetPosition, Vehicle
  <2> HIDE DEF x
  <2>2. fleet'[c.uav] = x /\ (s # c.uav => s \in ActiveSurveyors /\ fleet'[s] = fleet[s])
    BY <1>4, <1>7, <2>1
  <2>3. CASE s = c.uav
    <3>1. Guarded(c.uav, c.place)
      BY <1>3, <2>1 DEF Steered
    <3>2. PICK p : p = c.place
      OBVIOUS
    <3>3. Guarded(s, p)'
      BY <1>2, <1>6, <2>3, <3>1, <3>2, GuardedStays
    <3> QED
      BY <2>1, <2>2, <2>3, <3>2, <3>3
  <2> QED
    BY <2>2, <2>3
<1>16. CASE Return(c)
  <2>1. c.type = "StartRTH" /\ Write(c.uav, Homeward(fleet[c.uav]))
    BY <1>16 DEF Return
  <2>2. PICK r : r = Homeward(fleet[c.uav])
    OBVIOUS
  <2>3. r.task = None
    BY <1>4, <2>2 DEF Homeward, Vehicle
  <2>4. fleet'[c.uav] = r /\ (s # c.uav => s \in ActiveSurveyors /\ fleet'[s] = fleet[s])
    BY <1>4, <1>7, <2>1, <2>2
  <2> QED
    BY <1>6, <2>1, <2>3, <2>4
<1>17. UNCHANGED fleet /\ (TakeTask(c) \/ ReleaseRelayRole(c))
         => c.type \notin {"SetTarget", "ReleaseTask"}
  BY DEF TakeTask, ReleaseRelayRole
<1> HIDE DEF Kind
<1> QED
  BY <1>3, <1>8, <1>10, <1>11, <1>12, <1>13, <1>14, <1>15, <1>16, <1>17

LEMMA ProceedSteers ==
  ASSUME SteeredInv, Proceed
  PROVE  Emptied' /\ (stage' \in Late => Steered')
<1>1. /\ UNCHANGED <<fleet, task, batch, mgr>> /\ agenda = {} /\ agenda' \in Agendas(stage')
      /\ stage \in Obeying => batch = <<>>
      /\ BatchSound /\ Emptied
  BY DEF Proceed, SteeredInv, BackedInv, RelayInv
<1>2. PICK here \in 1..15, k \in 1..16 :
        /\ here < k /\ stage = Loops[here] /\ stage' = Loops[k]
        /\ \A i \in 1..16 : here < i /\ i < k => ~HasWork(Loops[i])
  BY NextLoop DEF SteeredInv
<1>3. /\ Loops[1] = "world" /\ Loops[2] = "struck" /\ Loops[14] = "served"
      /\ Loops[15] = "recall"
  BY DEF Loops
<1>4. Emptied'
  <2> SUFFICES ASSUME stage' \in {"world", "struck", "recall", "fly"} PROVE batch = <<>>
    BY <1>1 DEF Emptied
  <2>1. k \in {1, 2, 15, 16}
    BY <1>2, <1>3, LoopsNamed
  <2>2. CASE here \in {1, 2, 15}
    BY <1>1, <1>2, <1>3, <2>2 DEF Emptied
  <2>3. CASE here = 14
    BY <1>1, <1>2, <1>3, <2>3 DEF Obeying
  <2>4. CASE here \in 3..13
    <3>1. ~HasWork(Loops[14])
      BY <1>2, <2>1, <2>4
    <3> QED
      BY <1>3, <3>1 DEF HasWork, Obeying
  <2> QED
    BY <2>2, <2>3, <2>4
<1> SUFFICES ASSUME stage' \in Late PROVE Steered'
  BY <1>4
<1>5. k > 8 /\ Steady /\ ActiveSurveyors' = ActiveSurveyors
  BY <1>1, <1>2, LoopsNamed DEF Steady, Active, ActiveSurveyors
<1>6. CASE here > 8
  <2>1. stage \in Late
    BY <1>2, <1>6, LoopsNamed
  <2>2. Steered
    BY <2>1 DEF SteeredInv
  <2>3. StaysSteered
    BY <1>1, <1>5 DEF StaysSteered
  <2> QED
    BY <1>1, <1>5, <2>2, <2>3, StillQuiet
<1>7. CASE here <= 8
  <2>1. batch = <<>>
    <3>1. CASE here = 8
      BY <1>1, <1>2, <3>1, LoopsNamed DEF Obeying
    <3>2. CASE here < 8
      <4>1. ~HasWork("relayed")
        BY <1>2, <1>5, <3>2, LoopsNamed
      <4> QED
        BY <4>1 DEF HasWork, Obeying
    <3> QED
      BY <1>7, <3>1, <3>2
  <2>2. Range(batch') = {}
    BY <1>1, <2>1 DEF Range
  <2>3. CASE k = 9
    <3>1. stage' = "monitor" /\ agenda' = ActiveSurveyors
      BY <1>1, <1>2, <2>3, LoopsNamed DEF Agendas
    <3> QED
      BY <1>5, <2>2, <3>1 DEF Steered
  <2>4. CASE k # 9
    <3>1. ~HasWork("monitor")
      BY <1>2, <1>5, <1>7, <2>4, LoopsNamed
    <3>2. ActiveSurveyors = {}
      BY <3>1 DEF HasWork, Agendas
    <3> QED
      BY <1>5, <2>2, <3>2 DEF Steered
  <2> QED
    BY <2>3, <2>4
<1> QED
  BY <1>6, <1>7

(***************************************************************************)
(* The invariant, and what follows from it.                                *)
(***************************************************************************)
LEMMA RelayInvKept ==
  ASSUME RelayInv, [Next]_vars
  PROVE  RelayInv'
<1>1. CASE StepRelays
  BY <1>1, RelayStepKeeps
<1>2. CASE stage \in Obeying /\ Obey /\ UNCHANGED <<mgr, stage, agenda, lost, events>>
  BY <1>2, ObeyKeeps
<1>3. CASE MonitorSurveyor
  BY <1>3, MonitorKeeps
<1>4. CASE PlanTask
  BY <1>4, PlanKeeps
<1>5. CASE Serve
  BY <1>5, ServeKeeps
<1>6. CASE Recall
  BY <1>6, RecallKeeps
<1>7. CASE Fly
  BY <1>7, FlyKeeps
<1>8. CASE World
  BY <1>8, WorldKeeps
<1>9. CASE Proceed
  BY <1>9, ProceedKeeps
<1>10. CASE UNCHANGED vars
  <2>1. UNCHANGED <<fleet, task, batch, mgr, stage, agenda>>
    BY <1>10 DEF vars
  <2>2. Scheduled'
    BY <2>1, FewerToVisit DEF RelayInv, Scheduled
  <2> QED
    BY <2>1, <2>2, FleetStays DEF RelayInv, SentPlain
<1> QED
  BY <1>1, <1>2, <1>3, <1>4, <1>5, <1>6, <1>7, <1>8, <1>9, <1>10 DEF Next

LEMMA RelayInvHolds == Spec => []RelayInv
BY InitKeeps, RelayInvKept, PTL DEF Spec

LEMMA BackedInvKept ==
  ASSUME BackedInv, InOrder, [Next]_vars
  PROVE  BackedInv' /\ InOrder'
<1>1. RelayInv /\ RelayInv' /\ RelaysAreFree
  BY RelayInvKept DEF BackedInv
<1>2. CASE StepRelays
  BY <1>1, <1>2, StepIsEarly DEF BackedInv, RelaysAreFree, InOrder
<1>3. CASE stage \in Obeying /\ Obey /\ UNCHANGED <<mgr, stage, agenda, lost, events>>
  BY <1>1, <1>3, ObeyBacks DEF BackedInv, InOrder
<1>4. CASE MonitorSurveyor
  <2>1. UNCHANGED <<fleet, stage>>
    BY <1>4 DEF MonitorSurveyor
  <2> QED
    BY <1>1, <1>4, <2>1, MonitorBacks DEF BackedInv, RelaysAreFree, InOrder
<1>5. CASE PlanTask
  <2>1. UNCHANGED <<fleet, stage>>
    BY <1>5 DEF PlanTask
  <2> QED
    BY <1>1, <1>5, <2>1, PlanBacks DEF BackedInv, RelaysAreFree, InOrder
<1>6. CASE Serve
  <2>1. UNCHANGED stage
    BY <1>6 DEF Serve
  <2> QED
    BY <1>1, <1>6, <2>1, ServeBacks DEF BackedInv, InOrder
<1>7. CASE Recall
  <2>1. UNCHANGED stage
    BY <1>7 DEF Recall
  <2> QED
    BY <1>1, <1>7, <2>1, RecallBacks DEF BackedInv, InOrder
<1>8. CASE Fly \/ World
  <2>1. RelaysAreFree' /\ stage' \in {"world", "struck"}
    BY <1>1, <1>8, WorldFrees
  <2>2. Loops[1] = "world" /\ Loops[2] = "struck"
    BY DEF Loops
  <2>3. InOrder'
    BY <2>1, <2>2 DEF InOrder
  <2> QED
    BY <1>1, <2>1, <2>3 DEF BackedInv, Late
<1>9. CASE Proceed
  BY <1>1, <1>9, ProceedBacks DEF BackedInv
<1>10. CASE UNCHANGED vars
  <2>1. UNCHANGED <<fleet, task, batch, mgr, stage, agenda>>
    BY <1>10 DEF vars
  <2>2. Promised => Promised'
    BY <2>1 DEF Promised, Provided, Degraded, ChainOf, WithinReach, Connected, Active
  <2>3. Backed => Backed'
    BY <2>1 DEF Backed, ActiveSurveyors, Provided, Degraded, ChainOf, WithinReach,
                Connected, Active
  <2> QED
    BY <1>1, <2>1, <2>2, <2>3 DEF BackedInv, RelaysAreFree, InOrder
<1> QED
  BY <1>2, <1>3, <1>4, <1>5, <1>6, <1>7, <1>8, <1>9, <1>10 DEF Next

LEMMA BackedInvStarts ==
  ASSUME Init
  PROVE  BackedInv /\ InOrder
<1>1. RelayInv
  BY InitKeeps
<1>2. RelaysAreFree /\ stage = "world"
  BY DEF Init, RelaysAreFree
<1>3. Loops[1] = "world"
  BY DEF Loops
<1> QED
  BY <1>1, <1>2, <1>3 DEF BackedInv, Late, InOrder

LEMMA BackedInvHolds == Spec => [](BackedInv /\ InOrder)
<1>1. Init => BackedInv /\ InOrder
  BY BackedInvStarts
<1> QED
  BY <1>1, BackedInvKept, PTL DEF Spec

LEMMA SteeredInvKept ==
  ASSUME SteeredInv, [Next]_vars
  PROVE  SteeredInv'
<1>1. BackedInv /\ InOrder /\ BackedInv' /\ InOrder' /\ Emptied
      /\ (stage \in Late => Steered)
  BY BackedInvKept DEF SteeredInv
<1>2. CASE StepRelays
  <2>1. stage \notin Late \union {"world", "struck"} /\ UNCHANGED stage
    BY <1>2, StepIsEarly DEF StepRelays, AbandonChain, AtStation, ReplacementLost,
       ReplacementUnderway, ReplacementArrives, RelayLost, RelayTires, SingleHandoff,
       SingleRelayLost, SingleRelayTires, SupportSurveyor, ReleaseIdleRelay
  <2> QED
    BY <1>1, <2>1 DEF SteeredInv, Emptied, Late
<1>3. CASE stage \in Obeying /\ Obey /\ UNCHANGED <<mgr, stage, agenda, lost, events>>
  <2>1. stage \in Late => Steered'
    BY <1>1, <1>3, ObeySteers
  <2> QED
    BY <1>1, <1>3, <2>1 DEF SteeredInv, Emptied, Obeying
<1>4. CASE MonitorSurveyor
  <2>1. stage = "monitor" /\ UNCHANGED stage
    BY <1>4 DEF MonitorSurveyor
  <2>2. Steered'
    BY <1>1, <1>4, <2>1, MonitorSteers DEF Late
  <2> QED
    BY <1>1, <2>1, <2>2 DEF SteeredInv, Emptied
<1>5. CASE PlanTask
  <2>1. stage = "plan" /\ UNCHANGED stage
    BY <1>5 DEF PlanTask
  <2>2. Steered'
    BY <1>1, <1>5, <2>1, PlanSteers DEF Late
  <2> QED
    BY <1>1, <2>1, <2>2 DEF SteeredInv, Emptied
<1>6. CASE Serve
  <2>1. stage = "serve" /\ UNCHANGED stage
    BY <1>6 DEF Serve
  <2>2. Steered'
    BY <1>1, <1>6, <2>1, ServeSteers DEF Late
  <2> QED
    BY <1>1, <2>1, <2>2 DEF SteeredInv, Emptied
<1>7. CASE Recall
  <2>1. stage = "recall" /\ UNCHANGED <<batch, stage>>
    BY <1>7 DEF Recall
  <2>2. Steered'
    BY <1>1, <1>7, <2>1, RecallSteers DEF Late
  <2> QED
    BY <1>1, <2>1, <2>2 DEF SteeredInv, Emptied
<1>8. CASE Fly \/ World
  <2>1. stage \in {"world", "struck", "fly"} /\ stage' \in {"world", "struck"} /\ UNCHANGED batch
    BY <1>8 DEF Fly, Pass, World, Fail, Recover, Tire, TriggerRTH, Discover, Incident
  <2> QED
    BY <1>1, <2>1 DEF SteeredInv, Emptied, Late
<1>9. CASE Proceed
  BY <1>1, <1>9, ProceedSteers DEF SteeredInv
<1>10. CASE UNCHANGED vars
  <2>1. UNCHANGED <<fleet, task, batch, mgr, stage, agenda>>
    BY <1>10 DEF vars
  <2>2. Steered => Steered'
    BY <2>1 DEF Steered, Guarded, Told, Occupied, ActiveSurveyors, Active
  <2> QED
    BY <1>1, <2>1, <2>2 DEF SteeredInv, Emptied
<1> QED
  BY <1>2, <1>3, <1>4, <1>5, <1>6, <1>7, <1>8, <1>9, <1>10 DEF Next

LEMMA SteeredInvHolds == Spec => []SteeredInv
<1>1. Init => SteeredInv
  <2> SUFFICES ASSUME Init PROVE SteeredInv
    OBVIOUS
  <2>1. BackedInv /\ InOrder
    BY BackedInvStarts
  <2>2. stage = "world" /\ batch = <<>>
    BY DEF Init
  <2> QED
    BY <2>1, <2>2 DEF SteeredInv, Emptied, Late
<1> QED
  BY <1>1, SteeredInvKept, PTL DEF Spec

\* Types: the records of the fleet and the tasks keep their form, a task is taken
\* exactly when a vehicle holds it, and every chain register_chain and the handoffs
\* leave has one relay and one handoff slot for each place before its task.
THEOREM RelayTyped == Spec => []RelayTypeOK
<1>1. RelayInv => RelayTypeOK
  BY DEF RelayInv, FleetTyped, Held, Kept, RelayTypeOK
<1> QED
  BY <1>1, RelayInvHolds, PTL

\* Whatever fails, returns or is replaced in a chain, each station keeps a vehicle
\* of its own, a replacement under way included, and none of them is the surveyor.
THEOREM StationsApart == Spec => []StaffedApart
<1>1. RelayInv => StaffedApart
  BY DEF RelayInv, AllApart, StaffedApart
<1> QED
  BY <1>1, RelayInvHolds, PTL

\* Nobody is called away from work: whoever a command in the batch makes a relay
\* has no task, from the snapshot it was picked from until apply carries it out.
THEOREM CallsFindTheFree == Spec => []CalledAreFree
<1>1. RelayInv => CalledAreFree
  <2> SUFFICES ASSUME RelayInv, NEW c \in Range(batch), c.type = "AssignRelayRole"
               PROVE  fleet[c.uav].task = None
    BY DEF CalledAreFree
  <2>1. batch \in Seq(Sound)
    BY DEF RelayInv, BatchSound
  <2>2. c \in Sound
    <3> DEFINE S == Sound
    <3>1. batch \in Seq(S)
      BY <2>1
    <3> HIDE DEF S
    <3>2. c \in S
      BY <3>1 DEF Range
    <3> QED
      BY <3>2 DEF S
  <2> QED
    BY <2>2 DEF Sound, Engages
<1> QED
  BY <1>1, RelayInvHolds, PTL

\* A chain that lost a relay without replacement is given up before the fleet
\* flies: monitor_active_tasks takes its surveyor off it, and whoever gets a task
\* in the same tick while a degraded chain of an earlier task is still in the
\* books gets one that somebody else reaches.
THEOREM NobodyBehindDegraded == Spec => []NoneWorksDegraded
<1>1. BackedInv => NoneWorksDegraded
  BY DEF BackedInv, Late, Backed, Provided, NoneWorksDegraded
<1> QED
  BY <1>1, BackedInvHolds, PTL

\* A surveyor with a chain flies outward only over occupied stations of it, up to
\* the place it heads for: the monitoring and the staging of the planner look at
\* the same fleet the flight then finds, and no command given later in the tick,
\* to a vehicle with two duties either, sends anybody farther.
THEOREM RelaysLead == Spec => AdvancesBehindRelays
<1> DEFINE Behind == stage = "fly" => \A s \in ActiveSurveyors :
             ChainOf(s) # None /\ fleet'[s].at > fleet[s].at =>
               \A i \in Stations(ChainOf(s)) : i < fleet[s].to => Occupied(i)
<1>1. SteeredInv /\ [Next]_vars => [Behind]_vars
  <2> SUFFICES ASSUME SteeredInv, Next, stage = "fly", NEW s \in ActiveSurveyors,
                      ChainOf(s) # None, fleet'[s].at > fleet[s].at,
                      NEW i \in Stations(ChainOf(s)), i < fleet[s].to
               PROVE  Occupied(i)
    OBVIOUS
  <2>1. /\ FleetTyped /\ Kept(mgr) /\ Steered /\ batch = <<>> /\ s \in UAVs
        /\ fleet[s] \in Vehicle /\ fleet[s].at \in Nat
    BY PlacesAreNumbers DEF SteeredInv, BackedInv, RelayInv, Emptied, Late, FleetTyped,
       ActiveSurveyors, Vehicle, Places
  <2>2. fleet' # fleet
    BY <2>1
  <2>3. Fly
    <3>1. ~StepRelays
      BY <2>2, StepIsEarly
    <3>2. ~World
      BY DEF World, Fail, Recover, Tire, TriggerRTH, Discover, Incident
    <3> QED
      BY <2>2, <3>1, <3>2 DEF Next, Obeying, MonitorSurveyor, PlanTask, Serve, Recall, Proceed
  <2>4. fleet'[s] \in {fleet[s], Charged(fleet[s]), Flown(fleet[s])}
    BY <2>1, <2>3 DEF Fly
  <2>5. /\ Flown(fleet[s]).at \in {fleet[s].at, Toward(fleet[s])}
        /\ Charged(fleet[s]).at = fleet[s].at
    BY <2>1 DEF Flown, Charged, Vehicle
  <2>6. Toward(fleet[s]) > fleet[s].at
    BY <2>1, <2>4, <2>5
  <2>7. fleet[s].to # None /\ fleet[s].to > fleet[s].at
    BY <2>1, <2>6 DEF Toward
  <2>8. ~Told(s, "SetTarget") /\ ~Told(s, "ReleaseTask")
    BY <2>1 DEF Told, Range
  <2>9. Guarded(s, fleet[s].to)
    BY <2>1, <2>8 DEF Steered
  <2>10. mgr.chainOf[s] # None /\ ChainOf(s) = mgr.chains[mgr.chainOf[s]]
    BY DEF ChainOf
  <2>11. Stations(ChainOf(s)) = 1..(mgr.chainOf[s] - 1)
    BY <2>1, <2>10, LiveChain DEF Kept
  <2> QED
    BY <2>7, <2>9, <2>10, <2>11 DEF Guarded
<1>2. Spec => [][Behind]_vars
  <2> HIDE DEF Behind
  <2> QED
    BY <1>1, SteeredInvHolds, PTL DEF Spec
<1> QED
  BY <1>2 DEF AdvancesBehindRelays
=============================================================================
