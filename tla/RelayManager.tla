---------------------------- MODULE RelayManager ----------------------------
(***************************************************************************)
(* The dynamic relay manager (autonomy/relay_manager.py): the chains of    *)
(* relays it keeps for surveyors, and its step of one tick.                *)
(*                                                                         *)
(* `mgr` holds the dictionaries of the class:                              *)
(*   chains    chain of a task (chain ids are made from task ids)          *)
(*   chainOf   surveyor_to_chain          member   relay_to_chain          *)
(*   terminal  surveyor_to_relay          serves   relay_to_surveyor       *)
(*   station   relay_positions            users    relay_dependent_surv... *)
(*   singles   _pending_single_handoffs, by the incumbent                  *)
(* A key that is absent is mapped to None (or to no users).                *)
(*                                                                         *)
(* The loops of step are agendas: what a loop visits and does not skip, in *)
(* the order of the code.  The fleet does not change during the step; the  *)
(* commands collected in `batch` are applied after it.                     *)
(***************************************************************************)
EXTENDS RelayFleet

\* pending_handoffs of one station
Pending == [incumbent: UAVs \union {None}, replacement: UAVs]

\* the chain of a task has a station for each place before it
ChainFor(t) == [surveyor: UAVs, relays: [1..(t - 1) -> UAVs],
                status: {"FORMING", "ACTIVE", "HANDOFF", "DEGRADED"},
                pending: [1..(t - 1) -> Pending \union {None}]]

ASSUME NoneAssumption == None \notin Pending /\ \A t \in Tasks : None \notin ChainFor(t)

VARIABLES mgr,      \* the dictionaries of the manager
          stage,    \* the loop of the tick that is running
          agenda    \* what it has still to visit

NoChain == [t \in Tasks |-> None]
NoOne == [u \in UAVs |-> None]

ManagerInit ==
  mgr = [chains |-> NoChain, chainOf |-> NoOne, member |-> NoOne,
         terminal |-> NoOne, serves |-> NoOne, station |-> NoOne,
         users |-> [u \in UAVs |-> {}], singles |-> NoOne]

Live(m) == {t \in Tasks : m.chains[t] # None}
Stations(c) == DOMAIN c.relays

\* replacements under way in a chain
Replacements(c) == {c.pending[i].replacement :
                      i \in {j \in Stations(c) : c.pending[j] # None}}
Incumbents(c) == {c.pending[i].incumbent :
                    i \in {j \in Stations(c) : c.pending[j] # None}} \ {None}
Singled(m) == {u \in UAVs : m.singles[u] # None}

InPendingHandoff(m, u) ==
  \/ \E t \in Live(m) : u \in Replacements(m.chains[t])
                              \union Incumbents(m.chains[t])
  \/ \E inc \in Singled(m) : u \in {inc, m.singles[inc].replacement}

Reserved(m) ==
  LET teams == UNION {{m.chains[t].surveyor} \union Range(m.chains[t].relays) :
                        t \in Live(m)}
      linked == {s \in UAVs : m.terminal[s] # None}
  IN  teams \union {u \in UAVs : InPendingHandoff(m, u)}
            \union linked \union {m.terminal[s] : s \in linked}

(***************************************************************************)
(* Choosing a relay.  Links have the same quality, a step costs ten        *)
(* points, and a battery that has been used ranks ten points lower.        *)
(***************************************************************************)
\* mutant of Eligible: a vehicle that serves a task may be called away
MutEligible(m, u, place) ==
  /\ Fit(u) /\ ~fleet[u].failed
  /\ m.station[u] \in {None, place}

Eligible(m, u, place) ==
  /\ Fit(u) /\ ~fleet[u].failed
  /\ fleet[u].task = None
  /\ m.station[u] \in {None, place}

Score(u, place) ==
  LET here == fleet[u].at = place
      hops == IF fleet[u].at = 0 THEN 1 ELSE fleet[u].at
  IN  (IF here THEN 250 ELSE 0)
      + (CASE fleet[u].role = "IDLE"     -> 100
           [] fleet[u].role = "SURVEYOR" -> 80
           [] fleet[u].role = "RELAY"    -> IF here THEN 50 ELSE 10)
      + (IF Connected(u) THEN 75 - 5 * hops ELSE 0)
      + (IF fleet[u].condition = "ready" THEN 20 ELSE 10)
      - 10 * Gap(fleet[u].at, place)

\* select_relay_candidate
Select(m, place, excluded) ==
  LET pool == {u \in UAVs \ excluded : Eligible(m, u, place)}
  IN  IF pool = {} THEN None
      ELSE CHOOSE u \in pool : \A v \in pool :
             \/ Score(u, place) > Score(v, place)
             \/ Score(u, place) = Score(v, place) /\ u <= v

\* mutant of Team: a vehicle may be chosen for several stations
MutTeam(m, s, n, excluded) ==
  LET team == [k \in 1..n |-> Select(m, k, excluded \union {s})]
  IN  IF None \in Range(team) THEN None ELSE team

\* select_relay_chain_candidates: the stations in turn, all of them or none
Team(m, s, n, excluded) ==
  LET team[k \in 0..n] ==
        IF k = 0 THEN <<>>
        ELSE LET chosen == team[k - 1]
             IN  Append(chosen, Select(m, k, excluded \union {s} \union Range(chosen)))
  IN  IF None \in Range(team[n]) THEN None ELSE team[n]

(***************************************************************************)
(* Bookkeeping.                                                            *)
(***************************************************************************)
\* relay u takes station i of the chain of task t, in all dictionaries but users
Attach(m, t, i, u) ==
  LET s == m.chains[t].surveyor
  IN  [m EXCEPT !.chains[t].relays[i] = u, !.member[u] = t, !.serves[u] = s,
                !.station[u] = i,
                !.terminal[s] = IF i = Len(m.chains[t].relays) THEN u ELSE @]

Detach(m, u) == IF u = None THEN m
                ELSE [m EXCEPT !.member[u] = None, !.serves[u] = None,
                               !.station[u] = None]

Await(m, t, i, inc, rep) ==
  [m EXCEPT !.chains[t].pending[i] = [incumbent |-> inc, replacement |-> rep],
            !.chains[t].status = "HANDOFF", !.station[rep] = i]

Settled(m, t, i) == [m EXCEPT !.chains[t].pending[i] = None]
Marked(m, t, status) == [m EXCEPT !.chains[t].status = status]

\* register_chain
Register(m, t, s, team) ==
  LET old == m.chains[t]
      gone == IF old = None THEN {} ELSE {old.surveyor} \ {s}
      place(u) == CHOOSE i \in DOMAIN team : team[i] = u
      inTeam(u) == u \in Range(team)
  IN  [m EXCEPT
        !.chains[t] = [surveyor |-> s, relays |-> team, status |-> "FORMING",
                       pending |-> [i \in DOMAIN team |-> None]],
        !.chainOf = [u \in UAVs |-> IF u = s THEN t
                                    ELSE IF u \in gone THEN None ELSE @[u]],
        !.terminal = [u \in UAVs |-> IF u = s THEN Last(team)
                                     ELSE IF u \in gone THEN None ELSE @[u]],
        !.member = [u \in UAVs |-> IF inTeam(u) THEN t ELSE @[u]],
        !.serves = [u \in UAVs |-> IF inTeam(u) THEN s ELSE @[u]],
        !.station = [u \in UAVs |-> IF inTeam(u) THEN place(u) ELSE @[u]],
        !.users = [u \in UAVs |->
                     (IF old # None /\ u \in Range(old.relays) THEN @[u] \ gone
                      ELSE @[u]) \union (IF inTeam(u) THEN {s} ELSE {})]]

(***************************************************************************)
(* teardown_chain.  Relays and replacements nobody else uses are released  *)
(* and sent back to the holding area; the others serve their next user,    *)
(* the first of a set, which may be any.                                   *)
(***************************************************************************)
Leaving(m, t) == {m.chains[t].surveyor} \union {s \in UAVs : m.chainOf[s] = t}

Freed(m, t) == {u \in Range(m.chains[t].relays) \union Replacements(m.chains[t]) :
                  m.users[u] \subseteq Leaving(m, t)}

Shared(m, t) == Range(m.chains[t].relays) \ Freed(m, t)

\* whom the shared relays may serve next
Heirs(m, t) == {heir \in [Shared(m, t) -> UAVs] :
                  \A u \in Shared(m, t) : heir[u] \in m.users[u] \ Leaving(m, t)}

Inherited(m, t, heir) ==
  LET leaving == Leaving(m, t)
      freed   == Freed(m, t)
      shared  == Shared(m, t)
  IN  [m EXCEPT
        !.chains[t] = None,
        !.chainOf = [u \in UAVs |-> IF u \in leaving THEN None ELSE @[u]],
        !.terminal = [u \in UAVs |-> IF u \in leaving THEN None ELSE @[u]],
        !.users = [u \in UAVs |->
                     IF u \in freed THEN {}
                     ELSE IF u \in Range(m.chains[t].relays)
                                     \union Replacements(m.chains[t])
                     THEN @[u] \ leaving ELSE @[u]],
        !.station = [u \in UAVs |-> IF u \in freed THEN None ELSE @[u]],
        !.serves = [u \in UAVs |-> IF u \in freed THEN None
                                   ELSE IF u \in shared THEN heir[u] ELSE @[u]],
        !.member = [u \in UAVs |-> IF u \in freed THEN None
                      ELSE IF u \in shared /\ m.chainOf[heir[u]] # None
                      THEN m.chainOf[heir[u]] ELSE @[u]]]

Teardown(m, t) == {Inherited(m, t, heir) : heir \in Heirs(m, t)}

TeardownCommands(m, t) ==
  FlattenSeq([i \in DOMAIN SetToSeq(Freed(m, t)) |->
                LET u == SetToSeq(Freed(m, t))[i] IN Release(u) \o SetTarget(u, 0)])

(***************************************************************************)
(* 0. The chains: their surveyors, then station by station.                *)
(***************************************************************************)
SurveyorGone(t) == LET s == mgr.chains[t].surveyor
                   IN  ~OnMission(s) \/ fleet[s].task = None

NeedsCare(t, i) ==
  LET c == mgr.chains[t]
  IN  IF i = 0 THEN SurveyorGone(t)
      ELSE \/ c.pending[i] # None
           \/ ~OnMission(c.relays[i]) \/ fleet[c.relays[i]].condition = "weary"

ChainVisits(t) == {i \in 0..Len(mgr.chains[t].relays) : NeedsCare(t, i)}

\* a visit of chains is a chain's turn, its task and a station
Precedes(x, y) == IF stage # "chains" THEN x <= y
                  ELSE x[1] < y[1] \/ (x[1] = y[1] /\ x[3] <= y[3])

\* whose turn it is
Turn == CHOOSE x \in agenda : \A y \in agenda : Precedes(x, y)
Rest == agenda' = agenda \ {Turn}

AbandonChain ==
  /\ stage = "chains" /\ Turn[3] = 0
  /\ LET t == Turn[2] IN
       /\ mgr' \in Teardown(mgr, t)
       /\ Send(TeardownCommands(mgr, t))
       /\ agenda' = {v \in agenda : v[2] # t}

\* _verify_replacement_connectivity
Verified(t, i, rep) ==
  LET c == mgr.chains[t] IN
  /\ IF i = 1 THEN fleet[rep].at <= 1 ELSE Linked(rep, c.relays[i - 1])
  /\ Linked(rep, IF i = Len(c.relays) THEN c.surveyor ELSE c.relays[i + 1])

Swap(m, t, i, inc, rep) == Detach(Attach(m, t, i, rep), inc)

SendHome(u) == IF Grounded(u) THEN Release(u) ELSE Release(u) \o StartRTH(u)

SwapCommands(inc, rep, place, s) ==
  IF inc = None THEN Handoff(rep, rep, place, s)
  ELSE Handoff(inc, rep, place, s) \o SendHome(inc)

AtStation == /\ stage = "chains" /\ Turn[3] > 0
             /\ Rest

\* the replacement under way to a station fails or returns
ReplacementLost ==
  /\ AtStation
  /\ LET t == Turn[2]  i == Turn[3]
         c == mgr.chains[t]    p == c.pending[i]
     IN  /\ p # None /\ ~OnMission(p.replacement)
         /\ LET m1  == [Settled(mgr, t, i) EXCEPT !.station[p.replacement] = None]
                new == IF p.incumbent # None /\ Active(p.incumbent)
                         THEN Select(m1, i, Reserved(m1)) ELSE None
            IN  /\ mgr' = IF new = None THEN Marked(m1, t, "DEGRADED")
                          ELSE Await(m1, t, i, p.incumbent, new)
                /\ Send((IF Active(p.replacement) /\ fleet[p.replacement].role = "RELAY"
                           THEN Release(p.replacement) ELSE <<>>)
                        \o (IF new = None THEN <<>> ELSE Dispatch(new, i, c.surveyor)))

\* an incumbent that failed or landed meanwhile leaves the books
Written(m, t, i) ==
  LET inc == m.chains[t].pending[i].incumbent
  IN  IF inc = None \/ Active(inc) THEN m
      ELSE [Marked(Detach(m, inc), t, "DEGRADED")
              EXCEPT !.chains[t].pending[i].incumbent = None]

ReplacementUnderway ==
  /\ AtStation
  /\ LET t == Turn[2]  i == Turn[3]
         p == mgr.chains[t].pending[i]
     IN  /\ p # None /\ OnMission(p.replacement)
         /\ ~(fleet[p.replacement].at = i /\ Verified(t, i, p.replacement))
         /\ mgr' = Marked(Written(mgr, t, i), t, "HANDOFF")
  /\ UNCHANGED batch

ReplacementArrives ==
  /\ AtStation
  /\ LET t == Turn[2]  i == Turn[3]
         p == mgr.chains[t].pending[i]
     IN  /\ p # None /\ OnMission(p.replacement)
         /\ fleet[p.replacement].at = i /\ Verified(t, i, p.replacement)
         /\ LET m1  == Written(mgr, t, i)
                inc == m1.chains[t].pending[i].incumbent
                m2  == Settled(Swap(m1, t, i, inc, p.replacement), t, i)
                c   == m2.chains[t]
            IN  /\ mgr' = IF c.status = "DEGRADED" \/ Replacements(c) # {} THEN m2
                          ELSE Marked(m2, t, "ACTIVE")
                /\ Send(SwapCommands(inc, p.replacement, i, c.surveyor))

\* condition A: the relay of the station failed or landed
RelayLost ==
  /\ AtStation
  /\ LET t == Turn[2]  i == Turn[3]
         c == mgr.chains[t]
         new == Select(mgr, i, Reserved(mgr))
     IN  /\ c.pending[i] = None /\ ~Active(c.relays[i])
         /\ IF new = None
              THEN mgr' = Marked(mgr, t, "DEGRADED") /\ UNCHANGED batch
              ELSE /\ mgr' = Swap(mgr, t, i, c.relays[i], new)
                   /\ Send(Dispatch(new, i, c.surveyor))

\* condition B: the relay is on its way home, or soon will be
RelayTires ==
  /\ AtStation
  /\ LET t == Turn[2]  i == Turn[3]
         c == mgr.chains[t]
         new == Select(mgr, i, Reserved(mgr))
     IN  /\ c.pending[i] = None /\ Active(c.relays[i])
         /\ \/ /\ new = None
               /\ mgr' = Marked(mgr, t, "DEGRADED") /\ UNCHANGED batch
            \/ /\ new # None /\ fleet[new].at = i /\ Verified(t, i, new)
               /\ mgr' = Swap(mgr, t, i, c.relays[i], new)
               /\ Send(SwapCommands(c.relays[i], new, i, c.surveyor))
            \/ /\ new # None /\ ~(fleet[new].at = i /\ Verified(t, i, new))
               /\ mgr' = Await(mgr, t, i, c.relays[i], new)
               /\ Send(Dispatch(new, i, c.surveyor))

(***************************************************************************)
(* 1. Single relays, which belong to no chain: handoffs under way, then    *)
(* the relays themselves.                                                  *)
(***************************************************************************)
SingleVisits ==
  {inc \in Singled(mgr) : LET h == mgr.singles[inc] IN
     ~OnMission(h.replacement) \/ fleet[h.replacement].at = h.place}

\* relay u serves surveyor s at a place, outside any chain
Appoint(m, u, place, s) ==
  [m EXCEPT !.terminal[s] = u, !.serves[u] = s, !.station[u] = place]

Retire(m, u) == [m EXCEPT !.serves[u] = None, !.station[u] = None]

SingleHandoff ==
  /\ stage = "singles"
  /\ Rest
  /\ LET inc == Turn
         h   == mgr.singles[inc]
         m1  == [mgr EXCEPT !.singles[inc] = None]
     IN  IF OnMission(h.replacement)
           THEN /\ mgr' = Retire(Appoint(m1, h.replacement, h.place, h.surveyor), inc)
                /\ Send(SwapCommands(inc, h.replacement, h.place, h.surveyor))
           ELSE /\ mgr' = [m1 EXCEPT !.station[h.replacement] = None]
                /\ Send(IF Active(h.replacement) /\ fleet[h.replacement].role = "RELAY"
                          THEN Release(h.replacement) ELSE <<>>)

Unchained(u) == mgr.member[u] = None /\ ~InPendingHandoff(mgr, u)

RelayVisits == {u \in UAVs : /\ fleet[u].role = "RELAY" /\ Unchained(u)
                             /\ ~OnMission(u) \/ fleet[u].condition = "weary"}

OrElse(x, y) == IF x # None THEN x ELSE y
Beneficiary(u) == OrElse(mgr.serves[u], fleet[u].relayFor)
Post(u) == OrElse(mgr.station[u], OrElse(fleet[u].to, fleet[u].at))

SingleRelayLost ==
  /\ stage = "relays" /\ ~Active(Turn)
  /\ Rest
  /\ LET u == Turn  s == Beneficiary(u)
         new == IF s = None THEN None ELSE Select(mgr, Post(u), {u, s})
     IN  IF new = None
           THEN mgr' = Retire(mgr, u) /\ UNCHANGED batch
           ELSE /\ mgr' = Retire(Appoint(mgr, new, Post(u), s), u)
                /\ Send(Dispatch(new, Post(u), s))

SingleRelayTires ==
  /\ stage = "relays" /\ Active(Turn)
  /\ Rest
  /\ LET u == Turn  s == Beneficiary(u)
         place == Post(u)
         new == Select(mgr, place, Reserved(mgr) \union {s})
     IN  IF s = None \/ mgr.terminal[s] # u \/ mgr.singles[u] # None \/ new = None
           THEN UNCHANGED <<mgr, batch>>
         ELSE IF fleet[new].at = place
           THEN /\ mgr' = Retire(Appoint(mgr, new, place, s), u)
                /\ Send(SwapCommands(u, new, place, s))
         ELSE /\ mgr' = [mgr EXCEPT !.station[new] = place,
                   !.singles[u] = [replacement |-> new, place |-> place, surveyor |-> s]]
              /\ Send(Dispatch(new, place, s))

(***************************************************************************)
(* 2. A surveyor out of contact gets a relay half-way; 3. a relay whose    *)
(* surveyor left is released.                                              *)
(***************************************************************************)
StrandedSurveyors ==
  {s \in UAVs : /\ OnMission(s) /\ fleet[s].role = "SURVEYOR"
                /\ mgr.chainOf[s] = None
                /\ fleet[s].at > 1 /\ ~Connected(s)
                /\ mgr.terminal[s] = None}

SupportSurveyor ==
  /\ stage = "surveyors"
  /\ Rest
  /\ LET s == Turn
         new == Select(mgr, 1, {s})
     IN  IF new = None THEN UNCHANGED <<mgr, batch>>
         ELSE /\ mgr' = Appoint(mgr, new, 1, s)
              /\ Send(Dispatch(new, 1, s))

IdleRelays == {u \in UAVs : mgr.serves[u] # None /\ ~OnMission(mgr.serves[u])}

ReleaseIdleRelay ==
  /\ stage = "idle"
  /\ Rest
  /\ LET u == Turn  s == mgr.serves[u]
         others == mgr.users[u] \ {s}
     IN  IF others # {}
           THEN /\ \E o \in others :
                     mgr' = [mgr EXCEPT !.users[u] = others, !.serves[u] = o]
                /\ UNCHANGED batch
           ELSE /\ mgr' = [Retire(mgr, u) EXCEPT !.users[u] = {}, !.terminal[s] = None]
                /\ Send(IF fleet[u].role = "RELAY" THEN ReleaseAsSurveyor(u) ELSE <<>>)

StepRelays ==
  /\ agenda # {}
  /\ \/ AbandonChain      \/ ReplacementLost  \/ ReplacementUnderway
     \/ ReplacementArrives \/ RelayLost        \/ RelayTires
     \/ SingleHandoff     \/ SingleRelayLost  \/ SingleRelayTires
     \/ SupportSurveyor   \/ ReleaseIdleRelay
  /\ UNCHANGED <<fleet, task, stage>>

=============================================================================
