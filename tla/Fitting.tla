------------------------------ MODULE Fitting ------------------------------
(***************************************************************************)
(* Placing requests on agents: the pool's view of its agents (agent.go),   *)
(* the search for agents that fit a request (fitting.go,                   *)
(* fitting_methods.go with the best-fit policy) and the round-robin        *)
(* scheduler (round_robin.go).  Everything here is a function of a pool    *)
(* record r with the fields                                                *)
(*   agents     agents known to the pool,                                  *)
(*   devices    devices offered for scheduling,                            *)
(*   holder     holder[d] is the container device d is assigned to, as a   *)
(*              set of at most one element (empty for nil),                *)
(*   zero       zero[a] is the set of zero-slot containers of agent a,     *)
(*   tasks      tasks in the task list,                                    *)
(*   allocated  tasks of the list that have allocations.                   *)
(* Agents and requests carry no labels here: every agent's label satisfies *)
(* every request.  Where the code breaks a tie by hashing IDs, or takes    *)
(* devices in map order, the result is the set of all possible choices.    *)
(***************************************************************************)
EXTENDS Integers, FiniteSets, Sequences, SequencesExt

CONSTANTS
    Agents,         \* agent actors; one that reconnects is a new one
    Devices,        \* devices of the agents
    AgentOf,        \* the agent each device belongs to
    Commands,       \* task actors that are commands
    Trials,         \* task actors that are trials
    SlotsNeeded,    \* slots each task asks for
    GroupOf,        \* the group of each task
    RegisteredTime, \* when each task's and each group's actor was registered, no two
                    \* tasks at once: the task list orders those by their IDs
    MaxZeroSlotContainers

Tasks == Commands \union Trials

Groups == {GroupOf[t] : t \in Tasks}

ASSUME FittingAssumption ==
    /\ IsFiniteSet(Agents) /\ IsFiniteSet(Devices) /\ IsFiniteSet(Tasks)
    /\ Commands \intersect Trials = {}
    /\ AgentOf \in [Devices -> Agents]
    /\ SlotsNeeded \in [Tasks -> Nat]
    /\ DOMAIN GroupOf = Tasks
    /\ RegisteredTime \in [Tasks \union Groups -> Nat]
    /\ \A t, u \in Tasks : RegisteredTime[t] = RegisteredTime[u] => t = u
    /\ MaxZeroSlotContainers \in Nat

-----------------------------------------------------------------------------
(* One agent, as the pool sees it. *)

DevicesOf(r, a) == {d \in r.devices : AgentOf[d] = a}

numSlots(r, a) == Cardinality(DevicesOf(r, a))

numUsedSlots(r, a) == Cardinality({d \in DevicesOf(r, a) : r.holder[d] # {}})

numEmptySlots(r, a) == numSlots(r, a) - numUsedSlots(r, a)

slotsSatisfied(r, n, a) == n <= numEmptySlots(r, a)

maxZeroSlotContainersSatisfied(r, n, a) ==
    n = 0 => Cardinality(r.zero[a]) < MaxZeroSlotContainers

\* BestFit scores 1 / (1 + x): the higher score has the smaller x.
BestFitDistance(r, n, a) ==
    IF numUsedSlots(r, a) # 0 \/ n # 0
    THEN numEmptySlots(r, a)
    ELSE MaxZeroSlotContainers - Cardinality(r.zero[a])

-----------------------------------------------------------------------------
(* A fit is a function from the chosen agents to the slots taken on each.  *)

\* All n slots on one agent, one of those with the best score.
findSharedAgentFit(r, n) ==
    LET viable == {a \in r.agents : slotsSatisfied(r, n, a)
                                    /\ maxZeroSlotContainersSatisfied(r, n, a)}
        best == {a \in viable : \A b \in viable :
                    BestFitDistance(r, n, a) <= BestFitDistance(r, n, b)}
    IN {[b \in {a} |-> n] : a \in best}

\* n slots spread evenly over unused agents of one size, the largest that
\* divides n and of which there are enough; each is taken as a whole.
findDedicatedAgentFits(r, n) ==
    LET unused(k) == {a \in r.agents : numUsedSlots(r, a) = 0 /\ numEmptySlots(r, a) = k}
        sizes == {k \in 1..n : n % k = 0 /\ Cardinality(unused(k)) * k >= n}
        k == Max(sizes)
    IN IF sizes = {}
       THEN {}
       ELSE {[a \in A |-> k] : A \in kSubset(n \div k, unused(k))}

\* Commands set SingleAgent, trials do not.
findFits(r, t) ==
    LET n == SlotsNeeded[t]
        shared == findSharedAgentFit(r, n)
    IN IF shared # {} \/ t \in Commands \/ n <= 1
       THEN shared
       ELSE findDedicatedAgentFits(r, n)

-----------------------------------------------------------------------------
(* The round-robin scheduler. *)

\* The requests that have no resources yet.
pendingReqs(r) == r.tasks \ r.allocated

\* Those of t's group, up to t in the order of the task list.
UpTo(r, t) ==
    {u \in pendingReqs(r) : GroupOf[u] = GroupOf[t] /\ RegisteredTime[u] <= RegisteredTime[t]}

activeSlots(r, g) ==
    MapThenSumSet(LAMBDA t : SlotsNeeded[t], {t \in r.allocated : GroupOf[t] = g})

GroupBefore(r, g, h) ==
    \/ activeSlots(r, g) < activeSlots(r, h)
    \/ activeSlots(r, g) = activeSlots(r, h) /\ RegisteredTime[g] < RegisteredTime[h]

\* In each round every group still in turn offers its next pending request; it
\* drops out at its first request that has no fit.  Fits are looked up in
\* the pool as it was before the tick.
Offers(r) == {t \in pendingReqs(r) : \A u \in UpTo(r, t) : findFits(r, u) # {}}

Round(r, t) == Cardinality(UpTo(r, t))

OfferedBefore(r, t, u) ==
    \/ Round(r, t) < Round(r, u)
    \/ Round(r, t) = Round(r, u) /\ GroupBefore(r, GroupOf[t], GroupOf[u])

\* The orders in which the requests may come: sort.Slice may leave groups
\* that compare equal in any order.
roundRobinSchedule(r) ==
    {order \in SetToSeqs(Offers(r)) :
        \A i, j \in DOMAIN order : i < j => ~OfferedBefore(r, order[j], order[i])}
=============================================================================
