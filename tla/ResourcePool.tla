---------------------------- MODULE ResourcePool ----------------------------
(***************************************************************************)
(* A resource pool (master/internal/resourcemanagers/resource_pool.go),    *)
(* the agent and slot actors that report to it (master/internal/agent) and *)
(* the task actors it serves: commands (internal/command/command.go) and,  *)
(* reduced to the one run and the messages that concern the pool, trials   *)
(* (internal/trial.go; module Trial has the rest).                         *)
(*                                                                         *)
(* Every actor handles one message of its own inbox at a time; a message   *)
(* to an actor that has closed is dropped.  The "slots" actor between an   *)
(* agent and its slots, and the resource manager between a task and the    *)
(* pool, only pass messages on in order and are left out.  Requests of     *)
(* users (to kill a task, to enable or disable a slot) are handled         *)
(* directly: one handled now was ahead of everything else in the inbox.    *)
(*                                                                         *)
(* A container is [task, agent, devices]: a task is allocated at most once *)
(* and gets at most one container per agent, so the record stands for the  *)
(* container's ID.                                                         *)
(***************************************************************************)
EXTENDS Fitting

CONSTANTS
    MaxFailures,    \* bound: agents that lose their connection
    MaxToggles,     \* bound: requests to enable or disable a slot
    MaxKills        \* bound: requests to kill a task

ASSUME PoolAssumption == {MaxFailures, MaxToggles, MaxKills} \subseteq Nat

VARIABLES
    rp,         \* the pool: the fields of Fitting, up and reschedule
    agent,      \* agent actors: phase, slotsUp and the containers they know
    slot,       \* slot actors: phase, userEnabled, deviceAdded, container
    host,       \* containers live on the agents' machines, killed and ended ones
    task,       \* task actors: phase, their allocations, those that ended
    poolBox, agentBox, slotBox, taskBox,    \* inboxes
    used        \* how much of each bound is used

vars == <<rp, agent, slot, host, task, poolBox, agentBox, slotBox, taskBox, used>>

Containers == [task : Tasks, agent : Agents, devices : SUBSET Devices]

SlotsOf(a) == {d \in Devices : AgentOf[d] = a}

-----------------------------------------------------------------------------
(* Sending.  Each of these gives the new value of an inbox. *)

ToPool(msgs) == IF rp.up THEN poolBox \o msgs ELSE <<>>

\* One message of the given kind about each container of C, to its agent.
ToAgents(kind, C) ==
    [a \in Agents |->
        agentBox[a] \o SetToSeq({[kind |-> kind, c |-> c] : c \in
            {c \in C : c.agent = a /\ agent[a].phase = "connected"}})]

\* The message m to the slots of D that are alive.
ToSlots(D, m) ==
    [d \in Devices |-> IF d \in D /\ slot[d].phase \in {"starting", "up"}
                       THEN Append(slotBox[d], m) ELSE slotBox[d]]

ToTasks(kind, C) ==
    [t \in Tasks |->
        taskBox[t] \o SetToSeq({[kind |-> kind, c |-> c] : c \in
            {c \in C : c.task = t /\ task[t].phase # "stopped"}})]

-----------------------------------------------------------------------------
(* The pool.  Every message it handles but the tick asks for scheduling.   *)

Received(kind) == rp.up /\ poolBox # <<>> /\ Head(poolBox).kind = kind

Handled(r) ==
    /\ rp' = [r EXCEPT !.reschedule = TRUE]
    /\ poolBox' = Tail(poolBox)
    /\ UNCHANGED <<agent, slot, host, task, agentBox, slotBox, taskBox, used>>

\* A failed check.Panic closes the actor and its inbox.
Panicked ==
    /\ rp' = [rp EXCEPT !.up = FALSE]
    /\ poolBox' = <<>>
    /\ UNCHANGED <<agent, slot, host, task, agentBox, slotBox, taskBox, used>>

AddAgent == /\ Received("AddAgent")
            /\ Handled([rp EXCEPT !.agents = @ \union {Head(poolBox).agent},
                                  !.zero[Head(poolBox).agent] = {}])

\* A mutant of AddDevice: an idle device does not ask for scheduling.
AddDeviceQuietly ==
    /\ Received("AddDevice")
    /\ rp' = [rp EXCEPT !.devices = @ \union {Head(poolBox).device},
                        !.holder[Head(poolBox).device] = Head(poolBox).container]
    /\ poolBox' = Tail(poolBox)
    /\ UNCHANGED <<agent, slot, host, task, agentBox, slotBox, taskBox, used>>

AddDevice ==
    /\ Received("AddDevice")
    /\ LET m == Head(poolBox)
       IN IF AgentOf[m.device] \in rp.agents
          THEN Handled([rp EXCEPT !.devices = @ \union {m.device},
                                  !.holder[m.device] = m.container])
          ELSE Panicked

\* A mutant of FreeDevice: it does not ask for scheduling.
FreeDeviceQuietly ==
    /\ Received("FreeDevice")
    /\ rp' = [rp EXCEPT !.holder[Head(poolBox).device] = {}]
    /\ poolBox' = Tail(poolBox)
    /\ UNCHANGED <<agent, slot, host, task, agentBox, slotBox, taskBox, used>>

\* The container of the message is not compared with the device's.
FreeDevice ==
    /\ Received("FreeDevice")
    /\ LET d == Head(poolBox).device
       IN IF /\ AgentOf[d] \in rp.agents
             /\ d \in rp.devices
             /\ rp.holder[d] # {}
          THEN Handled([rp EXCEPT !.holder[d] = {}])
          ELSE Panicked

FreeZeroSlot ==
    /\ Received("FreeZeroSlot")
    /\ LET c == Head(poolBox).c
       IN IF c.agent \in rp.agents
          THEN Handled([rp EXCEPT !.zero[c.agent] = @ \ {c}])
          ELSE Panicked

RemoveDevice ==
    /\ Received("RemoveDevice")
    /\ LET d == Head(poolBox).device
       IN IF AgentOf[d] \in rp.agents
          THEN Handled([rp EXCEPT !.devices = @ \ {d}, !.holder[d] = {}])
          ELSE Panicked

\* Deleting an agent's state deletes its devices.
RemoveAgent ==
    /\ Received("RemoveAgent")
    /\ LET a == Head(poolBox).agent
       IN Handled([rp EXCEPT !.agents = @ \ {a},
                             !.devices = @ \ SlotsOf(a),
                             !.holder = [d \in Devices |->
                                IF d \in SlotsOf(a) THEN {} ELSE @[d]],
                             !.zero[a] = {}])

addTask ==
    /\ Received("AllocateRequest")
    /\ Handled([rp EXCEPT !.tasks = @ \union {Head(poolBox).task}])

\* Mutants of resourcesReleased: one forgets to delete the allocations, the
\* other takes the devices back from containers that may still run.
ReleasedKeepsAllocations ==
    /\ Received("ResourcesReleased")
    /\ Handled([rp EXCEPT !.tasks = @ \ {Head(poolBox).task}])

ReleasedFreesDevices ==
    /\ Received("ResourcesReleased")
    /\ LET t == Head(poolBox).task
       IN Handled([rp EXCEPT !.tasks = @ \ {t}, !.allocated = @ \ {t},
                             !.holder = [d \in Devices |-> {c \in @[d] : c.task # t}]])

\* Removes the request; the devices stay with their containers.
resourcesReleased ==
    /\ Received("ResourcesReleased")
    /\ LET t == Head(poolBox).task
       IN Handled([rp EXCEPT !.tasks = @ \ {t}, !.allocated = @ \ {t}])

\* allocateFreeDevices takes any free devices of the agent.
FreeDevicesOf(r, a) == {d \in DevicesOf(r, a) : r.holder[d] = {}}

\* The sets of containers that fit, one for each of its agents, can become.
given(r, t, fit) ==
    {C \in SUBSET UNION {{[task |-> t, agent |-> a, devices |-> D] :
                            D \in kSubset(fit[a], FreeDevicesOf(r, a))}
                         : a \in DOMAIN fit} :
        /\ Cardinality(C) = Cardinality(DOMAIN fit)
        /\ {c.agent : c \in C} = DOMAIN fit}

\* The pool after the containers of C have been given to request t.
WithAllocations(r, t, C) ==
    [r EXCEPT !.holder = [d \in Devices |->
                LET on == {c \in C : d \in c.devices}
                IN IF on = {} THEN r.holder[d] ELSE on],
              !.zero = [a \in Agents |->
                r.zero[a] \union {c \in C : c.agent = a /\ c.devices = {}}],
              !.allocated = @ \union {t}]

\* What allocating request t may lead to: s has the pool and the containers
\* given out so far in the tick; s itself if t has no fit any more.
allocateResources(s, t) ==
    LET fits == findFits(s.pool, t)
    IN IF fits = {}
       THEN {s}
       ELSE {[pool |-> WithAllocations(s.pool, t, C), out |-> s.out \union C] :
                C \in UNION {given(s.pool, t, fit) : fit \in fits}}

\* The requests of an order are allocated one after the other: what the first
\* i of them may lead to.
Allocating(order) ==
    LET after[i \in 0..Len(order)] ==
            IF i = 0 THEN {[pool |-> rp, out |-> {}]}
            ELSE UNION {allocateResources(s, order[i]) : s \in after[i - 1]}
    IN after

schedulerTick ==
    /\ rp.up /\ rp.reschedule
    /\ \E order \in roundRobinSchedule(rp) : \E s \in Allocating(order)[Len(order)] :
        /\ rp' = [s.pool EXCEPT !.reschedule = FALSE]
        /\ taskBox' = [t \in Tasks |->
            LET C == {c \in s.out : c.task = t}
            IN IF C = {} \/ task[t].phase = "stopped"
               THEN taskBox[t]
               ELSE Append(taskBox[t], [kind |-> "ResourcesAllocated", cs |-> C])]
    /\ UNCHANGED <<agent, slot, host, task, poolBox, agentBox, slotBox, used>>

-----------------------------------------------------------------------------
(* Slots.  The patch of a slot's fields tells the pool when the device     *)
(* starts or stops being offered, and kills the container when it stops.   *)

\* x is the slot of d with its new fields, on whether it is Enabled.
patch(d, x, on) ==
    LET adds == on /\ ~x.deviceAdded
        removes == ~on /\ x.deviceAdded
    IN /\ slot' = [slot EXCEPT ![d] = [x EXCEPT !.deviceAdded = on]]
       /\ poolBox' = ToPool(
            IF adds THEN <<[kind |-> "AddDevice", device |-> d, container |-> x.container]>>
            ELSE IF removes THEN <<[kind |-> "RemoveDevice", device |-> d]>>
            ELSE <<>>)
       /\ agentBox' = ToAgents("KillTaskContainer", IF removes THEN x.container ELSE {})

SlotPreStart(d) ==
    /\ slot[d].phase = "starting"
    /\ patch(d, [slot[d] EXCEPT !.phase = "up"], TRUE)
    /\ UNCHANGED <<rp, agent, host, task, slotBox, taskBox, used>>

\* A user enables or disables the slot.
PatchSlot(d, enabled) ==
    /\ slot[d].phase = "up" /\ used.toggles < MaxToggles
    /\ patch(d, [slot[d] EXCEPT !.userEnabled = enabled], enabled)
    /\ used' = [used EXCEPT !.toggles = @ + 1]
    /\ UNCHANGED <<rp, agent, host, task, slotBox, taskBox>>

\* The actor closes, on a stop or a panic: PostStop disables the slot.
SlotCloses(d) ==
    /\ patch(d, [slot[d] EXCEPT !.phase = "gone"], FALSE)
    /\ slotBox' = [slotBox EXCEPT ![d] = <<>>]

SlotReceived(d, kind) ==
    slot[d].phase = "up" /\ slotBox[d] # <<>> /\ Head(slotBox[d]).kind = kind

SlotStop(d) ==
    /\ SlotReceived(d, "Stop")
    /\ SlotCloses(d)
    /\ UNCHANGED <<rp, agent, host, task, taskBox, used>>

\* The slot must be enabled and have no container; otherwise it panics.
SlotStartContainer(d) ==
    /\ SlotReceived(d, "StartContainer")
    /\ IF slot[d].userEnabled /\ slot[d].container = {}
       THEN /\ slot' = [slot EXCEPT ![d].container = {Head(slotBox[d]).c}]
            /\ slotBox' = [slotBox EXCEPT ![d] = Tail(@)]
            /\ UNCHANGED <<poolBox, agentBox>>
       ELSE SlotCloses(d)
    /\ UNCHANGED <<rp, agent, host, task, taskBox, used>>

\* A mutant of SlotContainerTerminated: it does not tell the pool.
SlotForgetsFreeDevice(d) ==
    /\ SlotReceived(d, "Terminated")
    /\ slot' = [slot EXCEPT ![d].container = {}]
    /\ slotBox' = [slotBox EXCEPT ![d] = Tail(@)]
    /\ UNCHANGED <<rp, agent, host, task, poolBox, agentBox, taskBox, used>>

\* A terminated container frees the device, unless the slot is disabled.
SlotContainerTerminated(d) ==
    /\ SlotReceived(d, "Terminated")
    /\ IF slot[d].container = {Head(slotBox[d]).c}
       THEN /\ slot' = [slot EXCEPT ![d].container = {}]
            /\ slotBox' = [slotBox EXCEPT ![d] = Tail(@)]
            /\ poolBox' = ToPool(IF slot[d].userEnabled
                                 THEN <<[kind |-> "FreeDevice", device |-> d]>> ELSE <<>>)
            /\ UNCHANGED agentBox
       ELSE SlotCloses(d)
    /\ UNCHANGED <<rp, agent, host, task, taskBox, used>>

-----------------------------------------------------------------------------
(* Agents. *)

AgentReceived(a, kind) ==
    agent[a].phase = "connected" /\ agentBox[a] # <<>> /\ Head(agentBox[a]).kind = kind

AgentStarted(a) ==
    /\ agent[a].phase = "absent"
    /\ agent' = [agent EXCEPT ![a].phase = "connected", ![a].slotsUp = TRUE]
    /\ slot' = [d \in Devices |-> IF d \in SlotsOf(a)
                                  THEN [slot[d] EXCEPT !.phase = "starting"] ELSE slot[d]]
    /\ poolBox' = ToPool(<<[kind |-> "AddAgent", agent |-> a]>>)
    /\ UNCHANGED <<rp, host, task, agentBox, slotBox, taskBox, used>>

\* sendToSlots: a slot that is gone makes the slots actor panic, which stops
\* the other slots; a slots actor that is gone drops the message.
sendToSlots(a, C, m) ==
    LET dies == \E d \in m.c.devices : slot[d].phase = "gone"
    IN /\ slotBox' = IF ~agent[a].slotsUp THEN slotBox
                     ELSE IF dies THEN ToSlots(SlotsOf(a), [kind |-> "Stop"])
                     ELSE ToSlots(m.c.devices, m)
       /\ agent' = [agent EXCEPT ![a].containers = C, ![a].slotsUp = @ /\ ~dies]

StartTaskContainer(a) ==
    /\ AgentReceived(a, "StartTaskContainer")
    /\ LET c == Head(agentBox[a]).c
       IN /\ host' = [host EXCEPT !.live = @ \union {c}]
          /\ sendToSlots(a, agent[a].containers \union {c},
                         [kind |-> "StartContainer", c |-> c])
    /\ agentBox' = [agentBox EXCEPT ![a] = Tail(@)]
    /\ UNCHANGED <<rp, slot, task, poolBox, taskBox, used>>

\* The signal is ignored by a machine that does not have the container.
KillTaskContainer(a) ==
    /\ AgentReceived(a, "KillTaskContainer")
    /\ host' = [host EXCEPT !.killed = @ \union ({Head(agentBox[a]).c} \intersect host.live)]
    /\ agentBox' = [agentBox EXCEPT ![a] = Tail(@)]
    /\ UNCHANGED <<rp, agent, slot, task, poolBox, slotBox, taskBox, used>>

\* The container's process ends and its machine reports it.
ContainerEnds(c) ==
    /\ host' = [host EXCEPT !.live = @ \ {c}, !.killed = @ \ {c}, !.ended = @ \union {c}]
    /\ agentBox' = [agentBox EXCEPT ![c.agent] = Append(@, [kind |-> "Terminated", c |-> c])]
    /\ UNCHANGED <<rp, agent, slot, task, poolBox, slotBox, taskBox, used>>

ContainerKilled(c) == c \in host.killed /\ ContainerEnds(c)

ContainerExits(c) == c \in host.live \ host.killed /\ ContainerEnds(c)

\* The task is told, then the slots; a container without devices is freed
\* by the slots actor itself.
containerStateChanged(a) ==
    /\ AgentReceived(a, "Terminated")
    /\ LET c == Head(agentBox[a]).c
       IN /\ c \in agent[a].containers
          /\ taskBox' = ToTasks("Terminated", {c})
          /\ sendToSlots(a, agent[a].containers \ {c}, [kind |-> "Terminated", c |-> c])
          /\ poolBox' = ToPool(IF c.devices = {} /\ agent[a].slotsUp
                               THEN <<[kind |-> "FreeZeroSlot", c |-> c]>> ELSE <<>>)
    /\ agentBox' = [agentBox EXCEPT ![a] = Tail(@)]
    /\ UNCHANGED <<rp, slot, host, task, used>>

\* The websocket or the slots actor failed: the agent closes its inbox and
\* stops its slots.  Its machine's containers are out of reach.
AgentFails(a) ==
    /\ agent[a].phase = "connected"
    /\ \/ ~agent[a].slotsUp /\ UNCHANGED used
       \/ used.failures < MaxFailures /\ used' = [used EXCEPT !.failures = @ + 1]
    /\ agent' = [agent EXCEPT ![a].phase = "closing", ![a].slotsUp = FALSE]
    /\ agentBox' = [agentBox EXCEPT ![a] = <<>>]
    /\ slotBox' = IF agent[a].slotsUp THEN ToSlots(SlotsOf(a), [kind |-> "Stop"]) ELSE slotBox
    /\ LET lost == {c \in host.live : c.agent = a}
       IN host' = [host EXCEPT !.live = @ \ lost, !.killed = @ \ lost, !.ended = @ \union lost]
    /\ UNCHANGED <<rp, slot, task, poolBox, taskBox>>

\* A mutant of AgentPostStop: it does not wait for the slots to stop.
AgentPostStopAtOnce(a) ==
    /\ agent[a].phase = "closing"
    /\ agent' = [agent EXCEPT ![a].phase = "gone", ![a].containers = {}]
    /\ taskBox' = ToTasks("Terminated", agent[a].containers)
    /\ poolBox' = ToPool(<<[kind |-> "RemoveAgent", agent |-> a]>>)
    /\ UNCHANGED <<rp, slot, host, task, agentBox, slotBox, used>>

\* The children have stopped: every container the agent knows has failed.
AgentPostStop(a) ==
    /\ agent[a].phase = "closing"
    /\ \A d \in SlotsOf(a) : slot[d].phase = "gone"
    /\ agent' = [agent EXCEPT ![a].phase = "gone", ![a].containers = {}]
    /\ taskBox' = ToTasks("Terminated", agent[a].containers)
    /\ poolBox' = ToPool(<<[kind |-> "RemoveAgent", agent |-> a]>>)
    /\ UNCHANGED <<rp, slot, host, task, agentBox, slotBox, used>>

-----------------------------------------------------------------------------
(* Tasks. *)

TaskReceived(t, kind) ==
    task[t].phase # "stopped" /\ taskBox[t] # <<>> /\ Head(taskBox[t]).kind = kind

Launch(t) ==
    /\ task[t].phase = "absent"
    /\ task' = [task EXCEPT ![t].phase = "active"]
    /\ poolBox' = ToPool(<<[kind |-> "AllocateRequest", task |-> t]>>)
    /\ UNCHANGED <<rp, agent, slot, host, agentBox, slotBox, taskBox, used>>

\* A trial that has released ignores the message; a command never does, its
\* task field is never reset.
ResourcesAllocated(t) ==
    /\ TaskReceived(t, "ResourcesAllocated")
    /\ LET C == Head(taskBox[t]).cs
       IN IF t \in Trials /\ task[t].phase # "active"
          THEN UNCHANGED <<task, agentBox>>
          ELSE /\ task' = [task EXCEPT ![t].allocations = C]
               /\ agentBox' = ToAgents("StartTaskContainer", C)
    /\ taskBox' = [taskBox EXCEPT ![t] = Tail(@)]
    /\ UNCHANGED <<rp, agent, slot, host, poolBox, slotBox, used>>

Released(t) == <<[kind |-> "ResourcesReleased", task |-> t]>>

\* The task has exited once all its containers have: it tells the pool.
TaskContainerTerminated(t) ==
    /\ TaskReceived(t, "Terminated")
    /\ LET ended == task[t].terminated \union {Head(taskBox[t]).c}
           exits == ended = task[t].allocations
       IN /\ task' = [task EXCEPT ![t].terminated = ended,
                                  ![t].phase = IF exits THEN "exited" ELSE @]
          /\ poolBox' = ToPool(IF exits THEN Released(t) ELSE <<>>)
    /\ taskBox' = [taskBox EXCEPT ![t] = Tail(@)]
    /\ UNCHANGED <<rp, agent, slot, host, agentBox, slotBox, used>>

\* A user kills the task: without allocations it exits at once, otherwise
\* its containers are killed.
terminate(t) ==
    /\ task[t].phase = "active" \/ (t \in Commands /\ task[t].phase = "exited")
    /\ used.kills < MaxKills /\ used' = [used EXCEPT !.kills = @ + 1]
    /\ IF task[t].allocations = {}
       THEN /\ task' = [task EXCEPT ![t].phase = "exited"]
            /\ poolBox' = ToPool(Released(t))
            /\ UNCHANGED agentBox
       ELSE /\ agentBox' = ToAgents("KillTaskContainer", task[t].allocations)
            /\ UNCHANGED <<task, poolBox>>
    /\ UNCHANGED <<rp, agent, slot, host, slotBox, taskBox>>

\* An exited task's actor is stopped (a command after 24 hours).  PostStop
\* terminates a command once more, and the pool is notified of the stop.
TaskPostStop(t) ==
    /\ task[t].phase = "exited"
    /\ task' = [task EXCEPT ![t].phase = "stopped"]
    /\ taskBox' = [taskBox EXCEPT ![t] = <<>>]
    /\ agentBox' = IF t \in Commands
                   THEN ToAgents("KillTaskContainer", task[t].allocations) ELSE agentBox
    /\ poolBox' = ToPool(Released(t))
    /\ UNCHANGED <<rp, agent, slot, host, slotBox, used>>

-----------------------------------------------------------------------------
Init ==
    /\ rp = [up |-> TRUE, reschedule |-> FALSE, agents |-> {}, devices |-> {},
             holder |-> [d \in Devices |-> {}], zero |-> [a \in Agents |-> {}],
             tasks |-> {}, allocated |-> {}]
    /\ agent = [a \in Agents |-> [phase |-> "absent", slotsUp |-> FALSE, containers |-> {}]]
    /\ slot = [d \in Devices |-> [phase |-> "absent", userEnabled |-> TRUE,
                                  deviceAdded |-> FALSE, container |-> {}]]
    /\ host = [live |-> {}, killed |-> {}, ended |-> {}]
    /\ task = [t \in Tasks |-> [phase |-> "absent", allocations |-> {}, terminated |-> {}]]
    /\ poolBox = <<>>
    /\ agentBox = [a \in Agents |-> <<>>]
    /\ slotBox = [d \in Devices |-> <<>>]
    /\ taskBox = [t \in Tasks |-> <<>>]
    /\ used = [failures |-> 0, toggles |-> 0, kills |-> 0]

PoolReceive ==
    \/ AddAgent \/ AddDevice \/ FreeDevice \/ FreeZeroSlot \/ RemoveDevice \/ RemoveAgent
    \/ addTask \/ resourcesReleased

\* What the actors, and machines told to kill a container, do by themselves.
Progress ==
    \/ PoolReceive \/ schedulerTick
    \/ \E d \in Devices : SlotPreStart(d) \/ SlotStop(d) \/ SlotStartContainer(d)
                          \/ SlotContainerTerminated(d)
    \/ \E a \in Agents : StartTaskContainer(a) \/ KillTaskContainer(a)
                         \/ containerStateChanged(a) \/ AgentPostStop(a)
                         \/ (~agent[a].slotsUp /\ AgentFails(a))
    \/ \E c \in host.killed : ContainerKilled(c)
    \/ \E t \in Tasks : ResourcesAllocated(t) \/ TaskContainerTerminated(t)

Next ==
    \/ Progress
    \/ \E a \in Agents : AgentStarted(a) \/ AgentFails(a)
    \/ \E d \in Devices, enabled \in BOOLEAN : PatchSlot(d, enabled)
    \/ \E c \in host.live : ContainerExits(c)
    \/ \E t \in Tasks : Launch(t) \/ terminate(t) \/ TaskPostStop(t)

Spec == Init /\ [][Next]_vars

FairSpec == Spec /\ WF_vars(Progress)

-----------------------------------------------------------------------------
(* Properties. *)

\* The fields keep their shapes; a device has at most one holder, only
\* offered devices have one, and a slot at most one container.
TypeOK ==
    /\ rp.up \in BOOLEAN /\ rp.reschedule \in BOOLEAN
    /\ rp.agents \subseteq Agents
    /\ \A d \in rp.devices : AgentOf[d] \in rp.agents
    /\ \A d \in Devices : /\ rp.holder[d] \subseteq Containers
                          /\ Cardinality(rp.holder[d]) <= (IF d \in rp.devices THEN 1 ELSE 0)
                          /\ Cardinality(slot[d].container) <= 1
    /\ \A a \in Agents : Cardinality(rp.zero[a]) <= MaxZeroSlotContainers
    /\ rp.allocated \subseteq rp.tasks /\ rp.tasks \subseteq Tasks
    /\ host.killed \subseteq host.live /\ host.live \intersect host.ended = {}

\* Messages of slots and agents reach the pool in an order in which every
\* device that is added, freed or removed belongs to an agent the pool knows,
\* and every device that is freed is assigned: receiveAgentMsg and
\* deallocateDevice never panic, through the loss of an agent and the
\* disabling of a slot.  Nor does an agent get a report of a container it
\* does not know, which containerStateChanged would panic at.
PoolNeverPanics ==
    /\ rp.up
    /\ \A a \in Agents : \A i \in DOMAIN agentBox[a] :
        agentBox[a][i].kind = "Terminated" => agentBox[a][i].c \in agent[a].containers

\* A device the pool takes for free has no container: none runs on it, and no
\* message on its way will start one.  The pool learns of a container's end
\* from the slot while the task learns of it, and releases, by itself.
Starting(c) ==
    \/ \E i \in DOMAIN taskBox[c.task] :
        taskBox[c.task][i].kind = "ResourcesAllocated" /\ c \in taskBox[c.task][i].cs
    \/ \E i \in DOMAIN agentBox[c.agent] :
        agentBox[c.agent][i] = [kind |-> "StartTaskContainer", c |-> c]

FreeDevicesAreIdle ==
    \A d \in rp.devices : rp.up /\ rp.holder[d] = {} =>
        ~ \E c \in Containers : d \in c.devices /\ (c \in host.live \/ Starting(c))

\* The pool schedules only after a message; once it has no message left and
\* none asked for scheduling, the first request of every group has no fit:
\* no request that fits waits for a wake-up that does not come.
QuiescentPoolIsFull ==
    rp.up /\ ~rp.reschedule /\ poolBox = <<>> =>
        \A t \in pendingReqs(rp) : UpTo(rp, t) = {t} => findFits(rp, t) = {}

\* A device held by a container that ended comes free or leaves the pool:
\* the report passes the agent and the slot, of which either may fail.
HeldByEnded(d) == rp.up /\ rp.holder[d] \intersect host.ended # {}

EndedContainersFreeDevices == \A d \in Devices : HeldByEnded(d) ~> ~HeldByEnded(d)

\* "ResourcesReleased notifies resource providers to return resources from a
\* task" (task.go): a device held for a task that has released its resources
\* comes free.
HeldByReleased(d) == \E c \in rp.holder[d] : c.task \notin rp.tasks

ReleasedDevicesReturn == \A d \in Devices : HeldByReleased(d) ~> ~HeldByReleased(d)
=============================================================================
