------------------------- MODULE ResourcePoolProofs -------------------------
(***************************************************************************)
(* Proofs about ResourcePool, for any agents, devices, tasks and groups,   *)
(* and any number of failures, toggles and kills.                          *)
(***************************************************************************)
EXTENDS ResourcePool, FiniteSetTheorems, WellFoundedInduction, TLAPS

(***************************************************************************)
(* Inboxes: what a box has of a set of messages, and in which order.       *)
(***************************************************************************)
Some(box, S) == \E i \in DOMAIN box : box[i] \in S

One(box, S) == \A i, j \in DOMAIN box : box[i] \in S /\ box[j] \in S => i = j

\* Nothing of S comes after something of T.
Before(box, S, T) == \A i, j \in DOMAIN box : box[i] \in S /\ box[j] \in T => i < j

\* Everything of S comes after something of T.
Preceded(box, S, T) ==
    \A i \in DOMAIN box : box[i] \in S => \E j \in DOMAIN box : j < i /\ box[j] \in T

-----------------------------------------------------------------------------
(* Types. *)

\* Containers whose devices are their agent's, which all are.
Own == {c \in Containers : \A d \in c.devices : AgentOf[d] = c.agent}
OwnOfAgent(a) == {c \in Own : c.agent = a}
OwnOfTask(t) == {c \in Own : c.task = t}
OwnOfDevice(d) == {c \in Own : d \in c.devices}

Holders(d) == {{}} \cup {{c} : c \in OwnOfDevice(d)}

DeviceMsgs == UNION {[kind : {"AddDevice"}, device : {d}, container : Holders(d)] : d \in Devices}
PoolMsgs ==
    [kind : {"AddAgent", "RemoveAgent"}, agent : Agents]
    \cup DeviceMsgs
    \cup [kind : {"FreeDevice", "RemoveDevice"}, device : Devices]
    \cup [kind : {"FreeZeroSlot"}, c : Own]
    \cup [kind : {"AllocateRequest", "ResourcesReleased"}, task : Tasks]
AgentMsgs(a) == [kind : {"StartTaskContainer", "KillTaskContainer", "Terminated"}, c : OwnOfAgent(a)]
SlotMsgs(d) == [kind : {"StartContainer", "Terminated"}, c : OwnOfDevice(d)] \cup [kind : {"Stop"}]
TaskMsgs(t) ==
    [kind : {"ResourcesAllocated"}, cs : (SUBSET OwnOfTask(t)) \ {{}}]
    \cup [kind : {"Terminated"}, c : OwnOfTask(t)]

Pools ==
    [up : BOOLEAN, reschedule : BOOLEAN, agents : SUBSET Agents, devices : SUBSET Devices,
     holder : [Devices -> SUBSET Own], zero : [Agents -> SUBSET Own],
     tasks : SUBSET Tasks, allocated : SUBSET Tasks]

\* The books of the pool.
PoolOK(r) ==
    /\ r \in Pools
    /\ r.allocated \subseteq r.tasks
    /\ \A d \in r.devices : AgentOf[d] \in r.agents
    /\ \A d \in Devices : r.holder[d] \in Holders(d) /\ (r.holder[d] # {} => d \in r.devices)
    /\ \A a \in Agents : Cardinality(r.zero[a]) <= MaxZeroSlotContainers

Typed ==
    /\ agent \in [Agents -> [phase : {"absent", "connected", "closing", "gone"},
                             slotsUp : BOOLEAN, containers : SUBSET Own]]
    /\ \A a \in Agents : agent[a].containers \subseteq OwnOfAgent(a)
    /\ slot \in [Devices -> [phase : {"absent", "starting", "up", "gone"},
                             userEnabled : BOOLEAN, deviceAdded : BOOLEAN,
                             container : SUBSET Own]]
    /\ \A d \in Devices : slot[d].container \in Holders(d)
    /\ host \in [live : SUBSET Own, killed : SUBSET Own, ended : SUBSET Own]
    /\ task \in [Tasks -> [phase : {"absent", "active", "exited", "stopped"},
                           allocations : SUBSET Own, terminated : SUBSET Own]]
    /\ used \in [failures : Nat, toggles : Nat, kills : Nat]

Boxed ==
    /\ poolBox \in Seq(PoolMsgs)
    /\ DOMAIN agentBox = Agents /\ \A a \in Agents : agentBox[a] \in Seq(AgentMsgs(a))
    /\ DOMAIN slotBox = Devices /\ \A d \in Devices : slotBox[d] \in Seq(SlotMsgs(d))
    /\ DOMAIN taskBox = Tasks /\ \A t \in Tasks : taskBox[t] \in Seq(TaskMsgs(t))
    /\ ~rp.up => poolBox = <<>>

-----------------------------------------------------------------------------
(* The life of a container: offered to its task, sent to its agent, live   *)
(* on its machine, reported, ended.                                        *)
Offering(c) == {m \in TaskMsgs(c.task) : m.kind = "ResourcesAllocated" /\ c \in m.cs}
Allocations(t) == {m \in TaskMsgs(t) : m.kind = "ResourcesAllocated"}
Start(c) == {[kind |-> "StartTaskContainer", c |-> c]}
Report(c) == {[kind |-> "Terminated", c |-> c]}
SlotStart(c) == {[kind |-> "StartContainer", c |-> c]}
SlotEnd(c) == {[kind |-> "Terminated", c |-> c]}
Request(t) == {[kind |-> "AllocateRequest", task |-> t]}

Offered(c) == Some(taskBox[c.task], Offering(c))
Sent(c) == Some(agentBox[c.agent], Start(c))
Reported(c) == Some(agentBox[c.agent], Report(c))
Born(c) == c \in host.live \cup host.ended

\* A request that has no resources yet.
Waiting(t) ==
    \/ task[t].phase = "absent"
    \/ Some(poolBox, Request(t))
    \/ t \in rp.tasks \ rp.allocated

TaskOK(t) ==
    /\ One(poolBox, Request(t)) /\ One(taskBox[t], Allocations(t))
    /\ Some(poolBox, Request(t)) => t \notin rp.tasks /\ task[t].phase # "absent"
    /\ task[t].phase = "absent" => t \notin rp.tasks
    /\ Waiting(t) => \A c \in OwnOfTask(t) : ~Born(c) /\ ~Offered(c) /\ ~Sent(c)

ContainerOK(c) ==
    /\ One(agentBox[c.agent], Start(c)) /\ One(agentBox[c.agent], Report(c))
    /\ Offered(c) => ~Born(c) /\ ~Sent(c)
    /\ Sent(c) => ~Born(c)
    /\ c \in agent[c.agent].containers => Born(c)
    /\ c \in host.live => /\ c \in agent[c.agent].containers /\ c \notin host.ended
                          /\ agent[c.agent].phase = "connected" /\ ~Reported(c)
    /\ Reported(c) => c \in agent[c.agent].containers /\ agent[c.agent].phase = "connected"

\* ... and what its slots are told of it.
OnSlotOK(c, d) ==
    /\ One(slotBox[d], SlotEnd(c)) /\ Before(slotBox[d], SlotStart(c), SlotEnd(c))
    /\ Some(slotBox[d], SlotStart(c)) => Born(c)
    /\ Some(slotBox[d], SlotEnd(c)) => Born(c) /\ c \notin agent[c.agent].containers

LifeOK ==
    /\ host.killed \subseteq host.live
    /\ \A t \in Tasks : TaskOK(t)
    /\ \A c \in Own : ContainerOK(c)
    /\ \A d \in Devices : \A c \in OwnOfDevice(d) : OnSlotOK(c, d)

-----------------------------------------------------------------------------
(* Agents, in the books of the pool and in the messages on their way.      *)
AgentAdded(a) == {[kind |-> "AddAgent", agent |-> a]}
AgentRemoved(a) == {[kind |-> "RemoveAgent", agent |-> a]}
DeviceAdded(d) == {m \in PoolMsgs : m.kind = "AddDevice" /\ m.device = d}
DeviceAddedInUse(d) == {m \in DeviceAdded(d) : m.container # {}}
DeviceFreed(d) == {[kind |-> "FreeDevice", device |-> d]}
DeviceRemoved(d) == {[kind |-> "RemoveDevice", device |-> d]}
About(a) ==
    {m \in PoolMsgs : \/ m.kind \in {"AddDevice", "FreeDevice", "RemoveDevice"} /\ AgentOf[m.device] = a
                      \/ m.kind = "FreeZeroSlot" /\ m.c.agent = a}

AgentOK(a) ==
    /\ a \in rp.agents \/ Preceded(poolBox, About(a), AgentAdded(a))
    /\ Before(poolBox, About(a), AgentRemoved(a))
    /\ agent[a].phase # "gone" => ~Some(poolBox, AgentRemoved(a))
    /\ agent[a].phase \in {"connected", "closing"} =>
          a \in rp.agents \/ Some(poolBox, AgentAdded(a))

SlotOK(d) ==
    /\ agent[AgentOf[d]].phase = "absent" => slot[d].phase = "absent"
    /\ slot[d].phase \in {"starting", "up"} => agent[AgentOf[d]].phase \in {"connected", "closing"}
    /\ slot[d].phase = "up" => slot[d].userEnabled = slot[d].deviceAdded
    /\ slot[d].phase # "up" => ~slot[d].deviceAdded
    /\ slot[d].phase \in {"absent", "starting"} => slot[d].userEnabled /\ slot[d].container = {}

AgentsOK == rp.up => \A a \in Agents : AgentOK(a)
SlotsOK == \A d \in Devices : SlotOK(d)

\* The tick leaves no first request of a group that fits.
Full(r) == \A t \in pendingReqs(r) : UpTo(r, t) = {t} => findFits(r, t) = {}
FullOK == rp.up /\ ~rp.reschedule => Full(rp)

IInv == PoolOK(rp) /\ Typed /\ Boxed /\ LifeOK /\ AgentsOK /\ SlotsOK /\ FullOK

-----------------------------------------------------------------------------
(* Devices, while no slot is enabled again. *)

\* The containers that are, or may come to be, on device d.
Active(d) ==
    {c \in OwnOfDevice(d) :
        \/ Offered(c) \/ Sent(c)
        \/ c \in agent[c.agent].containers
        \/ Some(slotBox[d], SlotStart(c)) \/ Some(slotBox[d], SlotEnd(c))
        \/ c \in slot[d].container}

DeviceOK(d) ==
    /\ d \in rp.devices => \A c \in Active(d) : rp.holder[d] = {c}
    /\ One(poolBox, DeviceFreed(d)) /\ Before(poolBox, DeviceFreed(d), DeviceRemoved(d))
    /\ One(poolBox, DeviceAdded(d)) /\ Before(poolBox, DeviceAdded(d), DeviceRemoved(d))
    /\ Some(poolBox, DeviceFreed(d)) =>
          d \in rp.devices /\ rp.holder[d] # {} /\ Active(d) = {}
    /\ Some(poolBox, DeviceAdded(d)) =>
          d \notin rp.devices /\ Active(d) = {} /\ ~Some(poolBox, DeviceFreed(d))
    /\ ~Some(poolBox, DeviceAddedInUse(d))
    /\ slot[d].phase \in {"absent", "starting"} =>
          /\ d \notin rp.devices /\ Active(d) = {}
          /\ ~Some(poolBox, DeviceAdded(d)) /\ ~Some(poolBox, DeviceRemoved(d))
    /\ slot[d].deviceAdded =>
          /\ ~Some(poolBox, DeviceRemoved(d))
          /\ d \in rp.devices \/ Some(poolBox, DeviceAdded(d))

DInv == rp.up /\ \A d \in Devices : DeviceOK(d)

(***************************************************************************)
(* Lemmas on inboxes.                                                      *)
(***************************************************************************)
LEMMA EmptyBox ==
    ASSUME NEW S, NEW T
    PROVE  ~Some(<<>>, S) /\ One(<<>>, S) /\ Before(<<>>, S, T) /\ Preceded(<<>>, S, T)
BY DEF Some, One, Before, Preceded

\* A message is taken from the front.
LEMMA TailType ==
    ASSUME NEW M, NEW box \in Seq(M), box # <<>>
    PROVE  /\ Tail(box) \in Seq(M) /\ Head(box) \in M /\ Head(box) = box[1]
           /\ DOMAIN Tail(box) = 1..(Len(box) - 1) /\ DOMAIN box = 1..Len(box)
           /\ Len(box) \in Nat \ {0}
           /\ \A i \in DOMAIN Tail(box) : Tail(box)[i] = box[i + 1]
OBVIOUS

LEMMA TailBox ==
    ASSUME NEW M, NEW box \in Seq(M), box # <<>>, NEW S
    PROVE  /\ Some(Tail(box), S) => Some(box, S)
           /\ Some(box, S) /\ Head(box) \notin S => Some(Tail(box), S)
           /\ One(box, S) => One(Tail(box), S)
           /\ One(box, S) /\ Head(box) \in S => ~Some(Tail(box), S)
           /\ Head(box) \in S => Some(box, S)
<1> DEFINE n == Len(box)
<1>1. /\ DOMAIN Tail(box) = 1..(n - 1) /\ DOMAIN box = 1..n /\ n \in Nat \ {0}
      /\ Head(box) = box[1] /\ \A i \in 1..(n - 1) : Tail(box)[i] = box[i + 1]
    BY TailType
<1> HIDE DEF n
<1>2. \A i \in 1..n : i = 1 \/ (i - 1 \in 1..(n - 1) /\ Tail(box)[i - 1] = box[i])
    <2> TAKE i \in 1..n
    <2>1. CASE i # 1
        <3>1. i - 1 \in 1..(n - 1) /\ (i - 1) + 1 = i
            BY <2>1, <1>1
        <3> QED BY <3>1, <1>1
    <2> QED BY <2>1
<1>3. \A i \in 1..(n - 1) : i + 1 \in 1..n /\ i + 1 # 1
    BY <1>1
<1>4. 1 \in 1..n
    BY <1>1
<1>5. Some(Tail(box), S) => Some(box, S)
    BY <1>1, <1>3 DEF Some
<1>6. Some(box, S) /\ Head(box) \notin S => Some(Tail(box), S)
    BY <1>1, <1>2 DEF Some
<1>7. One(box, S) => One(Tail(box), S)
    <2> SUFFICES ASSUME One(box, S), NEW i \in 1..(n - 1), NEW j \in 1..(n - 1),
                        Tail(box)[i] \in S, Tail(box)[j] \in S
                 PROVE  i = j
        BY <1>1 DEF One
    <2>1. i + 1 = j + 1
        BY <1>1, <1>3 DEF One
    <2> QED BY <2>1
<1>8. One(box, S) /\ Head(box) \in S => ~Some(Tail(box), S)
    BY <1>1, <1>3, <1>4 DEF One, Some
<1>9. Head(box) \in S => Some(box, S)
    BY <1>1, <1>4 DEF Some
<1> QED BY <1>5, <1>6, <1>7, <1>8, <1>9

LEMMA TailOrder ==
    ASSUME NEW M, NEW box \in Seq(M), box # <<>>, NEW S, NEW T
    PROVE  /\ Before(box, S, T) => Before(Tail(box), S, T)
           /\ Before(box, S, T) /\ Head(box) \in T => ~Some(box, S)
           /\ Preceded(box, S, T) => Head(box) \notin S
           /\ Preceded(box, S, T) /\ Head(box) \notin T => Preceded(Tail(box), S, T)
<1> DEFINE n == Len(box)
<1>1. /\ DOMAIN Tail(box) = 1..(n - 1) /\ DOMAIN box = 1..n /\ n \in Nat \ {0}
      /\ Head(box) = box[1] /\ \A i \in 1..(n - 1) : Tail(box)[i] = box[i + 1]
    BY TailType
<1> HIDE DEF n
<1>2. \A i \in 1..(n - 1) : i + 1 \in 1..n
    BY <1>1
<1>3. 1 \in 1..n /\ \A i \in 1..n : ~(i < 1)
    BY <1>1
<1>4. Before(box, S, T) => Before(Tail(box), S, T)
    <2> SUFFICES ASSUME Before(box, S, T), NEW i \in 1..(n - 1), NEW j \in 1..(n - 1),
                        Tail(box)[i] \in S, Tail(box)[j] \in T
                 PROVE  i < j
        BY <1>1 DEF Before
    <2>1. i + 1 < j + 1
        BY <1>1, <1>2 DEF Before
    <2> QED BY <2>1
<1>5. Before(box, S, T) /\ Head(box) \in T => ~Some(box, S)
    BY <1>1, <1>3 DEF Before, Some
<1>6. Preceded(box, S, T) => Head(box) \notin S
    BY <1>1, <1>3 DEF Preceded
<1>7. Preceded(box, S, T) /\ Head(box) \notin T => Preceded(Tail(box), S, T)
    <2> SUFFICES ASSUME Preceded(box, S, T), Head(box) \notin T,
                        NEW i \in 1..(n - 1), Tail(box)[i] \in S
                 PROVE  \E j \in 1..(n - 1) : j < i /\ Tail(box)[j] \in T
        BY <1>1 DEF Preceded
    <2>1. PICK j \in 1..n : j < i + 1 /\ box[j] \in T
        BY <1>1, <1>2 DEF Preceded
    <2>2. j # 1
        BY <2>1, <1>1
    <2>3. j - 1 \in 1..(n - 1) /\ (j - 1) + 1 = j /\ j - 1 < i
        BY <2>1, <2>2, <1>1
    <2> QED BY <2>1, <2>3, <1>1
<1> QED BY <1>4, <1>5, <1>6, <1>7

\* A message is put at the end.
LEMMA AppendBox ==
    ASSUME NEW M, NEW box \in Seq(M), NEW m \in M, NEW S
    PROVE  /\ Append(box, m) \in Seq(M)
           /\ Some(Append(box, m), S) <=> Some(box, S) \/ m \in S
           /\ One(box, S) /\ (m \notin S \/ ~Some(box, S)) => One(Append(box, m), S)
<1> DEFINE n == Len(box)  z == Append(box, m)
<1>1. /\ z \in Seq(M) /\ DOMAIN box = 1..n /\ DOMAIN z = 1..(n + 1) /\ n \in Nat
      /\ z[n + 1] = m /\ \A i \in 1..n : z[i] = box[i]
    OBVIOUS
<1>2. \A i \in 1..(n + 1) : i \in 1..n \/ i = n + 1
    BY <1>1
<1>3. \A i \in 1..n : i \in 1..(n + 1)
    BY <1>1
<1>4. n + 1 \in 1..(n + 1)
    BY <1>1
<1> HIDE DEF n, z
<1>5. Some(z, S) <=> Some(box, S) \/ m \in S
    BY <1>1, <1>2, <1>3, <1>4 DEF Some
<1>6. One(box, S) /\ (m \notin S \/ ~Some(box, S)) => One(z, S)
    BY <1>1, <1>2, <1>3, <1>4 DEF Some, One
<1> QED BY <1>1, <1>5, <1>6 DEF z

LEMMA AppendOrder ==
    ASSUME NEW M, NEW box \in Seq(M), NEW m \in M, NEW S, NEW T
    PROVE  /\ Before(box, S, T) /\ (m \notin S \/ (~Some(box, T) /\ m \notin T))
                  => Before(Append(box, m), S, T)
           /\ Preceded(box, S, T) /\ (m \notin S \/ Some(box, T))
                  => Preceded(Append(box, m), S, T)
<1> DEFINE n == Len(box)  z == Append(box, m)
<1>1. /\ z \in Seq(M) /\ DOMAIN box = 1..n /\ DOMAIN z = 1..(n + 1) /\ n \in Nat
      /\ z[n + 1] = m /\ \A i \in 1..n : z[i] = box[i]
    OBVIOUS
<1>2. \A i \in 1..(n + 1) : i \in 1..n \/ i = n + 1
    BY <1>1
<1>3. \A i \in 1..n : i \in 1..(n + 1) /\ i < n + 1
    BY <1>1
<1> HIDE DEF n, z
<1>4. Before(box, S, T) /\ (m \notin S \/ (~Some(box, T) /\ m \notin T)) => Before(z, S, T)
    <2> SUFFICES ASSUME Before(box, S, T), m \notin S \/ (~Some(box, T) /\ m \notin T),
                        NEW i \in 1..(n + 1), NEW j \in 1..(n + 1), z[i] \in S, z[j] \in T
                 PROVE  i < j
        BY <1>1 DEF Before
    <2> QED BY <1>1, <1>2, <1>3 DEF Before, Some
<1>5. Preceded(box, S, T) /\ (m \notin S \/ Some(box, T)) => Preceded(z, S, T)
    <2> SUFFICES ASSUME Preceded(box, S, T), m \notin S \/ Some(box, T),
                        NEW i \in 1..(n + 1), z[i] \in S
                 PROVE  \E j \in 1..(n + 1) : j < i /\ z[j] \in T
        BY <1>1 DEF Preceded
    <2>1. CASE i \in 1..n
        BY <2>1, <1>1, <1>3 DEF Preceded
    <2>2. CASE i = n + 1
        BY <2>2, <1>1, <1>3 DEF Some
    <2> QED BY <2>1, <2>2, <1>2
<1> QED BY <1>4, <1>5 DEF z

\* A set of messages is put at the end, in some order.
LEMMA SeqOfSet ==
    ASSUME NEW Q, IsFiniteSet(Q)
    PROVE  /\ SetToSeq(Q) \in [1..Cardinality(Q) -> Q] /\ Cardinality(Q) \in Nat
           /\ \A x \in Q : \E i \in 1..Cardinality(Q) : SetToSeq(Q)[i] = x
           /\ \A i, j \in 1..Cardinality(Q) : SetToSeq(Q)[i] = SetToSeq(Q)[j] => i = j
<1> DEFINE n == Cardinality(Q)
<1>1. n \in Nat /\ ExistsBijection(1..n, Q)
    BY FS_CardinalityType
<1>2. PICK f : f \in Bijection(1..n, Q)
    BY <1>1 DEF ExistsBijection
<1>3. f \in [1..n -> Q] /\ IsInjective(f)
    BY <1>2 DEF Bijection, Injection, IsInjective
<1>4. SetToSeq(Q) \in [1..n -> Q] /\ IsInjective(SetToSeq(Q))
    BY <1>3 DEF SetToSeq
<1>5. SetToSeq(Q) \in Injection(1..n, Q)
    BY <1>4 DEF Injection, IsInjective
<1>6. IsFiniteSet(1..n) /\ Cardinality(1..n) = n
    BY <1>1, FS_Interval
<1>7. SetToSeq(Q) \in Surjection(1..n, Q)
    BY <1>5, <1>6, FS_Injection
<1> QED BY <1>1, <1>4, <1>7 DEF Surjection, IsInjective

LEMMA Joined ==
    ASSUME NEW M, NEW box \in Seq(M), NEW Q \in SUBSET M, IsFiniteSet(Q), NEW S
    PROVE  /\ box \o SetToSeq(Q) \in Seq(M)
           /\ Some(box \o SetToSeq(Q), S) <=> Some(box, S) \/ Q \cap S # {}
           /\ One(box, S) /\ (Q \cap S = {} \/ (~Some(box, S) /\ \E x : Q \cap S \subseteq {x}))
                  => One(box \o SetToSeq(Q), S)
<1> DEFINE n == Len(box)  k == Cardinality(Q)  s == SetToSeq(Q)  z == box \o s
<1>1. /\ s \in [1..k -> Q] /\ k \in Nat
      /\ \A x \in Q : \E i \in 1..k : s[i] = x
      /\ \A i, j \in 1..k : s[i] = s[j] => i = j
    BY SeqOfSet
<1> HIDE DEF k, s
<1>2. s \in Seq(M) /\ Len(s) = k
    BY <1>1
<1>3. /\ z \in Seq(M) /\ DOMAIN box = 1..n /\ DOMAIN z = 1..(n + k) /\ n \in Nat
      /\ \A i \in 1..n : z[i] = box[i]
      /\ \A i \in 1..k : z[n + i] = s[i]
    BY <1>2, <1>1
<1>4. \A i \in 1..(n + k) : i \in 1..n \/ (i - n \in 1..k /\ n + (i - n) = i)
    BY <1>1, <1>3
<1>5. \A i \in 1..n : i \in 1..(n + k)
    BY <1>1, <1>3
<1>6. \A i \in 1..k : n + i \in 1..(n + k)
    BY <1>1, <1>3
<1> HIDE DEF n, z
<1>7. \A i \in 1..(n + k) : (i \in 1..n /\ z[i] = box[i]) \/ (i - n \in 1..k /\ z[i] = s[i - n] /\ z[i] \in Q)
    <2> TAKE i \in 1..(n + k)
    <2>1. CASE i \in 1..n
        BY <2>1, <1>3
    <2>2. CASE i - n \in 1..k /\ n + (i - n) = i
        <3>1. z[n + (i - n)] = s[i - n] /\ s[i - n] \in Q
            BY <2>2, <1>3, <1>1
        <3> QED BY <3>1, <2>2
    <2> QED BY <2>1, <2>2, <1>4
<1>8. Some(z, S) <=> Some(box, S) \/ Q \cap S # {}
    <2>1. Some(z, S) => Some(box, S) \/ Q \cap S # {}
        BY <1>3, <1>7 DEF Some
    <2>2. Some(box, S) => Some(z, S)
        BY <1>3, <1>5 DEF Some
    <2>3. Q \cap S # {} => Some(z, S)
        <3> SUFFICES ASSUME NEW x \in Q, x \in S PROVE Some(z, S)
            OBVIOUS
        <3>1. PICK i \in 1..k : s[i] = x
            BY <1>1
        <3> QED BY <3>1, <1>3, <1>6 DEF Some
    <2> QED BY <2>1, <2>2, <2>3
<1>9. ASSUME One(box, S), Q \cap S = {} \/ (~Some(box, S) /\ \E x : Q \cap S \subseteq {x})
      PROVE  One(z, S)
    <2> SUFFICES ASSUME NEW i \in 1..(n + k), NEW j \in 1..(n + k), z[i] \in S, z[j] \in S
                 PROVE  i = j
        BY <1>3 DEF One
    <2>1. CASE i \in 1..n /\ z[i] = box[i] /\ j \in 1..n /\ z[j] = box[j]
        BY <2>1, <1>9, <1>3 DEF One
    <2>2. CASE i - n \in 1..k /\ z[i] = s[i - n] /\ z[i] \in Q
        <3>1. ~Some(box, S) /\ \E x : Q \cap S \subseteq {x}
            BY <2>2, <1>9
        <3>2. j - n \in 1..k /\ z[j] = s[j - n] /\ z[j] \in Q
            BY <3>1, <1>7, <1>3 DEF Some
        <3>3. i - n = j - n
            BY <3>1, <3>2, <2>2, <1>1
        <3> QED BY <3>3, <1>3
    <2>3. CASE j - n \in 1..k /\ z[j] = s[j - n] /\ z[j] \in Q
        <3>1. ~Some(box, S) /\ \E x : Q \cap S \subseteq {x}
            BY <2>3, <1>9
        <3>2. i - n \in 1..k /\ z[i] = s[i - n] /\ z[i] \in Q
            BY <3>1, <1>7, <1>3 DEF Some
        <3> QED BY <3>2, <2>2
    <2> QED BY <2>1, <2>2, <2>3, <1>7
<1> QED BY <1>3, <1>8, <1>9 DEF z, s

LEMMA JoinBox ==
    ASSUME NEW M, NEW box \in Seq(M), NEW Q \in SUBSET M, IsFiniteSet(Q), NEW S,
           NEW z, z = box \o SetToSeq(Q)
    PROVE  /\ z \in Seq(M)
           /\ Some(z, S) <=> Some(box, S) \/ Q \cap S # {}
           /\ One(box, S) /\ (Q \cap S = {} \/ (~Some(box, S) /\ \E x : Q \cap S \subseteq {x}))
                  => One(z, S)
<1> DEFINE y == box \o SetToSeq(Q)
<1>1. /\ y \in Seq(M)
      /\ Some(y, S) <=> Some(box, S) \/ Q \cap S # {}
      /\ One(box, S) /\ (Q \cap S = {} \/ (~Some(box, S) /\ \E x : Q \cap S \subseteq {x}))
            => One(y, S)
    BY Joined, Zenon
<1>2. z = y
    OBVIOUS
<1> HIDE DEF y
<1> QED BY <1>1, <1>2

\* The forms in which ToPool is used.
LEMMA ToPoolForms ==
    ASSUME NEW M, NEW box \in Seq(M)
    PROVE  /\ box \o <<>> = box
           /\ \A m \in M : box \o <<m>> = Append(box, m)
OBVIOUS

-----------------------------------------------------------------------------
(* The constants. *)
LEMMA Constants ==
    /\ AgentOf \in [Devices -> Agents] /\ SlotsNeeded \in [Tasks -> Nat]
    /\ RegisteredTime \in [Tasks \union Groups -> Nat] /\ MaxZeroSlotContainers \in Nat
    /\ IsFiniteSet(Agents) /\ IsFiniteSet(Devices) /\ IsFiniteSet(Tasks)
    /\ \A t, u \in Tasks : RegisteredTime[t] = RegisteredTime[u] => t = u
BY FittingAssumption

LEMMA OwnFields ==
    ASSUME NEW c \in Own
    PROVE  /\ c.task \in Tasks /\ c.agent \in Agents /\ c.devices \in SUBSET Devices
           /\ c \in Containers /\ c \in OwnOfTask(c.task) /\ c \in OwnOfAgent(c.agent)
           /\ \A d \in c.devices : c \in OwnOfDevice(d) /\ AgentOf[d] = c.agent
BY DEF Own, Containers, OwnOfTask, OwnOfAgent, OwnOfDevice

\* There are finitely many containers, so what is sent at once is finite.
LEMMA FiniteContainers == IsFiniteSet(Containers)
<1> DEFINE X == Tasks \X (Agents \X SUBSET Devices)
           f == [x \in X |-> [task |-> x[1], agent |-> x[2][1], devices |-> x[2][2]]]
<1>1. IsFiniteSet(SUBSET Devices)
    BY Constants, FS_SUBSET
<1>2. IsFiniteSet(Agents \X SUBSET Devices)
    BY <1>1, Constants, FS_Product
<1>3. IsFiniteSet(X)
    BY <1>2, Constants, FS_Product
<1>4. f \in Surjection(X, Containers)
    <2>1. \A x \in X : f[x] \in Containers
        BY DEF Containers
    <2>2. ASSUME NEW c \in Containers PROVE \E x \in X : f[x] = c
        <3>1. <<c.task, <<c.agent, c.devices>>>> \in X
            BY DEF Containers
        <3>2. f[<<c.task, <<c.agent, c.devices>>>>] = c
            BY <3>1 DEF Containers
        <3> QED BY <3>1, <3>2
    <2> QED BY <2>1, <2>2 DEF Surjection
<1> QED BY <1>3, <1>4, FS_Surjection

LEMMA FiniteSent ==
    ASSUME NEW kind, NEW C \in SUBSET Containers
    PROVE  IsFiniteSet({[kind |-> kind, c |-> c] : c \in C})
<1> DEFINE Q == {[kind |-> kind, c |-> c] : c \in C}
           f == [c \in C |-> [kind |-> kind, c |-> c]]
<1>1. IsFiniteSet(C)
    BY FiniteContainers, FS_Subset
<1>2. f \in Surjection(C, Q)
    BY DEF Surjection
<1> QED BY <1>1, <1>2, FS_Surjection

-----------------------------------------------------------------------------
(* Boxes from which messages are taken. *)
Fewer(new, old) ==
    \A S, T : /\ Some(new, S) => Some(old, S)
              /\ One(old, S) => One(new, S)
              /\ Before(old, S, T) => Before(new, S, T)

LEMMA FewerSame == ASSUME NEW box PROVE Fewer(box, box)
BY DEF Fewer

LEMMA FewerTail == ASSUME NEW M, NEW box \in Seq(M), box # <<>> PROVE Fewer(Tail(box), box)
BY TailBox, TailOrder DEF Fewer

LEMMA FewerEmpty == ASSUME NEW box PROVE Fewer(<<>>, box)
BY EmptyBox DEF Fewer

-----------------------------------------------------------------------------
(* The pool handles a message. *)
LEMMA PoolHandled ==
    ASSUME IInv, rp.up, poolBox # <<>>, poolBox' = Tail(poolBox),
           UNCHANGED <<agent, slot, host, task, agentBox, slotBox, taskBox, used>>,
           PoolOK(rp'), rp'.up, rp'.reschedule,
           \A t \in rp'.tasks : t \in rp.tasks \/ Head(poolBox) \in Request(t),
           \A t \in rp'.tasks \ rp'.allocated :
                t \in rp.tasks \ rp.allocated \/ Head(poolBox) \in Request(t),
           \A a \in rp.agents : a \in rp'.agents \/ Head(poolBox) \in AgentRemoved(a),
           \A a \in Agents : Head(poolBox) \in AgentAdded(a) => a \in rp'.agents
    PROVE  IInv'
<1>0. poolBox \in Seq(PoolMsgs) /\ poolBox' \in Seq(PoolMsgs)
    BY TailType DEF IInv, Boxed
<1>1. Typed' /\ SlotsOK'
    BY DEF IInv, Typed, SlotsOK, SlotOK
<1>2. Boxed'
    BY <1>0 DEF IInv, Boxed
<1>3. LifeOK'
    <2>1. ASSUME NEW t \in Tasks PROVE TaskOK(t)'
        <3>1. TaskOK(t)
            BY DEF IInv, LifeOK
        <3>2. /\ One(poolBox, Request(t)) => One(poolBox', Request(t))
              /\ Some(poolBox', Request(t)) => Some(poolBox, Request(t))
              /\ Head(poolBox) \in Request(t) => Some(poolBox, Request(t))
              /\ One(poolBox, Request(t)) /\ Head(poolBox) \in Request(t) => ~Some(poolBox', Request(t))
            BY <1>0, TailBox
        <3>3. Waiting(t)' => Waiting(t)
            BY <3>2 DEF Waiting
        <3>4. (\A c \in OwnOfTask(t) : ~Born(c) /\ ~Offered(c) /\ ~Sent(c))
                => (\A c \in OwnOfTask(t) : ~Born(c) /\ ~Offered(c) /\ ~Sent(c))'
            BY DEF Born, Offered, Sent
        <3> QED BY <3>1, <3>2, <3>3, <3>4 DEF TaskOK
    <2>2. ASSUME NEW c \in Own PROVE ContainerOK(c)'
        BY DEF IInv, LifeOK, ContainerOK, Offered, Sent, Reported, Born
    <2>3. ASSUME NEW d \in Devices, NEW c \in OwnOfDevice(d) PROVE OnSlotOK(c, d)'
        BY DEF IInv, LifeOK, OnSlotOK, Born
    <2> QED BY <2>1, <2>2, <2>3 DEF IInv, LifeOK
<1>4. AgentsOK'
    <2> SUFFICES ASSUME NEW a \in Agents PROVE AgentOK(a)'
        BY DEF AgentsOK
    <2>1. AgentOK(a)
        BY DEF IInv, AgentsOK
    <2>2. a \in rp'.agents \/ Preceded(poolBox', About(a), AgentAdded(a))
        <3>1. CASE a \in rp.agents
            <4>1. CASE Head(poolBox) \in AgentRemoved(a)
                <5>1. ~Some(poolBox', About(a))
                    BY <4>1, <2>1, <1>0, TailBox, TailOrder DEF AgentOK
                <5> QED BY <5>1 DEF Some, Preceded
            <4> QED BY <3>1, <4>1
        <3>2. CASE Preceded(poolBox, About(a), AgentAdded(a))
            BY <3>2, <1>0, TailOrder
        <3> QED BY <3>1, <3>2, <2>1 DEF AgentOK
    <2>3. Before(poolBox', About(a), AgentRemoved(a))
        BY <2>1, <1>0, TailOrder DEF AgentOK
    <2>4. Some(poolBox', AgentRemoved(a)) => Some(poolBox, AgentRemoved(a))
        BY <1>0, TailBox
    <2>5. Some(poolBox, AgentAdded(a)) => a \in rp'.agents \/ Some(poolBox', AgentAdded(a))
        BY <1>0, TailBox
    <2>6. Head(poolBox) \in AgentRemoved(a) => Some(poolBox, AgentRemoved(a))
        BY <1>0, TailBox
    <2> QED BY <2>1, <2>2, <2>3, <2>4, <2>5, <2>6 DEF AgentOK
<1>5. FullOK'
    BY DEF FullOK
<1> QED BY <1>1, <1>2, <1>3, <1>4, <1>5 DEF IInv

\* A panic closes the pool: what it would have handled is dropped.
LEMMA PoolPanicked ==
    ASSUME IInv, Panicked
    PROVE  IInv'
<1>1. rp' = [rp EXCEPT !.up = FALSE] /\ poolBox' = <<>> /\ rp \in Pools
      /\ UNCHANGED <<agent, slot, host, task, agentBox, slotBox, taskBox, used>>
    BY DEF Panicked, IInv, PoolOK
<1>2. rp' \in Pools /\ ~rp'.up /\ rp'.reschedule = rp.reschedule /\ rp'.agents = rp.agents
      /\ rp'.devices = rp.devices /\ rp'.holder = rp.holder /\ rp'.zero = rp.zero
      /\ rp'.tasks = rp.tasks /\ rp'.allocated = rp.allocated
    BY <1>1 DEF Pools
<1>3. PoolOK(rp')
    BY <1>2 DEF IInv, PoolOK
<1>4. Typed' /\ SlotsOK'
    BY <1>1 DEF IInv, Typed, SlotsOK, SlotOK
<1>5. Boxed'
    BY <1>1 DEF IInv, Boxed
<1>6. LifeOK'
    <2>1. ASSUME NEW t \in Tasks PROVE TaskOK(t)'
        <3>1. TaskOK(t) /\ ~Some(poolBox', Request(t)) /\ One(poolBox', Request(t))
            BY <1>1, EmptyBox DEF IInv, LifeOK
        <3>2. Waiting(t)' => Waiting(t)
            BY <3>1, <1>1, <1>2 DEF Waiting
        <3>3. (\A c \in OwnOfTask(t) : ~Born(c) /\ ~Offered(c) /\ ~Sent(c))
                => (\A c \in OwnOfTask(t) : ~Born(c) /\ ~Offered(c) /\ ~Sent(c))'
            BY <1>1 DEF Born, Offered, Sent
        <3> QED BY <3>1, <3>2, <3>3, <1>1, <1>2 DEF TaskOK
    <2>2. ASSUME NEW c \in Own PROVE ContainerOK(c)'
        BY <1>1 DEF IInv, LifeOK, ContainerOK, Offered, Sent, Reported, Born
    <2>3. ASSUME NEW d \in Devices, NEW c \in OwnOfDevice(d) PROVE OnSlotOK(c, d)'
        BY <1>1 DEF IInv, LifeOK, OnSlotOK, Born
    <2> QED BY <2>1, <2>2, <2>3, <1>1 DEF IInv, LifeOK
<1>7. AgentsOK' /\ FullOK'
    BY <1>2 DEF AgentsOK, FullOK
<1> QED BY <1>3, <1>4, <1>5, <1>6, <1>7 DEF IInv

-----------------------------------------------------------------------------
(* The handlers of the pool, one after the other. *)
LEMMA PoolMsgFields ==
    ASSUME NEW m \in PoolMsgs
    PROVE  /\ m.kind \in {"AddAgent", "RemoveAgent"} => m \in [kind : {"AddAgent", "RemoveAgent"}, agent : Agents]
           /\ m.kind = "AddDevice" => m.device \in Devices /\ m.container \in Holders(m.device)
           /\ m.kind \in {"FreeDevice", "RemoveDevice"} =>
                m \in [kind : {"FreeDevice", "RemoveDevice"}, device : Devices]
           /\ m.kind = "FreeZeroSlot" => m \in [kind : {"FreeZeroSlot"}, c : Own]
           /\ m.kind \in {"AllocateRequest", "ResourcesReleased"} =>
                m \in [kind : {"AllocateRequest", "ResourcesReleased"}, task : Tasks]
<1>1. CASE m \in DeviceMsgs
    <2>1. PICK d \in Devices : m \in [kind : {"AddDevice"}, device : {d}, container : Holders(d)]
        BY <1>1 DEF DeviceMsgs
    <2>2. m.kind = "AddDevice" /\ m.device = d /\ m.container \in Holders(d)
        BY <2>1
    <2> QED BY <2>2
<1>2. CASE m \in [kind : {"AddAgent", "RemoveAgent"}, agent : Agents]
    BY <1>2
<1>3. CASE m \in [kind : {"FreeDevice", "RemoveDevice"}, device : Devices]
    BY <1>3
<1>4. CASE m \in [kind : {"FreeZeroSlot"}, c : Own]
    BY <1>4
<1>5. CASE m \in [kind : {"AllocateRequest", "ResourcesReleased"}, task : Tasks]
    BY <1>5
<1> QED BY <1>1, <1>2, <1>3, <1>4, <1>5 DEF PoolMsgs

\* Messages about an agent are handled while the pool knows the agent.
LEMMA AboutKnown ==
    ASSUME IInv, rp.up, poolBox # <<>>, NEW a \in Agents, Head(poolBox) \in About(a)
    PROVE  a \in rp.agents
<1>1. poolBox \in Seq(PoolMsgs) /\ AgentOK(a)
    BY DEF IInv, Boxed, AgentsOK
<1> QED BY <1>1, TailOrder DEF AgentOK

LEMMA ReceivedTyped ==
    ASSUME IInv, NEW kind, Received(kind)
    PROVE  /\ rp.up /\ poolBox # <<>> /\ Head(poolBox) \in PoolMsgs /\ Head(poolBox).kind = kind
           /\ PoolOK(rp) /\ rp \in Pools
BY TailType DEF IInv, Boxed, Received, PoolOK

LEMMA EmptyBounded == Cardinality({}) <= MaxZeroSlotContainers
BY FS_EmptySet, Constants

LEMMA AddAgentKeeps == ASSUME IInv, AddAgent PROVE IInv'
<1>0. Received("AddAgent") /\ rp.up /\ poolBox # <<>> /\ PoolOK(rp) /\ rp \in Pools
    BY ReceivedTyped DEF AddAgent
<1>1. PICK a \in Agents : Head(poolBox) = [kind |-> "AddAgent", agent |-> a]
    BY <1>0, ReceivedTyped, PoolMsgFields
<1>a. Head(poolBox).agent = a
    BY <1>1
<1>2. rp' = [rp EXCEPT !.agents = rp.agents \union {a}, !.zero[a] = {}, !.reschedule = TRUE]
      /\ poolBox' = Tail(poolBox)
      /\ UNCHANGED <<agent, slot, host, task, agentBox, slotBox, taskBox, used>>
    BY <1>0, <1>a DEF AddAgent, Handled, Pools
<1>3. rp' \in Pools /\ rp'.up = rp.up /\ rp'.reschedule /\ rp'.agents = rp.agents \cup {a}
      /\ rp'.devices = rp.devices /\ rp'.holder = rp.holder
      /\ rp'.zero = [rp.zero EXCEPT ![a] = {}]
      /\ rp'.tasks = rp.tasks /\ rp'.allocated = rp.allocated
    BY <1>0, <1>2 DEF Pools
<1>4. PoolOK(rp')
    BY <1>0, <1>3, EmptyBounded DEF PoolOK, Pools
<1>5. \A b \in Agents : Head(poolBox) \in AgentAdded(b) => b \in rp'.agents
    BY <1>1, <1>3 DEF AgentAdded
<1> QED BY <1>0, <1>2, <1>3, <1>4, <1>5, PoolHandled

LEMMA AddDeviceKeeps == ASSUME IInv, AddDevice PROVE IInv'
<1>0. Received("AddDevice") /\ rp.up /\ poolBox # <<>> /\ PoolOK(rp) /\ rp \in Pools
    BY ReceivedTyped DEF AddDevice
<1>1. PICK m : m = Head(poolBox)
    OBVIOUS
<1>2. m.kind = "AddDevice" /\ m.device \in Devices /\ m.container \in Holders(m.device) /\ m \in PoolMsgs
    BY <1>0, <1>1, ReceivedTyped, PoolMsgFields
<1>3. AgentOf[m.device] \in Agents /\ m \in About(AgentOf[m.device])
    BY <1>2, Constants DEF About
<1>4. AgentOf[m.device] \in rp.agents
    BY <1>0, <1>1, <1>3, AboutKnown
<1>5. rp' = [rp EXCEPT !.devices = rp.devices \union {m.device}, !.holder[m.device] = m.container,
                       !.reschedule = TRUE]
      /\ poolBox' = Tail(poolBox)
      /\ UNCHANGED <<agent, slot, host, task, agentBox, slotBox, taskBox, used>>
    BY <1>0, <1>1, <1>4 DEF AddDevice, Handled, Pools
<1>6. m.container \in SUBSET Own
    BY <1>2 DEF Holders, OwnOfDevice
<1>7. rp' \in Pools /\ rp'.up = rp.up /\ rp'.reschedule /\ rp'.agents = rp.agents
      /\ rp'.devices = rp.devices \cup {m.device}
      /\ rp'.holder = [rp.holder EXCEPT ![m.device] = m.container]
      /\ rp'.zero = rp.zero /\ rp'.tasks = rp.tasks /\ rp'.allocated = rp.allocated
    BY <1>0, <1>2, <1>5, <1>6 DEF Pools
<1>8. PoolOK(rp')
    BY <1>0, <1>2, <1>4, <1>7 DEF PoolOK, Pools
<1>9. \A b \in Agents : Head(poolBox) \notin AgentAdded(b)
    BY <1>1, <1>2 DEF AgentAdded
<1> QED BY <1>0, <1>5, <1>7, <1>8, <1>9, PoolHandled

LEMMA FreeDeviceKeeps == ASSUME IInv, FreeDevice PROVE IInv'
<1>0. Received("FreeDevice") /\ rp.up /\ poolBox # <<>> /\ PoolOK(rp) /\ rp \in Pools
    BY ReceivedTyped DEF FreeDevice
<1>1. PICK d \in Devices : Head(poolBox) = [kind |-> "FreeDevice", device |-> d]
    BY <1>0, ReceivedTyped, PoolMsgFields
<1>2. CASE Panicked
    BY <1>2, PoolPanicked
<1>3. CASE Handled([rp EXCEPT !.holder[d] = {}])
    <2>1. rp' = [rp EXCEPT !.holder[d] = {}, !.reschedule = TRUE]
          /\ poolBox' = Tail(poolBox)
          /\ UNCHANGED <<agent, slot, host, task, agentBox, slotBox, taskBox, used>>
        BY <1>0, <1>3 DEF Handled, Pools
    <2>2. rp' \in Pools /\ rp'.up = rp.up /\ rp'.reschedule /\ rp'.agents = rp.agents
          /\ rp'.devices = rp.devices /\ rp'.holder = [rp.holder EXCEPT ![d] = {}]
          /\ rp'.zero = rp.zero /\ rp'.tasks = rp.tasks /\ rp'.allocated = rp.allocated
        BY <1>0, <2>1 DEF Pools
    <2>3. PoolOK(rp')
        BY <1>0, <2>2 DEF PoolOK, Pools, Holders
    <2>4. \A b \in Agents : Head(poolBox) \notin AgentAdded(b)
        BY <1>1 DEF AgentAdded
    <2> QED BY <1>0, <2>1, <2>2, <2>3, <2>4, PoolHandled
<1> QED BY <1>1, <1>2, <1>3 DEF FreeDevice

LEMMA FreeZeroSlotKeeps == ASSUME IInv, FreeZeroSlot PROVE IInv'
<1>0. Received("FreeZeroSlot") /\ rp.up /\ poolBox # <<>> /\ PoolOK(rp) /\ rp \in Pools
    BY ReceivedTyped DEF FreeZeroSlot
<1>1. PICK c \in Own : Head(poolBox) = [kind |-> "FreeZeroSlot", c |-> c]
    BY <1>0, ReceivedTyped, PoolMsgFields
<1>a. Head(poolBox).c = c
    BY <1>1
<1>2. c.agent \in Agents
    BY OwnFields
<1>3. c.agent \in rp.agents
    BY <1>0, <1>1, <1>2, AboutKnown, ReceivedTyped DEF About
<1>4. rp' = [rp EXCEPT !.zero[c.agent] = rp.zero[c.agent] \ {c}, !.reschedule = TRUE]
      /\ poolBox' = Tail(poolBox)
      /\ UNCHANGED <<agent, slot, host, task, agentBox, slotBox, taskBox, used>>
    BY <1>0, <1>a, <1>2, <1>3 DEF FreeZeroSlot, Handled, Pools
<1>5. rp' \in Pools /\ rp'.up = rp.up /\ rp'.reschedule /\ rp'.agents = rp.agents
      /\ rp'.devices = rp.devices /\ rp'.holder = rp.holder
      /\ rp'.zero = [rp.zero EXCEPT ![c.agent] = rp.zero[c.agent] \ {c}]
      /\ rp'.tasks = rp.tasks /\ rp'.allocated = rp.allocated
    BY <1>0, <1>2, <1>4 DEF Pools
<1>6. ASSUME NEW a \in Agents PROVE Cardinality(rp'.zero[a]) <= MaxZeroSlotContainers
    <2>1. rp.zero[a] \in SUBSET Containers /\ rp'.zero[a] \in SUBSET rp.zero[a]
        BY <1>0, <1>5 DEF Pools, Own
    <2>2. IsFiniteSet(rp.zero[a]) /\ IsFiniteSet(rp'.zero[a])
        BY <2>1, FiniteContainers, FS_Subset
    <2>3. Cardinality(rp'.zero[a]) <= Cardinality(rp.zero[a])
        BY <2>1, <2>2, FS_Subset
    <2>4. Cardinality(rp'.zero[a]) \in Nat /\ Cardinality(rp.zero[a]) \in Nat
        BY <2>2, FS_CardinalityType
    <2> QED BY <2>3, <2>4, <1>0, Constants DEF PoolOK
<1>7. PoolOK(rp')
    BY <1>0, <1>5, <1>6 DEF PoolOK
<1>8. \A b \in Agents : Head(poolBox) \notin AgentAdded(b)
    BY <1>1 DEF AgentAdded
<1> QED BY <1>0, <1>4, <1>5, <1>7, <1>8, PoolHandled

LEMMA RemoveDeviceKeeps == ASSUME IInv, RemoveDevice PROVE IInv'
<1>0. Received("RemoveDevice") /\ rp.up /\ poolBox # <<>> /\ PoolOK(rp) /\ rp \in Pools
    BY ReceivedTyped DEF RemoveDevice
<1>1. PICK d \in Devices : Head(poolBox) = [kind |-> "RemoveDevice", device |-> d]
    BY <1>0, ReceivedTyped, PoolMsgFields
<1>a. Head(poolBox).device = d
    BY <1>1
<1>2. AgentOf[d] \in Agents /\ Head(poolBox) \in About(AgentOf[d])
    BY <1>0, <1>1, ReceivedTyped, Constants DEF About
<1>3. AgentOf[d] \in rp.agents
    BY <1>0, <1>2, AboutKnown
<1>4. rp' = [rp EXCEPT !.devices = rp.devices \ {d}, !.holder[d] = {}, !.reschedule = TRUE]
      /\ poolBox' = Tail(poolBox)
      /\ UNCHANGED <<agent, slot, host, task, agentBox, slotBox, taskBox, used>>
    BY <1>0, <1>a, <1>3 DEF RemoveDevice, Handled, Pools
<1>5. rp' \in Pools /\ rp'.up = rp.up /\ rp'.reschedule /\ rp'.agents = rp.agents
      /\ rp'.devices = rp.devices \ {d} /\ rp'.holder = [rp.holder EXCEPT ![d] = {}]
      /\ rp'.zero = rp.zero /\ rp'.tasks = rp.tasks /\ rp'.allocated = rp.allocated
    BY <1>0, <1>4 DEF Pools
<1>6. PoolOK(rp')
    BY <1>0, <1>5 DEF PoolOK, Pools, Holders
<1>7. \A b \in Agents : Head(poolBox) \notin AgentAdded(b)
    BY <1>1 DEF AgentAdded
<1> QED BY <1>0, <1>4, <1>5, <1>6, <1>7, PoolHandled

LEMMA RemoveAgentKeeps == ASSUME IInv, RemoveAgent PROVE IInv'
<1>0. Received("RemoveAgent") /\ rp.up /\ poolBox # <<>> /\ PoolOK(rp) /\ rp \in Pools
    BY ReceivedTyped DEF RemoveAgent
<1>1. PICK a \in Agents : Head(poolBox) = [kind |-> "RemoveAgent", agent |-> a]
    BY <1>0, ReceivedTyped, PoolMsgFields
<1>a. Head(poolBox).agent = a
    BY <1>1
<1>2. rp' = [rp EXCEPT !.agents = rp.agents \ {a}, !.devices = rp.devices \ SlotsOf(a),
                       !.holder = [d \in Devices |-> IF d \in SlotsOf(a) THEN {} ELSE rp.holder[d]],
                       !.zero[a] = {}, !.reschedule = TRUE]
      /\ poolBox' = Tail(poolBox)
      /\ UNCHANGED <<agent, slot, host, task, agentBox, slotBox, taskBox, used>>
    BY <1>0, <1>a DEF RemoveAgent, Handled, Pools
<1>3. rp' \in Pools /\ rp'.up = rp.up /\ rp'.reschedule /\ rp'.agents = rp.agents \ {a}
      /\ rp'.devices = rp.devices \ SlotsOf(a)
      /\ rp'.holder = [d \in Devices |-> IF d \in SlotsOf(a) THEN {} ELSE rp.holder[d]]
      /\ rp'.zero = [rp.zero EXCEPT ![a] = {}]
      /\ rp'.tasks = rp.tasks /\ rp'.allocated = rp.allocated
    BY <1>0, <1>2 DEF Pools
<1>4. \A d \in rp'.devices : AgentOf[d] \in rp'.agents
    BY <1>0, <1>3 DEF PoolOK, Pools, SlotsOf
<1>5. PoolOK(rp')
    BY <1>0, <1>3, <1>4, EmptyBounded DEF PoolOK, Pools, Holders
<1>6. \A b \in rp.agents : b \in rp'.agents \/ Head(poolBox) \in AgentRemoved(b)
    BY <1>1, <1>3 DEF AgentRemoved
<1>7. \A b \in Agents : Head(poolBox) \notin AgentAdded(b)
    BY <1>1 DEF AgentAdded
<1> QED BY <1>0, <1>2, <1>3, <1>5, <1>6, <1>7, PoolHandled

LEMMA addTaskKeeps == ASSUME IInv, addTask PROVE IInv'
<1>0. Received("AllocateRequest") /\ rp.up /\ poolBox # <<>> /\ PoolOK(rp) /\ rp \in Pools
    BY ReceivedTyped DEF addTask
<1>1. PICK t \in Tasks : Head(poolBox) = [kind |-> "AllocateRequest", task |-> t]
    BY <1>0, ReceivedTyped, PoolMsgFields
<1>a. Head(poolBox).task = t
    BY <1>1
<1>2. rp' = [rp EXCEPT !.tasks = rp.tasks \union {t}, !.reschedule = TRUE]
      /\ poolBox' = Tail(poolBox)
      /\ UNCHANGED <<agent, slot, host, task, agentBox, slotBox, taskBox, used>>
    BY <1>0, <1>a DEF addTask, Handled, Pools
<1>3. rp' \in Pools /\ rp'.up = rp.up /\ rp'.reschedule /\ rp'.agents = rp.agents
      /\ rp'.devices = rp.devices /\ rp'.holder = rp.holder /\ rp'.zero = rp.zero
      /\ rp'.tasks = rp.tasks \cup {t} /\ rp'.allocated = rp.allocated
    BY <1>0, <1>2 DEF Pools
<1>4. PoolOK(rp')
    BY <1>0, <1>3 DEF PoolOK
<1>5. \A b \in Agents : Head(poolBox) \notin AgentAdded(b)
    BY <1>1 DEF AgentAdded
<1>6. Head(poolBox) \in Request(t)
    BY <1>1 DEF Request
<1> QED BY <1>0, <1>2, <1>3, <1>4, <1>5, <1>6, PoolHandled

LEMMA resourcesReleasedKeeps == ASSUME IInv, resourcesReleased PROVE IInv'
<1>0. Received("ResourcesReleased") /\ rp.up /\ poolBox # <<>> /\ PoolOK(rp) /\ rp \in Pools
    BY ReceivedTyped DEF resourcesReleased
<1>1. PICK t \in Tasks : Head(poolBox) = [kind |-> "ResourcesReleased", task |-> t]
    BY <1>0, ReceivedTyped, PoolMsgFields
<1>a. Head(poolBox).task = t
    BY <1>1
<1>2. rp' = [rp EXCEPT !.tasks = rp.tasks \ {t}, !.allocated = rp.allocated \ {t}, !.reschedule = TRUE]
      /\ poolBox' = Tail(poolBox)
      /\ UNCHANGED <<agent, slot, host, task, agentBox, slotBox, taskBox, used>>
    BY <1>0, <1>a DEF resourcesReleased, Handled, Pools
<1>3. rp' \in Pools /\ rp'.up = rp.up /\ rp'.reschedule /\ rp'.agents = rp.agents
      /\ rp'.devices = rp.devices /\ rp'.holder = rp.holder /\ rp'.zero = rp.zero
      /\ rp'.tasks = rp.tasks \ {t} /\ rp'.allocated = rp.allocated \ {t}
    BY <1>0, <1>2 DEF Pools
<1>4. PoolOK(rp')
    BY <1>0, <1>3 DEF PoolOK
<1>5. \A b \in Agents : Head(poolBox) \notin AgentAdded(b)
    BY <1>1 DEF AgentAdded
<1> QED BY <1>0, <1>2, <1>3, <1>4, <1>5, PoolHandled

-----------------------------------------------------------------------------
(* Messages that leave the lives of the containers as they are. *)
AgentsHearOf(new, old) ==
    \A c \in Own :
        /\ Some(new[c.agent], Start(c)) => Some(old[c.agent], Start(c))
        /\ Some(new[c.agent], Report(c)) => Some(old[c.agent], Report(c))
        /\ One(old[c.agent], Start(c)) => One(new[c.agent], Start(c))
        /\ One(old[c.agent], Report(c)) => One(new[c.agent], Report(c))

LEMMA FewerHearOf ==
    ASSUME NEW new, NEW old, \A a \in Agents : Fewer(new[a], old[a])
    PROVE  AgentsHearOf(new, old)
BY OwnFields DEF AgentsHearOf, Fewer

TasksHearOf(new, old) ==
    \A t \in Tasks :
        /\ One(old[t], Allocations(t)) => One(new[t], Allocations(t))
        /\ \A c \in OwnOfTask(t) : Some(new[t], Offering(c)) => Some(old[t], Offering(c))

LEMMA FewerTasksHearOf ==
    ASSUME NEW new, NEW old, \A t \in Tasks : Fewer(new[t], old[t])
    PROVE  TasksHearOf(new, old)
BY DEF TasksHearOf, Fewer

LEMMA OnSlotQuiet ==
    ASSUME IInv,
           host'.live \cup host'.ended = host.live \cup host.ended,
           \A a \in Agents : agent'[a].containers \subseteq agent[a].containers,
           \A d \in Devices : Fewer(slotBox'[d], slotBox[d])
    PROVE  \A d \in Devices : \A c \in OwnOfDevice(d) : OnSlotOK(c, d)'
<1> SUFFICES ASSUME NEW d \in Devices, NEW c \in OwnOfDevice(d) PROVE OnSlotOK(c, d)'
    OBVIOUS
<1>1. c \in Own /\ c.agent \in Agents /\ OnSlotOK(c, d)
    BY OwnFields DEF IInv, LifeOK, OwnOfDevice
<1>2. Born(c)' <=> Born(c)
    BY DEF Born
<1> QED BY <1>1, <1>2 DEF OnSlotOK, Fewer

LEMMA LifeQuiet ==
    ASSUME IInv,
           rp'.tasks = rp.tasks, rp'.allocated = rp.allocated,
           host'.live \subseteq host.live, host'.killed \subseteq host'.live,
           host'.live \cup host'.ended = host.live \cup host.ended,
           host'.live \cap host'.ended = {},
           \A a \in Agents : agent'[a].containers \subseteq agent[a].containers,
           \A c \in Own : /\ c \in host'.live \/ Some(agentBox'[c.agent], Report(c))
                          /\ agent[c.agent].phase = "connected" /\ c \in agent[c.agent].containers
                          => agent'[c.agent].phase = "connected" /\ c \in agent'[c.agent].containers,
           \A t \in Tasks : task'[t].phase = "absent" => task[t].phase = "absent",
           \A t \in Tasks : /\ Some(poolBox', Request(t)) => Some(poolBox, Request(t))
                            /\ One(poolBox, Request(t)) => One(poolBox', Request(t)),
           TasksHearOf(taskBox', taskBox),
           AgentsHearOf(agentBox', agentBox),
           \A d \in Devices : \A c \in OwnOfDevice(d) : OnSlotOK(c, d)'
    PROVE  LifeOK'
<1>1. ASSUME NEW c \in Own
      PROVE  /\ Offered(c)' => Offered(c)
             /\ Sent(c)' => Sent(c)
             /\ Reported(c)' => Reported(c)
             /\ Born(c)' <=> Born(c)
    <2>1. c.task \in Tasks /\ c \in OwnOfTask(c.task)
        BY OwnFields
    <2> QED BY <2>1 DEF TasksHearOf, AgentsHearOf, Offered, Sent, Reported, Born
<1>2. ASSUME NEW t \in Tasks PROVE TaskOK(t)'
    <2>1. TaskOK(t)
        BY DEF IInv, LifeOK
    <2>2. Waiting(t)' => Waiting(t)
        BY DEF Waiting
    <2>3. (\A c \in OwnOfTask(t) : ~Born(c) /\ ~Offered(c) /\ ~Sent(c))
            => (\A c \in OwnOfTask(t) : ~Born(c) /\ ~Offered(c) /\ ~Sent(c))'
        BY <1>1 DEF OwnOfTask
    <2>4. One(taskBox[t], Allocations(t)) => One(taskBox[t], Allocations(t))'
        BY DEF TasksHearOf
    <2> QED BY <2>1, <2>2, <2>3, <2>4 DEF TaskOK
<1>3. ASSUME NEW c \in Own PROVE ContainerOK(c)'
    <2>1. c.agent \in Agents /\ ContainerOK(c)
        BY OwnFields DEF IInv, LifeOK
    <2>2. Reported(c)' <=> Some(agentBox'[c.agent], Report(c))
        BY DEF Reported
    <2> QED BY <2>1, <2>2, <1>1 DEF ContainerOK, AgentsHearOf
<1> QED BY <1>2, <1>3 DEF LifeOK

\* What is sent to agents.
LEMMA ToAgentsBox ==
    ASSUME Boxed, NEW kind \in {"StartTaskContainer", "KillTaskContainer"}, NEW C \in SUBSET Own,
           NEW a \in Agents, NEW box, box = ToAgents(kind, C)
    PROVE  /\ box[a] \in Seq(AgentMsgs(a)) /\ DOMAIN box = Agents
           /\ \A S : /\ Some(box[a], S) =>
                            \/ Some(agentBox[a], S)
                            \/ \E c \in C : c.agent = a /\ agent[a].phase = "connected"
                                            /\ [kind |-> kind, c |-> c] \in S
                     /\ Some(agentBox[a], S) => Some(box[a], S)
                     /\ One(agentBox[a], S) /\ (\A c \in C : [kind |-> kind, c |-> c] \notin S)
                            => One(box[a], S)
                     /\ One(agentBox[a], S) /\ ~Some(agentBox[a], S) /\ (\E x : S = {x})
                            => One(box[a], S)
<1> DEFINE D == {c \in C : c.agent = a /\ agent[a].phase = "connected"}
           Q == {[kind |-> kind, c |-> c] : c \in D}
<1>1. box[a] = agentBox[a] \o SetToSeq(Q) /\ DOMAIN box = Agents
    BY DEF ToAgents
<1>2. D \in SUBSET Containers
    BY DEF Own
<1>3. IsFiniteSet(Q)
    BY <1>2, FiniteSent
<1>4. Q \in SUBSET AgentMsgs(a) /\ agentBox[a] \in Seq(AgentMsgs(a))
    BY DEF AgentMsgs, OwnOfAgent, Boxed
<1>6. ASSUME NEW S PROVE Q \cap S # {} =>
          \E c \in C : c.agent = a /\ agent[a].phase = "connected" /\ [kind |-> kind, c |-> c] \in S
    OBVIOUS
<1>7. ASSUME NEW S PROVE (\A c \in C : [kind |-> kind, c |-> c] \notin S) => Q \cap S = {}
    OBVIOUS
<1>8. ASSUME NEW S, NEW x, S = {x} PROVE Q \cap S \subseteq {x}
    BY <1>8
<1> HIDE DEF Q
<1>9. ASSUME NEW S
      PROVE  /\ box[a] \in Seq(AgentMsgs(a))
             /\ Some(box[a], S) <=> Some(agentBox[a], S) \/ Q \cap S # {}
             /\ One(agentBox[a], S) /\ (Q \cap S = {} \/ (~Some(agentBox[a], S) /\ \E x : Q \cap S \subseteq {x}))
                  => One(box[a], S)
    BY <1>1, <1>3, <1>4, JoinBox
<1> QED BY <1>1, <1>9, <1>6, <1>7, <1>8

LEMMA KillsSent ==
    ASSUME Boxed, NEW C \in SUBSET Own, NEW box, box = ToAgents("KillTaskContainer", C)
    PROVE  /\ DOMAIN box = Agents /\ \A a \in Agents : box[a] \in Seq(AgentMsgs(a))
           /\ AgentsHearOf(box, agentBox)
<1>1. DOMAIN box = Agents /\ \A a \in Agents : box[a] \in Seq(AgentMsgs(a))
    BY ToAgentsBox DEF ToAgents
<1>2. ASSUME NEW c \in Own, NEW S \in {Start(c), Report(c)}
      PROVE  /\ Some(box[c.agent], S) => Some(agentBox[c.agent], S)
             /\ One(agentBox[c.agent], S) => One(box[c.agent], S)
    <2>1. \A b : [kind |-> "KillTaskContainer", c |-> b] \notin S
        BY DEF Start, Report
    <2>2. c.agent \in Agents
        BY OwnFields
    <2> QED BY <2>1, <2>2, ToAgentsBox
<1> QED BY <1>1, <1>2 DEF AgentsHearOf

\* What is sent to the pool about an agent it knows, or will.
PoolTold(a) ==
    \/ poolBox' = poolBox
    \/ rp.up /\ \E m \in About(a) : poolBox' = Append(poolBox, m)

LEMMA AboutOther ==
    ASSUME NEW a, NEW m \in About(a)
    PROVE  /\ m \in PoolMsgs /\ \A t : m \notin Request(t)
           /\ \A b : m \notin AgentAdded(b) /\ m \notin AgentRemoved(b)
           /\ \A b : b # a => m \notin About(b)
BY DEF About, Request, AgentAdded, AgentRemoved

LEMMA ToldPool ==
    ASSUME IInv, NEW a \in Agents, agent[a].phase \in {"connected", "closing"}, PoolTold(a),
           rp' = rp, \A b \in Agents : agent'[b].phase = agent[b].phase
    PROVE  /\ poolBox' \in Seq(PoolMsgs) /\ (~rp.up => poolBox' = <<>>)
           /\ \A t \in Tasks : /\ Some(poolBox', Request(t)) => Some(poolBox, Request(t))
                               /\ One(poolBox, Request(t)) => One(poolBox', Request(t))
           /\ AgentsOK'
<1>1. CASE poolBox' = poolBox
    <2>1. AgentsOK'
        BY <1>1 DEF IInv, AgentsOK, AgentOK
    <2> QED BY <1>1, <2>1 DEF IInv, Boxed
<1>2. ASSUME rp.up, NEW m \in About(a), poolBox' = Append(poolBox, m)
      PROVE  /\ poolBox' \in Seq(PoolMsgs) /\ (~rp.up => poolBox' = <<>>)
             /\ \A t \in Tasks : /\ Some(poolBox', Request(t)) => Some(poolBox, Request(t))
                                 /\ One(poolBox, Request(t)) => One(poolBox', Request(t))
             /\ AgentsOK'
    <2>1. poolBox \in Seq(PoolMsgs) /\ m \in PoolMsgs
        BY AboutOther DEF IInv, Boxed
    <2>2. poolBox' \in Seq(PoolMsgs)
        BY <1>2, <2>1
    <2>3. ASSUME NEW t \in Tasks
          PROVE  /\ Some(poolBox', Request(t)) => Some(poolBox, Request(t))
                 /\ One(poolBox, Request(t)) => One(poolBox', Request(t))
        BY <1>2, <2>1, AboutOther, AppendBox
    <2>4. ASSUME NEW b \in Agents PROVE AgentOK(b)'
        <3>1. AgentOK(b)
            BY <1>2 DEF IInv, AgentsOK
        <3>2. /\ Some(poolBox', AgentRemoved(b)) <=> Some(poolBox, AgentRemoved(b))
              /\ Some(poolBox', AgentAdded(b)) <=> Some(poolBox, AgentAdded(b))
            BY <1>2, <2>1, AboutOther, AppendBox
        <3>3. CASE b # a
            <4>1. m \notin About(b)
                BY <3>3, <1>2, AboutOther
            <4>2. /\ Before(poolBox, About(b), AgentRemoved(b)) => Before(poolBox', About(b), AgentRemoved(b))
                  /\ Preceded(poolBox, About(b), AgentAdded(b)) => Preceded(poolBox', About(b), AgentAdded(b))
                BY <1>2, <2>1, <4>1, AppendOrder
            <4> QED BY <3>1, <3>2, <4>2 DEF AgentOK
        <3>4. CASE b = a
            <4>1. ~Some(poolBox, AgentRemoved(b)) /\ (b \in rp.agents \/ Some(poolBox, AgentAdded(b)))
                BY <3>1, <3>4 DEF AgentOK
            <4>2. m \notin AgentRemoved(b)
                BY <1>2, AboutOther
            <4>3. /\ Before(poolBox, About(b), AgentRemoved(b)) => Before(poolBox', About(b), AgentRemoved(b))
                  /\ Preceded(poolBox, About(b), AgentAdded(b)) /\ Some(poolBox, AgentAdded(b))
                        => Preceded(poolBox', About(b), AgentAdded(b))
                BY <1>2, <2>1, <4>1, <4>2, AppendOrder
            <4> QED BY <3>1, <3>2, <4>1, <4>3 DEF AgentOK
        <3> QED BY <3>3, <3>4
    <2> QED BY <1>2, <2>2, <2>3, <2>4 DEF AgentsOK
<1> QED BY <1>1, <1>2 DEF PoolTold

-----------------------------------------------------------------------------
(* Slots. *)
LEMMA SlotStep ==
    ASSUME IInv, NEW d \in Devices, slot[d].phase \in {"starting", "up"},
           UNCHANGED <<rp, agent, host, task, taskBox>>,
           used' \in [failures : Nat, toggles : Nat, kills : Nat],
           NEW x \in [phase : {"up", "gone"}, userEnabled : BOOLEAN, deviceAdded : BOOLEAN,
                      container : SUBSET Own],
           x.container \in Holders(d),
           x.phase = "up" => x.userEnabled = x.deviceAdded,
           x.phase = "gone" => ~x.deviceAdded,
           slot' = [slot EXCEPT ![d] = x],
           PoolTold(AgentOf[d]),
           DOMAIN agentBox' = Agents, \A a \in Agents : agentBox'[a] \in Seq(AgentMsgs(a)),
           AgentsHearOf(agentBox', agentBox),
           DOMAIN slotBox' = Devices,
           \A e \in Devices : slotBox'[e] \in Seq(SlotMsgs(e)) /\ Fewer(slotBox'[e], slotBox[e])
    PROVE  IInv'
<1>1. AgentOf[d] \in Agents /\ agent[AgentOf[d]].phase \in {"connected", "closing"}
    BY Constants DEF IInv, SlotsOK, SlotOK
<1>2. /\ poolBox' \in Seq(PoolMsgs) /\ (~rp.up => poolBox' = <<>>)
      /\ \A t \in Tasks : /\ Some(poolBox', Request(t)) => Some(poolBox, Request(t))
                          /\ One(poolBox, Request(t)) => One(poolBox', Request(t))
      /\ AgentsOK'
    BY <1>1, ToldPool
<1>3. PoolOK(rp') /\ FullOK'
    BY DEF IInv, PoolOK, FullOK
<1>4. Typed'
    BY DEF IInv, Typed
<1>5. Boxed'
    BY <1>2 DEF IInv, Boxed
<1>6. SlotsOK'
    <2> SUFFICES ASSUME NEW e \in Devices PROVE SlotOK(e)'
        BY DEF SlotsOK
    <2>1. slot \in [Devices -> [phase : {"absent", "starting", "up", "gone"},
                             userEnabled : BOOLEAN, deviceAdded : BOOLEAN,
                             container : SUBSET Own]]
        BY DEF IInv, Typed
    <2>2. CASE e = d
        BY <2>1, <2>2, <1>1 DEF SlotOK
    <2>3. CASE e # d
        BY <2>1, <2>3 DEF IInv, SlotsOK, SlotOK
    <2> QED BY <2>2, <2>3
<1>7. TasksHearOf(taskBox', taskBox)
    BY DEF TasksHearOf
<1>8. host.killed \subseteq host.live /\ host.live \cap host.ended = {}
    BY DEF IInv, LifeOK, ContainerOK, Typed
<1>9. LifeOK'
    BY <1>2, <1>7, <1>8, LifeQuiet, OnSlotQuiet
<1> QED BY <1>2, <1>3, <1>4, <1>5, <1>6, <1>9 DEF IInv

\* The patch of a slot that becomes x tells the pool and the agent.
LEMMA PatchTells ==
    ASSUME IInv, NEW d \in Devices, NEW on \in BOOLEAN,
           NEW x \in [phase : {"up", "gone"}, userEnabled : BOOLEAN, deviceAdded : BOOLEAN,
                      container : SUBSET Own],
           x.container \in Holders(d), patch(d, x, on)
    PROVE  /\ PoolTold(AgentOf[d])
           /\ DOMAIN agentBox' = Agents /\ \A a \in Agents : agentBox'[a] \in Seq(AgentMsgs(a))
           /\ AgentsHearOf(agentBox', agentBox)
           /\ slot' = [slot EXCEPT ![d] = [x EXCEPT !.deviceAdded = on]]
<1>1. /\ agentBox' = ToAgents("KillTaskContainer", IF ~on /\ x.deviceAdded THEN x.container ELSE {})
      /\ slot' = [slot EXCEPT ![d] = [x EXCEPT !.deviceAdded = on]]
    BY DEF patch
<1>2. /\ DOMAIN agentBox' = Agents /\ \A a \in Agents : agentBox'[a] \in Seq(AgentMsgs(a))
      /\ AgentsHearOf(agentBox', agentBox)
    <2>1. (IF ~on /\ x.deviceAdded THEN x.container ELSE {}) \in SUBSET Own
        OBVIOUS
    <2> QED BY <1>1, <2>1, KillsSent DEF IInv
<1>3. PoolTold(AgentOf[d])
    <2>1. poolBox \in Seq(PoolMsgs) /\ (~rp.up => poolBox = <<>>)
        BY DEF IInv, Boxed
    <2>2. CASE ~rp.up
        BY <2>1, <2>2 DEF patch, ToPool, PoolTold
    <2>3. CASE rp.up /\ on /\ ~x.deviceAdded
        <3>1. PICK m : m = [kind |-> "AddDevice", device |-> d, container |-> x.container]
            OBVIOUS
        <3>2. m \in [kind : {"AddDevice"}, device : {d}, container : Holders(d)]
            BY <3>1
        <3>3. m \in DeviceMsgs
            BY <3>2 DEF DeviceMsgs
        <3>4. m \in PoolMsgs /\ m \in About(AgentOf[d])
            BY <3>1, <3>3 DEF PoolMsgs, About
        <3>5. poolBox' = poolBox \o <<m>>
            BY <2>3, <3>1 DEF patch, ToPool
        <3>6. poolBox' = Append(poolBox, m)
            BY <2>1, <3>4, <3>5, ToPoolForms
        <3> QED BY <2>3, <3>4, <3>6 DEF PoolTold
    <2>4. CASE rp.up /\ ~on /\ x.deviceAdded
        <3>1. PICK m : m = [kind |-> "RemoveDevice", device |-> d]
            OBVIOUS
        <3>4. m \in PoolMsgs /\ m \in About(AgentOf[d])
            BY <3>1 DEF PoolMsgs, About
        <3>5. poolBox' = poolBox \o <<m>>
            BY <2>4, <3>1 DEF patch, ToPool
        <3>6. poolBox' = Append(poolBox, m)
            BY <2>1, <3>4, <3>5, ToPoolForms
        <3> QED BY <2>4, <3>4, <3>6 DEF PoolTold
    <2>5. CASE rp.up /\ on = x.deviceAdded
        <3>1. poolBox' = poolBox \o <<>>
            BY <2>5 DEF patch, ToPool
        <3> QED BY <2>1, <3>1, ToPoolForms DEF PoolTold
    <2> QED BY <2>2, <2>3, <2>4, <2>5
<1> QED BY <1>1, <1>2, <1>3

LEMMA SlotTyped ==
    ASSUME IInv, NEW d \in Devices
    PROVE  /\ slot[d] \in [phase : {"absent", "starting", "up", "gone"}, userEnabled : BOOLEAN,
                           deviceAdded : BOOLEAN, container : SUBSET Own]
           /\ slot[d].container \in Holders(d) /\ SlotOK(d)
           /\ slotBox[d] \in Seq(SlotMsgs(d)) /\ DOMAIN slotBox = Devices
           /\ used \in [failures : Nat, toggles : Nat, kills : Nat]
BY DEF IInv, Typed, Boxed, SlotsOK

\* Boxes of slots of which one may change.
LEMMA SlotBoxes ==
    ASSUME IInv, NEW d \in Devices, NEW box \in Seq(SlotMsgs(d)), Fewer(box, slotBox[d]),
           slotBox' = [slotBox EXCEPT ![d] = box]
    PROVE  /\ DOMAIN slotBox' = Devices
           /\ \A e \in Devices : slotBox'[e] \in Seq(SlotMsgs(e)) /\ Fewer(slotBox'[e], slotBox[e])
BY FewerSame, SlotTyped

LEMMA SlotPreStartKeeps == ASSUME IInv, NEW d \in Devices, SlotPreStart(d) PROVE IInv'
<1>0. PICK x : x = [slot[d] EXCEPT !.phase = "up"]
    OBVIOUS
<1>1. /\ x \in [phase : {"up", "gone"}, userEnabled : BOOLEAN, deviceAdded : BOOLEAN,
                container : SUBSET Own]
      /\ x.container = slot[d].container /\ x.container \in Holders(d) /\ x.userEnabled /\ x.phase = "up"
    BY <1>0, SlotTyped DEF SlotPreStart, SlotOK
<1>2. patch(d, x, TRUE)
    BY <1>0 DEF SlotPreStart
<1>3. PICK y : y = [x EXCEPT !.deviceAdded = TRUE]
    OBVIOUS
<1>4. /\ y \in [phase : {"up", "gone"}, userEnabled : BOOLEAN, deviceAdded : BOOLEAN,
                container : SUBSET Own]
      /\ y.container \in Holders(d) /\ y.userEnabled /\ y.phase = "up" /\ y.deviceAdded
    BY <1>1, <1>3
<1>5. /\ PoolTold(AgentOf[d])
      /\ DOMAIN agentBox' = Agents /\ \A a \in Agents : agentBox'[a] \in Seq(AgentMsgs(a))
      /\ AgentsHearOf(agentBox', agentBox)
      /\ slot' = [slot EXCEPT ![d] = y]
    BY <1>1, <1>2, <1>3, PatchTells
<1>6. /\ slot[d].phase = "starting" /\ UNCHANGED <<rp, agent, host, task, slotBox, taskBox, used>>
    BY DEF SlotPreStart
<1>7. /\ DOMAIN slotBox' = Devices
      /\ \A e \in Devices : slotBox'[e] \in Seq(SlotMsgs(e)) /\ Fewer(slotBox'[e], slotBox[e])
    BY <1>6, FewerSame, SlotTyped
<1> QED BY <1>4, <1>5, <1>6, <1>7, SlotTyped, SlotStep

LEMMA PatchSlotKeeps ==
    ASSUME IInv, NEW d \in Devices, NEW enabled \in BOOLEAN, PatchSlot(d, enabled) PROVE IInv'
<1>0. PICK x : x = [slot[d] EXCEPT !.userEnabled = enabled]
    OBVIOUS
<1>1. /\ x \in [phase : {"up", "gone"}, userEnabled : BOOLEAN, deviceAdded : BOOLEAN,
                container : SUBSET Own]
      /\ x.container \in Holders(d) /\ x.userEnabled = enabled /\ x.phase = "up"
    BY <1>0, SlotTyped DEF PatchSlot
<1>2. patch(d, x, enabled)
    BY <1>0 DEF PatchSlot
<1>3. PICK y : y = [x EXCEPT !.deviceAdded = enabled]
    OBVIOUS
<1>4. /\ y \in [phase : {"up", "gone"}, userEnabled : BOOLEAN, deviceAdded : BOOLEAN,
                container : SUBSET Own]
      /\ y.container \in Holders(d) /\ y.userEnabled = enabled /\ y.phase = "up" /\ y.deviceAdded = enabled
    BY <1>1, <1>3
<1>5. /\ PoolTold(AgentOf[d])
      /\ DOMAIN agentBox' = Agents /\ \A a \in Agents : agentBox'[a] \in Seq(AgentMsgs(a))
      /\ AgentsHearOf(agentBox', agentBox)
      /\ slot' = [slot EXCEPT ![d] = y]
    BY <1>1, <1>2, <1>3, PatchTells
<1>6. /\ slot[d].phase = "up" /\ UNCHANGED <<rp, agent, host, task, slotBox, taskBox>>
      /\ used' = [used EXCEPT !.toggles = used.toggles + 1]
    BY SlotTyped DEF PatchSlot
<1>7. /\ DOMAIN slotBox' = Devices
      /\ \A e \in Devices : slotBox'[e] \in Seq(SlotMsgs(e)) /\ Fewer(slotBox'[e], slotBox[e])
    BY <1>6, FewerSame, SlotTyped
<1>8. used' \in [failures : Nat, toggles : Nat, kills : Nat]
    BY <1>6, SlotTyped
<1> QED BY <1>4, <1>5, <1>6, <1>7, <1>8, SlotStep

LEMMA SlotClosesKeeps ==
    ASSUME IInv, NEW d \in Devices, slot[d].phase = "up", SlotCloses(d),
           UNCHANGED <<rp, agent, host, task, taskBox, used>>
    PROVE  IInv'
<1>0. PICK x : x = [slot[d] EXCEPT !.phase = "gone"]
    OBVIOUS
<1>1. /\ x \in [phase : {"up", "gone"}, userEnabled : BOOLEAN, deviceAdded : BOOLEAN,
                container : SUBSET Own]
      /\ x.container \in Holders(d) /\ x.phase = "gone"
    BY <1>0, SlotTyped
<1>2. patch(d, x, FALSE)
    BY <1>0 DEF SlotCloses
<1>3. PICK y : y = [x EXCEPT !.deviceAdded = FALSE]
    OBVIOUS
<1>4. /\ y \in [phase : {"up", "gone"}, userEnabled : BOOLEAN, deviceAdded : BOOLEAN,
                container : SUBSET Own]
      /\ y.container \in Holders(d) /\ y.phase = "gone" /\ ~y.deviceAdded
    BY <1>1, <1>3
<1>5. /\ PoolTold(AgentOf[d])
      /\ DOMAIN agentBox' = Agents /\ \A a \in Agents : agentBox'[a] \in Seq(AgentMsgs(a))
      /\ AgentsHearOf(agentBox', agentBox)
      /\ slot' = [slot EXCEPT ![d] = y]
    BY <1>1, <1>2, <1>3, PatchTells
<1>6. slotBox' = [slotBox EXCEPT ![d] = <<>>]
    BY DEF SlotCloses
<1>7. /\ DOMAIN slotBox' = Devices
      /\ \A e \in Devices : slotBox'[e] \in Seq(SlotMsgs(e)) /\ Fewer(slotBox'[e], slotBox[e])
    <2>1. <<>> \in Seq(SlotMsgs(d)) /\ Fewer(<<>>, slotBox[d])
        BY FewerEmpty
    <2> QED BY <1>6, <2>1, SlotBoxes
<1> QED BY <1>4, <1>5, <1>7, SlotTyped, SlotStep

LEMMA SlotStopKeeps == ASSUME IInv, NEW d \in Devices, SlotStop(d) PROVE IInv'
BY SlotClosesKeeps DEF SlotStop, SlotReceived

LEMMA SlotMsgFields ==
    ASSUME NEW d \in Devices, NEW m \in SlotMsgs(d), m.kind \in {"StartContainer", "Terminated"}
    PROVE  m.c \in OwnOfDevice(d) /\ m = [kind |-> m.kind, c |-> m.c]
BY DEF SlotMsgs

LEMMA SlotTakes ==
    ASSUME IInv, NEW d \in Devices, slotBox[d] # <<>>,
           slotBox' = [slotBox EXCEPT ![d] = Tail(slotBox[d])]
    PROVE  /\ DOMAIN slotBox' = Devices
           /\ \A e \in Devices : slotBox'[e] \in Seq(SlotMsgs(e)) /\ Fewer(slotBox'[e], slotBox[e])
<1>1. slotBox[d] \in Seq(SlotMsgs(d)) /\ DOMAIN slotBox = Devices
    BY SlotTyped
<1>2. Tail(slotBox[d]) \in Seq(SlotMsgs(d)) /\ Fewer(Tail(slotBox[d]), slotBox[d])
    BY <1>1, FewerTail
<1> QED BY <1>2, SlotBoxes

LEMMA SlotStartContainerKeeps ==
    ASSUME IInv, NEW d \in Devices, SlotStartContainer(d) PROVE IInv'
<1>1. /\ slot[d].phase = "up" /\ slotBox[d] # <<>> /\ Head(slotBox[d]).kind = "StartContainer"
      /\ UNCHANGED <<rp, agent, host, task, taskBox, used>>
    BY DEF SlotStartContainer, SlotReceived
<1>2. CASE SlotCloses(d)
    BY <1>1, <1>2, SlotClosesKeeps
<1>3. CASE ~SlotCloses(d)
    <2>1. PICK c : c = Head(slotBox[d]).c
        OBVIOUS
    <2>2. c \in OwnOfDevice(d)
        BY <2>1, <1>1, SlotTyped, TailType, SlotMsgFields
    <2>3. PICK x : x = [slot[d] EXCEPT !.container = {c}]
        OBVIOUS
    <2>4. /\ slot' = [slot EXCEPT ![d] = x] /\ UNCHANGED <<poolBox, agentBox>>
          /\ slotBox' = [slotBox EXCEPT ![d] = Tail(slotBox[d])]
        BY <1>3, <2>1, <2>3, SlotTyped DEF SlotStartContainer
    <2>5. /\ x \in [phase : {"up", "gone"}, userEnabled : BOOLEAN, deviceAdded : BOOLEAN,
                    container : SUBSET Own]
          /\ x.container \in Holders(d) /\ x.phase = "up" /\ x.userEnabled = x.deviceAdded
        <3>1. {c} \in Holders(d) /\ {c} \in SUBSET Own
            BY <2>2 DEF Holders, OwnOfDevice
        <3>2. slot[d].userEnabled = slot[d].deviceAdded
            BY <1>1, SlotTyped DEF SlotOK
        <3>3. slot[d] \in [phase : {"absent", "starting", "up", "gone"}, userEnabled : BOOLEAN,
                           deviceAdded : BOOLEAN, container : SUBSET Own]
            BY SlotTyped
        <3> QED BY <1>1, <2>3, <3>1, <3>2, <3>3
    <2>6. PoolTold(AgentOf[d]) /\ AgentsHearOf(agentBox', agentBox)
        BY <2>4 DEF PoolTold, AgentsHearOf
    <2>7. DOMAIN agentBox' = Agents /\ \A a \in Agents : agentBox'[a] \in Seq(AgentMsgs(a))
        BY <2>4 DEF IInv, Boxed
    <2> QED BY <1>1, <2>4, <2>5, <2>6, <2>7, SlotTakes, SlotTyped, SlotStep
<1> QED BY <1>2, <1>3

LEMMA SlotContainerTerminatedKeeps ==
    ASSUME IInv, NEW d \in Devices, SlotContainerTerminated(d) PROVE IInv'
<1>1. /\ slot[d].phase = "up" /\ slotBox[d] # <<>>
      /\ UNCHANGED <<rp, agent, host, task, taskBox, used>>
    BY DEF SlotContainerTerminated, SlotReceived
<1>2. CASE SlotCloses(d)
    BY <1>1, <1>2, SlotClosesKeeps
<1>3. CASE ~SlotCloses(d)
    <2>1. PICK x : x = [slot[d] EXCEPT !.container = {}]
        OBVIOUS
    <2>2. /\ slot' = [slot EXCEPT ![d] = x] /\ UNCHANGED agentBox
          /\ slotBox' = [slotBox EXCEPT ![d] = Tail(slotBox[d])]
          /\ poolBox' = ToPool(IF slot[d].userEnabled
                               THEN <<[kind |-> "FreeDevice", device |-> d]>> ELSE <<>>)
        BY <1>3, <2>1, SlotTyped DEF SlotContainerTerminated
    <2>3. /\ x \in [phase : {"up", "gone"}, userEnabled : BOOLEAN, deviceAdded : BOOLEAN,
                    container : SUBSET Own]
          /\ x.container \in Holders(d) /\ x.phase = "up" /\ x.userEnabled = x.deviceAdded
        BY <1>1, <2>1, SlotTyped DEF SlotOK, Holders
    <2>4. PoolTold(AgentOf[d])
        <3>1. poolBox \in Seq(PoolMsgs) /\ (~rp.up => poolBox = <<>>)
            BY DEF IInv, Boxed
        <3>2. CASE ~rp.up
            BY <3>1, <3>2, <2>2 DEF ToPool, PoolTold
        <3>3. CASE rp.up /\ slot[d].userEnabled
            <4>1. PICK m : m = [kind |-> "FreeDevice", device |-> d]
                OBVIOUS
            <4>2. m \in PoolMsgs /\ m \in About(AgentOf[d])
                BY <4>1 DEF PoolMsgs, About
            <4>3. poolBox' = poolBox \o <<m>>
                BY <3>3, <4>1, <2>2 DEF ToPool
            <4>4. poolBox' = Append(poolBox, m)
                BY <3>1, <4>2, <4>3, ToPoolForms
            <4> QED BY <3>3, <4>2, <4>4 DEF PoolTold
        <3>4. CASE rp.up /\ ~slot[d].userEnabled
            <4>1. poolBox' = poolBox \o <<>>
                BY <3>4, <2>2 DEF ToPool
            <4> QED BY <3>1, <4>1, ToPoolForms DEF PoolTold
        <3> QED BY <3>2, <3>3, <3>4
    <2>5. AgentsHearOf(agentBox', agentBox)
        BY <2>2 DEF AgentsHearOf
    <2>6. DOMAIN agentBox' = Agents /\ \A a \in Agents : agentBox'[a] \in Seq(AgentMsgs(a))
        BY <2>2 DEF IInv, Boxed
    <2> QED BY <1>1, <2>2, <2>3, <2>4, <2>5, <2>6, SlotTakes, SlotTyped, SlotStep
<1> QED BY <1>2, <1>3

-----------------------------------------------------------------------------
(* Agents. *)
LEMMA AgentTyped ==
    ASSUME IInv
    PROVE  /\ agent \in [Agents -> [phase : {"absent", "connected", "closing", "gone"},
                                    slotsUp : BOOLEAN, containers : SUBSET Own]]
           /\ \A a \in Agents : agent[a].containers \subseteq OwnOfAgent(a)
           /\ DOMAIN agentBox = Agents /\ \A a \in Agents : agentBox[a] \in Seq(AgentMsgs(a))
           /\ host \in [live : SUBSET Own, killed : SUBSET Own, ended : SUBSET Own]
           /\ used \in [failures : Nat, toggles : Nat, kills : Nat]
           /\ host.killed \subseteq host.live /\ host.live \cap host.ended = {}
           /\ poolBox \in Seq(PoolMsgs) /\ (~rp.up => poolBox = <<>>)
BY DEF IInv, Typed, Boxed, LifeOK, ContainerOK

LEMMA AgentMsgFields ==
    ASSUME IInv, NEW a \in Agents, NEW kind, AgentReceived(a, kind)
    PROVE  /\ agent[a].phase = "connected" /\ agentBox[a] # <<>>
           /\ Head(agentBox[a]).c \in OwnOfAgent(a) /\ Head(agentBox[a]).c \in Own
           /\ Head(agentBox[a]).c.agent = a
           /\ Head(agentBox[a]) = [kind |-> kind, c |-> Head(agentBox[a]).c]
<1>1. Head(agentBox[a]) \in AgentMsgs(a) /\ agentBox[a] # <<>>
    BY TailType DEF IInv, Boxed, AgentReceived
<1> QED BY <1>1 DEF AgentReceived, AgentMsgs, OwnOfAgent

LEMMA AgentTakes ==
    ASSUME IInv, NEW a \in Agents, agentBox[a] # <<>>,
           agentBox' = [agentBox EXCEPT ![a] = Tail(agentBox[a])]
    PROVE  /\ DOMAIN agentBox' = Agents /\ \A b \in Agents : agentBox'[b] \in Seq(AgentMsgs(b))
           /\ \A b \in Agents : Fewer(agentBox'[b], agentBox[b])
           /\ AgentsHearOf(agentBox', agentBox)
<1>1. agentBox[a] \in Seq(AgentMsgs(a)) /\ DOMAIN agentBox = Agents
    BY AgentTyped
<1>2. Tail(agentBox[a]) \in Seq(AgentMsgs(a)) /\ Fewer(Tail(agentBox[a]), agentBox[a])
    BY <1>1, FewerTail
<1>3. \A b \in Agents : Fewer(agentBox'[b], agentBox[b])
    BY <1>1, <1>2, FewerSame
<1> QED BY <1>1, <1>2, <1>3, FewerHearOf, AgentTyped

\* Only the agents' order of messages and the pool are left as they are.
LEMMA PoolLeft ==
    ASSUME IInv, UNCHANGED <<rp, poolBox>>
    PROVE  /\ PoolOK(rp') /\ FullOK'
           /\ (\A a \in Agents : agent'[a].phase = agent[a].phase) => AgentsOK'
           /\ poolBox' \in Seq(PoolMsgs) /\ (~rp'.up => poolBox' = <<>>)
           /\ \A t \in Tasks : /\ Some(poolBox', Request(t)) => Some(poolBox, Request(t))
                               /\ One(poolBox, Request(t)) => One(poolBox', Request(t))
BY DEF IInv, PoolOK, FullOK, AgentsOK, AgentOK, Boxed

LEMMA KillTaskContainerKeeps == ASSUME IInv, NEW a \in Agents, KillTaskContainer(a) PROVE IInv'
<1>1. /\ AgentReceived(a, "KillTaskContainer")
      /\ agentBox' = [agentBox EXCEPT ![a] = Tail(agentBox[a])]
      /\ UNCHANGED <<rp, agent, slot, task, poolBox, slotBox, taskBox, used>>
      /\ host' = [host EXCEPT !.killed = host.killed \union ({Head(agentBox[a]).c} \intersect host.live)]
    BY AgentTyped DEF KillTaskContainer
<1>2. /\ host' \in [live : SUBSET Own, killed : SUBSET Own, ended : SUBSET Own]
      /\ host'.live = host.live /\ host'.ended = host.ended /\ host'.killed \subseteq host'.live
    BY <1>1, AgentTyped
<1>3. agentBox[a] # <<>>
    BY <1>1, AgentMsgFields
<1>4. LifeOK'
    <2>1. TasksHearOf(taskBox', taskBox) /\ \A d \in Devices : Fewer(slotBox'[d], slotBox[d])
        BY <1>1, FewerSame DEF TasksHearOf
    <2> QED BY <2>1, <1>1, <1>2, <1>3, AgentTakes, AgentTyped, PoolLeft, OnSlotQuiet, LifeQuiet
<1>5. Typed' /\ SlotsOK'
    BY <1>1, <1>2 DEF IInv, Typed, SlotsOK, SlotOK
<1>6. Boxed'
    BY <1>1, <1>3, AgentTakes DEF IInv, Boxed
<1> QED BY <1>1, <1>4, <1>5, <1>6, PoolLeft DEF IInv

\* What a slot is sent by its agent.
LEMMA ToSlotsBox ==
    ASSUME IInv, NEW D \in SUBSET Devices, NEW m, \A e \in D : m \in SlotMsgs(e), NEW box,
           box = ToSlots(D, m)
    PROVE  /\ DOMAIN box = Devices
           /\ \A e \in Devices : /\ box[e] \in Seq(SlotMsgs(e))
                                 /\ box[e] = slotBox[e] \/ (e \in D /\ box[e] = Append(slotBox[e], m))
BY DEF ToSlots, IInv, Boxed

\* A stop says nothing of a container.
LEMMA StopFewer ==
    ASSUME IInv, NEW e \in Devices, NEW box, box = Append(slotBox[e], [kind |-> "Stop"])
    PROVE  \A c \in Own :
              /\ Some(box, SlotStart(c)) <=> Some(slotBox[e], SlotStart(c))
              /\ Some(box, SlotEnd(c)) <=> Some(slotBox[e], SlotEnd(c))
              /\ One(slotBox[e], SlotEnd(c)) => One(box, SlotEnd(c))
              /\ Before(slotBox[e], SlotStart(c), SlotEnd(c)) => Before(box, SlotStart(c), SlotEnd(c))
<1> SUFFICES ASSUME NEW c \in Own
             PROVE  /\ Some(box, SlotStart(c)) <=> Some(slotBox[e], SlotStart(c))
                    /\ Some(box, SlotEnd(c)) <=> Some(slotBox[e], SlotEnd(c))
                    /\ One(slotBox[e], SlotEnd(c)) => One(box, SlotEnd(c))
                    /\ Before(slotBox[e], SlotStart(c), SlotEnd(c)) => Before(box, SlotStart(c), SlotEnd(c))
    OBVIOUS
<1>1. PICK m : m = [kind |-> "Stop"]
    OBVIOUS
<1>2. m \in SlotMsgs(e) /\ m \notin SlotStart(c) /\ m \notin SlotEnd(c) /\ slotBox[e] \in Seq(SlotMsgs(e))
    BY <1>1, SlotTyped DEF SlotMsgs, SlotStart, SlotEnd
<1>3. box = Append(slotBox[e], m)
    BY <1>1
<1> QED BY <1>2, <1>3, AppendBox, AppendOrder

LEMMA StopsSlots ==
    ASSUME IInv, NEW a, NEW box, box = ToSlots(SlotsOf(a), [kind |-> "Stop"])
    PROVE  /\ DOMAIN box = Devices /\ \A e \in Devices : box[e] \in Seq(SlotMsgs(e))
           /\ \A e \in Devices : box[e] = slotBox[e] \/ box[e] = Append(slotBox[e], [kind |-> "Stop"])
<1>1. DOMAIN box = Devices
    BY DEF ToSlots
<1>2. ASSUME NEW e \in Devices
      PROVE  box[e] = slotBox[e] \/ box[e] = Append(slotBox[e], [kind |-> "Stop"])
    BY DEF ToSlots
<1>3. ASSUME NEW e \in Devices PROVE Append(slotBox[e], [kind |-> "Stop"]) \in Seq(SlotMsgs(e))
    <2>1. PICK m : m = [kind |-> "Stop"]
        OBVIOUS
    <2>2. m \in SlotMsgs(e) /\ slotBox[e] \in Seq(SlotMsgs(e))
        BY <2>1, SlotTyped DEF SlotMsgs
    <2> QED BY <2>1, <2>2
<1> QED BY <1>1, <1>2, <1>3, SlotTyped

\* How the boxes of slots change when those of container c are told of it.
SlotsHearOf(kind, c) ==
    \A e \in Devices : \A b \in OwnOfDevice(e) :
        /\ Some(slotBox'[e], SlotStart(b)) =>
              Some(slotBox[e], SlotStart(b)) \/ (kind = "StartContainer" /\ b = c)
        /\ Some(slotBox'[e], SlotEnd(b)) =>
              Some(slotBox[e], SlotEnd(b)) \/ (kind = "Terminated" /\ b = c)
        /\ \/ b # c \/ kind = "StartContainer" \/ ~Some(slotBox[e], SlotEnd(b))
           => (One(slotBox[e], SlotEnd(b)) => One(slotBox'[e], SlotEnd(b)))
        /\ \/ b # c \/ kind = "Terminated" \/ ~Some(slotBox[e], SlotEnd(b))
           => (Before(slotBox[e], SlotStart(b), SlotEnd(b)) => Before(slotBox'[e], SlotStart(b), SlotEnd(b)))

LEMMA SendsToSlots ==
    ASSUME IInv, NEW a \in Agents, NEW c \in OwnOfAgent(a), NEW C \in SUBSET OwnOfAgent(a),
           NEW kind \in {"StartContainer", "Terminated"},
           sendToSlots(a, C, [kind |-> kind, c |-> c])
    PROVE  /\ agent' \in [Agents -> [phase : {"absent", "connected", "closing", "gone"},
                                     slotsUp : BOOLEAN, containers : SUBSET Own]]
           /\ \A b \in Agents : /\ agent'[b].phase = agent[b].phase
                                /\ agent'[b].containers = IF b = a THEN C ELSE agent[b].containers
           /\ DOMAIN slotBox' = Devices /\ \A e \in Devices : slotBox'[e] \in Seq(SlotMsgs(e))
           /\ \A e \in Devices : \/ slotBox'[e] = slotBox[e]
                                 \/ slotBox'[e] = Append(slotBox[e], [kind |-> "Stop"])
                                 \/ e \in c.devices /\ slotBox'[e] = Append(slotBox[e], [kind |-> kind, c |-> c])
           /\ SlotsHearOf(kind, c)
<1> DEFINE m == [kind |-> kind, c |-> c]
           dies == \E d \in m.c.devices : slot[d].phase = "gone"
<1>1. agent' = [agent EXCEPT ![a].containers = C, ![a].slotsUp = agent[a].slotsUp /\ ~dies]
    BY AgentTyped DEF sendToSlots
<1>2. m.c = c /\ c \in Own /\ c.devices \in SUBSET Devices /\ \A e \in c.devices : c \in OwnOfDevice(e)
    BY OwnFields DEF OwnOfAgent
<1>3. /\ agent' \in [Agents -> [phase : {"absent", "connected", "closing", "gone"},
                                slotsUp : BOOLEAN, containers : SUBSET Own]]
      /\ \A b \in Agents : /\ agent'[b].phase = agent[b].phase
                           /\ agent'[b].containers = IF b = a THEN C ELSE agent[b].containers
    <2>1. C \in SUBSET Own /\ dies \in BOOLEAN
        BY DEF OwnOfAgent
    <2>2. PICK up : up = (agent[a].slotsUp /\ ~dies)
        OBVIOUS
    <2>3. PICK x : x = [agent[a] EXCEPT !.containers = C, !.slotsUp = up]
        OBVIOUS
    <2>4. agent \in [Agents -> [phase : {"absent", "connected", "closing", "gone"},
                                slotsUp : BOOLEAN, containers : SUBSET Own]]
        BY AgentTyped
    <2>5. up \in BOOLEAN /\ agent' = [agent EXCEPT ![a] = x]
        BY <1>1, <2>2, <2>3, <2>4
    <2>6. x \in [phase : {"absent", "connected", "closing", "gone"}, slotsUp : BOOLEAN,
                 containers : SUBSET Own] /\ x.phase = agent[a].phase /\ x.containers = C
        BY <2>1, <2>3, <2>4, <2>5
    <2> QED BY <2>4, <2>5, <2>6
<1>4. /\ DOMAIN slotBox' = Devices /\ \A e \in Devices : slotBox'[e] \in Seq(SlotMsgs(e))
      /\ \A e \in Devices : \/ slotBox'[e] = slotBox[e]
                            \/ slotBox'[e] = Append(slotBox[e], [kind |-> "Stop"])
                            \/ e \in c.devices /\ slotBox'[e] = Append(slotBox[e], m)
    <2>1. CASE slotBox' = slotBox
        BY <2>1 DEF IInv, Boxed
    <2>2. CASE slotBox' = ToSlots(SlotsOf(a), [kind |-> "Stop"])
        <3> HIDE DEF m
        <3> QED BY <2>2, StopsSlots
    <2>3. CASE slotBox' = ToSlots(m.c.devices, m)
        <3>1. \A e \in c.devices : m \in SlotMsgs(e)
            BY <1>2 DEF SlotMsgs
        <3> HIDE DEF m
        <3> QED BY <3>1, <2>3, <1>2, ToSlotsBox
    <2> QED BY <2>1, <2>2, <2>3 DEF sendToSlots
<1>5. SlotsHearOf(kind, c)
    <2> SUFFICES ASSUME NEW e \in Devices, NEW b \in OwnOfDevice(e)
        PROVE
        /\ Some(slotBox'[e], SlotStart(b)) =>
              Some(slotBox[e], SlotStart(b)) \/ (kind = "StartContainer" /\ b = c)
        /\ Some(slotBox'[e], SlotEnd(b)) =>
              Some(slotBox[e], SlotEnd(b)) \/ (kind = "Terminated" /\ b = c)
        /\ \/ b # c \/ kind = "StartContainer" \/ ~Some(slotBox[e], SlotEnd(b))
           => (One(slotBox[e], SlotEnd(b)) => One(slotBox'[e], SlotEnd(b)))
        /\ \/ b # c \/ kind = "Terminated" \/ ~Some(slotBox[e], SlotEnd(b))
           => (Before(slotBox[e], SlotStart(b), SlotEnd(b)) => Before(slotBox'[e], SlotStart(b), SlotEnd(b)))
        BY DEF SlotsHearOf
    <2>1. b \in Own /\ slotBox[e] \in Seq(SlotMsgs(e))
        BY SlotTyped DEF OwnOfDevice
    <2>2. CASE slotBox'[e] = slotBox[e]
        BY <2>2
    <2>3. CASE slotBox'[e] = Append(slotBox[e], [kind |-> "Stop"])
        BY <2>1, <2>3, StopFewer
    <2>4. CASE e \in c.devices /\ slotBox'[e] = Append(slotBox[e], m)
        <3>1. m \in SlotMsgs(e)
            BY <2>4, <1>2 DEF SlotMsgs
        <3>2. m \in SlotStart(b) <=> kind = "StartContainer" /\ b = c
            BY DEF SlotStart
        <3>3. m \in SlotEnd(b) <=> kind = "Terminated" /\ b = c
            BY DEF SlotEnd
        <3> HIDE DEF m
        <3>4. /\ Some(slotBox'[e], SlotStart(b)) <=> Some(slotBox[e], SlotStart(b)) \/ m \in SlotStart(b)
              /\ Some(slotBox'[e], SlotEnd(b)) <=> Some(slotBox[e], SlotEnd(b)) \/ m \in SlotEnd(b)
              /\ One(slotBox[e], SlotEnd(b)) /\ (m \notin SlotEnd(b) \/ ~Some(slotBox[e], SlotEnd(b)))
                    => One(slotBox'[e], SlotEnd(b))
            BY <2>1, <2>4, <3>1, AppendBox
        <3>5. (m \notin SlotStart(b) \/ (~Some(slotBox[e], SlotEnd(b)) /\ m \notin SlotEnd(b)))
                 /\ Before(slotBox[e], SlotStart(b), SlotEnd(b))
                    => Before(slotBox'[e], SlotStart(b), SlotEnd(b))
            BY <2>1, <2>4, <3>1, AppendOrder
        <3> QED BY <3>2, <3>3, <3>4, <3>5
    <2> QED BY <2>2, <2>3, <2>4, <1>4
<1> QED BY <1>3, <1>4, <1>5

LEMMA StartTaskContainerKeeps == ASSUME IInv, NEW a \in Agents, StartTaskContainer(a) PROVE IInv'
<1>1. PICK c : c = Head(agentBox[a]).c
    OBVIOUS
<1>2. /\ agent[a].phase = "connected" /\ agentBox[a] # <<>>
      /\ c \in OwnOfAgent(a) /\ c \in Own /\ c.agent = a
      /\ Head(agentBox[a]) = [kind |-> "StartTaskContainer", c |-> c]
    BY <1>1, AgentMsgFields DEF StartTaskContainer
<1>3. /\ host' = [host EXCEPT !.live = host.live \union {c}]
      /\ sendToSlots(a, agent[a].containers \union {c}, [kind |-> "StartContainer", c |-> c])
      /\ agentBox' = [agentBox EXCEPT ![a] = Tail(agentBox[a])]
      /\ UNCHANGED <<rp, slot, task, poolBox, taskBox, used>>
    BY <1>1, AgentTyped DEF StartTaskContainer
<1>4. agent[a].containers \union {c} \in SUBSET OwnOfAgent(a)
    BY <1>2, AgentTyped
<1>5. /\ agent' \in [Agents -> [phase : {"absent", "connected", "closing", "gone"},
                                slotsUp : BOOLEAN, containers : SUBSET Own]]
      /\ \A b \in Agents : /\ agent'[b].phase = agent[b].phase
                           /\ agent'[b].containers = IF b = a THEN agent[a].containers \union {c}
                                                     ELSE agent[b].containers
      /\ DOMAIN slotBox' = Devices /\ \A e \in Devices : slotBox'[e] \in Seq(SlotMsgs(e))
      /\ SlotsHearOf("StartContainer", c)
    BY <1>2, <1>3, <1>4, SendsToSlots, ZenonT(60)
<1>6. /\ host' \in [live : SUBSET Own, killed : SUBSET Own, ended : SUBSET Own]
      /\ host'.live = host.live \union {c} /\ host'.ended = host.ended /\ host'.killed = host.killed
    BY <1>2, <1>3, AgentTyped
<1>7. /\ DOMAIN agentBox' = Agents /\ \A b \in Agents : agentBox'[b] \in Seq(AgentMsgs(b))
      /\ AgentsHearOf(agentBox', agentBox)
    BY <1>2, <1>3, AgentTakes
<1>8. /\ Sent(c) /\ ~Some(agentBox'[a], Start(c)) /\ ~Born(c) /\ ~Offered(c) /\ ~Reported(c)
    <2>1. Head(agentBox[a]) \in Start(c) /\ agentBox[a] \in Seq(AgentMsgs(a)) /\ agentBox'[a] = Tail(agentBox[a])
        BY <1>2, <1>3, AgentTyped DEF Start
    <2>2. ContainerOK(c)
        BY <1>2 DEF IInv, LifeOK
    <2>3. Sent(c) /\ ~Some(agentBox'[a], Start(c))
        BY <2>1, <2>2, <1>2, TailBox DEF Sent, ContainerOK
    <2> QED BY <2>2, <2>3 DEF ContainerOK
<1>9. \A b \in Own : /\ Offered(b)' <=> Offered(b)
                     /\ Sent(b)' => Sent(b) /\ b # c
                     /\ Reported(b)' => Reported(b)
                     /\ Born(b)' <=> Born(b) \/ b = c
    BY <1>2, <1>3, <1>6, <1>7, <1>8 DEF Offered, Sent, Reported, Born, AgentsHearOf
<1>10. ASSUME NEW t \in Tasks PROVE TaskOK(t)'
    <2>1. TaskOK(t) /\ c \in OwnOfTask(c.task)
        BY <1>2, OwnFields DEF IInv, LifeOK
    <2>2. Waiting(t)' <=> Waiting(t)
        BY <1>3 DEF Waiting
    <2>3. Waiting(t) => c \notin OwnOfTask(t)
        BY <2>1, <1>8 DEF TaskOK
    <2>4. Waiting(t) => \A b \in OwnOfTask(t) : ~Born(b)' /\ ~Offered(b)' /\ ~Sent(b)'
        BY <2>1, <2>3, <1>9 DEF TaskOK, OwnOfTask
    <2> QED BY <2>1, <2>2, <2>4, <1>3 DEF TaskOK
<1>11. ASSUME NEW b \in Own PROVE ContainerOK(b)'
    <2>1. ContainerOK(b) /\ b.agent \in Agents
        BY OwnFields DEF IInv, LifeOK
    <2>2. One(agentBox[b.agent], Start(b))' /\ One(agentBox[b.agent], Report(b))'
        BY <2>1, <1>7 DEF ContainerOK, AgentsHearOf
    <2>3. CASE b = c
        BY <2>1, <2>2, <2>3, <1>2, <1>5, <1>6, <1>8, <1>9 DEF ContainerOK, Born
    <2>4. CASE b # c
        BY <2>1, <2>2, <2>4, <1>2, <1>5, <1>6, <1>9 DEF ContainerOK
    <2> QED BY <2>3, <2>4
<1>12. ASSUME NEW d \in Devices, NEW b \in OwnOfDevice(d) PROVE OnSlotOK(b, d)'
    <2>1. OnSlotOK(b, d) /\ b \in Own /\ b.agent \in Agents
        BY OwnFields DEF IInv, LifeOK, OwnOfDevice
    <2>2. /\ Some(slotBox'[d], SlotStart(b)) => Some(slotBox[d], SlotStart(b)) \/ b = c
          /\ Some(slotBox'[d], SlotEnd(b)) => Some(slotBox[d], SlotEnd(b))
          /\ One(slotBox[d], SlotEnd(b)) => One(slotBox'[d], SlotEnd(b))
          /\ b # c \/ ~Some(slotBox[d], SlotEnd(b))
             => (Before(slotBox[d], SlotStart(b), SlotEnd(b)) => Before(slotBox'[d], SlotStart(b), SlotEnd(b)))
        BY <1>5 DEF SlotsHearOf
    <2>3. b = c => ~Some(slotBox[d], SlotEnd(b))
        BY <2>1, <1>8 DEF OnSlotOK
    <2> QED BY <2>1, <2>2, <2>3, <1>2, <1>5, <1>9, SMTT(20) DEF OnSlotOK
<1>13. LifeOK'
    BY <1>6, <1>10, <1>11, <1>12 DEF IInv, LifeOK
<1>14. Typed' /\ SlotsOK'
    <2>1. Typed'
        BY <1>3, <1>4, <1>5, <1>6, ZenonT(60) DEF IInv, Typed
    <2>2. ASSUME NEW e \in Devices PROVE SlotOK(e)'
        <3>1. AgentOf[e] \in Agents /\ SlotOK(e)
            BY SlotTyped, Constants
        <3>2. agent'[AgentOf[e]].phase = agent[AgentOf[e]].phase /\ slot' = slot
            BY <3>1, <1>3, <1>5
        <3> QED BY <3>1, <3>2 DEF SlotOK
    <2> QED BY <2>1, <2>2 DEF SlotsOK
<1>15. Boxed'
    BY <1>3, <1>5, <1>7 DEF IInv, Boxed
<1> QED BY <1>3, <1>5, <1>13, <1>14, <1>15, PoolLeft DEF IInv

\* What tasks are told of their containers' end.
LEMMA ToTasksBox ==
    ASSUME Boxed, NEW C \in SUBSET Own, NEW box, box = ToTasks("Terminated", C)
    PROVE  /\ DOMAIN box = Tasks /\ \A t \in Tasks : box[t] \in Seq(TaskMsgs(t))
           /\ TasksHearOf(box, taskBox)
<1>1. DOMAIN box = Tasks
    BY DEF ToTasks
<1>2. ASSUME NEW t \in Tasks, NEW S, \A c : [kind |-> "Terminated", c |-> c] \notin S
      PROVE  /\ box[t] \in Seq(TaskMsgs(t))
             /\ Some(box[t], S) => Some(taskBox[t], S)
             /\ One(taskBox[t], S) => One(box[t], S)
    <2> DEFINE D == {c \in C : c.task = t /\ task[t].phase # "stopped"}
               Q == {[kind |-> "Terminated", c |-> c] : c \in D}
    <2>1. box[t] = taskBox[t] \o SetToSeq(Q)
        BY DEF ToTasks
    <2>2. D \in SUBSET Containers
        BY DEF Own
    <2>3. IsFiniteSet(Q)
        BY <2>2, FiniteSent
    <2>4. Q \in SUBSET TaskMsgs(t) /\ taskBox[t] \in Seq(TaskMsgs(t)) /\ Q \cap S = {}
        BY <1>2 DEF TaskMsgs, OwnOfTask, Boxed
    <2> HIDE DEF Q
    <2> QED BY <2>1, <2>3, <2>4, JoinBox
<1>3. ASSUME NEW t \in Tasks
      PROVE  /\ box[t] \in Seq(TaskMsgs(t))
             /\ One(taskBox[t], Allocations(t)) => One(box[t], Allocations(t))
    <2>1. \A c : [kind |-> "Terminated", c |-> c] \notin Allocations(t)
        BY DEF Allocations
    <2> QED BY <2>1, <1>2
<1>4. ASSUME NEW t \in Tasks, NEW c \in OwnOfTask(t)
      PROVE  Some(box[t], Offering(c)) => Some(taskBox[t], Offering(c))
    <2>1. \A b : [kind |-> "Terminated", c |-> b] \notin Offering(c)
        BY DEF Offering
    <2> QED BY <2>1, <1>2
<1> QED BY <1>1, <1>3, <1>4 DEF TasksHearOf

LEMMA containerStateChangedKeeps == ASSUME IInv, NEW a \in Agents, containerStateChanged(a) PROVE IInv'
<1>1. PICK c : c = Head(agentBox[a]).c
    OBVIOUS
<1>2. /\ agent[a].phase = "connected" /\ agentBox[a] # <<>>
      /\ c \in OwnOfAgent(a) /\ c \in Own /\ c.agent = a
      /\ Head(agentBox[a]) = [kind |-> "Terminated", c |-> c]
    BY <1>1, AgentMsgFields DEF containerStateChanged
<1>3. /\ c \in agent[a].containers
      /\ taskBox' = ToTasks("Terminated", {c})
      /\ sendToSlots(a, agent[a].containers \ {c}, [kind |-> "Terminated", c |-> c])
      /\ poolBox' = ToPool(IF c.devices = {} /\ agent[a].slotsUp
                           THEN <<[kind |-> "FreeZeroSlot", c |-> c]>> ELSE <<>>)
      /\ agentBox' = [agentBox EXCEPT ![a] = Tail(agentBox[a])]
      /\ UNCHANGED <<rp, slot, host, task, used>>
    BY <1>1, AgentTyped DEF containerStateChanged
<1>4. agent[a].containers \ {c} \in SUBSET OwnOfAgent(a)
    BY <1>2, AgentTyped
<1>5. /\ agent' \in [Agents -> [phase : {"absent", "connected", "closing", "gone"},
                                slotsUp : BOOLEAN, containers : SUBSET Own]]
      /\ \A b \in Agents : /\ agent'[b].phase = agent[b].phase
                           /\ agent'[b].containers = IF b = a THEN agent[a].containers \ {c}
                                                     ELSE agent[b].containers
      /\ DOMAIN slotBox' = Devices /\ \A e \in Devices : slotBox'[e] \in Seq(SlotMsgs(e))
      /\ SlotsHearOf("Terminated", c)
    BY <1>2, <1>3, <1>4, SendsToSlots, ZenonT(60)
<1>6. /\ DOMAIN agentBox' = Agents /\ \A b \in Agents : agentBox'[b] \in Seq(AgentMsgs(b))
      /\ AgentsHearOf(agentBox', agentBox)
    BY <1>2, <1>3, AgentTakes
<1>7. /\ DOMAIN taskBox' = Tasks /\ \A t \in Tasks : taskBox'[t] \in Seq(TaskMsgs(t))
      /\ TasksHearOf(taskBox', taskBox)
    <2>1. {c} \in SUBSET Own /\ Boxed
        BY <1>2 DEF IInv
    <2> QED BY <2>1, <1>3, ToTasksBox
<1>8. ContainerOK(c) /\ Reported(c) /\ ~Some(agentBox'[a], Report(c))
    <2>1. Head(agentBox[a]) \in Report(c) /\ agentBox[a] \in Seq(AgentMsgs(a)) /\ agentBox'[a] = Tail(agentBox[a])
        BY <1>2, <1>3, AgentTyped DEF Report
    <2>2. ContainerOK(c)
        BY <1>2 DEF IInv, LifeOK
    <2> QED BY <2>1, <2>2, <1>2, TailBox DEF Reported, ContainerOK
<1>9. PoolTold(a)
    <2>1. poolBox \in Seq(PoolMsgs) /\ (~rp.up => poolBox = <<>>)
        BY AgentTyped
    <2>2. CASE ~rp.up
        BY <2>1, <2>2, <1>3 DEF ToPool, PoolTold
    <2>3. CASE rp.up /\ c.devices = {} /\ agent[a].slotsUp
        <3>1. PICK m : m = [kind |-> "FreeZeroSlot", c |-> c]
            OBVIOUS
        <3>2. m \in PoolMsgs /\ m \in About(a)
            BY <3>1, <1>2 DEF PoolMsgs, About
        <3>3. poolBox' = poolBox \o <<m>>
            BY <2>3, <3>1, <1>3 DEF ToPool
        <3>4. poolBox' = Append(poolBox, m)
            BY <2>1, <3>2, <3>3, ToPoolForms
        <3> QED BY <2>3, <3>2, <3>4 DEF PoolTold
    <2>4. CASE rp.up /\ ~(c.devices = {} /\ agent[a].slotsUp)
        <3>1. poolBox' = poolBox \o <<>>
            BY <2>4, <1>3 DEF ToPool
        <3> QED BY <2>1, <3>1, ToPoolForms DEF PoolTold
    <2> QED BY <2>2, <2>3, <2>4
<1>10. /\ poolBox' \in Seq(PoolMsgs) /\ (~rp.up => poolBox' = <<>>)
       /\ \A t \in Tasks : /\ Some(poolBox', Request(t)) => Some(poolBox, Request(t))
                           /\ One(poolBox, Request(t)) => One(poolBox', Request(t))
       /\ AgentsOK'
    BY <1>2, <1>3, <1>5, <1>9, ToldPool
<1>11. ASSUME NEW d \in Devices, NEW b \in OwnOfDevice(d) PROVE OnSlotOK(b, d)'
    <2>1. OnSlotOK(b, d) /\ b \in Own /\ b.agent \in Agents
        BY OwnFields DEF IInv, LifeOK, OwnOfDevice
    <2>2. /\ Some(slotBox'[d], SlotStart(b)) => Some(slotBox[d], SlotStart(b))
          /\ Some(slotBox'[d], SlotEnd(b)) => Some(slotBox[d], SlotEnd(b)) \/ b = c
          /\ b # c \/ ~Some(slotBox[d], SlotEnd(b))
             => (One(slotBox[d], SlotEnd(b)) => One(slotBox'[d], SlotEnd(b)))
          /\ Before(slotBox[d], SlotStart(b), SlotEnd(b)) => Before(slotBox'[d], SlotStart(b), SlotEnd(b))
        BY <1>5 DEF SlotsHearOf
    <2>3. b = c => ~Some(slotBox[d], SlotEnd(b)) /\ Born(b)
        BY <2>1, <1>2, <1>3, <1>8 DEF OnSlotOK, ContainerOK
    <2>4. Born(b)' <=> Born(b)
        BY <1>3 DEF Born
    <2> QED BY <2>1, <2>2, <2>3, <2>4, <1>2, <1>5 DEF OnSlotOK
<1>12. \A b \in Own : /\ b \in host'.live \/ Some(agentBox'[b.agent], Report(b))
                      /\ agent[b.agent].phase = "connected" /\ b \in agent[b.agent].containers
                      => agent'[b.agent].phase = "connected" /\ b \in agent'[b.agent].containers
    <2> TAKE b \in Own
    <2>1. b.agent \in Agents
        BY OwnFields
    <2>2. b = c => ~(b \in host'.live \/ Some(agentBox'[b.agent], Report(b)))
        BY <1>2, <1>3, <1>8 DEF ContainerOK
    <2> QED BY <2>1, <2>2, <1>5
<1>13. LifeOK'
    <2>1. host'.killed \subseteq host'.live /\ host'.live \cap host'.ended = {} /\ host' = host
        BY <1>3, AgentTyped
    <2>2. \A b \in Agents : agent'[b].containers \subseteq agent[b].containers
        BY <1>5
    <2> QED BY <2>1, <2>2, <1>3, <1>6, <1>7, <1>10, <1>11, <1>12, LifeQuiet
<1>14. Typed' /\ SlotsOK'
    <2>1. Typed'
        BY <1>3, <1>4, <1>5 DEF IInv, Typed
    <2>2. ASSUME NEW e \in Devices PROVE SlotOK(e)'
        <3>1. AgentOf[e] \in Agents /\ SlotOK(e)
            BY SlotTyped, Constants
        <3>2. agent'[AgentOf[e]].phase = agent[AgentOf[e]].phase /\ slot' = slot
            BY <3>1, <1>3, <1>5
        <3> QED BY <3>1, <3>2 DEF SlotOK
    <2> QED BY <2>1, <2>2 DEF SlotsOK
<1>15. Boxed'
    BY <1>3, <1>5, <1>6, <1>7, <1>10 DEF IInv, Boxed
<1>16. PoolOK(rp') /\ FullOK'
    BY <1>3 DEF IInv, PoolOK, FullOK
<1> QED BY <1>10, <1>13, <1>14, <1>15, <1>16 DEF IInv

\* A container's process ends: it was live, so its agent has no report of it.
LEMMA ContainerEndsKeeps == ASSUME IInv, NEW c \in host.live, ContainerEnds(c) PROVE IInv'
<1>1. c \in Own /\ c.agent \in Agents /\ c \in OwnOfAgent(c.agent)
    BY AgentTyped, OwnFields
<1>2. /\ c \in agent[c.agent].containers /\ agent[c.agent].phase = "connected"
      /\ ~Reported(c) /\ c \notin host.ended /\ ContainerOK(c)
    BY <1>1 DEF IInv, LifeOK, ContainerOK
<1>3. PICK m : m = [kind |-> "Terminated", c |-> c]
    OBVIOUS
<1>4. /\ host' = [host EXCEPT !.live = host.live \ {c}, !.killed = host.killed \ {c}, !.ended = host.ended \union {c}]
      /\ agentBox' = [agentBox EXCEPT ![c.agent] = Append(agentBox[c.agent], m)]
      /\ UNCHANGED <<rp, agent, slot, task, poolBox, slotBox, taskBox, used>>
    BY <1>3, AgentTyped DEF ContainerEnds
<1>5. /\ host' \in [live : SUBSET Own, killed : SUBSET Own, ended : SUBSET Own]
      /\ host'.live = host.live \ {c} /\ host'.killed = host.killed \ {c} /\ host'.ended = host.ended \union {c}
    BY <1>1, <1>4, AgentTyped
<1>6. m \in AgentMsgs(c.agent) /\ agentBox[c.agent] \in Seq(AgentMsgs(c.agent)) /\ DOMAIN agentBox = Agents
    BY <1>1, <1>3, AgentTyped DEF AgentMsgs
<1>7. DOMAIN agentBox' = Agents /\ \A b \in Agents : agentBox'[b] \in Seq(AgentMsgs(b))
    BY <1>1, <1>4, <1>6, AgentTyped
<1>8. ASSUME NEW b \in Own
      PROVE  /\ Sent(b)' <=> Sent(b)
             /\ Reported(b)' => Reported(b) \/ b = c
             /\ One(agentBox[b.agent], Start(b)) => One(agentBox'[b.agent], Start(b))
             /\ One(agentBox[b.agent], Report(b)) /\ (b # c \/ ~Reported(b))
                  => One(agentBox'[b.agent], Report(b))
             /\ Offered(b)' <=> Offered(b)
             /\ Born(b)' <=> Born(b)
    <2>1. Offered(b)' <=> Offered(b)
        BY <1>4 DEF Offered
    <2>2. Born(b)' <=> Born(b)
        BY <1>5, AgentTyped DEF Born
    <2>3. m \notin Start(b) /\ (m \in Report(b) <=> b = c)
        BY <1>3 DEF Start, Report
    <2>4. CASE b.agent # c.agent
        <3>1. agentBox'[b.agent] = agentBox[b.agent]
            BY <2>4, <1>1, <1>4, <1>6, OwnFields
        <3> QED BY <3>1, <2>1, <2>2 DEF Sent, Reported
    <2>5. CASE b.agent = c.agent
        <3>1. agentBox'[b.agent] = Append(agentBox[b.agent], m)
            BY <2>5, <1>1, <1>4, <1>6
        <3>2. /\ Some(agentBox'[b.agent], Start(b)) <=> Some(agentBox[b.agent], Start(b))
              /\ Some(agentBox'[b.agent], Report(b)) <=> Some(agentBox[b.agent], Report(b)) \/ b = c
              /\ One(agentBox[b.agent], Start(b)) => One(agentBox'[b.agent], Start(b))
              /\ One(agentBox[b.agent], Report(b)) /\ (b # c \/ ~Some(agentBox[b.agent], Report(b)))
                  => One(agentBox'[b.agent], Report(b))
            BY <3>1, <2>3, <2>5, <1>6, AppendBox
        <3> QED BY <3>2, <2>1, <2>2 DEF Sent, Reported
    <2> QED BY <2>4, <2>5
<1>9. LifeOK'
    <2>1. ASSUME NEW t \in Tasks PROVE TaskOK(t)'
        <3>1. TaskOK(t)
            BY DEF IInv, LifeOK
        <3>2. Waiting(t)' <=> Waiting(t)
            BY <1>4 DEF Waiting
        <3>3. Waiting(t) => \A b \in OwnOfTask(t) : ~Born(b)' /\ ~Offered(b)' /\ ~Sent(b)'
            BY <3>1, <1>8 DEF TaskOK, OwnOfTask
        <3> QED BY <3>1, <3>2, <3>3, <1>4 DEF TaskOK
    <2>2. ASSUME NEW b \in Own PROVE ContainerOK(b)'
        <3>1. ContainerOK(b)
            BY DEF IInv, LifeOK
        <3>2. One(agentBox[b.agent], Start(b))' /\ One(agentBox[b.agent], Report(b))'
            BY <3>1, <1>2, <1>8 DEF ContainerOK
        <3> QED BY <3>1, <3>2, <1>2, <1>4, <1>5, <1>8 DEF ContainerOK
    <2>3. ASSUME NEW d \in Devices, NEW b \in OwnOfDevice(d) PROVE OnSlotOK(b, d)'
        BY <1>4, <1>8 DEF IInv, LifeOK, OnSlotOK, OwnOfDevice
    <2> QED BY <2>1, <2>2, <2>3, <1>5 DEF IInv, LifeOK
<1>10. Typed' /\ SlotsOK'
    BY <1>4, <1>5 DEF IInv, Typed, SlotsOK, SlotOK
<1>11. Boxed'
    BY <1>4, <1>7 DEF IInv, Boxed
<1> QED BY <1>4, <1>9, <1>10, <1>11, PoolLeft DEF IInv

\* One message to the pool.
LEMMA OneToPool ==
    ASSUME IInv, NEW m \in PoolMsgs, poolBox' = ToPool(<<m>>), rp' = rp
    PROVE  /\ poolBox' \in Seq(PoolMsgs) /\ (~rp'.up => poolBox' = <<>>)
           /\ rp.up => poolBox' = Append(poolBox, m)
           /\ ~rp.up => poolBox' = <<>> /\ poolBox = <<>>
           /\ \A S : Some(poolBox', S) => Some(poolBox, S) \/ m \in S
           /\ \A S : m \notin S => (One(poolBox, S) => One(poolBox', S))
           /\ \A S : ~Some(poolBox, S) => (One(poolBox, S) => One(poolBox', S))
<1>1. poolBox \in Seq(PoolMsgs) /\ (~rp.up => poolBox = <<>>)
    BY AgentTyped
<1>2. CASE ~rp.up
    <2>1. poolBox' = <<>> /\ poolBox = <<>>
        BY <1>1, <1>2 DEF ToPool
    <2>2. \A S : One(<<>>, S)
        BY EmptyBox
    <2> QED BY <2>1, <2>2, <1>1, <1>2
<1>3. CASE rp.up
    <2>1. poolBox' = Append(poolBox, m)
        BY <1>1, <1>3, ToPoolForms DEF ToPool
    <2>2. ASSUME NEW S
          PROVE  /\ Append(poolBox, m) \in Seq(PoolMsgs)
                 /\ Some(Append(poolBox, m), S) <=> Some(poolBox, S) \/ m \in S
                 /\ One(poolBox, S) /\ (m \notin S \/ ~Some(poolBox, S)) => One(Append(poolBox, m), S)
        BY <1>1, AppendBox, Zenon
    <2> QED BY <2>1, <2>2, <1>1, <1>3
<1> QED BY <1>2, <1>3

LEMMA AgentStartedKeeps == ASSUME IInv, NEW a \in Agents, AgentStarted(a) PROVE IInv'
<1>1. PICK m : m = [kind |-> "AddAgent", agent |-> a]
    OBVIOUS
<1>2. m \in PoolMsgs /\ \A t : m \notin Request(t)
    BY <1>1 DEF PoolMsgs, Request
<1>3. /\ agent[a].phase = "absent"
      /\ agent' = [agent EXCEPT ![a].phase = "connected", ![a].slotsUp = TRUE]
      /\ slot' = [d \in Devices |-> IF d \in SlotsOf(a)
                                    THEN [slot[d] EXCEPT !.phase = "starting"] ELSE slot[d]]
      /\ poolBox' = ToPool(<<m>>)
      /\ UNCHANGED <<rp, host, task, agentBox, slotBox, taskBox, used>>
    BY <1>1 DEF AgentStarted
<1>4. /\ agent' \in [Agents -> [phase : {"absent", "connected", "closing", "gone"},
                                slotsUp : BOOLEAN, containers : SUBSET Own]]
      /\ \A b \in Agents : /\ agent'[b].phase = IF b = a THEN "connected" ELSE agent[b].phase
                           /\ agent'[b].containers = agent[b].containers
    BY <1>3, AgentTyped
<1>5. ASSUME NEW d \in Devices
      PROVE  /\ slot'[d] \in [phase : {"absent", "starting", "up", "gone"}, userEnabled : BOOLEAN,
                              deviceAdded : BOOLEAN, container : SUBSET Own]
             /\ slot'[d].phase = IF AgentOf[d] = a THEN "starting" ELSE slot[d].phase
             /\ slot'[d].userEnabled = slot[d].userEnabled /\ slot'[d].deviceAdded = slot[d].deviceAdded
             /\ slot'[d].container = slot[d].container
    BY <1>3, SlotTyped DEF SlotsOf
<1>6. SlotsOK'
    <2> SUFFICES ASSUME NEW d \in Devices PROVE SlotOK(d)'
        BY DEF SlotsOK
    <2>1. SlotOK(d) /\ AgentOf[d] \in Agents
        BY Constants DEF IInv, SlotsOK
    <2> QED BY <2>1, <1>3, <1>4, <1>5, SMTT(20) DEF SlotOK
<1>7. Typed'
    <2>1. slot' \in [Devices -> [phase : {"absent", "starting", "up", "gone"}, userEnabled : BOOLEAN,
                                 deviceAdded : BOOLEAN, container : SUBSET Own]]
        BY <1>3, <1>5
    <2>2. \A d \in Devices : slot'[d].container \in Holders(d)
        BY <1>5, SlotTyped
    <2> QED BY <2>1, <2>2, <1>3, <1>4 DEF IInv, Typed
<1>8. /\ poolBox' \in Seq(PoolMsgs) /\ (~rp'.up => poolBox' = <<>>)
      /\ \A t \in Tasks : /\ Some(poolBox', Request(t)) => Some(poolBox, Request(t))
                          /\ One(poolBox, Request(t)) => One(poolBox', Request(t))
    BY <1>2, <1>3, OneToPool
<1>9. Boxed'
    BY <1>3, <1>8 DEF IInv, Boxed
<1>10. LifeOK'
    <2>1. /\ TasksHearOf(taskBox', taskBox) /\ AgentsHearOf(agentBox', agentBox)
          /\ \A d \in Devices : Fewer(slotBox'[d], slotBox[d])
        BY <1>3, FewerSame DEF TasksHearOf, AgentsHearOf
    <2>2. \A c \in Own : agent[c.agent].phase = "connected" => agent'[c.agent].phase = "connected"
        BY <1>3, <1>4, OwnFields
    <2>3. \A b \in Agents : agent'[b].containers \subseteq agent[b].containers
        BY <1>4
    <2>4. \A c \in Own : agent'[c.agent].containers = agent[c.agent].containers
        BY <1>4, OwnFields
    <2> QED BY <2>1, <2>2, <2>3, <2>4, <1>3, <1>8, AgentTyped, OnSlotQuiet, LifeQuiet
<1>11. AgentsOK'
    <2> SUFFICES ASSUME rp.up, NEW b \in Agents PROVE AgentOK(b)'
        BY <1>3 DEF AgentsOK
    <2>1. AgentOK(b) /\ poolBox \in Seq(PoolMsgs) /\ poolBox' = Append(poolBox, m)
        BY <1>2, <1>3, OneToPool DEF IInv, AgentsOK, Boxed
    <2>2. m \notin About(b) /\ m \notin AgentRemoved(b) /\ (m \in AgentAdded(b) <=> a = b)
        BY <1>1 DEF About, AgentRemoved, AgentAdded
    <2>3. /\ Before(poolBox, About(b), AgentRemoved(b)) => Before(poolBox', About(b), AgentRemoved(b))
          /\ Preceded(poolBox, About(b), AgentAdded(b)) => Preceded(poolBox', About(b), AgentAdded(b))
        BY <2>1, <2>2, <1>2, AppendOrder
    <2>4. /\ Some(poolBox', AgentRemoved(b)) <=> Some(poolBox, AgentRemoved(b))
          /\ Some(poolBox', AgentAdded(b)) <=> Some(poolBox, AgentAdded(b)) \/ a = b
        BY <2>1, <2>2, <1>2, AppendBox
    <2> QED BY <2>1, <2>3, <2>4, <1>3, <1>4 DEF AgentOK
<1>12. PoolOK(rp') /\ FullOK'
    BY <1>3 DEF IInv, PoolOK, FullOK
<1> QED BY <1>6, <1>7, <1>9, <1>10, <1>11, <1>12 DEF IInv

LEMMA AgentFailsKeeps == ASSUME IInv, NEW a \in Agents, AgentFails(a) PROVE IInv'
<1> DEFINE lost == {c \in host.live : c.agent = a}
<1>1. /\ agent[a].phase = "connected"
      /\ agent' = [agent EXCEPT ![a].phase = "closing", ![a].slotsUp = FALSE]
      /\ agentBox' = [agentBox EXCEPT ![a] = <<>>]
      /\ slotBox' = slotBox \/ slotBox' = ToSlots(SlotsOf(a), [kind |-> "Stop"])
      /\ host' = [host EXCEPT !.live = host.live \ lost, !.killed = host.killed \ lost,
                              !.ended = host.ended \union lost]
      /\ used' = used \/ used' = [used EXCEPT !.failures = used.failures + 1]
      /\ UNCHANGED <<rp, slot, task, poolBox, taskBox>>
    BY AgentTyped DEF AgentFails
<1>2. /\ agent' \in [Agents -> [phase : {"absent", "connected", "closing", "gone"},
                                slotsUp : BOOLEAN, containers : SUBSET Own]]
      /\ \A b \in Agents : /\ agent'[b].phase = IF b = a THEN "closing" ELSE agent[b].phase
                           /\ agent'[b].containers = agent[b].containers
    <2>1. agent' = [agent EXCEPT ![a].phase = "closing", ![a].slotsUp = FALSE]
        BY <1>1
    <2>2. agent \in [Agents -> [phase : {"absent", "connected", "closing", "gone"},
                                slotsUp : BOOLEAN, containers : SUBSET Own]]
        BY AgentTyped
    <2>3. agent' = [agent EXCEPT ![a] = [agent[a] EXCEPT !.phase = "closing", !.slotsUp = FALSE]]
        BY <2>1, <2>2
    <2>4. PICK r : r = [agent[a] EXCEPT !.phase = "closing", !.slotsUp = FALSE]
        OBVIOUS
    <2>5. /\ r \in [phase : {"absent", "connected", "closing", "gone"},
                   slotsUp : BOOLEAN, containers : SUBSET Own]
          /\ r.phase = "closing" /\ r.containers = agent[a].containers
        BY <2>2, <2>4
    <2>6. agent' = [agent EXCEPT ![a] = r]
        BY <2>3, <2>4
    <2> QED BY <2>2, <2>5, <2>6
<1>3. /\ host' \in [live : SUBSET Own, killed : SUBSET Own, ended : SUBSET Own]
      /\ host'.live = host.live \ lost /\ host'.killed = host.killed \ lost
      /\ host'.ended = host.ended \union lost
    <2>1. lost \in SUBSET Own /\ host \in [live : SUBSET Own, killed : SUBSET Own, ended : SUBSET Own]
        BY AgentTyped
    <2> HIDE DEF lost
    <2> QED BY <2>1, <1>1
<1>4. /\ host'.live \subseteq host.live /\ host'.killed \subseteq host'.live
      /\ host'.live \cup host'.ended = host.live \cup host.ended
      /\ host'.live \cap host'.ended = {}
      /\ \A c \in host'.live : c.agent # a
    BY <1>3, AgentTyped
<1> HIDE DEF lost
<1>5. used' \in [failures : Nat, toggles : Nat, kills : Nat]
    <2>1. used \in [failures : Nat, toggles : Nat, kills : Nat]
        BY AgentTyped
    <2>2. CASE used' = used
        BY <2>1, <2>2
    <2>3. CASE used' = [used EXCEPT !.failures = used.failures + 1]
        BY <2>1, <2>3
    <2> QED BY <1>1, <2>2, <2>3
<1>6. /\ DOMAIN agentBox' = Agents /\ \A b \in Agents : agentBox'[b] \in Seq(AgentMsgs(b))
      /\ AgentsHearOf(agentBox', agentBox)
      /\ agentBox'[a] = <<>>
    <2>1. \A b \in Agents : Fewer(agentBox'[b], agentBox[b])
        BY <1>1, FewerEmpty, FewerSame, AgentTyped
    <2>2. DOMAIN agentBox' = Agents /\ agentBox'[a] = <<>>
          /\ \A b \in Agents : b # a => agentBox'[b] = agentBox[b]
        BY <1>1, AgentTyped
    <2>3. <<>> \in Seq(AgentMsgs(a))
        OBVIOUS
    <2>4. \A b \in Agents : agentBox'[b] \in Seq(AgentMsgs(b))
        BY <2>2, <2>3, AgentTyped
    <2> QED BY <2>1, <2>2, <2>4, FewerHearOf
<1>7. /\ DOMAIN slotBox' = Devices /\ \A e \in Devices : slotBox'[e] \in Seq(SlotMsgs(e))
      /\ \A e \in Devices : slotBox'[e] = slotBox[e] \/ slotBox'[e] = Append(slotBox[e], [kind |-> "Stop"])
    <2>1. CASE slotBox' = slotBox
        BY <2>1 DEF IInv, Boxed
    <2> QED BY <2>1, <1>1, StopsSlots
<1>8. ASSUME NEW d \in Devices, NEW c \in OwnOfDevice(d) PROVE OnSlotOK(c, d)'
    <2>1. OnSlotOK(c, d) /\ c \in Own /\ c.agent \in Agents
        BY OwnFields DEF IInv, LifeOK, OwnOfDevice
    <2>2. Born(c)' <=> Born(c)
        BY <1>4 DEF Born
    <2>3. /\ Some(slotBox'[d], SlotStart(c)) <=> Some(slotBox[d], SlotStart(c))
          /\ Some(slotBox'[d], SlotEnd(c)) <=> Some(slotBox[d], SlotEnd(c))
          /\ One(slotBox[d], SlotEnd(c)) => One(slotBox'[d], SlotEnd(c))
          /\ Before(slotBox[d], SlotStart(c), SlotEnd(c)) => Before(slotBox'[d], SlotStart(c), SlotEnd(c))
        <3>1. CASE slotBox'[d] = slotBox[d]
            BY <3>1
        <3>2. CASE slotBox'[d] = Append(slotBox[d], [kind |-> "Stop"])
            BY <2>1, <3>2, StopFewer
        <3> QED BY <1>7, <3>1, <3>2
    <2> QED BY <2>1, <2>2, <2>3, <1>2 DEF OnSlotOK
<1>9. LifeOK'
    <2>1. TasksHearOf(taskBox', taskBox)
        BY <1>1 DEF TasksHearOf
    <2>2. \A c \in Own : c \in host'.live \/ Some(agentBox'[c.agent], Report(c)) => c.agent # a
        BY <1>4, <1>6, EmptyBox
    <2>3. \A c \in Own : c.agent # a => /\ agent'[c.agent].phase = agent[c.agent].phase
                                        /\ agent'[c.agent].containers = agent[c.agent].containers
        BY <1>2, OwnFields
    <2>4. \A b \in Agents : agent'[b].containers \subseteq agent[b].containers
        BY <1>2
    <2> QED BY <2>1, <2>2, <2>3, <2>4, <1>1, <1>4, <1>6, <1>8, PoolLeft, LifeQuiet
<1>10. Typed'
    BY <1>1, <1>2, <1>3, <1>5 DEF IInv, Typed
<1>11. SlotsOK'
    BY <1>1, <1>2, Constants DEF IInv, SlotsOK, SlotOK
<1>12. Boxed'
    BY <1>1, <1>6, <1>7 DEF IInv, Boxed
<1>13. AgentsOK'
    BY <1>1, <1>2 DEF IInv, AgentsOK, AgentOK
<1> QED BY <1>1, <1>9, <1>10, <1>11, <1>12, <1>13, PoolLeft DEF IInv

LEMMA AgentPostStopKeeps == ASSUME IInv, NEW a \in Agents, AgentPostStop(a) PROVE IInv'
<1>1. PICK m : m = [kind |-> "RemoveAgent", agent |-> a]
    OBVIOUS
<1>2. m \in PoolMsgs /\ \A t : m \notin Request(t)
    BY <1>1 DEF PoolMsgs, Request
<1>3. /\ agent[a].phase = "closing"
      /\ \A d \in SlotsOf(a) : slot[d].phase = "gone"
      /\ agent' = [agent EXCEPT ![a].phase = "gone", ![a].containers = {}]
      /\ taskBox' = ToTasks("Terminated", agent[a].containers)
      /\ poolBox' = ToPool(<<m>>)
      /\ UNCHANGED <<rp, slot, host, task, agentBox, slotBox, used>>
    BY <1>1 DEF AgentPostStop
<1>4. /\ agent' \in [Agents -> [phase : {"absent", "connected", "closing", "gone"},
                                slotsUp : BOOLEAN, containers : SUBSET Own]]
      /\ \A b \in Agents : /\ agent'[b].phase = IF b = a THEN "gone" ELSE agent[b].phase
                           /\ agent'[b].containers = IF b = a THEN {} ELSE agent[b].containers
    BY <1>3, AgentTyped
<1>5. /\ DOMAIN taskBox' = Tasks /\ \A t \in Tasks : taskBox'[t] \in Seq(TaskMsgs(t))
      /\ TasksHearOf(taskBox', taskBox)
    <2>1. agent[a].containers \in SUBSET Own /\ Boxed
        BY AgentTyped DEF IInv
    <2> QED BY <2>1, <1>3, ToTasksBox
<1>6. SlotsOK'
    <2> SUFFICES ASSUME NEW d \in Devices PROVE SlotOK(d)'
        BY DEF SlotsOK
    <2>1. SlotOK(d) /\ AgentOf[d] \in Agents /\ (AgentOf[d] = a => slot[d].phase = "gone")
        BY <1>3, Constants DEF IInv, SlotsOK, SlotsOf
    <2> QED BY <2>1, <1>3, <1>4 DEF SlotOK
<1>7. Typed'
    BY <1>3, <1>4 DEF IInv, Typed
<1>8. /\ poolBox' \in Seq(PoolMsgs) /\ (~rp'.up => poolBox' = <<>>)
      /\ \A t \in Tasks : /\ Some(poolBox', Request(t)) => Some(poolBox, Request(t))
                          /\ One(poolBox, Request(t)) => One(poolBox', Request(t))
    BY <1>2, <1>3, OneToPool
<1>9. Boxed'
    BY <1>3, <1>5, <1>8 DEF IInv, Boxed
<1>10. LifeOK'
    <2>1. /\ AgentsHearOf(agentBox', agentBox)
          /\ \A d \in Devices : Fewer(slotBox'[d], slotBox[d])
        BY <1>3, FewerSame DEF AgentsHearOf
    <2>2. \A c \in Own : agent[c.agent].phase = "connected" =>
                            /\ agent'[c.agent].phase = "connected"
                            /\ agent'[c.agent].containers = agent[c.agent].containers
        BY <1>3, <1>4, OwnFields
    <2>3. \A b \in Agents : agent'[b].containers \subseteq agent[b].containers
        BY <1>4
    <2> QED BY <2>1, <2>2, <2>3, <1>3, <1>5, <1>8, AgentTyped, OnSlotQuiet, LifeQuiet
<1>11. AgentsOK'
    <2> SUFFICES ASSUME rp.up, NEW b \in Agents PROVE AgentOK(b)'
        BY <1>3 DEF AgentsOK
    <2>1. AgentOK(b) /\ poolBox \in Seq(PoolMsgs) /\ poolBox' = Append(poolBox, m)
        BY <1>2, <1>3, OneToPool DEF IInv, AgentsOK, Boxed
    <2>2. m \notin About(b) /\ m \notin AgentAdded(b) /\ (m \in AgentRemoved(b) <=> a = b)
        BY <1>1 DEF About, AgentRemoved, AgentAdded
    <2>3. /\ Before(poolBox, About(b), AgentRemoved(b)) => Before(poolBox', About(b), AgentRemoved(b))
          /\ Preceded(poolBox, About(b), AgentAdded(b)) => Preceded(poolBox', About(b), AgentAdded(b))
        BY <2>1, <2>2, <1>2, AppendOrder
    <2>4. /\ Some(poolBox', AgentRemoved(b)) <=> Some(poolBox, AgentRemoved(b)) \/ a = b
          /\ Some(poolBox', AgentAdded(b)) <=> Some(poolBox, AgentAdded(b))
        BY <2>1, <2>2, <1>2, AppendBox
    <2> QED BY <2>1, <2>3, <2>4, <1>3, <1>4 DEF AgentOK
<1>12. PoolOK(rp') /\ FullOK'
    BY <1>3 DEF IInv, PoolOK, FullOK
<1> QED BY <1>6, <1>7, <1>9, <1>10, <1>11, <1>12 DEF IInv

-----------------------------------------------------------------------------
(* Tasks. *)
LEMMA TaskTyped ==
    ASSUME IInv
    PROVE  /\ task \in [Tasks -> [phase : {"absent", "active", "exited", "stopped"},
                                  allocations : SUBSET Own, terminated : SUBSET Own]]
           /\ DOMAIN taskBox = Tasks /\ \A t \in Tasks : taskBox[t] \in Seq(TaskMsgs(t))
BY DEF IInv, Typed, Boxed

LEMMA TaskMsgFields ==
    ASSUME IInv, NEW t \in Tasks, NEW kind, TaskReceived(t, kind)
    PROVE  /\ task[t].phase # "stopped" /\ taskBox[t] # <<>>
           /\ Head(taskBox[t]) \in TaskMsgs(t) /\ Head(taskBox[t]).kind = kind
           /\ kind = "ResourcesAllocated" => Head(taskBox[t]).cs \in SUBSET OwnOfTask(t)
           /\ kind = "Terminated" => Head(taskBox[t]).c \in OwnOfTask(t)
<1>1. Head(taskBox[t]) \in TaskMsgs(t) /\ taskBox[t] # <<>>
    BY TailType DEF IInv, Boxed, TaskReceived
<1> QED BY <1>1 DEF TaskReceived, TaskMsgs

LEMMA TaskTakes ==
    ASSUME IInv, NEW t \in Tasks, taskBox[t] # <<>>,
           taskBox' = [taskBox EXCEPT ![t] = Tail(taskBox[t])]
    PROVE  /\ DOMAIN taskBox' = Tasks /\ \A u \in Tasks : taskBox'[u] \in Seq(TaskMsgs(u))
           /\ TasksHearOf(taskBox', taskBox)
<1>1. taskBox[t] \in Seq(TaskMsgs(t)) /\ DOMAIN taskBox = Tasks
    BY TaskTyped
<1>2. Tail(taskBox[t]) \in Seq(TaskMsgs(t)) /\ Fewer(Tail(taskBox[t]), taskBox[t])
    BY <1>1, FewerTail
<1>3. \A u \in Tasks : Fewer(taskBox'[u], taskBox[u])
    BY <1>1, <1>2, FewerSame
<1> QED BY <1>1, <1>2, <1>3, FewerTasksHearOf, TaskTyped

\* Messages of tasks to the pool say nothing of agents.
LEMMA PoolHearsOfTask ==
    ASSUME IInv, NEW kind \in {"AllocateRequest", "ResourcesReleased"}, NEW t \in Tasks,
           \/ poolBox' = poolBox
           \/ poolBox' = ToPool(<<[kind |-> kind, task |-> t]>>)
           \/ poolBox' = ToPool(<<>>),
           rp' = rp, agent' = agent
    PROVE  /\ poolBox' \in Seq(PoolMsgs) /\ (~rp'.up => poolBox' = <<>>)
           /\ AgentsOK'
           /\ \A u \in Tasks : /\ Some(poolBox', Request(u)) =>
                                     Some(poolBox, Request(u)) \/ (u = t /\ kind = "AllocateRequest")
                               /\ ~Some(poolBox, Request(u)) \/ u # t \/ kind = "ResourcesReleased"
                                  => (One(poolBox, Request(u)) => One(poolBox', Request(u)))
<1>1. PICK m : m = [kind |-> kind, task |-> t]
    OBVIOUS
<1>2. /\ m \in PoolMsgs
      /\ \A u : m \in Request(u) <=> u = t /\ kind = "AllocateRequest"
      /\ \A a : m \notin About(a) /\ m \notin AgentAdded(a) /\ m \notin AgentRemoved(a)
    BY <1>1 DEF PoolMsgs, Request, About, AgentAdded, AgentRemoved
<1>3. poolBox \in Seq(PoolMsgs) /\ (~rp.up => poolBox = <<>>)
    BY AgentTyped
<1>4. CASE poolBox' = poolBox
    BY <1>4, PoolLeft
<1>5. CASE poolBox' = ToPool(<<>>)
    <2>1. poolBox' = poolBox
        BY <1>3, <1>5, ToPoolForms DEF ToPool
    <2> QED BY <2>1, PoolLeft
<1>6. CASE poolBox' = ToPool(<<m>>)
    <2>1. /\ poolBox' \in Seq(PoolMsgs) /\ (~rp'.up => poolBox' = <<>>)
          /\ rp.up => poolBox' = Append(poolBox, m)
          /\ \A u \in Tasks : /\ Some(poolBox', Request(u)) =>
                                     Some(poolBox, Request(u)) \/ (u = t /\ kind = "AllocateRequest")
                              /\ ~Some(poolBox, Request(u)) \/ u # t \/ kind = "ResourcesReleased"
                                  => (One(poolBox, Request(u)) => One(poolBox', Request(u)))
        BY <1>2, <1>6, OneToPool
    <2>2. AgentsOK'
        <3> SUFFICES ASSUME rp.up, NEW a \in Agents PROVE AgentOK(a)'
            BY DEF AgentsOK
        <3>1. AgentOK(a) /\ poolBox' = Append(poolBox, m)
            BY <2>1 DEF IInv, AgentsOK
        <3>2. /\ Before(poolBox, About(a), AgentRemoved(a)) => Before(poolBox', About(a), AgentRemoved(a))
              /\ Preceded(poolBox, About(a), AgentAdded(a)) => Preceded(poolBox', About(a), AgentAdded(a))
            BY <3>1, <1>2, <1>3, AppendOrder
        <3>3. /\ Some(poolBox', AgentRemoved(a)) <=> Some(poolBox, AgentRemoved(a))
              /\ Some(poolBox', AgentAdded(a)) <=> Some(poolBox, AgentAdded(a))
            BY <3>1, <1>2, <1>3, AppendBox
        <3> QED BY <3>1, <3>2, <3>3 DEF AgentOK
    <2> QED BY <2>1, <2>2
<1> QED BY <1>1, <1>4, <1>5, <1>6

LEMMA LaunchKeeps == ASSUME IInv, NEW t \in Tasks, Launch(t) PROVE IInv'
<1>1. /\ task[t].phase = "absent" /\ task' = [task EXCEPT ![t].phase = "active"]
      /\ poolBox' = ToPool(<<[kind |-> "AllocateRequest", task |-> t]>>)
      /\ UNCHANGED <<rp, agent, slot, host, agentBox, slotBox, taskBox, used>>
    BY DEF Launch
<1>2. /\ task' \in [Tasks -> [phase : {"absent", "active", "exited", "stopped"},
                              allocations : SUBSET Own, terminated : SUBSET Own]]
      /\ \A u \in Tasks : task'[u].phase = IF u = t THEN "active" ELSE task[u].phase
    BY <1>1, TaskTyped
<1>3. /\ poolBox' \in Seq(PoolMsgs) /\ (~rp'.up => poolBox' = <<>>) /\ AgentsOK'
      /\ \A u \in Tasks : /\ Some(poolBox', Request(u)) => Some(poolBox, Request(u)) \/ u = t
                          /\ ~Some(poolBox, Request(u)) \/ u # t
                             => (One(poolBox, Request(u)) => One(poolBox', Request(u)))
    BY <1>1, PoolHearsOfTask
<1>4. ASSUME NEW u \in Tasks PROVE TaskOK(u)'
    <2>1. TaskOK(u)
        BY DEF IInv, LifeOK
    <2>2. u = t => ~Some(poolBox, Request(u)) /\ u \notin rp.tasks /\ Waiting(u)
        BY <2>1, <1>1 DEF TaskOK, Waiting
    <2>3. Waiting(u)' => Waiting(u)
        BY <2>2, <1>1, <1>2, <1>3 DEF Waiting
    <2>4. Waiting(u) => \A b \in OwnOfTask(u) : ~Born(b)' /\ ~Offered(b)' /\ ~Sent(b)'
        BY <2>1, <1>1 DEF TaskOK, Born, Offered, Sent
    <2> QED BY <2>1, <2>2, <2>3, <2>4, <1>1, <1>2, <1>3 DEF TaskOK
<1>5. LifeOK'
    <2>1. ASSUME NEW c \in Own PROVE ContainerOK(c)'
        BY <1>1 DEF IInv, LifeOK, ContainerOK, Offered, Sent, Reported, Born
    <2>2. ASSUME NEW d \in Devices, NEW c \in OwnOfDevice(d) PROVE OnSlotOK(c, d)'
        BY <1>1 DEF IInv, LifeOK, OnSlotOK, Born
    <2> QED BY <2>1, <2>2, <1>1, <1>4 DEF IInv, LifeOK
<1>6. Typed' /\ SlotsOK'
    BY <1>1, <1>2 DEF IInv, Typed, SlotsOK, SlotOK
<1>7. Boxed'
    BY <1>1, <1>3 DEF IInv, Boxed
<1>8. PoolOK(rp') /\ FullOK'
    BY <1>1 DEF IInv, PoolOK, FullOK
<1> QED BY <1>3, <1>5, <1>6, <1>7, <1>8 DEF IInv

\* Steps of a task that start no container.
LEMMA TaskStep ==
    ASSUME IInv, NEW t \in Tasks,
           NEW x \in [phase : {"absent", "active", "exited", "stopped"},
                      allocations : SUBSET Own, terminated : SUBSET Own],
           x.phase = "absent" => task[t].phase = "absent",
           task' = [task EXCEPT ![t] = x],
           \/ poolBox' = poolBox
           \/ poolBox' = ToPool(<<[kind |-> "ResourcesReleased", task |-> t]>>)
           \/ poolBox' = ToPool(<<>>),
           DOMAIN agentBox' = Agents, \A a \in Agents : agentBox'[a] \in Seq(AgentMsgs(a)),
           AgentsHearOf(agentBox', agentBox),
           DOMAIN taskBox' = Tasks, \A u \in Tasks : taskBox'[u] \in Seq(TaskMsgs(u)),
           TasksHearOf(taskBox', taskBox),
           used' \in [failures : Nat, toggles : Nat, kills : Nat],
           UNCHANGED <<rp, agent, slot, host, slotBox>>
    PROVE  IInv'
<1>1. /\ task' \in [Tasks -> [phase : {"absent", "active", "exited", "stopped"},
                              allocations : SUBSET Own, terminated : SUBSET Own]]
      /\ \A u \in Tasks : task'[u].phase = "absent" => task[u].phase = "absent"
    BY TaskTyped
<1>2. /\ poolBox' \in Seq(PoolMsgs) /\ (~rp'.up => poolBox' = <<>>) /\ AgentsOK'
      /\ \A u \in Tasks : /\ Some(poolBox', Request(u)) => Some(poolBox, Request(u))
                          /\ One(poolBox, Request(u)) => One(poolBox', Request(u))
    <2>1. PICK k : k = "ResourcesReleased"
        OBVIOUS
    <2>2. k \in {"AllocateRequest", "ResourcesReleased"} /\ k # "AllocateRequest"
        BY <2>1
    <2> QED BY <2>1, <2>2, PoolHearsOfTask
<1>3. LifeOK'
    <2>1. \A d \in Devices : Fewer(slotBox'[d], slotBox[d])
        BY FewerSame
    <2> QED BY <2>1, <1>1, <1>2, AgentTyped, OnSlotQuiet, LifeQuiet
<1>4. Typed' /\ SlotsOK'
    BY <1>1 DEF IInv, Typed, SlotsOK, SlotOK
<1>5. Boxed'
    BY <1>2 DEF IInv, Boxed
<1>6. PoolOK(rp') /\ FullOK'
    BY DEF IInv, PoolOK, FullOK
<1> QED BY <1>2, <1>3, <1>4, <1>5, <1>6 DEF IInv

LEMMA BoxesLeft ==
    ASSUME IInv
    PROVE  /\ agentBox' = agentBox =>
                /\ DOMAIN agentBox' = Agents /\ \A a \in Agents : agentBox'[a] \in Seq(AgentMsgs(a))
                /\ AgentsHearOf(agentBox', agentBox)
           /\ taskBox' = taskBox =>
                /\ DOMAIN taskBox' = Tasks /\ \A u \in Tasks : taskBox'[u] \in Seq(TaskMsgs(u))
                /\ TasksHearOf(taskBox', taskBox)
BY AgentTyped, TaskTyped DEF AgentsHearOf, TasksHearOf

LEMMA TaskContainerTerminatedKeeps ==
    ASSUME IInv, NEW t \in Tasks, TaskContainerTerminated(t) PROVE IInv'
<1> DEFINE ended == task[t].terminated \union {Head(taskBox[t]).c}
           exits == ended = task[t].allocations
<1>1. /\ taskBox[t] # <<>> /\ Head(taskBox[t]).c \in OwnOfTask(t)
    BY TaskMsgFields DEF TaskContainerTerminated
<1>2. /\ task' = [task EXCEPT ![t].terminated = ended,
                              ![t].phase = IF exits THEN "exited" ELSE task[t].phase]
      /\ poolBox' = ToPool(IF exits THEN Released(t) ELSE <<>>)
      /\ taskBox' = [taskBox EXCEPT ![t] = Tail(taskBox[t])]
      /\ UNCHANGED <<rp, agent, slot, host, agentBox, slotBox, used>>
    BY TaskTyped DEF TaskContainerTerminated
<1>3. ended \in SUBSET Own
    BY <1>1, TaskTyped DEF OwnOfTask
<1> HIDE DEF ended
<1>4. PICK x : x = [task[t] EXCEPT !.terminated = ended, !.phase = IF exits THEN "exited" ELSE task[t].phase]
    OBVIOUS
<1>5. /\ x \in [phase : {"absent", "active", "exited", "stopped"},
                allocations : SUBSET Own, terminated : SUBSET Own]
      /\ x.phase = "absent" => task[t].phase = "absent"
      /\ task' = [task EXCEPT ![t] = x]
    BY <1>2, <1>3, <1>4, TaskTyped
<1>6. \/ poolBox' = ToPool(<<[kind |-> "ResourcesReleased", task |-> t]>>)
      \/ poolBox' = ToPool(<<>>)
    BY <1>2 DEF Released
<1> QED BY <1>1, <1>2, <1>5, <1>6, BoxesLeft, TaskTakes, AgentTyped, TaskStep

LEMMA terminateKeeps == ASSUME IInv, NEW t \in Tasks, terminate(t) PROVE IInv'
<1>1. /\ used' = [used EXCEPT !.kills = used.kills + 1]
      /\ UNCHANGED <<rp, agent, slot, host, slotBox, taskBox>>
    BY AgentTyped DEF terminate
<1>2. used' \in [failures : Nat, toggles : Nat, kills : Nat]
    BY <1>1, AgentTyped
<1>3. CASE task[t].allocations = {}
    <2>1. PICK x : x = [task[t] EXCEPT !.phase = "exited"]
        OBVIOUS
    <2>2. /\ x \in [phase : {"absent", "active", "exited", "stopped"},
                    allocations : SUBSET Own, terminated : SUBSET Own]
          /\ x.phase # "absent" /\ task' = [task EXCEPT ![t] = x]
        BY <1>3, <2>1, TaskTyped DEF terminate
    <2>3. /\ poolBox' = ToPool(<<[kind |-> "ResourcesReleased", task |-> t]>>)
          /\ agentBox' = agentBox
        BY <1>3 DEF terminate, Released
    <2> QED BY <1>1, <1>2, <2>2, <2>3, BoxesLeft, TaskStep
<1>4. CASE task[t].allocations # {}
    <2>1. /\ agentBox' = ToAgents("KillTaskContainer", task[t].allocations)
          /\ UNCHANGED <<task, poolBox>>
        BY <1>4 DEF terminate
    <2>2. PICK x : x = task[t]
        OBVIOUS
    <2>3. /\ x \in [phase : {"absent", "active", "exited", "stopped"},
                    allocations : SUBSET Own, terminated : SUBSET Own]
          /\ x.phase = "absent" => task[t].phase = "absent"
          /\ task' = [task EXCEPT ![t] = x]
        BY <2>1, <2>2, TaskTyped
    <2>4. /\ DOMAIN agentBox' = Agents /\ \A a \in Agents : agentBox'[a] \in Seq(AgentMsgs(a))
          /\ AgentsHearOf(agentBox', agentBox)
        <3>1. task[t].allocations \in SUBSET Own /\ Boxed
            BY TaskTyped DEF IInv
        <3> QED BY <2>1, <3>1, KillsSent
    <2> QED BY <1>1, <1>2, <2>1, <2>3, <2>4, BoxesLeft, TaskStep
<1> QED BY <1>3, <1>4

LEMMA TaskPostStopKeeps == ASSUME IInv, NEW t \in Tasks, TaskPostStop(t) PROVE IInv'
<1>1. /\ task' = [task EXCEPT ![t].phase = "stopped"]
      /\ taskBox' = [taskBox EXCEPT ![t] = <<>>]
      /\ agentBox' = agentBox \/ agentBox' = ToAgents("KillTaskContainer", task[t].allocations)
      /\ poolBox' = ToPool(<<[kind |-> "ResourcesReleased", task |-> t]>>)
      /\ UNCHANGED <<rp, agent, slot, host, slotBox, used>>
    BY DEF TaskPostStop, Released
<1>2. PICK x : x = [task[t] EXCEPT !.phase = "stopped"]
    OBVIOUS
<1>3. /\ x \in [phase : {"absent", "active", "exited", "stopped"},
                allocations : SUBSET Own, terminated : SUBSET Own]
      /\ x.phase # "absent" /\ task' = [task EXCEPT ![t] = x]
    BY <1>1, <1>2, TaskTyped
<1>4. /\ DOMAIN agentBox' = Agents /\ \A a \in Agents : agentBox'[a] \in Seq(AgentMsgs(a))
      /\ AgentsHearOf(agentBox', agentBox)
    <2>1. task[t].allocations \in SUBSET Own /\ Boxed
        BY TaskTyped DEF IInv
    <2>2. CASE agentBox' = agentBox
        BY <2>2, BoxesLeft
    <2>3. CASE agentBox' = ToAgents("KillTaskContainer", task[t].allocations)
        BY <2>1, <2>3, KillsSent
    <2> QED BY <1>1, <2>2, <2>3
<1>5. /\ DOMAIN taskBox' = Tasks /\ \A u \in Tasks : taskBox'[u] \in Seq(TaskMsgs(u))
      /\ TasksHearOf(taskBox', taskBox)
    <2>1. /\ DOMAIN taskBox' = Tasks /\ taskBox'[t] = <<>>
          /\ \A u \in Tasks : u # t => taskBox'[u] = taskBox[u]
        BY <1>1, TaskTyped
    <2>2. <<>> \in Seq(TaskMsgs(t))
        OBVIOUS
    <2>3. \A u \in Tasks : Fewer(taskBox'[u], taskBox[u])
        BY <2>1, FewerEmpty, FewerSame
    <2>4. \A u \in Tasks : taskBox'[u] \in Seq(TaskMsgs(u))
        BY <2>1, <2>2, TaskTyped
    <2> QED BY <2>1, <2>3, <2>4, FewerTasksHearOf
<1> QED BY <1>1, <1>3, <1>4, <1>5, AgentTyped, TaskStep

LEMMA StartsSent ==
    ASSUME Boxed, NEW C \in SUBSET Own, NEW a \in Agents, NEW box,
           box = ToAgents("StartTaskContainer", C), NEW c
    PROVE  /\ Some(box[a], Start(c)) => Some(agentBox[a], Start(c)) \/ (c \in C /\ agent[a].phase = "connected")
           /\ One(agentBox[a], Start(c)) /\ (c \notin C \/ ~Some(agentBox[a], Start(c)))
                => One(box[a], Start(c))
           /\ Some(box[a], Report(c)) => Some(agentBox[a], Report(c))
           /\ One(agentBox[a], Report(c)) => One(box[a], Report(c))
<1>1. PICK kind : kind = "StartTaskContainer"
    OBVIOUS
<1>2. kind \in {"StartTaskContainer", "KillTaskContainer"} /\ box = ToAgents(kind, C)
    BY <1>1
<1>3. \A S : /\ Some(box[a], S) =>
                    \/ Some(agentBox[a], S)
                    \/ \E b \in C : b.agent = a /\ agent[a].phase = "connected" /\ [kind |-> kind, c |-> b] \in S
             /\ Some(agentBox[a], S) => Some(box[a], S)
             /\ One(agentBox[a], S) /\ (\A b \in C : [kind |-> kind, c |-> b] \notin S) => One(box[a], S)
             /\ One(agentBox[a], S) /\ ~Some(agentBox[a], S) /\ (\E x : S = {x}) => One(box[a], S)
    BY <1>2, ToAgentsBox, ZenonT(120)
<1>4. \A b : [kind |-> kind, c |-> b] \notin Report(c)
    BY <1>1 DEF Report
<1>5. \A b : [kind |-> kind, c |-> b] \in Start(c) => b = c
    BY <1>1 DEF Start
<1>6. \E x : Start(c) = {x}
    BY DEF Start
<1>7. /\ Some(box[a], Start(c)) => Some(agentBox[a], Start(c)) \/ (c \in C /\ agent[a].phase = "connected")
      /\ One(agentBox[a], Start(c)) /\ (c \notin C \/ ~Some(agentBox[a], Start(c))) => One(box[a], Start(c))
    BY <1>3, <1>5, <1>6, Zenon
<1>8. /\ Some(box[a], Report(c)) => Some(agentBox[a], Report(c))
      /\ One(agentBox[a], Report(c)) => One(box[a], Report(c))
    BY <1>3, <1>4, Zenon
<1> QED BY <1>7, <1>8

\* The containers a task was offered are sent to their agents.
LEMMA ResourcesAllocatedKeeps == ASSUME IInv, NEW t \in Tasks, ResourcesAllocated(t) PROVE IInv'
<1>1. PICK C : C = Head(taskBox[t]).cs
    OBVIOUS
<1>2. /\ taskBox[t] # <<>> /\ C \in SUBSET OwnOfTask(t)
      /\ Head(taskBox[t]) \in TaskMsgs(t) /\ Head(taskBox[t]).kind = "ResourcesAllocated"
    BY <1>1, TaskMsgFields DEF ResourcesAllocated
<1>3. /\ taskBox' = [taskBox EXCEPT ![t] = Tail(taskBox[t])]
      /\ UNCHANGED <<rp, agent, slot, host, poolBox, slotBox, used>>
      /\ \/ UNCHANGED <<task, agentBox>>
         \/ /\ task' = [task EXCEPT ![t].allocations = C]
            /\ agentBox' = ToAgents("StartTaskContainer", C)
    BY <1>1, TaskTyped DEF ResourcesAllocated
<1>4. /\ DOMAIN taskBox' = Tasks /\ \A u \in Tasks : taskBox'[u] \in Seq(TaskMsgs(u))
      /\ TasksHearOf(taskBox', taskBox)
    BY <1>2, <1>3, TaskTakes
<1>5. CASE UNCHANGED <<task, agentBox>>
    <2>1. PICK x : x = task[t]
        OBVIOUS
    <2>2. /\ x \in [phase : {"absent", "active", "exited", "stopped"},
                    allocations : SUBSET Own, terminated : SUBSET Own]
          /\ x.phase = "absent" => task[t].phase = "absent"
          /\ task' = [task EXCEPT ![t] = x]
        BY <1>5, <2>1, TaskTyped
    <2> QED BY <1>3, <1>4, <1>5, <2>2, BoxesLeft, AgentTyped, TaskStep
<1>6. CASE task' = [task EXCEPT ![t].allocations = C] /\ agentBox' = ToAgents("StartTaskContainer", C)
    <2>1. /\ task' \in [Tasks -> [phase : {"absent", "active", "exited", "stopped"},
                                  allocations : SUBSET Own, terminated : SUBSET Own]]
          /\ \A u \in Tasks : task'[u].phase = task[u].phase
        BY <1>2, <1>6, TaskTyped DEF OwnOfTask
    <2>2. C \in SUBSET Own /\ Boxed /\ \A c \in C : c.task = t
        BY <1>2 DEF IInv, OwnOfTask
    <2>3. DOMAIN agentBox' = Agents /\ \A a \in Agents : agentBox'[a] \in Seq(AgentMsgs(a))
        BY <1>6, <2>2, ToAgentsBox DEF ToAgents
    <2>4. ASSUME NEW c \in C PROVE Offered(c) /\ ~Born(c) /\ ~Sent(c)
        <3>1. Head(taskBox[t]) \in Offering(c)
            BY <1>1, <1>2, <2>2 DEF Offering
        <3>2. Offered(c)
            BY <3>1, <2>2, <1>2, TailBox, TaskTyped DEF Offered
        <3> QED BY <2>2, <3>2 DEF IInv, LifeOK, ContainerOK
    <2>5. \A c \in OwnOfTask(t) : ~Some(taskBox'[t], Offering(c))
        <3>1. Head(taskBox[t]) \in Allocations(t)
            BY <1>2 DEF Allocations
        <3>2. taskBox[t] \in Seq(TaskMsgs(t)) /\ One(taskBox[t], Allocations(t))
              /\ taskBox'[t] = Tail(taskBox[t])
            BY <1>3, TaskTyped DEF IInv, LifeOK, TaskOK
        <3>3. ~Some(taskBox'[t], Allocations(t))
            BY <3>1, <3>2, <1>2, TailBox
        <3>4. \A c \in OwnOfTask(t) : Offering(c) \subseteq Allocations(t)
            BY DEF Offering, Allocations, OwnOfTask
        <3> QED BY <3>3, <3>4 DEF Some
    <2>6. ASSUME NEW c \in Own
          PROVE  /\ Sent(c)' => Sent(c) \/ c \in C
                 /\ Reported(c)' => Reported(c)
                 /\ One(agentBox[c.agent], Report(c)) => One(agentBox'[c.agent], Report(c))
                 /\ One(agentBox[c.agent], Start(c)) /\ (c \notin C \/ ~Sent(c))
                      => One(agentBox'[c.agent], Start(c))
        <3>1. c.agent \in Agents
            BY OwnFields
        <3> QED BY <1>6, <2>2, <3>1, StartsSent DEF Sent, Reported
    <2>7. ASSUME NEW c \in Own
          PROVE  /\ Offered(c)' => Offered(c) /\ c.task # t
                 /\ Born(c)' <=> Born(c)
        <3>1. c.task \in Tasks /\ c \in OwnOfTask(c.task)
            BY OwnFields
        <3> QED BY <3>1, <2>5, <1>3, <1>4 DEF Offered, Born, TasksHearOf
    <2>8. ASSUME NEW u \in Tasks PROVE TaskOK(u)'
        <3>1. TaskOK(u)
            BY DEF IInv, LifeOK
        <3>2. Waiting(u)' <=> Waiting(u)
            BY <1>3, <2>1 DEF Waiting
        <3>3. Waiting(u) => \A c \in OwnOfTask(u) : ~Born(c)' /\ ~Offered(c)' /\ ~Sent(c)'
            BY <3>1, <2>4, <2>6, <2>7 DEF TaskOK, OwnOfTask
        <3>4. One(taskBox[u], Allocations(u))'
            BY <3>1, <1>4 DEF TaskOK, TasksHearOf
        <3> QED BY <3>1, <3>2, <3>3, <3>4, <1>3, <2>1 DEF TaskOK
    <2>9. ASSUME NEW c \in Own PROVE ContainerOK(c)'
        <3>1. ContainerOK(c)
            BY DEF IInv, LifeOK
        <3>2. One(agentBox[c.agent], Start(c))' /\ One(agentBox[c.agent], Report(c))'
            BY <3>1, <2>4, <2>6 DEF ContainerOK
        <3> QED BY <3>1, <3>2, <1>3, <2>2, <2>4, <2>6, <2>7 DEF ContainerOK
    <2>10. ASSUME NEW d \in Devices, NEW c \in OwnOfDevice(d) PROVE OnSlotOK(c, d)'
        BY <1>3 DEF IInv, LifeOK, OnSlotOK, Born
    <2>11. LifeOK'
        BY <1>3, <2>8, <2>9, <2>10 DEF IInv, LifeOK
    <2>12. Typed' /\ SlotsOK'
        BY <1>3, <2>1 DEF IInv, Typed, SlotsOK, SlotOK
    <2>13. Boxed'
        BY <1>3, <1>4, <2>3 DEF IInv, Boxed
    <2> QED BY <1>3, <2>11, <2>12, <2>13, PoolLeft DEF IInv
<1> QED BY <1>3, <1>5, <1>6

-----------------------------------------------------------------------------
(* The tick.  First, what there is in numbers and finite sets. *)
LEMMA Least ==
    ASSUME NEW T \in SUBSET Nat, T # {}
    PROVE  \E x \in T : \A y \in T : x <= y
<1> DEFINE R == OpToRel(<, Nat)
<1>1. IsWellFoundedOn(R, Nat)
    BY NatLessThanWellFounded
<1>2. \A x, y \in Nat : <<y, x>> \in R <=> y < x
    BY DEF OpToRel
<1> HIDE DEF R
<1>3. PICK x \in T : \A y \in T : ~ (<<y, x>> \in R)
    BY <1>1, WFMin
<1>4. \A y \in T : ~ (y < x)
    BY <1>2, <1>3
<1>5. \A y \in T : x <= y
    BY <1>4
<1> QED BY <1>3, <1>5

LEMMA Greatest ==
    ASSUME NEW n \in Nat, NEW T \in SUBSET (0..n), T # {}
    PROVE  \E x \in T : \A y \in T : x >= y
<1> DEFINE U == {n - x : x \in T}
<1>1. U \in SUBSET Nat /\ U # {}
    <2>1. \A x \in T : n - x \in Nat
        OBVIOUS
    <2>2. PICK x : x \in T
        OBVIOUS
    <2>3. n - x \in U
        BY <2>2
    <2> QED BY <2>1, <2>3
<1>2. PICK u \in U : \A v \in U : u <= v
    <2> HIDE DEF U
    <2> QED BY <1>1, Least
<1>3. PICK x \in T : u = n - x
    OBVIOUS
<1>4. \A y \in T : n - x <= n - y
    BY <1>2, <1>3
<1>5. \A y \in T : x >= y
    BY <1>4
<1> QED BY <1>3, <1>5

LEMMA SetInduction ==
    ASSUME NEW S \in SUBSET Nat, 0 \in S, \A n \in S : n + 1 \in S
    PROVE  S = Nat
<1> SUFFICES ASSUME Nat \ S # {} PROVE FALSE
    OBVIOUS
<1>1. PICK x \in Nat \ S : \A y \in Nat \ S : x <= y
    BY Least
<1>2. x - 1 \in S
    BY <1>1
<1> QED BY <1>1, <1>2

\* A finite set has subsets of every smaller size.
LEMMA SubsetsExist ==
    ASSUME NEW S, IsFiniteSet(S), NEW q \in Nat, q <= Cardinality(S)
    PROVE  kSubset(q, S) # {}
<1> DEFINE n == Cardinality(S)
<1>1. n \in Nat /\ ExistsBijection(1..n, S)
    BY FS_CardinalityType
<1>2. PICK f : f \in Bijection(1..n, S)
    BY <1>1 DEF ExistsBijection
<1>3. f \in [1..n -> S] /\ \A i, j \in 1..n : f[i] = f[j] => i = j
    BY <1>2 DEF Bijection, Injection, IsInjective
<1>4. \A i \in 1..q : i \in 1..n
    BY <1>1
<1> HIDE DEF n
<1> DEFINE A == {f[i] : i \in 1..q}
           g == [i \in 1..q |-> f[i]]
<1>5. A \in SUBSET S
    BY <1>3, <1>4
<1>6. g \in Bijection(1..q, A)
    BY <1>3, <1>4 DEF Bijection, Injection, Surjection, IsInjective
<1>7. IsFiniteSet(1..q) /\ Cardinality(1..q) = q
    BY FS_Interval
<1>8. Cardinality(A) = q
    <2> HIDE DEF A, g
    <2>1. ExistsBijection(1..q, A)
        BY <1>6 DEF ExistsBijection
    <2> QED BY <2>1, <1>7, FS_Bijection
<1> QED BY <1>5, <1>8 DEF kSubset

-----------------------------------------------------------------------------
(* The agents as the pool sees them. *)
LEMMA Counts ==
    ASSUME NEW r, PoolOK(r), NEW a \in Agents
    PROVE  /\ numSlots(r, a) \in Nat /\ numUsedSlots(r, a) \in Nat /\ numEmptySlots(r, a) \in Nat
           /\ IsFiniteSet(DevicesOf(r, a)) /\ IsFiniteSet(r.zero[a]) /\ Cardinality(r.zero[a]) \in Nat
           /\ \A n \in Nat : BestFitDistance(r, n, a) \in Nat
<1>1. DevicesOf(r, a) \in SUBSET Devices /\ r.zero[a] \in SUBSET Containers
    BY DEF DevicesOf, PoolOK, Pools, Own
<1>2. /\ IsFiniteSet(DevicesOf(r, a)) /\ numSlots(r, a) \in Nat
    BY <1>1, Constants, FS_Subset, FS_CardinalityType DEF numSlots
<1>3. {d \in DevicesOf(r, a) : r.holder[d] # {}} \in SUBSET DevicesOf(r, a)
    OBVIOUS
<1>4. numUsedSlots(r, a) \in Nat /\ numUsedSlots(r, a) <= numSlots(r, a)
    BY <1>2, <1>3, FS_Subset, FS_CardinalityType DEF numSlots, numUsedSlots
<1>5. IsFiniteSet(r.zero[a]) /\ Cardinality(r.zero[a]) \in Nat
    BY <1>1, FiniteContainers, FS_Subset, FS_CardinalityType
<1>6. Cardinality(r.zero[a]) <= MaxZeroSlotContainers /\ MaxZeroSlotContainers \in Nat
    BY Constants DEF PoolOK
<1>7. numEmptySlots(r, a) \in Nat
    BY <1>2, <1>4 DEF numEmptySlots
<1>8. \A n \in Nat : BestFitDistance(r, n, a) \in Nat
    BY <1>5, <1>6, <1>7 DEF BestFitDistance
<1> QED BY <1>2, <1>4, <1>5, <1>7, <1>8

\* A request for n slots fits on one agent exactly if some agent is viable.
Viable(r, n) == {a \in r.agents : slotsSatisfied(r, n, a) /\ maxZeroSlotContainersSatisfied(r, n, a)}
Best(r, n) == {a \in Viable(r, n) : \A b \in Viable(r, n) :
                  BestFitDistance(r, n, a) <= BestFitDistance(r, n, b)}

LEMMA SharedFits ==
    ASSUME NEW r, PoolOK(r), NEW n \in Nat
    PROVE  /\ findSharedAgentFit(r, n) = {[b \in {a} |-> n] : a \in Best(r, n)}
           /\ findSharedAgentFit(r, n) = {} <=> Viable(r, n) = {}
<1>1. findSharedAgentFit(r, n) = {[b \in {a} |-> n] : a \in Best(r, n)}
    BY DEF findSharedAgentFit, Best, Viable
<1>2. ASSUME Viable(r, n) # {} PROVE Best(r, n) # {}
    <2> DEFINE T == {BestFitDistance(r, n, a) : a \in Viable(r, n)}
    <2>1. \A a \in Viable(r, n) : a \in Agents
        BY DEF Viable, PoolOK, Pools
    <2>2. T \in SUBSET Nat /\ T # {}
        BY <1>2, <2>1, Counts
    <2>3. PICK x \in T : \A y \in T : x <= y
        <3> HIDE DEF T
        <3> QED BY <2>2, Least
    <2>4. PICK a \in Viable(r, n) : x = BestFitDistance(r, n, a)
        OBVIOUS
    <2> QED BY <2>3, <2>4 DEF Best
<1>3. Viable(r, n) = {} => Best(r, n) = {}
    BY DEF Best
<1> QED BY <1>1, <1>2, <1>3

\* It fits on several unused agents exactly if there are enough of some size.
Unused(r, k) == {a \in r.agents : numUsedSlots(r, a) = 0 /\ numEmptySlots(r, a) = k}
Sizes(r, n) == {k \in 1..n : n % k = 0 /\ Cardinality(Unused(r, k)) * k >= n}

LEMMA Multiples ==
    ASSUME NEW n \in Nat, NEW k \in 1..n, n % k = 0, NEW m \in Nat, m * k >= n
    PROVE  n \div k \in Nat /\ n \div k <= m
<1>1. k \in Nat /\ k > 0
    OBVIOUS
<1>2. n = k * (n \div k) + (n % k) /\ n \div k \in Int
    BY <1>1
<1> DEFINE q == n \div k
<1>3. n = k * q /\ q \in Int
    BY <1>2
<1> HIDE DEF q
<1>4. q >= 0
    BY <1>1, <1>3
<1>5. q <= m
    <2> SUFFICES ASSUME q >= m + 1 PROVE FALSE
        BY <1>3
    <2>1. k * q >= k * (m + 1)
        BY <1>1, <1>3
    <2>2. k * (m + 1) = m * k + k
        BY <1>1
    <2> QED BY <2>1, <2>2, <1>1, <1>3
<1> QED BY <1>3, <1>4, <1>5 DEF q

LEMMA DedicatedFits ==
    ASSUME NEW r, PoolOK(r), NEW n \in Nat
    PROVE  /\ Sizes(r, n) # {} =>
                /\ Max(Sizes(r, n)) \in Sizes(r, n)
                /\ findDedicatedAgentFits(r, n) =
                     {[a \in A |-> Max(Sizes(r, n))] :
                        A \in kSubset(n \div Max(Sizes(r, n)), Unused(r, Max(Sizes(r, n))))}
           /\ findDedicatedAgentFits(r, n) = {} <=> Sizes(r, n) = {}
<1>1. findDedicatedAgentFits(r, n) =
        IF Sizes(r, n) = {} THEN {}
        ELSE {[a \in A |-> Max(Sizes(r, n))] :
                A \in kSubset(n \div Max(Sizes(r, n)), Unused(r, Max(Sizes(r, n))))}
    BY DEF findDedicatedAgentFits, Sizes, Unused
<1>2. ASSUME Sizes(r, n) # {}
      PROVE  /\ Max(Sizes(r, n)) \in Sizes(r, n)
             /\ kSubset(n \div Max(Sizes(r, n)), Unused(r, Max(Sizes(r, n)))) # {}
    <2>1. Sizes(r, n) \in SUBSET (0..n)
        BY DEF Sizes
    <2>2. \E x \in Sizes(r, n) : \A y \in Sizes(r, n) : x >= y
        BY <1>2, <2>1, Greatest
    <2>3. Max(Sizes(r, n)) \in Sizes(r, n)
        BY <2>2 DEF Max
    <2>4. PICK k : k = Max(Sizes(r, n))
        OBVIOUS
    <2>5. k \in 1..n /\ n % k = 0 /\ Cardinality(Unused(r, k)) * k >= n
        BY <2>3, <2>4 DEF Sizes
    <2>6. IsFiniteSet(Unused(r, k)) /\ Cardinality(Unused(r, k)) \in Nat
        <3>1. Unused(r, k) \in SUBSET Agents
            BY DEF Unused, PoolOK, Pools
        <3> QED BY <3>1, Constants, FS_Subset, FS_CardinalityType
    <2>7. n \div k \in Nat /\ n \div k <= Cardinality(Unused(r, k))
        BY <2>5, <2>6, Multiples
    <2>8. kSubset(n \div k, Unused(r, k)) # {}
        BY <2>6, <2>7, SubsetsExist
    <2> QED BY <2>3, <2>4, <2>8
<1> QED BY <1>1, <1>2

\* Giving out devices and zero-slot containers makes no request fit.
Fuller(r, q) ==
    /\ q.agents = r.agents /\ q.devices = r.devices
    /\ \A d \in Devices : r.holder[d] # {} => q.holder[d] # {}
    /\ \A a \in Agents : r.zero[a] \subseteq q.zero[a]

LEMMA FullerCounts ==
    ASSUME NEW r, NEW q, PoolOK(r), PoolOK(q), Fuller(r, q), NEW a \in Agents
    PROVE  /\ numSlots(q, a) = numSlots(r, a)
           /\ numUsedSlots(r, a) <= numUsedSlots(q, a)
           /\ numEmptySlots(q, a) <= numEmptySlots(r, a)
           /\ Cardinality(r.zero[a]) <= Cardinality(q.zero[a])
<1>1. DevicesOf(q, a) = DevicesOf(r, a) /\ DevicesOf(r, a) \in SUBSET Devices
    BY DEF Fuller, DevicesOf, PoolOK, Pools
<1> DEFINE X == {d \in DevicesOf(r, a) : r.holder[d] # {}}
           Y == {d \in DevicesOf(q, a) : q.holder[d] # {}}
<1>2. X \in SUBSET Y /\ Y \in SUBSET DevicesOf(q, a)
    BY <1>1 DEF Fuller
<1>3. IsFiniteSet(Y)
    BY <1>2, Counts, FS_Subset
<1>4. Cardinality(X) <= Cardinality(Y)
    <2> HIDE DEF X, Y
    <2> QED BY <1>2, <1>3, FS_Subset
<1>5. numUsedSlots(r, a) <= numUsedSlots(q, a)
    BY <1>4 DEF numUsedSlots
<1>6. numSlots(q, a) = numSlots(r, a)
    BY <1>1 DEF numSlots
<1>7. numEmptySlots(q, a) <= numEmptySlots(r, a)
    BY <1>5, <1>6, Counts DEF numEmptySlots
<1>8. Cardinality(r.zero[a]) <= Cardinality(q.zero[a])
    <2>1. r.zero[a] \in SUBSET q.zero[a] /\ IsFiniteSet(q.zero[a])
        BY Counts DEF Fuller
    <2> QED BY <2>1, FS_Subset
<1> QED BY <1>5, <1>6, <1>7, <1>8

LEMMA NoNewFits ==
    ASSUME NEW r, NEW q, PoolOK(r), PoolOK(q), Fuller(r, q), NEW t \in Tasks, findFits(r, t) = {}
    PROVE  findFits(q, t) = {}
<1>1. PICK n \in Nat : n = SlotsNeeded[t]
    BY Constants
<1>2. r.agents \in SUBSET Agents /\ q.agents = r.agents
    BY DEF PoolOK, Pools, Fuller
<1>3. findSharedAgentFit(r, n) = {} => findSharedAgentFit(q, n) = {}
    <2>1. ASSUME NEW a \in Viable(q, n) PROVE a \in Viable(r, n)
        <3>1. a \in r.agents /\ a \in Agents
            BY <1>2 DEF Viable
        <3>2. slotsSatisfied(r, n, a)
            BY <3>1, FullerCounts, Counts DEF Viable, slotsSatisfied
        <3>3. maxZeroSlotContainersSatisfied(r, n, a)
            BY <3>1, FullerCounts, Counts, Constants DEF Viable, maxZeroSlotContainersSatisfied
        <3> QED BY <3>1, <3>2, <3>3 DEF Viable
    <2> QED BY <2>1, SharedFits
<1>4. findDedicatedAgentFits(r, n) = {} => findDedicatedAgentFits(q, n) = {}
    <2>1. ASSUME NEW k \in Sizes(q, n) PROVE k \in Sizes(r, n)
        <3>1. Unused(q, k) \in SUBSET Unused(r, k)
            <4> SUFFICES ASSUME NEW a \in Unused(q, k) PROVE a \in Unused(r, k)
                OBVIOUS
            <4>1. a \in r.agents /\ a \in Agents /\ numUsedSlots(q, a) = 0 /\ numEmptySlots(q, a) = k
                BY <1>2 DEF Unused
            <4>2. numUsedSlots(r, a) = 0
                BY <4>1, FullerCounts, Counts
            <4>3. numEmptySlots(r, a) = k
                BY <4>1, <4>2, FullerCounts, Counts DEF numEmptySlots
            <4> QED BY <4>1, <4>2, <4>3 DEF Unused
        <3>2. Unused(r, k) \in SUBSET Agents
            BY <1>2 DEF Unused
        <3>3. IsFiniteSet(Unused(r, k))
            BY <3>2, Constants, FS_Subset
        <3>4. /\ Cardinality(Unused(q, k)) <= Cardinality(Unused(r, k))
              /\ Cardinality(Unused(q, k)) \in Nat /\ Cardinality(Unused(r, k)) \in Nat
            BY <3>1, <3>3, FS_Subset, FS_CardinalityType
        <3>5. k \in 1..n /\ n % k = 0 /\ Cardinality(Unused(q, k)) * k >= n
            BY DEF Sizes
        <3>6. PICK x \in Nat, y \in Nat : x = Cardinality(Unused(q, k)) /\ y = Cardinality(Unused(r, k))
            BY <3>4
        <3>7. x <= y /\ x * k >= n /\ k \in Nat
            BY <3>4, <3>5, <3>6
        <3>8. y * k >= x * k
            BY <3>7
        <3>9. y * k >= n
            BY <3>7, <3>8
        <3> QED BY <3>5, <3>6, <3>9 DEF Sizes
    <2> QED BY <2>1, DedicatedFits
<1>5. findSharedAgentFit(r, n) = {}
    BY <1>1 DEF findFits
<1> QED BY <1>1, <1>3, <1>4, <1>5 DEF findFits

-----------------------------------------------------------------------------
(* What a request is given. *)
LEMMA FitFacts ==
    ASSUME NEW r, PoolOK(r), NEW t \in Tasks, NEW fit \in findFits(r, t)
    PROVE  /\ DOMAIN fit \in SUBSET r.agents
           /\ \A a \in DOMAIN fit : fit[a] = 0 => Cardinality(r.zero[a]) < MaxZeroSlotContainers
<1>1. PICK n \in Nat : n = SlotsNeeded[t]
    BY Constants
<1>2. CASE fit \in findSharedAgentFit(r, n)
    <2>0. findSharedAgentFit(r, n) = {[b \in {a} |-> n] : a \in Best(r, n)}
        BY SharedFits, Zenon
    <2>1. PICK a \in Best(r, n) : fit = [b \in {a} |-> n]
        BY <1>2, <2>0
    <2>2. a \in r.agents /\ (n = 0 => Cardinality(r.zero[a]) < MaxZeroSlotContainers)
        BY DEF Best, Viable, maxZeroSlotContainersSatisfied
    <2> QED BY <2>1, <2>2
<1>3. CASE fit \in findDedicatedAgentFits(r, n)
    <2>1. Sizes(r, n) # {}
        BY <1>3, DedicatedFits
    <2>2. PICK k : k = Max(Sizes(r, n))
        OBVIOUS
    <2>3. k \in 1..n
        BY <2>1, <2>2, DedicatedFits DEF Sizes
    <2>4. PICK A \in kSubset(n \div k, Unused(r, k)) : fit = [a \in A |-> k]
        BY <1>3, <2>1, <2>2, DedicatedFits
    <2>5. A \in SUBSET r.agents
        BY DEF kSubset, Unused
    <2> QED BY <2>3, <2>4, <2>5
<1> QED BY <1>1, <1>2, <1>3 DEF findFits

\* The containers that a fit on agent a can become.
OnAgent(r, t, fit, a) ==
    {[task |-> t, agent |-> a, devices |-> D] : D \in kSubset(fit[a], FreeDevicesOf(r, a))}

LEMMA InGiven ==
    ASSUME NEW r, NEW t, NEW fit, NEW C \in given(r, t, fit)
    PROVE  /\ \A c \in C : \E a \in DOMAIN fit : c \in OnAgent(r, t, fit, a)
           /\ Cardinality(C) = Cardinality(DOMAIN fit)
           /\ \A c \in C : c.agent \in DOMAIN fit
           /\ \A a \in DOMAIN fit : \E c \in C : c.agent = a
<1> DEFINE U == UNION {OnAgent(r, t, fit, a) : a \in DOMAIN fit}
<1>1. given(r, t, fit) = {X \in SUBSET U : /\ Cardinality(X) = Cardinality(DOMAIN fit)
                                           /\ {c.agent : c \in X} = DOMAIN fit}
    BY DEF given, OnAgent
<1>2. C \subseteq U /\ Cardinality(C) = Cardinality(DOMAIN fit) /\ {c.agent : c \in C} = DOMAIN fit
    <2> HIDE DEF U
    <2> QED BY <1>1
<1> QED BY <1>2

LEMMA GivenFacts ==
    ASSUME NEW r, PoolOK(r), NEW t \in Tasks, NEW fit \in findFits(r, t), NEW C \in given(r, t, fit)
    PROVE  /\ C \in SUBSET OwnOfTask(t)
           /\ \A c \in C : /\ c.agent \in r.agents
                           /\ \A d \in c.devices : d \in r.devices /\ r.holder[d] = {}
                           /\ c.devices = {} => Cardinality(r.zero[c.agent]) < MaxZeroSlotContainers
           /\ \A c, b \in C : c.agent = b.agent => c = b
<1>1. ASSUME NEW c \in C
      PROVE  /\ c \in OwnOfTask(t) /\ c.agent \in r.agents
             /\ \A d \in c.devices : d \in r.devices /\ r.holder[d] = {}
             /\ c.devices = {} => Cardinality(r.zero[c.agent]) < MaxZeroSlotContainers
    <2>1. PICK a \in DOMAIN fit : c \in OnAgent(r, t, fit, a)
        BY InGiven
    <2>2. PICK D \in kSubset(fit[a], FreeDevicesOf(r, a)) : c = [task |-> t, agent |-> a, devices |-> D]
        BY <2>1 DEF OnAgent
    <2>3. D \in SUBSET FreeDevicesOf(r, a) /\ Cardinality(D) = fit[a]
        BY DEF kSubset
    <2>4. c.task = t /\ c.agent = a /\ c.devices = D
        BY <2>2
    <2>5. \A d \in D : d \in r.devices /\ r.holder[d] = {} /\ AgentOf[d] = a
        BY <2>3 DEF FreeDevicesOf, DevicesOf
    <2>6. a \in r.agents /\ (fit[a] = 0 => Cardinality(r.zero[a]) < MaxZeroSlotContainers)
        BY FitFacts
    <2>7. r.agents \in SUBSET Agents /\ r.devices \in SUBSET Devices
        BY DEF PoolOK, Pools
    <2>8. c \in OwnOfTask(t)
        BY <2>2, <2>4, <2>5, <2>6, <2>7 DEF OwnOfTask, Own, Containers
    <2>9. D = {} => fit[a] = 0
        BY <2>3, FS_EmptySet
    <2> QED BY <2>4, <2>5, <2>6, <2>8, <2>9
<1>2. \A c, b \in C : c.agent = b.agent => c = b
    <2> DEFINE f == [c \in C |-> c.agent]
    <2>1. C \in SUBSET Containers
        BY <1>1 DEF OwnOfTask, Own
    <2>2. IsFiniteSet(C)
        BY <2>1, FiniteContainers, FS_Subset
    <2>3. /\ Cardinality(C) = Cardinality(DOMAIN fit) /\ \A c \in C : c.agent \in DOMAIN fit
          /\ \A a \in DOMAIN fit : \E c \in C : c.agent = a
        BY InGiven
    <2>4. f \in Surjection(C, DOMAIN fit)
        BY <2>3 DEF Surjection
    <2>5. f \in Injection(C, DOMAIN fit)
        <3> HIDE DEF f
        <3> QED BY <2>2, <2>3, <2>4, FS_Surjection
    <2> QED BY <2>5 DEF Injection, IsInjective
<1> QED BY <1>1, <1>2

LEMMA WithAllocationsFacts ==
    ASSUME NEW r, PoolOK(r), NEW t \in Tasks, t \in r.tasks, NEW fit \in findFits(r, t),
           NEW C \in given(r, t, fit), NEW q, q = WithAllocations(r, t, C)
    PROVE  /\ PoolOK(q) /\ Fuller(r, q)
           /\ q.up = r.up /\ q.reschedule = r.reschedule /\ q.tasks = r.tasks
           /\ q.allocated = r.allocated \cup {t}
           /\ \A d \in Devices : q.holder[d] # r.holder[d] =>
                    r.holder[d] = {} /\ d \in r.devices
           /\ \A c \in C : \A d \in c.devices : q.holder[d] = {c}
<1>1. /\ C \in SUBSET OwnOfTask(t)
      /\ \A c \in C : /\ c.agent \in r.agents
                      /\ \A d \in c.devices : d \in r.devices /\ r.holder[d] = {}
                      /\ c.devices = {} => Cardinality(r.zero[c.agent]) < MaxZeroSlotContainers
      /\ \A c, b \in C : c.agent = b.agent => c = b
    BY GivenFacts
<1> DEFINE on(d) == {c \in C : d \in c.devices}
           held == [d \in Devices |-> IF on(d) = {} THEN r.holder[d] ELSE on(d)]
           zeros(a) == {c \in C : c.agent = a /\ c.devices = {}}
           idle == [a \in Agents |-> r.zero[a] \union zeros(a)]
<1>2. r \in Pools /\ q = [r EXCEPT !.holder = held, !.zero = idle, !.allocated = r.allocated \union {t}]
    BY DEF WithAllocations, PoolOK, Pools
<1>3. C \in SUBSET Own
    BY <1>1 DEF OwnOfTask
<1>4. \A d \in Devices : \A c \in on(d) : on(d) = {c} /\ c \in OwnOfDevice(d) /\ d \in r.devices /\ r.holder[d] = {}
    <2> SUFFICES ASSUME NEW d \in Devices, NEW c \in C, d \in c.devices
                 PROVE  /\ \A b \in C : d \in b.devices => b = c
                        /\ c \in OwnOfDevice(d) /\ d \in r.devices /\ r.holder[d] = {}
        OBVIOUS
    <2>1. \A b \in C : d \in b.devices => b.agent = AgentOf[d]
        BY <1>3, OwnFields
    <2> QED BY <2>1, <1>1, <1>3 DEF OwnOfDevice
<1>5. held \in [Devices -> SUBSET Own] /\ idle \in [Agents -> SUBSET Own]
    BY <1>2, <1>3 DEF Pools
<1>6. /\ q \in Pools /\ q.up = r.up /\ q.reschedule = r.reschedule /\ q.tasks = r.tasks
      /\ q.agents = r.agents /\ q.devices = r.devices /\ q.allocated = r.allocated \cup {t}
      /\ q.holder = held /\ q.zero = idle
    <2> HIDE DEF held, idle
    <2>1. /\ q.up = r.up /\ q.reschedule = r.reschedule /\ q.tasks = r.tasks
          /\ q.agents = r.agents /\ q.devices = r.devices /\ q.allocated = r.allocated \cup {t}
          /\ q.holder = held /\ q.zero = idle
        BY <1>2 DEF Pools
    <2>2. r.allocated \cup {t} \in SUBSET Tasks
        BY <1>2 DEF Pools
    <2>3. q \in Pools
        BY <1>2, <1>5, <2>2 DEF Pools
    <2> QED BY <2>1, <2>3
<1>7. ASSUME NEW d \in Devices
      PROVE  /\ q.holder[d] \in Holders(d) /\ (q.holder[d] # {} => d \in r.devices)
             /\ q.holder[d] # r.holder[d] => r.holder[d] = {} /\ d \in r.devices
             /\ r.holder[d] # {} => q.holder[d] # {}
    <2>1. q.holder[d] = IF on(d) = {} THEN r.holder[d] ELSE on(d)
        BY <1>6
    <2>2. r.holder[d] \in Holders(d) /\ (r.holder[d] # {} => d \in r.devices)
        BY DEF PoolOK
    <2> QED BY <2>1, <2>2, <1>4 DEF Holders
<1>8. \A c \in C : \A d \in c.devices : q.holder[d] = {c}
    BY <1>3, <1>4, <1>6, OwnFields
<1>9. ASSUME NEW a \in Agents
      PROVE  Cardinality(q.zero[a]) <= MaxZeroSlotContainers /\ r.zero[a] \subseteq q.zero[a]
    <2>1. q.zero[a] = r.zero[a] \union zeros(a)
        BY <1>6
    <2>2. CASE zeros(a) = {}
        BY <2>1, <2>2 DEF PoolOK
    <2>3. CASE zeros(a) # {}
        <3>1. PICK c \in C : c.agent = a /\ c.devices = {}
            BY <2>3
        <3>2. zeros(a) = {c}
            BY <3>1, <1>1
        <3>3. /\ Cardinality(r.zero[a]) < MaxZeroSlotContainers /\ IsFiniteSet(r.zero[a])
              /\ Cardinality(r.zero[a]) \in Nat /\ MaxZeroSlotContainers \in Nat
            BY <3>1, <1>1, Counts, Constants
        <3>4. Cardinality(r.zero[a] \cup {c}) =
                IF c \in r.zero[a] THEN Cardinality(r.zero[a]) ELSE Cardinality(r.zero[a]) + 1
            BY <3>3, FS_AddElement
        <3>5. Cardinality(r.zero[a] \cup {c}) <= MaxZeroSlotContainers
            BY <3>3, <3>4
        <3> QED BY <2>1, <3>2, <3>5
    <2> QED BY <2>2, <2>3
<1> HIDE DEF held, idle, on, zeros
<1>10. PoolOK(q)
    BY <1>6, <1>7, <1>9 DEF PoolOK
<1>11. Fuller(r, q)
    BY <1>6, <1>7, <1>9 DEF Fuller
<1> QED BY <1>6, <1>7, <1>8, <1>10, <1>11

-----------------------------------------------------------------------------
(* The requests of an order are served one after the other. *)
LEMMA OrderFacts ==
    ASSUME PoolOK(rp), NEW order \in roundRobinSchedule(rp)
    PROVE  /\ Len(order) \in Nat /\ order \in [1..Len(order) -> Offers(rp)]
           /\ \A t \in Offers(rp) : \E j \in 1..Len(order) : order[j] = t
           /\ Offers(rp) \in SUBSET pendingReqs(rp) /\ pendingReqs(rp) \in SUBSET Tasks
<1>1. Offers(rp) \in SUBSET pendingReqs(rp) /\ pendingReqs(rp) \in SUBSET Tasks
    BY DEF Offers, pendingReqs, PoolOK, Pools
<1>2. IsFiniteSet(Offers(rp))
    BY <1>1, Constants, FS_Subset
<1> DEFINE n == Cardinality(Offers(rp))
<1>3. n \in Nat
    BY <1>2, FS_CardinalityType
<1>4. order \in [1..n -> Offers(rp)] /\ \A i, j \in 1..n : i # j => order[i] # order[j]
    BY DEF roundRobinSchedule, SetToSeqs
<1>5. IsFiniteSet(1..n) /\ Cardinality(1..n) = n
    BY <1>3, FS_Interval
<1>6. order \in Injection(1..n, Offers(rp))
    BY <1>4 DEF Injection, IsInjective
<1>7. order \in Surjection(1..n, Offers(rp))
    BY <1>2, <1>5, <1>6, FS_Injection
<1> HIDE DEF n
<1>8. Len(order) = n
    BY <1>3, <1>4
<1> QED BY <1>1, <1>3, <1>4, <1>7, <1>8 DEF Surjection

AllocatingNext(S, t) == UNION {allocateResources(s, t) : s \in S}

LEMMA InAllocatingNext ==
    ASSUME NEW S, NEW t, NEW x \in AllocatingNext(S, t)
    PROVE  \E s \in S : x \in allocateResources(s, t)
BY DEF AllocatingNext

Runs(f, order, m) ==
    f = [i \in 0..m |-> IF i = 0 THEN {[pool |-> rp, out |-> {}]} ELSE AllocatingNext(f[i - 1], order[i])]

LEMMA RunsExist == ASSUME NEW order PROVE \A m \in Nat : \E f : Runs(f, order, m)
<1> DEFINE S == {k \in Nat : \E f : Runs(f, order, k)}
           B == {[pool |-> rp, out |-> {}]}
<1>1. 0 \in S
    <2>1. Runs([i \in 0..0 |-> B], order, 0)
        BY DEF Runs
    <2> QED BY <2>1
<1>2. ASSUME NEW k \in S PROVE k + 1 \in S
    <2>1. k \in Nat
        OBVIOUS
    <2>2. PICK f : Runs(f, order, k)
        OBVIOUS
    <2> HIDE DEF B
    <2> DEFINE g == [i \in 0..(k + 1) |-> IF i = k + 1 THEN AllocatingNext(f[k], order[k + 1]) ELSE f[i]]
    <2>3. \A i \in 0..k : f[i] = IF i = 0 THEN B ELSE AllocatingNext(f[i - 1], order[i])
        BY <2>1, <2>2 DEF Runs, B
    <2>4. \A i \in 0..(k + 1) : g[i] = IF i = 0 THEN B ELSE AllocatingNext(g[i - 1], order[i])
        <3> TAKE i \in 0..(k + 1)
        <3>1. CASE i = k + 1
            <4>1. g[i] = AllocatingNext(f[k], order[k + 1]) /\ i # 0 /\ i - 1 = k /\ k \in 0..(k + 1) /\ k # k + 1
                BY <2>1, <3>1
            <4>2. g[k] = f[k]
                BY <4>1
            <4> QED BY <3>1, <4>1, <4>2
        <3>2. CASE i \in 0..k
            <4>1. g[i] = f[i] /\ (i # 0 => g[i - 1] = f[i - 1])
                BY <2>1, <3>2
            <4> QED BY <3>2, <4>1, <2>3
        <3> QED BY <2>1, <3>1, <3>2
    <2>5. g = [i \in 0..(k + 1) |-> IF i = 0 THEN B ELSE AllocatingNext(g[i - 1], order[i])]
        BY <2>4
    <2>6. Runs(g, order, k + 1)
        <3> HIDE DEF g
        <3> QED BY <2>5 DEF Runs, B
    <2> QED BY <2>1, <2>6
<1>3. S \in SUBSET Nat
    OBVIOUS
<1> HIDE DEF S
<1>4. S = Nat
    BY <1>1, <1>2, <1>3, SetInduction
<1> QED BY <1>4 DEF S

LEMMA AllocatingSteps ==
    ASSUME NEW order, Len(order) \in Nat
    PROVE  /\ Allocating(order)[0] = {[pool |-> rp, out |-> {}]}
           /\ \A i \in 1..Len(order) :
                Allocating(order)[i] = AllocatingNext(Allocating(order)[i - 1], order[i])
<1>1. Allocating(order) = CHOOSE f : Runs(f, order, Len(order))
    BY DEF Allocating, Runs, AllocatingNext
<1>2. \E f : Runs(f, order, Len(order))
    BY RunsExist
<1>3. Runs(Allocating(order), order, Len(order))
    BY <1>1, <1>2
<1>4. PICK f : f = Allocating(order)
    OBVIOUS
<1>5. Runs(f, order, Len(order))
    BY <1>3, <1>4
<1>6. \A i \in 0..Len(order) : f[i] = IF i = 0 THEN {[pool |-> rp, out |-> {}]}
                                      ELSE AllocatingNext(f[i - 1], order[i])
    BY <1>5 DEF Runs
<1>7. f[0] = {[pool |-> rp, out |-> {}]}
    BY <1>6
<1>8. \A i \in 1..Len(order) : f[i] = AllocatingNext(f[i - 1], order[i])
    BY <1>6
<1> QED BY <1>4, <1>7, <1>8

\* After i requests of the order: the pool is only fuller, by what was given
\* out; each of the i is allocated or does not fit any more.
TickOK(order, i, s) ==
    /\ PoolOK(s.pool) /\ Fuller(rp, s.pool)
    /\ s.pool.up = rp.up /\ s.pool.tasks = rp.tasks
    /\ s.out \in SUBSET Own
    /\ \A t \in rp.allocated : t \in s.pool.allocated
    /\ \A t \in s.pool.allocated : t \in rp.allocated \/ \E j \in 1..i : order[j] = t
    /\ \A c \in s.out : c.task \in s.pool.allocated /\ \E j \in 1..i : order[j] = c.task
    /\ \A d \in Devices : s.pool.holder[d] # rp.holder[d] => rp.holder[d] = {}
    /\ \A c \in s.out : \A d \in c.devices :
            d \in rp.devices /\ rp.holder[d] = {} /\ s.pool.holder[d] = {c}
    /\ \A j \in 1..i : order[j] \in s.pool.allocated \/ findFits(s.pool, order[j]) = {}

LEMMA FullerTransitive ==
    ASSUME NEW p, NEW q, NEW r, Fuller(p, q), Fuller(q, r)
    PROVE  Fuller(p, r)
BY DEF Fuller

LEMMA InAllocateResources ==
    ASSUME NEW s, NEW t, NEW x \in allocateResources(s, t)
    PROVE  \/ x = s /\ findFits(s.pool, t) = {}
           \/ \E fit \in findFits(s.pool, t) : \E C \in given(s.pool, t, fit) :
                x = [pool |-> WithAllocations(s.pool, t, C), out |-> s.out \union C]
<1>1. CASE findFits(s.pool, t) = {}
    BY <1>1 DEF allocateResources
<1>2. CASE findFits(s.pool, t) # {}
    <2> DEFINE G == UNION {given(s.pool, t, fit) : fit \in findFits(s.pool, t)}
    <2>1. allocateResources(s, t) =
            {[pool |-> WithAllocations(s.pool, t, C), out |-> s.out \union C] : C \in G}
        BY <1>2 DEF allocateResources
    <2>2. \A C \in G : \E fit \in findFits(s.pool, t) : C \in given(s.pool, t, fit)
        OBVIOUS
    <2> HIDE DEF G
    <2>3. PICK C \in G : x = [pool |-> WithAllocations(s.pool, t, C), out |-> s.out \union C]
        BY <2>1
    <2> QED BY <2>2, <2>3
<1> QED BY <1>1, <1>2

LEMMA TickStep ==
    ASSUME PoolOK(rp), NEW order \in roundRobinSchedule(rp), NEW i \in 1..Len(order),
           NEW s, TickOK(order, i - 1, s), NEW x \in allocateResources(s, order[i])
    PROVE  TickOK(order, i, x)
<1>1. PICK t : t = order[i]
    OBVIOUS
<1>2. /\ Len(order) \in Nat /\ order \in [1..Len(order) -> Offers(rp)]
      /\ Offers(rp) \in SUBSET pendingReqs(rp) /\ pendingReqs(rp) \in SUBSET Tasks
    BY OrderFacts
<1>3. t \in Tasks /\ t \in rp.tasks
    BY <1>1, <1>2 DEF pendingReqs
<1>4. \A j \in 1..i : j = i \/ j \in 1..(i - 1)
    BY <1>2
<1>5. \A j \in 1..(i - 1) : j \in 1..i /\ order[j] \in Tasks
    BY <1>2
<1>6. i \in 1..i
    BY <1>2
<1>7. CASE x = s /\ findFits(s.pool, t) = {}
    BY <1>1, <1>4, <1>5, <1>7 DEF TickOK
<1>8. ASSUME NEW fit \in findFits(s.pool, t), NEW C \in given(s.pool, t, fit), NEW q,
             q = WithAllocations(s.pool, t, C), x = [pool |-> q, out |-> s.out \union C]
      PROVE  TickOK(order, i, x)
    <2>1. PoolOK(s.pool) /\ t \in s.pool.tasks /\ x.pool = q /\ x.out = s.out \union C
        BY <1>3, <1>8 DEF TickOK
    <2>2. /\ PoolOK(q) /\ Fuller(s.pool, q)
          /\ q.up = s.pool.up /\ q.tasks = s.pool.tasks /\ q.allocated = s.pool.allocated \cup {t}
          /\ \A d \in Devices : q.holder[d] # s.pool.holder[d] => s.pool.holder[d] = {}
          /\ \A c \in C : \A d \in c.devices : q.holder[d] = {c}
        BY <1>3, <1>8, <2>1, WithAllocationsFacts
    <2>3. /\ C \in SUBSET OwnOfTask(t)
          /\ \A c \in C : \A d \in c.devices : d \in s.pool.devices /\ s.pool.holder[d] = {}
        BY <1>3, <2>1, GivenFacts
    <2>4. C \in SUBSET Own /\ \A c \in C : c.task = t /\ c.devices \in SUBSET Devices
        BY <2>3, OwnFields DEF OwnOfTask
    <2>5. Fuller(rp, q)
        BY <2>2, FullerTransitive DEF TickOK
    <2>6. s.pool.devices = rp.devices /\ \A d \in Devices : s.pool.holder[d] = {} => rp.holder[d] = {}
        BY DEF TickOK, Fuller
    <2>7. x.out \in SUBSET Own /\ q.up = rp.up /\ q.tasks = rp.tasks
        BY <2>1, <2>2, <2>4 DEF TickOK
    <2>8. /\ \A u \in rp.allocated : u \in q.allocated
          /\ \A u \in q.allocated : u \in rp.allocated \/ \E j \in 1..i : order[j] = u
        BY <1>1, <1>5, <1>6, <2>2 DEF TickOK
    <2>9. \A c \in x.out : c.task \in q.allocated /\ \E j \in 1..i : order[j] = c.task
        <3> TAKE c \in x.out
        <3>1. CASE c \in C
            BY <3>1, <2>2, <2>4, <1>1, <1>6
        <3>2. CASE c \in s.out
            BY <3>2, <2>2, <1>5 DEF TickOK
        <3> QED BY <3>1, <3>2, <2>1
    <2>10. \A d \in Devices : q.holder[d] # rp.holder[d] => rp.holder[d] = {}
        BY <2>2, <2>6 DEF TickOK
    <2>11. ASSUME NEW c \in x.out, NEW d \in c.devices
           PROVE  d \in rp.devices /\ rp.holder[d] = {} /\ q.holder[d] = {c}
        <3>1. CASE c \in C
            BY <3>1, <2>2, <2>3, <2>4, <2>6
        <3>2. CASE c \in s.out
            <4>1. d \in Devices /\ d \in rp.devices /\ rp.holder[d] = {} /\ s.pool.holder[d] = {c}
                BY <3>2, OwnFields DEF TickOK
            <4> QED BY <4>1, <2>2
        <3> QED BY <3>1, <3>2, <2>1
    <2>12. ASSUME NEW j \in 1..i PROVE order[j] \in q.allocated \/ findFits(q, order[j]) = {}
        <3>1. CASE j = i
            BY <3>1, <1>1, <2>2
        <3>2. CASE j \in 1..(i - 1)
            <4>1. order[j] \in s.pool.allocated \/ findFits(s.pool, order[j]) = {}
                BY <3>2 DEF TickOK
            <4> QED BY <4>1, <3>2, <1>5, <2>1, <2>2, NoNewFits
        <3> QED BY <3>1, <3>2, <1>4
    <2> QED BY <2>1, <2>2, <2>5, <2>7, <2>8, <2>9, <2>10, <2>11, <2>12 DEF TickOK
<1> QED BY <1>1, <1>7, <1>8, InAllocateResources

LEMMA TickDone ==
    ASSUME PoolOK(rp), NEW order \in roundRobinSchedule(rp), NEW s \in Allocating(order)[Len(order)]
    PROVE  TickOK(order, Len(order), s)
<1>1. Len(order) \in Nat
    BY OrderFacts
<1> DEFINE T == Allocating(order)
           S == {i \in Nat : i <= Len(order) => \A x \in T[i] : TickOK(order, i, x)}
<1>2. /\ T[0] = {[pool |-> rp, out |-> {}]}
      /\ \A i \in 1..Len(order) : T[i] = AllocatingNext(T[i - 1], order[i])
    BY <1>1, AllocatingSteps
<1> HIDE DEF T
<1>3. 0 \in S
    <2> SUFFICES ASSUME NEW x \in T[0] PROVE TickOK(order, 0, x)
        OBVIOUS
    <2>1. x.pool = rp /\ x.out = {}
        BY <1>2
    <2>2. Fuller(rp, rp) /\ \A j : j \notin 1..0
        BY DEF Fuller
    <2> QED BY <2>1, <2>2 DEF TickOK
<1>4. ASSUME NEW i \in S PROVE i + 1 \in S
    <2> SUFFICES ASSUME i + 1 <= Len(order), NEW x \in T[i + 1] PROVE TickOK(order, i + 1, x)
        OBVIOUS
    <2>1. i \in Nat /\ i <= Len(order) /\ i + 1 \in 1..Len(order) /\ (i + 1) - 1 = i
        BY <1>1
    <2>2. T[i + 1] = AllocatingNext(T[i], order[i + 1])
        BY <1>2, <2>1
    <2>3. PICK y \in T[i] : x \in allocateResources(y, order[i + 1])
        BY <2>2, InAllocatingNext
    <2>4. TickOK(order, i, y)
        BY <2>1, <2>3
    <2>5. PICK k : k = i + 1
        OBVIOUS
    <2>6. k \in 1..Len(order) /\ k - 1 = i /\ x \in allocateResources(y, order[k])
        BY <2>1, <2>3, <2>5
    <2> HIDE DEF S
    <2>7. TickOK(order, k, x)
        BY <2>4, <2>6, TickStep
    <2> QED BY <2>5, <2>7
<1>5. S \in SUBSET Nat
    OBVIOUS
<1>6. S = Nat
    <2> HIDE DEF S
    <2> QED BY <1>3, <1>4, <1>5, SetInduction
<1>7. Len(order) \in S
    BY <1>1, <1>6
<1> QED BY <1>1, <1>7 DEF T

\* What the tick offers, and to whom.
OfferedNow(s, t) == {c \in s.out : c.task = t}

Ticked(order, s) ==
    /\ TickOK(order, Len(order), s)
    /\ rp.up /\ rp.reschedule
    /\ rp' = [s.pool EXCEPT !.reschedule = FALSE]
    /\ taskBox' = [t \in Tasks |->
          IF OfferedNow(s, t) = {} \/ task[t].phase = "stopped" THEN taskBox[t]
          ELSE Append(taskBox[t], [kind |-> "ResourcesAllocated", cs |-> OfferedNow(s, t)])]
    /\ UNCHANGED <<agent, slot, host, task, poolBox, agentBox, slotBox, used>>

LEMMA TickFields ==
    ASSUME IInv, schedulerTick
    PROVE  \E order \in roundRobinSchedule(rp) : \E s : Ticked(order, s)
<1> DEFINE Result(s) ==
        /\ rp' = [s.pool EXCEPT !.reschedule = FALSE]
        /\ taskBox' = [t \in Tasks |->
            LET C == {c \in s.out : c.task = t}
            IN IF C = {} \/ task[t].phase = "stopped"
               THEN taskBox[t]
               ELSE Append(taskBox[t], [kind |-> "ResourcesAllocated", cs |-> C])]
<1>a. PICK order \in roundRobinSchedule(rp) : \E s \in Allocating(order)[Len(order)] : Result(s)
    BY DEF schedulerTick
<1>1. PICK s \in Allocating(order)[Len(order)] : Result(s)
    BY <1>a
<1>2. TickOK(order, Len(order), s)
    BY TickDone DEF IInv
<1>3. taskBox' = [t \in Tasks |->
            IF OfferedNow(s, t) = {} \/ task[t].phase = "stopped" THEN taskBox[t]
            ELSE Append(taskBox[t], [kind |-> "ResourcesAllocated", cs |-> OfferedNow(s, t)])]
    BY <1>1 DEF OfferedNow
<1>4. rp.up /\ rp.reschedule /\ UNCHANGED <<agent, slot, host, task, poolBox, agentBox, slotBox, used>>
    BY DEF schedulerTick
<1> QED BY <1>1, <1>2, <1>3, <1>4 DEF Ticked

\* The pool after the tick.
LEMMA TickPool ==
    ASSUME PoolOK(rp), NEW order \in roundRobinSchedule(rp), NEW s, TickOK(order, Len(order), s),
           NEW q, q = [s.pool EXCEPT !.reschedule = FALSE]
    PROVE  /\ PoolOK(q) /\ Fuller(rp, q) /\ Full(q)
           /\ q.up = rp.up /\ q.tasks = rp.tasks /\ q.agents = rp.agents /\ q.devices = rp.devices
           /\ q.holder = s.pool.holder /\ q.allocated = s.pool.allocated
           /\ rp.allocated \subseteq q.allocated
           /\ \A c \in s.out : c.task \in q.allocated /\ c.task \in pendingReqs(rp) /\ c \in Own
<1>1. s.pool \in Pools /\ PoolOK(s.pool) /\ Fuller(rp, s.pool)
    BY DEF TickOK, PoolOK
<1>2. /\ q \in Pools /\ q.up = s.pool.up /\ q.tasks = s.pool.tasks /\ q.allocated = s.pool.allocated
      /\ q.agents = s.pool.agents /\ q.devices = s.pool.devices
      /\ q.holder = s.pool.holder /\ q.zero = s.pool.zero
    BY <1>1 DEF Pools
<1>3. PoolOK(q)
    BY <1>1, <1>2 DEF PoolOK
<1>4. Fuller(s.pool, q) /\ Fuller(rp, q)
    BY <1>1, <1>2 DEF Fuller
<1>5. /\ Len(order) \in Nat /\ order \in [1..Len(order) -> Offers(rp)]
      /\ \A t \in Offers(rp) : \E j \in 1..Len(order) : order[j] = t
      /\ Offers(rp) \in SUBSET pendingReqs(rp) /\ pendingReqs(rp) \in SUBSET Tasks
    BY OrderFacts
<1>6. Full(q)
    <2> SUFFICES ASSUME NEW t \in pendingReqs(q), UpTo(q, t) = {t} PROVE findFits(q, t) = {}
        BY DEF Full
    <2>1. t \in pendingReqs(rp) /\ t \in Tasks /\ t \notin s.pool.allocated
        BY <1>2, <1>5 DEF TickOK, pendingReqs
    <2>2. CASE t \in Offers(rp)
        <3>1. findFits(s.pool, t) = {}
            BY <2>1, <2>2, <1>5 DEF TickOK
        <3> QED BY <3>1, <2>1, <1>1, <1>3, <1>4, NoNewFits
    <2>3. CASE t \notin Offers(rp)
        <3>1. PICK u \in UpTo(rp, t) : findFits(rp, u) = {}
            BY <2>1, <2>3 DEF Offers
        <3>2. u \in pendingReqs(rp) /\ GroupOf[u] = GroupOf[t] /\ RegisteredTime[u] <= RegisteredTime[t]
            BY DEF UpTo
        <3>3. u \notin Offers(rp)
            <4>1. u \in Tasks /\ RegisteredTime[u] \in Nat
                BY <3>2, <1>5, Constants
            <4>2. u \in UpTo(rp, u)
                BY <3>2, <4>1 DEF UpTo
            <4> QED BY <3>1, <4>2 DEF Offers
        <3>4. u \in pendingReqs(q)
            BY <3>2, <3>3, <1>2, <1>5 DEF TickOK, pendingReqs
        <3>5. u \in UpTo(q, t)
            BY <3>2, <3>4 DEF UpTo
        <3>6. u = t
            BY <3>5
        <3> QED BY <3>1, <3>6, <2>1, <1>3, <1>4, NoNewFits
    <2> QED BY <2>2, <2>3
<1>7. \A c \in s.out : c.task \in q.allocated /\ c.task \in pendingReqs(rp) /\ c \in Own
    BY <1>2, <1>5 DEF TickOK
<1> QED BY <1>1, <1>2, <1>3, <1>4, <1>6, <1>7 DEF TickOK, Fuller

LEMMA schedulerTickKeeps == ASSUME IInv, schedulerTick PROVE IInv'
<1>a. PICK order \in roundRobinSchedule(rp) : \E s : Ticked(order, s)
    BY TickFields
<1>b. PICK s : Ticked(order, s)
    BY <1>a
<1>1. /\ TickOK(order, Len(order), s)
      /\ rp.up /\ rp.reschedule
      /\ rp' = [s.pool EXCEPT !.reschedule = FALSE]
      /\ taskBox' = [t \in Tasks |->
            IF OfferedNow(s, t) = {} \/ task[t].phase = "stopped" THEN taskBox[t]
            ELSE Append(taskBox[t], [kind |-> "ResourcesAllocated", cs |-> OfferedNow(s, t)])]
      /\ UNCHANGED <<agent, slot, host, task, poolBox, agentBox, slotBox, used>>
    BY <1>b DEF Ticked
<1>2. /\ PoolOK(rp') /\ Full(rp')
      /\ rp'.up = rp.up /\ rp'.tasks = rp.tasks /\ rp'.agents = rp.agents /\ rp'.devices = rp.devices
      /\ rp.allocated \subseteq rp'.allocated
      /\ \A c \in s.out : c.task \in rp'.allocated /\ c.task \in pendingReqs(rp) /\ c \in Own
    <2>1. PoolOK(rp)
        BY DEF IInv
    <2>2. PICK q : q = [s.pool EXCEPT !.reschedule = FALSE]
        OBVIOUS
    <2>3. /\ PoolOK(q) /\ Full(q)
          /\ q.up = rp.up /\ q.tasks = rp.tasks /\ q.agents = rp.agents /\ q.devices = rp.devices
          /\ rp.allocated \subseteq q.allocated
          /\ \A c \in s.out : c.task \in q.allocated /\ c.task \in pendingReqs(rp) /\ c \in Own
        BY <1>1, <2>1, <2>2, TickPool
    <2> QED BY <1>1, <2>2, <2>3
<1>3. ASSUME NEW t \in Tasks
      PROVE  \/ taskBox'[t] = taskBox[t]
             \/ /\ OfferedNow(s, t) # {} /\ t \in pendingReqs(rp) /\ t \in rp'.allocated
                /\ taskBox'[t] = Append(taskBox[t], [kind |-> "ResourcesAllocated", cs |-> OfferedNow(s, t)])
    BY <1>1, <1>2 DEF OfferedNow
<1>4. ASSUME NEW t \in Tasks, t \in pendingReqs(rp)
      PROVE  /\ \A c \in OwnOfTask(t) : ~Born(c) /\ ~Offered(c) /\ ~Sent(c)
             /\ ~Some(taskBox[t], Allocations(t))
    <2>1. \A c \in OwnOfTask(t) : ~Born(c) /\ ~Offered(c) /\ ~Sent(c)
        BY <1>4 DEF IInv, LifeOK, TaskOK, Waiting, pendingReqs
    <2>2. ASSUME NEW m \in Allocations(t) PROVE \E c \in OwnOfTask(t) : m \in Offering(c)
        <3>1. m \in TaskMsgs(t) /\ m.kind = "ResourcesAllocated"
            BY DEF Allocations
        <3>2. m.cs \in (SUBSET OwnOfTask(t)) \ {{}}
            BY <3>1 DEF TaskMsgs
        <3>3. PICK c \in m.cs : TRUE
            BY <3>2
        <3>4. c \in OwnOfTask(t) /\ c.task = t
            BY <3>2, <3>3 DEF OwnOfTask
        <3> QED BY <3>1, <3>3, <3>4 DEF Offering
    <2>3. \A c \in OwnOfTask(t) : ~Some(taskBox[t], Offering(c))
        BY <2>1 DEF Offered, OwnOfTask
    <2> QED BY <2>1, <2>2, <2>3 DEF Some
<1>5. ASSUME NEW t \in Tasks
      PROVE  /\ taskBox'[t] \in Seq(TaskMsgs(t))
             /\ One(taskBox'[t], Allocations(t))
             /\ \A c \in OwnOfTask(t) : Some(taskBox'[t], Offering(c)) =>
                    Some(taskBox[t], Offering(c)) \/ c \in s.out
    <2>1. taskBox[t] \in Seq(TaskMsgs(t)) /\ One(taskBox[t], Allocations(t))
        BY DEF IInv, Boxed, LifeOK, TaskOK
    <2>2. CASE taskBox'[t] = taskBox[t]
        BY <2>1, <2>2
    <2>3. CASE /\ OfferedNow(s, t) # {} /\ t \in pendingReqs(rp)
               /\ taskBox'[t] = Append(taskBox[t], [kind |-> "ResourcesAllocated", cs |-> OfferedNow(s, t)])
        <3>1. PICK m : m = [kind |-> "ResourcesAllocated", cs |-> OfferedNow(s, t)]
            OBVIOUS
        <3>2. OfferedNow(s, t) \in (SUBSET OwnOfTask(t)) \ {{}}
            BY <2>3, <1>2 DEF OfferedNow, OwnOfTask
        <3>3. m \in TaskMsgs(t)
            BY <3>1, <3>2 DEF TaskMsgs
        <3>4. \A c \in OwnOfTask(t) : m \in Offering(c) => c \in s.out
            BY <3>1 DEF Offering, OfferedNow
        <3>5. ~Some(taskBox[t], Allocations(t)) /\ taskBox'[t] = Append(taskBox[t], m)
            BY <2>3, <3>1, <1>4
        <3>6. taskBox'[t] \in Seq(TaskMsgs(t)) /\ One(taskBox'[t], Allocations(t))
            BY <2>1, <3>3, <3>5, AppendBox
        <3>7. ASSUME NEW c \in OwnOfTask(t)
              PROVE  Some(taskBox'[t], Offering(c)) => Some(taskBox[t], Offering(c)) \/ c \in s.out
            BY <2>1, <3>3, <3>4, <3>5, AppendBox
        <3> QED BY <3>6, <3>7
    <2> QED BY <1>3, <2>2, <2>3
<1>6. ASSUME NEW c \in Own
      PROVE  /\ Offered(c)' => Offered(c) \/ c \in s.out
             /\ Sent(c)' <=> Sent(c)
             /\ Reported(c)' <=> Reported(c)
             /\ Born(c)' <=> Born(c)
    <2>1. c.task \in Tasks /\ c \in OwnOfTask(c.task)
        BY OwnFields
    <2> QED BY <2>1, <1>1, <1>5 DEF Offered, Sent, Reported, Born
<1>7. ASSUME NEW t \in Tasks PROVE TaskOK(t)'
    <2>1. TaskOK(t)
        BY DEF IInv, LifeOK
    <2>2. Waiting(t)' => t \notin rp'.allocated \/ task[t].phase = "absent" \/ Some(poolBox, Request(t))
        BY <1>1, <1>2 DEF Waiting
    <2>3. Waiting(t)' => Waiting(t)
        BY <1>1, <1>2 DEF Waiting
    <2>4. Waiting(t)' => \A c \in OwnOfTask(t) : c \notin s.out
        BY <2>1, <2>2, <1>1, <1>2 DEF OwnOfTask, TaskOK, pendingReqs
    <2>5. Waiting(t)' => \A c \in OwnOfTask(t) : ~Born(c)' /\ ~Offered(c)' /\ ~Sent(c)'
        BY <2>1, <2>3, <2>4, <1>6 DEF OwnOfTask, TaskOK
    <2> QED BY <2>1, <2>5, <1>1, <1>2, <1>5 DEF TaskOK
<1>8. ASSUME NEW c \in Own PROVE ContainerOK(c)'
    <2>1. ContainerOK(c) /\ c.task \in Tasks /\ c \in OwnOfTask(c.task)
        BY OwnFields DEF IInv, LifeOK
    <2>2. c \in s.out => ~Born(c) /\ ~Sent(c)
        BY <2>1, <1>2, <1>4
    <2> QED BY <2>1, <2>2, <1>1, <1>6 DEF ContainerOK
<1>9. ASSUME NEW d \in Devices, NEW c \in OwnOfDevice(d) PROVE OnSlotOK(c, d)'
    BY <1>1 DEF IInv, LifeOK, OnSlotOK, Born
<1>10. LifeOK'
    BY <1>1, <1>7, <1>8, <1>9 DEF IInv, LifeOK
<1>11. Typed' /\ SlotsOK'
    BY <1>1 DEF IInv, Typed, SlotsOK, SlotOK
<1>12. Boxed'
    <2>1. DOMAIN taskBox' = Tasks
        BY <1>1
    <2> QED BY <2>1, <1>1, <1>2, <1>5 DEF IInv, Boxed
<1>13. AgentsOK'
    BY <1>1, <1>2 DEF IInv, AgentsOK, AgentOK
<1> QED BY <1>2, <1>10, <1>11, <1>12, <1>13 DEF IInv, FullOK

-----------------------------------------------------------------------------
(* The invariant. *)
LEMMA InitKeeps == Init => IInv
<1> SUFFICES ASSUME Init PROVE IInv
    OBVIOUS
<1>1. PoolOK(rp)
    <2>1. rp \in Pools
        BY DEF Init, Pools
    <2>2. \A a \in Agents : rp.zero[a] = {}
        BY DEF Init
    <2>3. \A d \in Devices : rp.holder[d] = {}
        BY DEF Init
    <2>4. rp.allocated = {} /\ rp.devices = {}
        BY DEF Init
    <2> QED BY <2>1, <2>2, <2>3, <2>4, EmptyBounded DEF PoolOK, Holders
<1>2. Typed /\ SlotsOK
    <2>1. Typed
        BY DEF Init, Typed, Holders
    <2>2. SlotsOK
        BY Constants DEF Init, SlotsOK, SlotOK
    <2> QED BY <2>1, <2>2
<1>3. /\ poolBox = <<>> /\ \A a \in Agents : agentBox[a] = <<>>
      /\ \A d \in Devices : slotBox[d] = <<>>
      /\ \A t \in Tasks : taskBox[t] = <<>>
    BY DEF Init
<1>4. Boxed
    BY DEF Init, Boxed
<1>5. LifeOK
    <2>1. \A S : ~Some(<<>>, S) /\ One(<<>>, S)
        BY EmptyBox
    <2>2. host.live = {} /\ host.killed = {} /\ host.ended = {} /\ rp.tasks = {}
          /\ \A a \in Agents : agent[a].containers = {}
        BY DEF Init
    <2>3. \A c \in Own : ~Offered(c) /\ ~Sent(c) /\ ~Reported(c) /\ ~Born(c)
        BY <1>3, <2>1, <2>2, OwnFields DEF Offered, Sent, Reported, Born
    <2>4. \A t \in Tasks : TaskOK(t)
        BY <1>3, <2>1, <2>2, <2>3 DEF TaskOK, OwnOfTask
    <2>5. \A c \in Own : ContainerOK(c)
        BY <1>3, <2>1, <2>2, <2>3, OwnFields DEF ContainerOK
    <2>6. \A d \in Devices : \A c \in OwnOfDevice(d) : OnSlotOK(c, d)
        BY <1>3, EmptyBox DEF OnSlotOK
    <2> QED BY <2>2, <2>4, <2>5, <2>6 DEF LifeOK
<1>6. AgentsOK
    <2>1. \A a \in Agents : agent[a].phase = "absent"
        BY DEF Init
    <2> QED BY <1>3, <2>1, EmptyBox DEF AgentsOK, AgentOK
<1>7. FullOK
    BY DEF Init, FullOK, Full, pendingReqs
<1> QED BY <1>1, <1>2, <1>4, <1>5, <1>6, <1>7 DEF IInv

LEMMA PoolReceiveKeeps == ASSUME IInv, PoolReceive PROVE IInv'
BY AddAgentKeeps, AddDeviceKeeps, FreeDeviceKeeps, FreeZeroSlotKeeps, RemoveDeviceKeeps,
   RemoveAgentKeeps, addTaskKeeps, resourcesReleasedKeeps DEF PoolReceive

LEMMA NextKeeps == IInv /\ [Next]_vars => IInv'
<1> SUFFICES ASSUME IInv, [Next]_vars PROVE IInv'
    OBVIOUS
<1>1. CASE PoolReceive
    BY <1>1, PoolReceiveKeeps
<1>2. CASE schedulerTick
    BY <1>2, schedulerTickKeeps
<1>3. ASSUME NEW d \in Devices,
             SlotPreStart(d) \/ SlotStop(d) \/ SlotStartContainer(d) \/ SlotContainerTerminated(d)
      PROVE  IInv'
    BY <1>3, SlotPreStartKeeps, SlotStopKeeps, SlotStartContainerKeeps, SlotContainerTerminatedKeeps
<1>4. ASSUME NEW a \in Agents,
             \/ StartTaskContainer(a) \/ KillTaskContainer(a) \/ containerStateChanged(a)
             \/ AgentPostStop(a) \/ AgentFails(a) \/ AgentStarted(a)
      PROVE  IInv'
    BY <1>4, StartTaskContainerKeeps, KillTaskContainerKeeps, containerStateChangedKeeps,
       AgentPostStopKeeps, AgentFailsKeeps, AgentStartedKeeps
<1>5. ASSUME NEW c \in host.killed, ContainerKilled(c) PROVE IInv'
    BY <1>5, AgentTyped, ContainerEndsKeeps DEF ContainerKilled
<1>6. ASSUME NEW c \in host.live, ContainerExits(c) PROVE IInv'
    BY <1>6, ContainerEndsKeeps DEF ContainerExits
<1>7. ASSUME NEW t \in Tasks,
             \/ ResourcesAllocated(t) \/ TaskContainerTerminated(t)
             \/ Launch(t) \/ terminate(t) \/ TaskPostStop(t)
      PROVE  IInv'
    BY <1>7, ResourcesAllocatedKeeps, TaskContainerTerminatedKeeps, LaunchKeeps, terminateKeeps,
       TaskPostStopKeeps
<1>8. ASSUME NEW d \in Devices, NEW enabled \in BOOLEAN, PatchSlot(d, enabled) PROVE IInv'
    BY <1>8, PatchSlotKeeps
<1>9. CASE UNCHANGED vars
    BY <1>9 DEF vars, IInv, PoolOK, Typed, Boxed, LifeOK, TaskOK, Waiting, ContainerOK, OnSlotOK,
       Offered, Sent, Reported, Born, AgentsOK, AgentOK, SlotsOK, SlotOK, FullOK
<1> QED BY <1>1, <1>2, <1>3, <1>4, <1>5, <1>6, <1>7, <1>8, <1>9 DEF Next, Progress

LEMMA Invariance == Spec => []IInv
BY InitKeeps, NextKeeps, PTL DEF Spec

\* Whatever the agents, devices and tasks do, and however often agents fail
\* and users enable, disable and kill: the books of the pool keep their shape.
\* A device has one holder at most and only while it is offered, which
\* allocateFreeDevices and deallocateDevice (agent.go) see to, no agent has
\* more zero-slot containers than allowed, and no container both runs and
\* has ended.
THEOREM PoolTypeCorrect == Spec => []TypeOK
<1>1. IInv => TypeOK
    <2> SUFFICES ASSUME IInv PROVE TypeOK
        OBVIOUS
    <2>1. PoolOK(rp) /\ rp \in Pools
        BY DEF IInv, PoolOK
    <2>2. ASSUME NEW d \in Devices, NEW H \in Holders(d)
          PROVE  H \subseteq Containers /\ Cardinality(H) <= 1 /\ (H = {} => Cardinality(H) = 0)
        <3>1. CASE H = {}
            <4>1. Cardinality({}) = 0
                BY FS_EmptySet
            <4> QED BY <4>1, <3>1
        <3>2. CASE H # {}
            <4>1. PICK c \in OwnOfDevice(d) : H = {c}
                BY <3>2 DEF Holders
            <4>2. c \in Containers
                BY DEF OwnOfDevice, Own
            <4>3. Cardinality({c}) = 1
                BY FS_Singleton
            <4> QED BY <3>2, <4>1, <4>2, <4>3
        <3> QED BY <3>1, <3>2
    <2>3. ASSUME NEW d \in Devices
          PROVE  /\ rp.holder[d] \subseteq Containers
                 /\ Cardinality(rp.holder[d]) <= (IF d \in rp.devices THEN 1 ELSE 0)
                 /\ Cardinality(slot[d].container) <= 1
        <3>1. rp.holder[d] \in Holders(d) /\ (rp.holder[d] # {} => d \in rp.devices)
              /\ slot[d].container \in Holders(d)
            BY <2>1, SlotTyped DEF PoolOK
        <3>2. /\ rp.holder[d] \subseteq Containers /\ Cardinality(rp.holder[d]) <= 1
              /\ rp.holder[d] = {} => Cardinality(rp.holder[d]) = 0
              /\ Cardinality(slot[d].container) <= 1
            BY <2>2, <3>1
        <3> QED BY <3>1, <3>2
    <2> QED BY <2>1, <2>3, AgentTyped DEF TypeOK, PoolOK, Pools
<1> QED BY <1>1, Invariance, PTL

\* The pool schedules only in a tick after a message.  The tick serves the
\* requests in the order that roundRobinSchedule (round_robin.go) fixed
\* before anything was given out; giving out devices on the way makes no
\* request fit that did not.  So a quiet pool leaves no first request of a
\* group that fits.
THEOREM QuietPoolIsFull == Spec => []QuiescentPoolIsFull
<1>1. IInv => QuiescentPoolIsFull
    BY DEF IInv, FullOK, Full, QuiescentPoolIsFull
<1> QED BY <1>1, Invariance, PTL

-----------------------------------------------------------------------------
(* Devices.  What the messages to the pool say of a device. *)
Telling(d) == DeviceAdded(d) \cup DeviceFreed(d) \cup DeviceRemoved(d)

\* One box says of device d what another says.
SameOf(d, new, old) ==
    \A S, T : S \subseteq Telling(d) /\ T \subseteq Telling(d) =>
        /\ Some(new, S) <=> Some(old, S)
        /\ One(old, S) => One(new, S)
        /\ Before(old, S, T) => Before(new, S, T)

LEMMA SameOfSame == ASSUME NEW d, NEW box PROVE SameOf(d, box, box)
BY DEF SameOf

LEMMA SameOfTail ==
    ASSUME NEW d, NEW M, NEW box \in Seq(M), box # <<>>, Head(box) \notin Telling(d)
    PROVE  SameOf(d, Tail(box), box)
<1> SUFFICES ASSUME NEW S, NEW T, S \subseteq Telling(d), T \subseteq Telling(d)
             PROVE  /\ Some(Tail(box), S) <=> Some(box, S)
                    /\ One(box, S) => One(Tail(box), S)
                    /\ Before(box, S, T) => Before(Tail(box), S, T)
    BY DEF SameOf
<1>1. Head(box) \notin S
    OBVIOUS
<1> QED BY <1>1, TailBox, TailOrder

LEMMA SameOfAppend ==
    ASSUME NEW d, NEW M, NEW box \in Seq(M), NEW m \in M, m \notin Telling(d)
    PROVE  SameOf(d, Append(box, m), box)
<1> SUFFICES ASSUME NEW S, NEW T, S \subseteq Telling(d), T \subseteq Telling(d)
             PROVE  /\ Some(Append(box, m), S) <=> Some(box, S)
                    /\ One(box, S) => One(Append(box, m), S)
                    /\ Before(box, S, T) => Before(Append(box, m), S, T)
    BY DEF SameOf
<1>1. m \notin S /\ m \notin T
    OBVIOUS
<1> QED BY <1>1, AppendBox, AppendOrder

LEMMA SameOfDevice ==
    ASSUME NEW d, NEW new, NEW old, SameOf(d, new, old)
    PROVE  /\ Some(new, DeviceAdded(d)) <=> Some(old, DeviceAdded(d))
           /\ Some(new, DeviceAddedInUse(d)) <=> Some(old, DeviceAddedInUse(d))
           /\ Some(new, DeviceFreed(d)) <=> Some(old, DeviceFreed(d))
           /\ Some(new, DeviceRemoved(d)) <=> Some(old, DeviceRemoved(d))
           /\ One(old, DeviceAdded(d)) => One(new, DeviceAdded(d))
           /\ One(old, DeviceFreed(d)) => One(new, DeviceFreed(d))
           /\ Before(old, DeviceFreed(d), DeviceRemoved(d)) => Before(new, DeviceFreed(d), DeviceRemoved(d))
           /\ Before(old, DeviceAdded(d), DeviceRemoved(d)) => Before(new, DeviceAdded(d), DeviceRemoved(d))
<1>1. /\ DeviceAdded(d) \subseteq Telling(d) /\ DeviceFreed(d) \subseteq Telling(d)
      /\ DeviceRemoved(d) \subseteq Telling(d) /\ DeviceAddedInUse(d) \subseteq Telling(d)
    BY DEF Telling, DeviceAddedInUse
<1> HIDE DEF DeviceAdded, DeviceFreed, DeviceRemoved, DeviceAddedInUse
<1> QED BY <1>1 DEF SameOf

\* A device that the pool and its slot see as before, with no new container.
LEMMA DeviceLeft ==
    ASSUME NEW d \in Devices, DeviceOK(d),
           d \in rp'.devices <=> d \in rp.devices, rp'.holder[d] = rp.holder[d],
           Active(d)' \subseteq Active(d),
           slot'[d].phase \in {"absent", "starting"} => slot[d].phase \in {"absent", "starting"},
           slot'[d].deviceAdded => slot[d].deviceAdded,
           SameOf(d, poolBox', poolBox)
    PROVE  DeviceOK(d)'
BY SameOfDevice DEF DeviceOK

SlotHearsLess(d) ==
    \A c \in OwnOfDevice(d) : /\ Some(slotBox'[d], SlotStart(c)) => Some(slotBox[d], SlotStart(c))
                              /\ Some(slotBox'[d], SlotEnd(c)) => Some(slotBox[d], SlotEnd(c))

LEMMA ActiveLeft ==
    ASSUME NEW d \in Devices,
           TasksHearOf(taskBox', taskBox), AgentsHearOf(agentBox', agentBox), SlotHearsLess(d),
           \A a \in Agents : agent'[a].containers \subseteq agent[a].containers,
           slot'[d].container \cap OwnOfDevice(d) \subseteq Active(d)
    PROVE  Active(d)' \subseteq Active(d)
<1> SUFFICES ASSUME NEW c \in OwnOfDevice(d), c \in Active(d)' PROVE c \in Active(d)
    BY DEF Active
<1>1. c \in Own /\ c.task \in Tasks /\ c.agent \in Agents /\ c \in OwnOfTask(c.task)
    BY OwnFields DEF OwnOfDevice
<1>2. /\ Offered(c)' => Offered(c)
      /\ Sent(c)' => Sent(c)
    BY <1>1 DEF TasksHearOf, AgentsHearOf, Offered, Sent
<1>3. CASE c \in slot'[d].container
    BY <1>3
<1>4. CASE c \notin slot'[d].container
    BY <1>1, <1>2, <1>4 DEF Active, SlotHearsLess
<1> QED BY <1>3, <1>4

LEMMA ActiveSame ==
    ASSUME UNCHANGED <<agent, slot, agentBox, slotBox, taskBox>>, NEW d
    PROVE  Active(d)' = Active(d)
BY DEF Active, Offered, Sent

LEMMA SlotContainerActive == ASSUME NEW d PROVE slot[d].container \cap OwnOfDevice(d) \subseteq Active(d)
BY DEF Active

\* Steps after which no device has a container that it had not.
LEMMA DevicesLeft ==
    ASSUME DInv, rp'.up, rp'.devices = rp.devices, rp'.holder = rp.holder, slot' = slot,
           \A d \in Devices : Active(d)' \subseteq Active(d) /\ SameOf(d, poolBox', poolBox)
    PROVE  DInv'
BY DeviceLeft DEF DInv

LEMMA SaysNothing ==
    ASSUME IInv, rp.up, NEW d, NEW m \in PoolMsgs, m \notin Telling(d),
           poolBox' = poolBox \/ poolBox' = ToPool(<<>>) \/ poolBox' = ToPool(<<m>>)
    PROVE  SameOf(d, poolBox', poolBox)
<1>1. poolBox \in Seq(PoolMsgs)
    BY AgentTyped
<1>2. CASE poolBox' = poolBox
    BY <1>2, SameOfSame
<1>3. CASE poolBox' = ToPool(<<>>)
    <2>1. poolBox' = poolBox
        BY <1>1, <1>3, ToPoolForms DEF ToPool
    <2> QED BY <2>1, SameOfSame
<1>4. CASE poolBox' = ToPool(<<m>>)
    <2>1. poolBox' = Append(poolBox, m)
        BY <1>1, <1>4, ToPoolForms DEF ToPool
    <2> QED BY <1>1, <2>1, SameOfAppend
<1> QED BY <1>2, <1>3, <1>4

\* Messages that say nothing of any device.
LEMMA OtherMsgs ==
    ASSUME NEW d
    PROVE  /\ \A kind \in {"AddAgent", "RemoveAgent"} : \A a \in Agents :
                 [kind |-> kind, agent |-> a] \in PoolMsgs \ Telling(d)
           /\ \A c \in Own : [kind |-> "FreeZeroSlot", c |-> c] \in PoolMsgs \ Telling(d)
           /\ \A kind \in {"AllocateRequest", "ResourcesReleased"} : \A t \in Tasks :
                 [kind |-> kind, task |-> t] \in PoolMsgs \ Telling(d)
<1>1. \A m \in Telling(d) : m.kind \in {"AddDevice", "FreeDevice", "RemoveDevice"}
    BY DEF Telling, DeviceAdded, DeviceFreed, DeviceRemoved
<1>2. ASSUME NEW m \in PoolMsgs, m.kind \notin {"AddDevice", "FreeDevice", "RemoveDevice"}
      PROVE  m \in PoolMsgs \ Telling(d)
    BY <1>1, <1>2
<1>3. ASSUME NEW kind \in {"AddAgent", "RemoveAgent"}, NEW a \in Agents
      PROVE  [kind |-> kind, agent |-> a] \in PoolMsgs
    BY DEF PoolMsgs
<1>4. ASSUME NEW c \in Own PROVE [kind |-> "FreeZeroSlot", c |-> c] \in PoolMsgs
    BY DEF PoolMsgs
<1>5. ASSUME NEW kind \in {"AllocateRequest", "ResourcesReleased"}, NEW t \in Tasks
      PROVE  [kind |-> kind, task |-> t] \in PoolMsgs
    BY DEF PoolMsgs
<1> HIDE DEF PoolMsgs, Telling
<1>6. ASSUME NEW kind \in {"AddAgent", "RemoveAgent"}, NEW a \in Agents
      PROVE  [kind |-> kind, agent |-> a] \in PoolMsgs \ Telling(d)
    BY <1>1, <1>3
<1>7. ASSUME NEW c \in Own PROVE [kind |-> "FreeZeroSlot", c |-> c] \in PoolMsgs \ Telling(d)
    BY <1>1, <1>4
<1>8. ASSUME NEW kind \in {"AllocateRequest", "ResourcesReleased"}, NEW t \in Tasks
      PROVE  [kind |-> kind, task |-> t] \in PoolMsgs \ Telling(d)
    BY <1>1, <1>5
<1> QED BY <1>6, <1>7, <1>8

\* Steps of tasks, and steps that only take or kill.
LEMMA DevicesQuiet ==
    ASSUME IInv, DInv, UNCHANGED <<rp, slot>>,
           TasksHearOf(taskBox', taskBox), AgentsHearOf(agentBox', agentBox),
           \A d \in Devices : SlotHearsLess(d) /\ SameOf(d, poolBox', poolBox),
           \A a \in Agents : agent'[a].containers \subseteq agent[a].containers
    PROVE  DInv'
<1>1. \A d \in Devices : Active(d)' \subseteq Active(d)
    BY ActiveLeft, SlotContainerActive
<1>2. rp'.up /\ rp'.devices = rp.devices /\ rp'.holder = rp.holder
    BY DEF DInv
<1> QED BY <1>1, <1>2, DevicesLeft

LEMMA QuietBoxes ==
    /\ slotBox' = slotBox => \A d \in Devices : SlotHearsLess(d)
    /\ agentBox' = agentBox => AgentsHearOf(agentBox', agentBox)
    /\ taskBox' = taskBox => TasksHearOf(taskBox', taskBox)
    /\ agent' = agent => \A a \in Agents : agent'[a].containers \subseteq agent[a].containers
    /\ poolBox' = poolBox => \A d \in Devices : SameOf(d, poolBox', poolBox)
BY SameOfSame DEF SlotHearsLess, AgentsHearOf, TasksHearOf

LEMMA TaskSaysNothing ==
    ASSUME IInv, DInv, NEW t \in Tasks, NEW kind \in {"AllocateRequest", "ResourcesReleased"},
           \/ poolBox' = poolBox
           \/ poolBox' = ToPool(<<>>)
           \/ poolBox' = ToPool(<<[kind |-> kind, task |-> t]>>)
    PROVE  \A d \in Devices : SameOf(d, poolBox', poolBox)
<1> TAKE d \in Devices
<1>1. PICK m : m = [kind |-> kind, task |-> t]
    OBVIOUS
<1>2. m \in PoolMsgs /\ m \notin Telling(d)
    BY <1>1, OtherMsgs
<1>3. poolBox' = poolBox \/ poolBox' = ToPool(<<>>) \/ poolBox' = ToPool(<<m>>)
    BY <1>1
<1> QED BY <1>2, <1>3, SaysNothing DEF DInv

LEMMA LaunchDevices == ASSUME IInv, DInv, NEW t \in Tasks, Launch(t) PROVE DInv'
<1>1. /\ poolBox' = ToPool(<<[kind |-> "AllocateRequest", task |-> t]>>)
      /\ UNCHANGED <<rp, agent, slot, agentBox, slotBox, taskBox>>
    BY DEF Launch
<1>2. \A d \in Devices : SameOf(d, poolBox', poolBox)
    BY <1>1, TaskSaysNothing
<1> QED BY <1>1, <1>2, QuietBoxes, DevicesQuiet

LEMMA TaskContainerTerminatedDevices ==
    ASSUME IInv, DInv, NEW t \in Tasks, TaskContainerTerminated(t) PROVE DInv'
<1>1. /\ taskBox[t] # <<>>
      /\ taskBox' = [taskBox EXCEPT ![t] = Tail(taskBox[t])]
      /\ UNCHANGED <<rp, agent, slot, agentBox, slotBox>>
      /\ \/ poolBox' = ToPool(<<[kind |-> "ResourcesReleased", task |-> t]>>)
         \/ poolBox' = ToPool(<<>>)
    BY TaskTyped DEF TaskContainerTerminated, TaskReceived, Released
<1>2. \A d \in Devices : SameOf(d, poolBox', poolBox)
    BY <1>1, TaskSaysNothing
<1> QED BY <1>1, <1>2, TaskTakes, QuietBoxes, DevicesQuiet

LEMMA terminateDevices == ASSUME IInv, DInv, NEW t \in Tasks, terminate(t) PROVE DInv'
<1>1. /\ UNCHANGED <<rp, agent, slot, slotBox, taskBox>>
      /\ agentBox' = agentBox \/ agentBox' = ToAgents("KillTaskContainer", task[t].allocations)
      /\ \/ poolBox' = ToPool(<<[kind |-> "ResourcesReleased", task |-> t]>>)
         \/ poolBox' = poolBox
    BY DEF terminate, Released
<1>2. \A d \in Devices : SameOf(d, poolBox', poolBox)
    BY <1>1, TaskSaysNothing
<1>3. AgentsHearOf(agentBox', agentBox)
    <2>1. task[t].allocations \in SUBSET Own /\ Boxed
        BY TaskTyped DEF IInv
    <2> QED BY <1>1, <2>1, KillsSent, QuietBoxes
<1> QED BY <1>1, <1>2, <1>3, QuietBoxes, DevicesQuiet

LEMMA TaskPostStopDevices == ASSUME IInv, DInv, NEW t \in Tasks, TaskPostStop(t) PROVE DInv'
<1>1. /\ taskBox' = [taskBox EXCEPT ![t] = <<>>]
      /\ agentBox' = agentBox \/ agentBox' = ToAgents("KillTaskContainer", task[t].allocations)
      /\ poolBox' = ToPool(<<[kind |-> "ResourcesReleased", task |-> t]>>)
      /\ UNCHANGED <<rp, agent, slot, slotBox>>
    BY DEF TaskPostStop, Released
<1>2. \A d \in Devices : SameOf(d, poolBox', poolBox)
    BY <1>1, TaskSaysNothing
<1>3. AgentsHearOf(agentBox', agentBox)
    <2>1. task[t].allocations \in SUBSET Own /\ Boxed
        BY TaskTyped DEF IInv
    <2> QED BY <1>1, <2>1, KillsSent, QuietBoxes
<1>4. TasksHearOf(taskBox', taskBox)
    <2>1. \A u \in Tasks : Fewer(taskBox'[u], taskBox[u])
        BY <1>1, FewerEmpty, FewerSame, TaskTyped
    <2> QED BY <2>1, FewerTasksHearOf
<1> QED BY <1>1, <1>2, <1>3, <1>4, QuietBoxes, DevicesQuiet

LEMMA KillTaskContainerDevices == ASSUME IInv, DInv, NEW a \in Agents, KillTaskContainer(a) PROVE DInv'
<1>1. /\ agentBox[a] # <<>> /\ agentBox' = [agentBox EXCEPT ![a] = Tail(agentBox[a])]
      /\ UNCHANGED <<rp, agent, slot, poolBox, slotBox, taskBox>>
    BY AgentTyped DEF KillTaskContainer, AgentReceived
<1> QED BY <1>1, AgentTakes, QuietBoxes, DevicesQuiet

LEMMA ContainerEndsDevices == ASSUME IInv, DInv, NEW c \in host.live, ContainerEnds(c) PROVE DInv'
<1>1. c \in Own /\ c.agent \in Agents /\ c \in OwnOfAgent(c.agent)
    BY AgentTyped, OwnFields
<1>2. PICK m : m = [kind |-> "Terminated", c |-> c]
    OBVIOUS
<1>3. /\ agentBox' = [agentBox EXCEPT ![c.agent] = Append(agentBox[c.agent], m)]
      /\ UNCHANGED <<rp, agent, slot, poolBox, slotBox, taskBox>>
    BY <1>2, AgentTyped DEF ContainerEnds
<1>4. m \in AgentMsgs(c.agent) /\ agentBox[c.agent] \in Seq(AgentMsgs(c.agent)) /\ DOMAIN agentBox = Agents
    BY <1>1, <1>2, AgentTyped DEF AgentMsgs
<1>5. ASSUME NEW b \in Own PROVE Sent(b)' => Sent(b)
    <2>1. m \notin Start(b)
        BY <1>2 DEF Start
    <2>2. CASE b.agent # c.agent
        <3>1. agentBox'[b.agent] = agentBox[b.agent]
            BY <2>2, <1>1, <1>3, <1>4, OwnFields
        <3> QED BY <3>1 DEF Sent
    <2>3. CASE b.agent = c.agent
        <3>1. agentBox'[b.agent] = Append(agentBox[b.agent], m)
            BY <2>3, <1>1, <1>3, <1>4
        <3> QED BY <3>1, <2>1, <2>3, <1>4, AppendBox DEF Sent
    <2> QED BY <2>2, <2>3
<1>6. ASSUME NEW d \in Devices PROVE Active(d)' \subseteq Active(d)
    BY <1>3, <1>5 DEF Active, Offered, OwnOfDevice
<1>7. rp'.up /\ rp' = rp /\ slot' = slot
    BY <1>3 DEF DInv
<1> QED BY <1>3, <1>6, <1>7, QuietBoxes, DevicesLeft

LEMMA AgentFailsDevices == ASSUME IInv, DInv, NEW a \in Agents, AgentFails(a) PROVE DInv'
<1>1. /\ agent' = [agent EXCEPT ![a].phase = "closing", ![a].slotsUp = FALSE]
      /\ agentBox' = [agentBox EXCEPT ![a] = <<>>]
      /\ slotBox' = slotBox \/ slotBox' = ToSlots(SlotsOf(a), [kind |-> "Stop"])
      /\ UNCHANGED <<rp, slot, poolBox, taskBox>>
    BY AgentTyped DEF AgentFails
<1>2. \A b \in Agents : agent'[b].containers \subseteq agent[b].containers
    <2>1. agent' = [agent EXCEPT ![a].phase = "closing", ![a].slotsUp = FALSE]
        BY <1>1
    <2> QED BY <2>1, AgentTyped
<1>3. AgentsHearOf(agentBox', agentBox)
    <2>1. \A b \in Agents : Fewer(agentBox'[b], agentBox[b])
        BY <1>1, FewerEmpty, FewerSame, AgentTyped
    <2> QED BY <2>1, FewerHearOf
<1>4. ASSUME NEW d \in Devices PROVE SlotHearsLess(d)
    <2>1. slotBox'[d] = slotBox[d] \/ slotBox'[d] = Append(slotBox[d], [kind |-> "Stop"])
        BY <1>1, StopsSlots
    <2> QED BY <2>1, StopFewer DEF SlotHearsLess, OwnOfDevice
<1> QED BY <1>1, <1>2, <1>3, <1>4, QuietBoxes, DevicesQuiet

LEMMA AgentPostStopDevices == ASSUME IInv, DInv, NEW a \in Agents, AgentPostStop(a) PROVE DInv'
<1>1. /\ agent' = [agent EXCEPT ![a].phase = "gone", ![a].containers = {}]
      /\ taskBox' = ToTasks("Terminated", agent[a].containers)
      /\ poolBox' = ToPool(<<[kind |-> "RemoveAgent", agent |-> a]>>)
      /\ UNCHANGED <<rp, slot, agentBox, slotBox>>
    BY DEF AgentPostStop
<1>2. \A b \in Agents : agent'[b].containers \subseteq agent[b].containers
    <2>1. agent' = [agent EXCEPT ![a].phase = "gone", ![a].containers = {}]
        BY <1>1
    <2> QED BY <2>1, AgentTyped
<1>3. TasksHearOf(taskBox', taskBox)
    <2>1. agent[a].containers \in SUBSET Own /\ Boxed
        BY AgentTyped DEF IInv
    <2> QED BY <1>1, <2>1, ToTasksBox
<1>4. ASSUME NEW d \in Devices PROVE SameOf(d, poolBox', poolBox)
    <2>1. PICK m : m = [kind |-> "RemoveAgent", agent |-> a]
        OBVIOUS
    <2>2. m \in PoolMsgs /\ m \notin Telling(d)
        BY <2>1, OtherMsgs
    <2>3. poolBox' = ToPool(<<m>>)
        BY <1>1, <2>1
    <2> QED BY <2>2, <2>3, SaysNothing DEF DInv
<1> QED BY <1>1, <1>2, <1>3, <1>4, QuietBoxes, DevicesQuiet

\* The slots of an agent that connects have not been up.
LEMMA AgentStartedDevices == ASSUME IInv, DInv, NEW a \in Agents, AgentStarted(a) PROVE DInv'
<1>1. /\ agent[a].phase = "absent"
      /\ agent' = [agent EXCEPT ![a].phase = "connected", ![a].slotsUp = TRUE]
      /\ slot' = [d \in Devices |-> IF d \in SlotsOf(a)
                                    THEN [slot[d] EXCEPT !.phase = "starting"] ELSE slot[d]]
      /\ poolBox' = ToPool(<<[kind |-> "AddAgent", agent |-> a]>>)
      /\ UNCHANGED <<rp, agentBox, slotBox, taskBox>>
    BY DEF AgentStarted
<1>2. \A b \in Agents : agent'[b].containers \subseteq agent[b].containers
    <2>1. agent' = [agent EXCEPT ![a].phase = "connected", ![a].slotsUp = TRUE]
        BY <1>1
    <2> QED BY <2>1, AgentTyped
<1>3. ASSUME NEW d \in Devices PROVE DeviceOK(d)'
    <2>1. PICK m : m = [kind |-> "AddAgent", agent |-> a]
        OBVIOUS
    <2>2. m \in PoolMsgs /\ m \notin Telling(d)
        BY <2>1, OtherMsgs
    <2>3. poolBox' = ToPool(<<m>>)
        BY <1>1, <2>1
    <2>4. SameOf(d, poolBox', poolBox)
        BY <2>2, <2>3, SaysNothing DEF DInv
    <2>5. /\ slot'[d].container = slot[d].container /\ slot'[d].deviceAdded = slot[d].deviceAdded
          /\ slot'[d].phase \in {"absent", "starting"} => slot[d].phase \in {"absent", "starting"}
        <3>1. CASE d \in SlotsOf(a)
            <4>1. slot'[d] = [slot[d] EXCEPT !.phase = "starting"]
                BY <3>1, <1>1
            <4>2. slot[d].phase = "absent"
                BY <3>1, <1>1, SlotTyped DEF SlotsOf, SlotOK
            <4> QED BY <4>1, <4>2, SlotTyped
        <3>2. CASE d \notin SlotsOf(a)
            BY <3>2, <1>1
        <3> QED BY <3>1, <3>2
    <2>6. slot'[d].container \cap OwnOfDevice(d) \subseteq Active(d)
        BY <2>5, SlotContainerActive
    <2>7. Active(d)' \subseteq Active(d)
        BY <1>1, <1>2, <2>6, QuietBoxes, ActiveLeft
    <2> QED BY <1>1, <2>4, <2>5, <2>7, DeviceLeft DEF DInv
<1> QED BY <1>1, <1>3 DEF DInv

\* A container that is started has been sent.
LEMMA StartTaskContainerDevices == ASSUME IInv, DInv, NEW a \in Agents, StartTaskContainer(a) PROVE DInv'
<1>1. PICK c : c = Head(agentBox[a]).c
    OBVIOUS
<1>2. /\ agentBox[a] # <<>> /\ c \in OwnOfAgent(a) /\ c \in Own /\ c.agent = a
      /\ Head(agentBox[a]) = [kind |-> "StartTaskContainer", c |-> c]
    BY <1>1, AgentMsgFields DEF StartTaskContainer
<1>3. /\ sendToSlots(a, agent[a].containers \union {c}, [kind |-> "StartContainer", c |-> c])
      /\ agentBox' = [agentBox EXCEPT ![a] = Tail(agentBox[a])]
      /\ UNCHANGED <<rp, slot, poolBox, taskBox>>
    BY <1>1, AgentTyped DEF StartTaskContainer
<1>4. agent[a].containers \union {c} \in SUBSET OwnOfAgent(a)
    BY <1>2, AgentTyped
<1>5. /\ \A b \in Agents : agent'[b].containers = IF b = a THEN agent[a].containers \union {c}
                                                  ELSE agent[b].containers
      /\ SlotsHearOf("StartContainer", c)
    BY <1>2, <1>3, <1>4, SendsToSlots, ZenonT(60)
<1>6. AgentsHearOf(agentBox', agentBox)
    BY <1>2, <1>3, AgentTakes
<1>7. Sent(c)
    <2>1. Head(agentBox[a]) \in Start(c) /\ agentBox[a] \in Seq(AgentMsgs(a))
        BY <1>2, AgentTyped DEF Start
    <2> QED BY <2>1, <1>2, TailBox DEF Sent
<1>8. ASSUME NEW d \in Devices, NEW b \in OwnOfDevice(d), b \in Active(d)' PROVE b \in Active(d)
    <2>1. b \in Own /\ b.agent \in Agents
        BY OwnFields DEF OwnOfDevice
    <2>2. CASE b = c
        BY <2>2, <1>7 DEF Active
    <2>3. CASE b # c
        <3>1. /\ Offered(b)' => Offered(b)
              /\ Sent(b)' => Sent(b)
            BY <2>1, <1>3, <1>6 DEF AgentsHearOf, Offered, Sent
        <3>2. /\ Some(slotBox'[d], SlotStart(b)) => Some(slotBox[d], SlotStart(b))
              /\ Some(slotBox'[d], SlotEnd(b)) => Some(slotBox[d], SlotEnd(b))
            BY <2>3, <1>5 DEF SlotsHearOf
        <3>3. b \in agent'[b.agent].containers => b \in agent[b.agent].containers
            BY <2>1, <2>3, <1>5
        <3> QED BY <1>8, <1>3, <3>1, <3>2, <3>3 DEF Active
    <2> QED BY <2>2, <2>3
<1>9. \A d \in Devices : Active(d)' \subseteq Active(d)
    BY <1>8 DEF Active
<1>10. rp'.up /\ rp' = rp /\ slot' = slot
    BY <1>3 DEF DInv
<1> QED BY <1>3, <1>9, <1>10, QuietBoxes, DevicesLeft

\* A container that its agent gives up is with its slots until they know.
LEMMA containerStateChangedDevices ==
    ASSUME IInv, DInv, NEW a \in Agents, containerStateChanged(a) PROVE DInv'
<1>1. PICK c : c = Head(agentBox[a]).c
    OBVIOUS
<1>2. /\ agentBox[a] # <<>> /\ c \in OwnOfAgent(a) /\ c \in Own /\ c.agent = a
    BY <1>1, AgentMsgFields DEF containerStateChanged
<1>3. /\ c \in agent[a].containers
      /\ taskBox' = ToTasks("Terminated", {c})
      /\ sendToSlots(a, agent[a].containers \ {c}, [kind |-> "Terminated", c |-> c])
      /\ poolBox' = ToPool(<<[kind |-> "FreeZeroSlot", c |-> c]>>) \/ poolBox' = ToPool(<<>>)
      /\ agentBox' = [agentBox EXCEPT ![a] = Tail(agentBox[a])]
      /\ UNCHANGED <<rp, slot>>
    BY <1>1, AgentTyped DEF containerStateChanged
<1>4. agent[a].containers \ {c} \in SUBSET OwnOfAgent(a)
    BY <1>2, AgentTyped
<1>5. /\ \A b \in Agents : agent'[b].containers = IF b = a THEN agent[a].containers \ {c}
                                                  ELSE agent[b].containers
      /\ SlotsHearOf("Terminated", c)
    BY <1>2, <1>3, <1>4, SendsToSlots, ZenonT(60)
<1>6. AgentsHearOf(agentBox', agentBox)
    BY <1>2, <1>3, AgentTakes
<1>7. TasksHearOf(taskBox', taskBox)
    <2>1. {c} \in SUBSET Own /\ Boxed
        BY <1>2 DEF IInv
    <2> QED BY <2>1, <1>3, ToTasksBox
<1>8. ASSUME NEW d \in Devices, NEW b \in OwnOfDevice(d), b \in Active(d)' PROVE b \in Active(d)
    <2>1. b \in Own /\ b.agent \in Agents /\ b.task \in Tasks /\ b \in OwnOfTask(b.task)
        BY OwnFields DEF OwnOfDevice
    <2>2. CASE b = c
        BY <2>2, <1>2, <1>3 DEF Active
    <2>3. CASE b # c
        <3>1. /\ Offered(b)' => Offered(b)
              /\ Sent(b)' => Sent(b)
            BY <2>1, <1>7, <1>6 DEF AgentsHearOf, TasksHearOf, Offered, Sent
        <3>2. /\ Some(slotBox'[d], SlotStart(b)) => Some(slotBox[d], SlotStart(b))
              /\ Some(slotBox'[d], SlotEnd(b)) => Some(slotBox[d], SlotEnd(b))
            BY <2>3, <1>5 DEF SlotsHearOf
        <3>3. b \in agent'[b.agent].containers => b \in agent[b.agent].containers
            BY <2>1, <2>3, <1>5
        <3> QED BY <1>8, <1>3, <3>1, <3>2, <3>3 DEF Active
    <2> QED BY <2>2, <2>3
<1>9. \A d \in Devices : Active(d)' \subseteq Active(d)
    BY <1>8 DEF Active
<1>10. ASSUME NEW d \in Devices PROVE SameOf(d, poolBox', poolBox)
    <2>1. PICK m : m = [kind |-> "FreeZeroSlot", c |-> c]
        OBVIOUS
    <2>2. m \in PoolMsgs /\ m \notin Telling(d)
        BY <2>1, <1>2, OtherMsgs
    <2>3. poolBox' = ToPool(<<m>>) \/ poolBox' = ToPool(<<>>)
        BY <1>3, <2>1
    <2> QED BY <2>2, <2>3, SaysNothing DEF DInv
<1>11. rp'.up /\ rp' = rp /\ slot' = slot
    BY <1>3 DEF DInv
<1> QED BY <1>9, <1>10, <1>11, DevicesLeft

\* A container that is sent has been offered.
LEMMA ResourcesAllocatedDevices == ASSUME IInv, DInv, NEW t \in Tasks, ResourcesAllocated(t) PROVE DInv'
<1>1. PICK C : C = Head(taskBox[t]).cs
    OBVIOUS
<1>2. /\ taskBox[t] # <<>> /\ C \in SUBSET OwnOfTask(t)
      /\ Head(taskBox[t]) \in TaskMsgs(t) /\ Head(taskBox[t]).kind = "ResourcesAllocated"
    BY <1>1, TaskMsgFields DEF ResourcesAllocated
<1>3. /\ taskBox' = [taskBox EXCEPT ![t] = Tail(taskBox[t])]
      /\ UNCHANGED <<rp, agent, slot, poolBox, slotBox>>
      /\ agentBox' = agentBox \/ agentBox' = ToAgents("StartTaskContainer", C)
    BY <1>1, TaskTyped DEF ResourcesAllocated
<1>4. TasksHearOf(taskBox', taskBox)
    BY <1>2, <1>3, TaskTakes
<1>5. C \in SUBSET Own /\ Boxed /\ \A c \in C : c.task = t
    BY <1>2 DEF IInv, OwnOfTask
<1>6. ASSUME NEW c \in C PROVE Offered(c)
    <2>1. Head(taskBox[t]) \in Offering(c)
        BY <1>1, <1>2, <1>5 DEF Offering
    <2> QED BY <2>1, <1>5, <1>2, TailBox, TaskTyped DEF Offered
<1>7. ASSUME NEW c \in Own PROVE Sent(c)' => Sent(c) \/ c \in C
    <2>1. c.agent \in Agents
        BY OwnFields
    <2>2. CASE agentBox' = agentBox
        BY <2>2 DEF Sent
    <2>3. CASE agentBox' = ToAgents("StartTaskContainer", C)
        BY <2>1, <2>3, <1>5, StartsSent DEF Sent
    <2> QED BY <2>2, <2>3, <1>3
<1>8. ASSUME NEW d \in Devices, NEW b \in OwnOfDevice(d), b \in Active(d)' PROVE b \in Active(d)
    <2>1. b \in Own /\ b.task \in Tasks /\ b \in OwnOfTask(b.task)
        BY OwnFields DEF OwnOfDevice
    <2>2. Offered(b)' => Offered(b)
        BY <2>1, <1>4 DEF TasksHearOf, Offered
    <2>3. Sent(b)' => Sent(b) \/ Offered(b)
        BY <2>1, <1>6, <1>7
    <2> QED BY <1>8, <1>3, <2>2, <2>3 DEF Active
<1>9. \A d \in Devices : Active(d)' \subseteq Active(d)
    BY <1>8 DEF Active
<1>10. rp'.up /\ rp' = rp /\ slot' = slot
    BY <1>3 DEF DInv
<1> QED BY <1>3, <1>9, <1>10, QuietBoxes, DevicesLeft

-----------------------------------------------------------------------------
(* Devices, as the pool handles what it is told of them. *)
LEMMA TellsOf ==
    ASSUME NEW d, NEW m \in Telling(d)
    PROVE  m.kind \in {"AddDevice", "FreeDevice", "RemoveDevice"} /\ m.device = d
BY DEF Telling, DeviceAdded, DeviceFreed, DeviceRemoved

\* A message handled that is not about device d.
LEMMA PoolHandlesOther ==
    ASSUME IInv, DInv, poolBox # <<>>, poolBox' = Tail(poolBox),
           UNCHANGED <<agent, slot, agentBox, slotBox, taskBox>>,
           NEW d \in Devices, Head(poolBox) \notin Telling(d),
           d \in rp'.devices <=> d \in rp.devices, rp'.holder[d] = rp.holder[d]
    PROVE  DeviceOK(d)'
<1>1. SameOf(d, poolBox', poolBox)
    BY SameOfTail, AgentTyped
<1>2. Active(d)' \subseteq Active(d)
    BY ActiveSame
<1>3. DeviceOK(d)
    BY DEF DInv
<1> QED BY <1>1, <1>2, <1>3, DeviceLeft

LEMMA PoolHandlesNoDevice ==
    ASSUME IInv, DInv, NEW r, Handled(r), poolBox # <<>>,
           Head(poolBox).kind \notin {"AddDevice", "FreeDevice", "RemoveDevice"},
           r \in Pools, r.up = rp.up, r.devices = rp.devices, r.holder = rp.holder
    PROVE  DInv'
<1>1. /\ rp'.up /\ rp'.devices = rp.devices /\ rp'.holder = rp.holder
      /\ poolBox' = Tail(poolBox) /\ UNCHANGED <<agent, slot, agentBox, slotBox, taskBox>>
    BY DEF Handled, DInv, Pools
<1>2. \A d \in Devices : Head(poolBox) \notin Telling(d)
    BY TellsOf
<1> QED BY <1>1, <1>2, PoolHandlesOther DEF DInv

LEMMA AddAgentDevices == ASSUME IInv, DInv, AddAgent PROVE DInv'
<1>1. Received("AddAgent") /\ poolBox # <<>> /\ rp \in Pools /\ Head(poolBox).kind = "AddAgent"
    BY ReceivedTyped DEF AddAgent
<1>2. PICK a \in Agents : Head(poolBox) = [kind |-> "AddAgent", agent |-> a]
    BY <1>1, ReceivedTyped, PoolMsgFields
<1>3. Head(poolBox).agent = a
    BY <1>2
<1>4. PICK r : r = [rp EXCEPT !.agents = rp.agents \union {a}, !.zero[a] = {}]
    OBVIOUS
<1>5. Handled(r)
    BY <1>1, <1>3, <1>4 DEF AddAgent, Pools
<1>6. r \in Pools /\ r.up = rp.up /\ r.devices = rp.devices /\ r.holder = rp.holder
    BY <1>1, <1>4 DEF Pools
<1> QED BY <1>1, <1>5, <1>6, PoolHandlesNoDevice

LEMMA FreeZeroSlotDevices == ASSUME IInv, DInv, FreeZeroSlot PROVE DInv'
<1>1. Received("FreeZeroSlot") /\ rp.up /\ poolBox # <<>> /\ rp \in Pools
      /\ Head(poolBox).kind = "FreeZeroSlot" /\ Head(poolBox) \in PoolMsgs
    BY ReceivedTyped DEF FreeZeroSlot
<1>2. PICK c \in Own : Head(poolBox) = [kind |-> "FreeZeroSlot", c |-> c]
    BY <1>1, ReceivedTyped, PoolMsgFields
<1>3. Head(poolBox).c = c /\ c.agent \in Agents
    BY <1>2, OwnFields
<1>4. c.agent \in rp.agents
    BY <1>1, <1>2, <1>3, AboutKnown DEF About
<1>5. PICK r : r = [rp EXCEPT !.zero[c.agent] = rp.zero[c.agent] \ {c}]
    OBVIOUS
<1>6. Handled(r)
    BY <1>1, <1>3, <1>4, <1>5 DEF FreeZeroSlot, Pools
<1>7. r \in Pools /\ r.up = rp.up /\ r.devices = rp.devices /\ r.holder = rp.holder
    BY <1>1, <1>3, <1>5 DEF Pools
<1> QED BY <1>1, <1>6, <1>7, PoolHandlesNoDevice

LEMMA addTaskDevices == ASSUME IInv, DInv, addTask PROVE DInv'
<1>1. Received("AllocateRequest") /\ poolBox # <<>> /\ rp \in Pools
      /\ Head(poolBox).kind = "AllocateRequest"
    BY ReceivedTyped DEF addTask
<1>2. PICK t \in Tasks : Head(poolBox) = [kind |-> "AllocateRequest", task |-> t]
    BY <1>1, ReceivedTyped, PoolMsgFields
<1>3. Head(poolBox).task = t
    BY <1>2
<1>4. PICK r : r = [rp EXCEPT !.tasks = rp.tasks \union {t}]
    OBVIOUS
<1>5. Handled(r)
    BY <1>1, <1>3, <1>4 DEF addTask, Pools
<1>6. r \in Pools /\ r.up = rp.up /\ r.devices = rp.devices /\ r.holder = rp.holder
    BY <1>1, <1>4 DEF Pools
<1> QED BY <1>1, <1>5, <1>6, PoolHandlesNoDevice

LEMMA resourcesReleasedDevices == ASSUME IInv, DInv, resourcesReleased PROVE DInv'
<1>1. Received("ResourcesReleased") /\ poolBox # <<>> /\ rp \in Pools
      /\ Head(poolBox).kind = "ResourcesReleased"
    BY ReceivedTyped DEF resourcesReleased
<1>2. PICK t \in Tasks : Head(poolBox) = [kind |-> "ResourcesReleased", task |-> t]
    BY <1>1, ReceivedTyped, PoolMsgFields
<1>3. Head(poolBox).task = t
    BY <1>2
<1>4. PICK r : r = [rp EXCEPT !.tasks = rp.tasks \ {t}, !.allocated = rp.allocated \ {t}]
    OBVIOUS
<1>5. Handled(r)
    BY <1>1, <1>3, <1>4 DEF resourcesReleased, Pools
<1>6. r \in Pools /\ r.up = rp.up /\ r.devices = rp.devices /\ r.holder = rp.holder
    BY <1>1, <1>4 DEF Pools
<1> QED BY <1>1, <1>5, <1>6, PoolHandlesNoDevice

\* A device is added once, free, and while it has no container.
LEMMA AddDeviceDevices == ASSUME IInv, DInv, AddDevice PROVE DInv'
<1>1. Received("AddDevice") /\ rp.up /\ poolBox # <<>> /\ rp \in Pools
    BY ReceivedTyped DEF AddDevice
<1>2. PICK m : m = Head(poolBox)
    OBVIOUS
<1>3. m.kind = "AddDevice" /\ m.device \in Devices /\ m.container \in Holders(m.device) /\ m \in PoolMsgs
    BY <1>1, <1>2, ReceivedTyped, PoolMsgFields
<1>4. PICK e \in Devices : m.device = e
    BY <1>3
<1>5. AgentOf[e] \in Agents /\ m \in About(AgentOf[e])
    BY <1>3, <1>4, Constants DEF About
<1>6. AgentOf[e] \in rp.agents
    BY <1>1, <1>2, <1>5, AboutKnown
<1>7. rp' = [rp EXCEPT !.devices = rp.devices \union {e}, !.holder[e] = m.container,
                       !.reschedule = TRUE]
      /\ poolBox' = Tail(poolBox)
      /\ UNCHANGED <<agent, slot, agentBox, slotBox, taskBox>>
    BY <1>1, <1>2, <1>4, <1>6 DEF AddDevice, Handled, Pools
<1>8. rp'.up /\ rp'.devices = rp.devices \cup {e} /\ rp'.holder = [rp.holder EXCEPT ![e] = m.container]
    BY <1>1, <1>7 DEF Pools
<1>9. m \in DeviceAdded(e) /\ poolBox \in Seq(PoolMsgs) /\ DeviceOK(e)
    BY <1>3, <1>4, AgentTyped DEF DeviceAdded, DInv
<1>10. m.container = {}
    <2>1. Head(poolBox) \notin DeviceAddedInUse(e)
        BY <1>1, <1>9, TailBox DEF DeviceOK
    <2> QED BY <2>1, <1>2, <1>9 DEF DeviceAddedInUse
<1>11. DeviceOK(e)'
    <2>1. Some(poolBox, DeviceAdded(e)) /\ ~Some(poolBox', DeviceAdded(e))
        BY <1>1, <1>2, <1>7, <1>9, TailBox DEF DeviceOK
    <2>2. /\ e \notin rp.devices /\ Active(e) = {} /\ ~Some(poolBox, DeviceFreed(e))
          /\ slot[e].phase \notin {"absent", "starting"}
        BY <2>1, <1>9 DEF DeviceOK
    <2>3. Fewer(poolBox', poolBox)
        BY <1>1, <1>7, <1>9, FewerTail
    <2>4. Active(e)' = {} /\ slot' = slot
        BY <1>7, <2>2, ActiveSame
    <2>5. e \in rp'.devices
        BY <1>8
    <2> QED BY <1>9, <2>1, <2>2, <2>3, <2>4, <2>5 DEF DeviceOK, Fewer
<1>12. ASSUME NEW d \in Devices, d # e PROVE DeviceOK(d)'
    <2>1. Head(poolBox) \notin Telling(d)
        BY <1>2, <1>4, <1>12, TellsOf
    <2>2. (d \in rp'.devices <=> d \in rp.devices) /\ rp'.holder[d] = rp.holder[d]
        BY <1>1, <1>8, <1>12 DEF Pools
    <2> QED BY <1>1, <1>7, <2>1, <2>2, PoolHandlesOther
<1> QED BY <1>8, <1>11, <1>12 DEF DInv

\* A device is freed while the pool has it assigned, and no container is left.
LEMMA FreeDeviceDevices == ASSUME IInv, DInv, FreeDevice PROVE DInv'
<1>1. Received("FreeDevice") /\ rp.up /\ poolBox # <<>> /\ rp \in Pools /\ PoolOK(rp)
    BY ReceivedTyped DEF FreeDevice
<1>2. PICK e \in Devices : Head(poolBox) = [kind |-> "FreeDevice", device |-> e]
    BY <1>1, ReceivedTyped, PoolMsgFields
<1>3. Head(poolBox) \in DeviceFreed(e) /\ Head(poolBox).device = e
      /\ poolBox \in Seq(PoolMsgs) /\ DeviceOK(e)
    <2>1. Head(poolBox) \in DeviceFreed(e)
        BY <1>2 DEF DeviceFreed
    <2>2. Head(poolBox).device = e
        BY <1>2
    <2> QED BY <2>1, <2>2, AgentTyped DEF DInv
<1>4. Some(poolBox, DeviceFreed(e)) /\ ~Some(Tail(poolBox), DeviceFreed(e))
    BY <1>1, <1>3, TailBox DEF DeviceOK
<1>5. e \in rp.devices /\ rp.holder[e] # {} /\ Active(e) = {}
    BY <1>3, <1>4 DEF DeviceOK
<1>6. AgentOf[e] \in rp.agents
    BY <1>1, <1>5 DEF PoolOK
<1>7. rp' = [rp EXCEPT !.holder[e] = {}, !.reschedule = TRUE] /\ poolBox' = Tail(poolBox)
      /\ UNCHANGED <<agent, slot, agentBox, slotBox, taskBox>>
    BY <1>1, <1>3, <1>5, <1>6 DEF FreeDevice, Handled, Pools
<1>8. rp'.up /\ rp'.devices = rp.devices /\ rp'.holder = [rp.holder EXCEPT ![e] = {}]
    BY <1>1, <1>7 DEF Pools
<1>9. DeviceOK(e)'
    <2>1. Fewer(poolBox', poolBox)
        BY <1>1, <1>3, <1>7, FewerTail
    <2>2. Active(e)' = {} /\ slot' = slot
        BY <1>7, <1>5, ActiveSame
    <2>3. /\ ~Some(poolBox', DeviceFreed(e)) /\ ~Some(poolBox, DeviceAdded(e)) /\ e \in rp'.devices
          /\ slot[e].phase \notin {"absent", "starting"}
        BY <1>3, <1>4, <1>5, <1>7, <1>8 DEF DeviceOK
    <2> QED BY <1>3, <2>1, <2>2, <2>3 DEF DeviceOK, Fewer
<1>10. ASSUME NEW d \in Devices, d # e PROVE DeviceOK(d)'
    <2>1. Head(poolBox) \notin Telling(d)
        BY <1>3, <1>10, TellsOf
    <2>2. (d \in rp'.devices <=> d \in rp.devices) /\ rp'.holder[d] = rp.holder[d]
        BY <1>1, <1>8, <1>10 DEF Pools
    <2> QED BY <1>1, <1>7, <2>1, <2>2, PoolHandlesOther
<1> QED BY <1>8, <1>9, <1>10 DEF DInv

\* After a device has been removed no message of it follows.
LEMMA RemoveDeviceDevices == ASSUME IInv, DInv, RemoveDevice PROVE DInv'
<1>1. Received("RemoveDevice") /\ rp.up /\ poolBox # <<>> /\ rp \in Pools /\ Head(poolBox) \in PoolMsgs
    BY ReceivedTyped DEF RemoveDevice
<1>2. PICK e \in Devices : Head(poolBox) = [kind |-> "RemoveDevice", device |-> e]
    BY <1>1, ReceivedTyped, PoolMsgFields
<1>3. Head(poolBox) \in DeviceRemoved(e) /\ Head(poolBox).device = e /\ Head(poolBox).kind = "RemoveDevice"
      /\ poolBox \in Seq(PoolMsgs) /\ DeviceOK(e)
    <2>1. Head(poolBox) \in DeviceRemoved(e)
        BY <1>2 DEF DeviceRemoved
    <2>2. Head(poolBox).device = e /\ Head(poolBox).kind = "RemoveDevice"
        BY <1>2
    <2> QED BY <2>1, <2>2, AgentTyped DEF DInv
<1>4. AgentOf[e] \in Agents /\ Head(poolBox) \in About(AgentOf[e])
    BY <1>1, <1>3, Constants DEF About
<1>5. AgentOf[e] \in rp.agents
    BY <1>1, <1>4, AboutKnown
<1>6. rp' = [rp EXCEPT !.devices = rp.devices \ {e}, !.holder[e] = {}, !.reschedule = TRUE]
      /\ poolBox' = Tail(poolBox)
      /\ UNCHANGED <<agent, slot, agentBox, slotBox, taskBox>>
    BY <1>1, <1>3, <1>5 DEF RemoveDevice, Handled, Pools
<1>7. rp'.up /\ rp'.devices = rp.devices \ {e} /\ rp'.holder = [rp.holder EXCEPT ![e] = {}]
    BY <1>1, <1>6 DEF Pools
<1>8. DeviceOK(e)'
    <2>1. Fewer(poolBox', poolBox)
        BY <1>1, <1>3, <1>6, FewerTail
    <2>2. slot' = slot /\ e \notin rp'.devices
        BY <1>6, <1>7
    <2>3. ~Some(poolBox, DeviceFreed(e)) /\ ~Some(poolBox, DeviceAdded(e)) /\ Some(poolBox, DeviceRemoved(e))
        BY <1>1, <1>3, TailBox, TailOrder DEF DeviceOK
    <2>4. ~slot[e].deviceAdded /\ slot[e].phase \notin {"absent", "starting"}
        BY <1>3, <2>3 DEF DeviceOK
    <2> QED BY <1>3, <2>1, <2>2, <2>3, <2>4 DEF DeviceOK, Fewer
<1>9. ASSUME NEW d \in Devices, d # e PROVE DeviceOK(d)'
    <2>1. Head(poolBox) \notin Telling(d)
        BY <1>3, <1>9, TellsOf
    <2>2. (d \in rp'.devices <=> d \in rp.devices) /\ rp'.holder[d] = rp.holder[d]
        BY <1>1, <1>7, <1>9 DEF Pools
    <2> QED BY <1>1, <1>6, <2>1, <2>2, PoolHandlesOther
<1> QED BY <1>7, <1>8, <1>9 DEF DInv

\* An agent that is removed has no slot left, and no message of one follows.
LEMMA RemoveAgentDevices == ASSUME IInv, DInv, RemoveAgent PROVE DInv'
<1>1. Received("RemoveAgent") /\ rp.up /\ poolBox # <<>> /\ rp \in Pools
      /\ Head(poolBox).kind = "RemoveAgent" /\ poolBox \in Seq(PoolMsgs)
    BY ReceivedTyped, AgentTyped DEF RemoveAgent
<1>2. PICK a \in Agents : Head(poolBox) = [kind |-> "RemoveAgent", agent |-> a]
    BY <1>1, ReceivedTyped, PoolMsgFields
<1>3. Head(poolBox).agent = a /\ Head(poolBox) \in AgentRemoved(a)
    BY <1>2 DEF AgentRemoved
<1>4. rp' = [rp EXCEPT !.agents = rp.agents \ {a},
                       !.devices = rp.devices \ SlotsOf(a),
                       !.holder = [d \in Devices |-> IF d \in SlotsOf(a) THEN {} ELSE rp.holder[d]],
                       !.zero[a] = {}, !.reschedule = TRUE]
      /\ poolBox' = Tail(poolBox)
      /\ UNCHANGED <<agent, slot, agentBox, slotBox, taskBox>>
    BY <1>1, <1>3 DEF RemoveAgent, Handled, Pools
<1>5. /\ rp'.up /\ rp'.devices = rp.devices \ SlotsOf(a)
      /\ rp'.holder = [d \in Devices |-> IF d \in SlotsOf(a) THEN {} ELSE rp.holder[d]]
    BY <1>1, <1>4 DEF Pools
<1>6. agent[a].phase = "gone" /\ ~Some(poolBox, About(a))
    <2>1. AgentOK(a) /\ Some(poolBox, AgentRemoved(a))
        BY <1>1, <1>3, TailBox DEF IInv, AgentsOK
    <2> QED BY <2>1, <1>1, <1>3, TailOrder DEF AgentOK
<1>7. \A d \in Devices : Head(poolBox) \notin Telling(d)
    BY <1>1, TellsOf
<1>8. ASSUME NEW d \in Devices, d \notin SlotsOf(a) PROVE DeviceOK(d)'
    <2>1. (d \in rp'.devices <=> d \in rp.devices) /\ rp'.holder[d] = rp.holder[d]
        BY <1>5, <1>8
    <2> QED BY <1>1, <1>4, <1>7, <2>1, PoolHandlesOther
<1>9. ASSUME NEW d \in Devices, d \in SlotsOf(a) PROVE DeviceOK(d)'
    <2>1. Fewer(poolBox', poolBox)
        BY <1>1, <1>4, FewerTail
    <2>2. AgentOf[d] = a /\ DeviceOK(d) /\ d \notin rp'.devices
        BY <1>5, <1>9 DEF SlotsOf, DInv
    <2>3. DeviceAdded(d) \subseteq About(a) /\ DeviceFreed(d) \subseteq About(a)
        BY <2>2 DEF DeviceAdded, DeviceFreed, About, PoolMsgs
    <2>4. ~Some(poolBox, DeviceAdded(d)) /\ ~Some(poolBox, DeviceFreed(d))
        BY <1>6, <2>3 DEF Some
    <2>5. ~slot[d].deviceAdded /\ slot' = slot
        BY <1>4, <1>6, <2>2, SlotTyped DEF SlotOK
    <2>6. Active(d)' = Active(d)
        BY <1>4, ActiveSame
    <2> QED BY <2>1, <2>2, <2>4, <2>5, <2>6 DEF DeviceOK, Fewer
<1> QED BY <1>5, <1>8, <1>9 DEF DInv

\* The tick gives out free devices only.
LEMMA TickOffers ==
    ASSUME IInv, NEW order \in roundRobinSchedule(rp), NEW s, Ticked(order, s), NEW c \in Own
    PROVE  Offered(c)' => Offered(c) \/ c \in s.out
<1>1. PICK t \in Tasks : t = c.task
    BY OwnFields
<1>2. c \in OwnOfTask(t) /\ taskBox[t] \in Seq(TaskMsgs(t)) /\ s.out \in SUBSET Own
    BY <1>1, OwnFields, TaskTyped DEF Ticked, TickOK
<1>3. CASE taskBox'[t] = taskBox[t]
    BY <1>1, <1>3 DEF Offered
<1>4. CASE /\ OfferedNow(s, t) # {}
           /\ taskBox'[t] = Append(taskBox[t], [kind |-> "ResourcesAllocated", cs |-> OfferedNow(s, t)])
    <2>1. PICK m : m = [kind |-> "ResourcesAllocated", cs |-> OfferedNow(s, t)]
        OBVIOUS
    <2>2. OfferedNow(s, t) \in (SUBSET OwnOfTask(t)) \ {{}}
        BY <1>2, <1>4 DEF OfferedNow, OwnOfTask
    <2>3. m \in TaskMsgs(t)
        BY <2>1, <2>2 DEF TaskMsgs
    <2>4. m \in Offering(c) => c \in s.out
        BY <2>1 DEF Offering, OfferedNow
    <2>5. taskBox'[t] = Append(taskBox[t], m)
        BY <1>4, <2>1
    <2>6. Some(taskBox'[t], Offering(c)) => Some(taskBox[t], Offering(c)) \/ m \in Offering(c)
        BY <1>2, <2>3, <2>5, AppendBox
    <2> QED BY <1>1, <2>4, <2>6 DEF Offered
<1> QED BY <1>3, <1>4 DEF Ticked

LEMMA schedulerTickDevices == ASSUME IInv, DInv, schedulerTick PROVE DInv'
<1>1. PICK order \in roundRobinSchedule(rp) : \E s : Ticked(order, s)
    BY TickFields
<1>2. PICK s : Ticked(order, s)
    BY <1>1
<1>3. /\ TickOK(order, Len(order), s) /\ rp' = [s.pool EXCEPT !.reschedule = FALSE] /\ PoolOK(rp)
      /\ UNCHANGED <<agent, slot, poolBox, agentBox, slotBox>>
    BY <1>2 DEF Ticked, IInv
<1>4. PoolOK(rp') /\ rp'.up /\ rp'.devices = rp.devices /\ rp'.holder = s.pool.holder
    <2>1. PICK q : q = [s.pool EXCEPT !.reschedule = FALSE]
        OBVIOUS
    <2>2. PoolOK(q) /\ q.up = rp.up /\ q.devices = rp.devices /\ q.holder = s.pool.holder
        BY <1>3, <2>1, TickPool
    <2> QED BY <1>3, <2>1, <2>2 DEF DInv
<1>5. ASSUME NEW d \in Devices, NEW c \in Active(d)' PROVE c \in Active(d) \/ (c \in s.out /\ d \in c.devices)
    <2>1. c \in Own /\ d \in c.devices
        BY DEF Active, OwnOfDevice
    <2>2. Offered(c)' => Offered(c) \/ c \in s.out
        BY <1>2, <2>1, TickOffers
    <2>3. Sent(c)' <=> Sent(c)
        BY <1>3 DEF Sent
    <2> QED BY <1>3, <2>1, <2>2, <2>3 DEF Active
<1>6. ASSUME NEW d \in Devices PROVE DeviceOK(d)'
    <2>1. /\ DeviceOK(d)
          /\ rp'.holder[d] # rp.holder[d] => rp.holder[d] = {}
          /\ rp.holder[d] # {} => d \in rp.devices
          /\ rp'.holder[d] # {} => d \in rp.devices
        BY <1>3, <1>4 DEF DInv, TickOK, PoolOK
    <2>2. CASE rp'.holder[d] = rp.holder[d]
        <3>1. ASSUME NEW c \in s.out, d \in c.devices PROVE FALSE
            <4>1. rp.holder[d] = {} /\ s.pool.holder[d] = {c}
                BY <1>3, <3>1 DEF TickOK
            <4> QED BY <1>4, <2>2, <4>1
        <3>2. Active(d)' \subseteq Active(d)
            BY <1>5, <3>1
        <3> QED BY <1>3, <1>4, <2>1, <2>2, <3>2, SameOfSame, DeviceLeft
    <2>3. CASE rp'.holder[d] # rp.holder[d]
        <3>1. rp.holder[d] = {} /\ d \in rp.devices /\ Active(d) = {}
            <4>1. rp.holder[d] = {} /\ d \in rp.devices
                BY <2>1, <2>3
            <4> QED BY <2>1, <4>1 DEF DeviceOK
        <3>2. \A c \in Active(d)' : rp'.holder[d] = {c}
            BY <1>3, <1>4, <1>5, <3>1 DEF TickOK
        <3>3. /\ ~Some(poolBox, DeviceFreed(d)) /\ ~Some(poolBox, DeviceAdded(d))
              /\ slot[d].phase \notin {"absent", "starting"}
            BY <2>1, <3>1 DEF DeviceOK
        <3> QED BY <1>3, <1>4, <2>1, <3>1, <3>2, <3>3 DEF DeviceOK
    <2> QED BY <2>2, <2>3
<1> QED BY <1>4, <1>6 DEF DInv

-----------------------------------------------------------------------------
(* Devices, as their slots come, serve containers and go. *)

\* Where the slot of device e does something, and any other device.
LEMMA OtherDevices ==
    ASSUME IInv, DInv, NEW e \in Devices, NEW x, slot' = [slot EXCEPT ![e] = x],
           UNCHANGED <<rp, agent, taskBox>>,
           AgentsHearOf(agentBox', agentBox),
           \A d \in Devices : Fewer(slotBox'[d], slotBox[d]),
           \/ poolBox' = poolBox
           \/ \E m \in PoolMsgs : m.kind # "FreeZeroSlot" /\ m.device = e /\ poolBox' = Append(poolBox, m)
    PROVE  /\ \A d \in Devices : SlotHearsLess(d)
           /\ slot'[e] = x
           /\ x.container \cap OwnOfDevice(e) \subseteq Active(e) => Active(e)' \subseteq Active(e)
           /\ \A d \in Devices : d # e => DeviceOK(d)'
<1>1. \A d \in Devices : SlotHearsLess(d)
    BY DEF SlotHearsLess, Fewer
<1>2. slot'[e] = x /\ \A d \in Devices : d # e => slot'[d] = slot[d]
    BY DEF IInv, Typed
<1>3. TasksHearOf(taskBox', taskBox) /\ \A a \in Agents : agent'[a].containers \subseteq agent[a].containers
    BY QuietBoxes
<1>4. ASSUME NEW d \in Devices, slot'[d].container \cap OwnOfDevice(d) \subseteq Active(d)
      PROVE  Active(d)' \subseteq Active(d)
    BY <1>1, <1>3, <1>4, ActiveLeft
<1>5. ASSUME NEW d \in Devices, d # e PROVE DeviceOK(d)'
    <2>1. Active(d)' \subseteq Active(d)
        BY <1>2, <1>4, <1>5, SlotContainerActive
    <2>2. SameOf(d, poolBox', poolBox)
        <3>1. CASE poolBox' = poolBox
            BY <3>1, SameOfSame
        <3>2. ASSUME NEW m \in PoolMsgs, m.device = e, poolBox' = Append(poolBox, m)
              PROVE  SameOf(d, poolBox', poolBox)
            <4>1. m \notin Telling(d)
                BY <3>2, <1>5, TellsOf
            <4> QED BY <3>2, <4>1, AgentTyped, SameOfAppend
        <3> QED BY <3>1, <3>2
    <2> QED BY <1>2, <1>5, <2>1, <2>2, DeviceLeft DEF DInv
<1> QED BY <1>1, <1>2, <1>4, <1>5

\* What the patch of a slot sends to a pool that is up.
LEMMA PatchAdds ==
    ASSUME IInv, rp.up, NEW d \in Devices, NEW x, ~x.deviceAdded, x.container \in Holders(d),
           patch(d, x, TRUE)
    PROVE  \E m \in DeviceAdded(d) : m.container = x.container /\ poolBox' = Append(poolBox, m)
<1>1. poolBox \in Seq(PoolMsgs)
    BY AgentTyped
<1>2. PICK m : m = [kind |-> "AddDevice", device |-> d, container |-> x.container]
    OBVIOUS
<1>3. m \in [kind : {"AddDevice"}, device : {d}, container : Holders(d)]
    BY <1>2
<1>4. m \in DeviceMsgs
    BY <1>3 DEF DeviceMsgs
<1>5. m \in PoolMsgs /\ m \in DeviceAdded(d) /\ m.container = x.container
    BY <1>2, <1>4 DEF PoolMsgs, DeviceAdded
<1>6. poolBox' = poolBox \o <<m>>
    BY <1>2 DEF patch, ToPool
<1>7. poolBox' = Append(poolBox, m)
    BY <1>1, <1>5, <1>6, ToPoolForms
<1> QED BY <1>5, <1>7

LEMMA PatchRemoves ==
    ASSUME IInv, rp.up, NEW d \in Devices, NEW x, x.deviceAdded, patch(d, x, FALSE)
    PROVE  \E m \in DeviceRemoved(d) : poolBox' = Append(poolBox, m)
<1>1. poolBox \in Seq(PoolMsgs)
    BY AgentTyped
<1>2. PICK m : m = [kind |-> "RemoveDevice", device |-> d]
    OBVIOUS
<1>3. m \in PoolMsgs /\ m \in DeviceRemoved(d)
    BY <1>2 DEF PoolMsgs, DeviceRemoved
<1>4. poolBox' = poolBox \o <<m>>
    BY <1>2 DEF patch, ToPool
<1>5. poolBox' = Append(poolBox, m)
    BY <1>1, <1>3, <1>4, ToPoolForms
<1> QED BY <1>3, <1>5

LEMMA PatchSendsNothing ==
    ASSUME IInv, rp.up, NEW d \in Devices, NEW x,
           (patch(d, x, FALSE) /\ ~x.deviceAdded) \/ (patch(d, x, TRUE) /\ x.deviceAdded)
    PROVE  poolBox' = poolBox
<1>1. poolBox \in Seq(PoolMsgs)
    BY AgentTyped
<1>2. poolBox' = poolBox \o <<>>
    BY DEF patch, ToPool
<1> QED BY <1>1, <1>2, ToPoolForms

LEMMA DeviceMsgsOf ==
    ASSUME NEW d \in Devices
    PROVE  /\ \A m \in DeviceAdded(d) :
                 /\ m \in PoolMsgs /\ m.device = d /\ m.kind # "FreeZeroSlot"
                 /\ m \notin DeviceFreed(d) /\ m \notin DeviceRemoved(d)
           /\ \A m \in DeviceFreed(d) :
                 /\ m \in PoolMsgs /\ m.device = d /\ m.kind # "FreeZeroSlot"
                 /\ m \notin DeviceAdded(d) /\ m \notin DeviceRemoved(d)
           /\ \A m \in DeviceRemoved(d) :
                 /\ m \in PoolMsgs /\ m.device = d /\ m.kind # "FreeZeroSlot"
                 /\ m \notin DeviceAdded(d) /\ m \notin DeviceFreed(d)
BY DEF DeviceAdded, DeviceFreed, DeviceRemoved, PoolMsgs

\* A slot comes up: its device is added for the first time.
LEMMA SlotPreStartDevices == ASSUME IInv, DInv, NEW e \in Devices, SlotPreStart(e) PROVE DInv'
<1>0. PICK x : x = [slot[e] EXCEPT !.phase = "up"]
    OBVIOUS
<1>1. /\ x \in [phase : {"up", "gone"}, userEnabled : BOOLEAN, deviceAdded : BOOLEAN,
                container : SUBSET Own]
      /\ x.container = {} /\ x.container \in Holders(e) /\ x.phase = "up" /\ ~x.deviceAdded
    BY <1>0, SlotTyped DEF SlotPreStart, SlotOK
<1>2. /\ patch(e, x, TRUE) /\ slot[e].phase = "starting" /\ rp.up
      /\ UNCHANGED <<rp, agent, slotBox, taskBox>>
    BY <1>0 DEF SlotPreStart, DInv
<1>3. PICK y : y = [x EXCEPT !.deviceAdded = TRUE]
    OBVIOUS
<1>4. y.container = {} /\ y.phase = "up" /\ y.deviceAdded
    BY <1>1, <1>3
<1>5. AgentsHearOf(agentBox', agentBox) /\ slot' = [slot EXCEPT ![e] = y]
    BY <1>1, <1>2, <1>3, PatchTells
<1>6. PICK m \in DeviceAdded(e) : m.container = x.container /\ poolBox' = Append(poolBox, m)
    BY <1>1, <1>2, PatchAdds
<1>7. /\ m \in PoolMsgs /\ m.device = e /\ m.kind # "FreeZeroSlot"
      /\ m \notin DeviceFreed(e) /\ m \notin DeviceRemoved(e) /\ poolBox \in Seq(PoolMsgs)
    BY DeviceMsgsOf, AgentTyped
<1>8. \A d \in Devices : Fewer(slotBox'[d], slotBox[d])
    BY <1>2, FewerSame
<1>9. /\ slot'[e] = y /\ Active(e)' \subseteq Active(e)
      /\ \A d \in Devices : d # e => DeviceOK(d)'
    BY <1>2, <1>4, <1>5, <1>6, <1>7, <1>8, OtherDevices
<1>10. DeviceOK(e)'
    <2>1. /\ DeviceOK(e) /\ e \notin rp.devices /\ Active(e) = {}
          /\ ~Some(poolBox, DeviceAdded(e)) /\ ~Some(poolBox, DeviceRemoved(e)) /\ ~Some(poolBox, DeviceFreed(e))
        BY <1>2 DEF DInv, DeviceOK
    <2>2. Active(e)' = {} /\ e \notin rp'.devices
        BY <1>2, <1>9, <2>1
    <2>3. m \notin DeviceAddedInUse(e)
        BY <1>1, <1>6 DEF DeviceAddedInUse
    <2>4. /\ Some(poolBox', DeviceAdded(e)) /\ ~Some(poolBox', DeviceRemoved(e))
          /\ ~Some(poolBox', DeviceFreed(e)) /\ ~Some(poolBox', DeviceAddedInUse(e))
          /\ One(poolBox', DeviceAdded(e)) /\ One(poolBox', DeviceFreed(e))
        BY <1>6, <1>7, <2>1, <2>3, AppendBox DEF DeviceOK
    <2>5. /\ Before(poolBox', DeviceFreed(e), DeviceRemoved(e))
          /\ Before(poolBox', DeviceAdded(e), DeviceRemoved(e))
        BY <2>4 DEF Before, Some
    <2> QED BY <1>4, <1>9, <2>2, <2>4, <2>5 DEF DeviceOK
<1> QED BY <1>2, <1>9, <1>10 DEF DInv

\* A slot is disabled, or goes: its device is removed if it is offered.
LEMMA DeviceWithdrawn ==
    ASSUME IInv, DInv, NEW e \in Devices, slot[e].phase = "up",
           NEW x \in [phase : {"up", "gone"}, userEnabled : BOOLEAN, deviceAdded : BOOLEAN,
                      container : SUBSET Own],
           x.container = slot[e].container, x.deviceAdded = slot[e].deviceAdded,
           patch(e, x, FALSE), UNCHANGED <<rp, agent, taskBox>>,
           \A d \in Devices : Fewer(slotBox'[d], slotBox[d])
    PROVE  DInv'
<1>1. x.container \in Holders(e) /\ rp.up /\ DeviceOK(e)
    BY SlotTyped DEF DInv
<1>2. PICK y : y = [x EXCEPT !.deviceAdded = FALSE]
    OBVIOUS
<1>3. y.container = slot[e].container /\ y.phase \in {"up", "gone"} /\ ~y.deviceAdded
    BY <1>2
<1>4. AgentsHearOf(agentBox', agentBox) /\ slot' = [slot EXCEPT ![e] = y]
    BY <1>1, <1>2, PatchTells
<1>5. /\ x.deviceAdded => \E m \in DeviceRemoved(e) : poolBox' = Append(poolBox, m)
      /\ ~x.deviceAdded => poolBox' = poolBox
    BY <1>1, PatchRemoves, PatchSendsNothing
<1>6. \/ poolBox' = poolBox
      \/ \E m \in PoolMsgs : m.kind # "FreeZeroSlot" /\ m.device = e /\ poolBox' = Append(poolBox, m)
    BY <1>5, DeviceMsgsOf
<1>7. /\ slot'[e] = y /\ Active(e)' \subseteq Active(e)
      /\ \A d \in Devices : d # e => DeviceOK(d)'
    BY <1>3, <1>4, <1>6, OtherDevices, SlotContainerActive
<1>8. DeviceOK(e)'
    <2>1. CASE poolBox' = poolBox
        BY <1>1, <1>3, <1>7, <2>1, SameOfSame, DeviceLeft
    <2>2. ASSUME NEW m \in DeviceRemoved(e), poolBox' = Append(poolBox, m), x.deviceAdded
          PROVE  DeviceOK(e)'
        <3>1. m \in PoolMsgs /\ m \notin DeviceFreed(e) /\ m \notin DeviceAdded(e) /\ poolBox \in Seq(PoolMsgs)
            BY DeviceMsgsOf, AgentTyped
        <3>2. m \notin DeviceAddedInUse(e)
            BY <3>1 DEF DeviceAddedInUse
        <3>3. /\ Some(poolBox', DeviceAdded(e)) <=> Some(poolBox, DeviceAdded(e))
              /\ Some(poolBox', DeviceFreed(e)) <=> Some(poolBox, DeviceFreed(e))
              /\ Some(poolBox', DeviceAddedInUse(e)) <=> Some(poolBox, DeviceAddedInUse(e))
              /\ One(poolBox, DeviceAdded(e)) => One(poolBox', DeviceAdded(e))
              /\ One(poolBox, DeviceFreed(e)) => One(poolBox', DeviceFreed(e))
            BY <2>2, <3>1, <3>2, AppendBox
        <3>4. /\ Before(poolBox, DeviceFreed(e), DeviceRemoved(e))
                    => Before(poolBox', DeviceFreed(e), DeviceRemoved(e))
              /\ Before(poolBox, DeviceAdded(e), DeviceRemoved(e))
                    => Before(poolBox', DeviceAdded(e), DeviceRemoved(e))
            BY <2>2, <3>1, AppendOrder
        <3> QED BY <1>1, <1>3, <1>7, <3>3, <3>4 DEF DeviceOK
    <2> QED BY <1>5, <2>1, <2>2
<1> QED BY <1>1, <1>7, <1>8 DEF DInv

LEMMA PatchSlotDevices ==
    ASSUME IInv, DInv, NEW e \in Devices, NEW enabled \in BOOLEAN, PatchSlot(e, enabled),
           ~slot[e].userEnabled => ~slot'[e].userEnabled
    PROVE  DInv'
<1>0. PICK x : x = [slot[e] EXCEPT !.userEnabled = enabled]
    OBVIOUS
<1>1. /\ x \in [phase : {"up", "gone"}, userEnabled : BOOLEAN, deviceAdded : BOOLEAN,
                container : SUBSET Own]
      /\ x.container \in Holders(e) /\ x.userEnabled = enabled /\ x.phase = "up"
      /\ x.container = slot[e].container /\ x.deviceAdded = slot[e].deviceAdded
    BY <1>0, SlotTyped DEF PatchSlot
<1>2. /\ patch(e, x, enabled) /\ slot[e].phase = "up" /\ UNCHANGED <<rp, agent, slotBox, taskBox>>
    BY <1>0 DEF PatchSlot
<1>3. \A d \in Devices : Fewer(slotBox'[d], slotBox[d])
    BY <1>2, FewerSame
<1>4. CASE enabled = FALSE
    BY <1>1, <1>2, <1>3, <1>4, DeviceWithdrawn
<1>5. CASE enabled = TRUE
    <2>1. PICK y : y = [x EXCEPT !.deviceAdded = TRUE]
        OBVIOUS
    <2>2. y.container = slot[e].container /\ y.phase = "up" /\ y.deviceAdded /\ y.userEnabled
        BY <1>1, <1>5, <2>1
    <2>3. AgentsHearOf(agentBox', agentBox) /\ slot' = [slot EXCEPT ![e] = y]
        <3>1. patch(e, x, TRUE)
            BY <1>2, <1>5
        <3> QED BY <1>1, <2>1, <3>1, PatchTells
    <2>4. slot'[e] = y
        BY <2>3 DEF IInv, Typed
    <2>5. slot[e].userEnabled /\ slot[e].deviceAdded
        BY <1>2, <2>2, <2>4, SlotTyped DEF SlotOK
    <2>6. poolBox' = poolBox
        <3>1. patch(e, x, TRUE) /\ x.deviceAdded
            BY <1>1, <1>2, <1>5, <2>5
        <3> QED BY <3>1, PatchSendsNothing DEF DInv
    <2>7. Active(e)' \subseteq Active(e) /\ \A d \in Devices : d # e => DeviceOK(d)'
        BY <1>2, <1>3, <2>2, <2>3, <2>6, OtherDevices, SlotContainerActive
    <2>8. DeviceOK(e)'
        BY <1>2, <2>2, <2>4, <2>5, <2>6, <2>7, SameOfSame, DeviceLeft DEF DInv
    <2> QED BY <1>2, <2>7, <2>8 DEF DInv
<1> QED BY <1>4, <1>5

LEMMA SlotClosesDevices ==
    ASSUME IInv, DInv, NEW e \in Devices, slot[e].phase = "up", SlotCloses(e),
           UNCHANGED <<rp, agent, host, task, taskBox, used>>
    PROVE  DInv'
<1>0. PICK x : x = [slot[e] EXCEPT !.phase = "gone"]
    OBVIOUS
<1>1. /\ x \in [phase : {"up", "gone"}, userEnabled : BOOLEAN, deviceAdded : BOOLEAN,
                container : SUBSET Own]
      /\ x.container = slot[e].container /\ x.deviceAdded = slot[e].deviceAdded
    BY <1>0, SlotTyped
<1>2. patch(e, x, FALSE) /\ slotBox' = [slotBox EXCEPT ![e] = <<>>]
    BY <1>0 DEF SlotCloses
<1>3. \A d \in Devices : Fewer(slotBox'[d], slotBox[d])
    BY <1>2, FewerEmpty, FewerSame, SlotTyped
<1> QED BY <1>1, <1>2, <1>3, DeviceWithdrawn

LEMMA SlotStopDevices == ASSUME IInv, DInv, NEW e \in Devices, SlotStop(e) PROVE DInv'
BY SlotClosesDevices DEF SlotStop, SlotReceived

LEMMA SlotStartContainerDevices ==
    ASSUME IInv, DInv, NEW e \in Devices, SlotStartContainer(e) PROVE DInv'
<1>1. /\ slot[e].phase = "up" /\ slotBox[e] # <<>> /\ Head(slotBox[e]).kind = "StartContainer"
      /\ UNCHANGED <<rp, agent, host, task, taskBox, used>>
    BY DEF SlotStartContainer, SlotReceived
<1>2. CASE SlotCloses(e)
    BY <1>1, <1>2, SlotClosesDevices
<1>3. CASE ~SlotCloses(e)
    <2>1. PICK c : c = Head(slotBox[e]).c
        OBVIOUS
    <2>2. c \in OwnOfDevice(e) /\ Head(slotBox[e]) = [kind |-> "StartContainer", c |-> c]
        BY <2>1, <1>1, SlotTyped, TailType, SlotMsgFields
    <2>3. PICK x : x = [slot[e] EXCEPT !.container = {c}]
        OBVIOUS
    <2>4. /\ slot' = [slot EXCEPT ![e] = x] /\ UNCHANGED <<poolBox, agentBox>>
          /\ slotBox' = [slotBox EXCEPT ![e] = Tail(slotBox[e])]
        BY <1>3, <2>1, <2>3, SlotTyped DEF SlotStartContainer
    <2>5. x.phase = "up" /\ x.deviceAdded = slot[e].deviceAdded /\ x.container = {c}
        BY <1>1, <2>3, SlotTyped
    <2>6. c \in Active(e)
        <3>1. Head(slotBox[e]) \in SlotStart(c) /\ slotBox[e] \in Seq(SlotMsgs(e))
            BY <2>2, SlotTyped DEF SlotStart
        <3>2. Some(slotBox[e], SlotStart(c))
            BY <1>1, <3>1, TailBox
        <3> QED BY <2>2, <3>2 DEF Active
    <2>7. /\ slot'[e] = x /\ Active(e)' \subseteq Active(e)
          /\ \A d \in Devices : d # e => DeviceOK(d)'
        <3>1. x.container \cap OwnOfDevice(e) \subseteq Active(e)
            BY <2>5, <2>6
        <3>2. AgentsHearOf(agentBox', agentBox) /\ \A d \in Devices : Fewer(slotBox'[d], slotBox[d])
            BY <1>1, <2>4, SlotTakes, QuietBoxes
        <3> QED BY <1>1, <2>4, <3>1, <3>2, OtherDevices
    <2>8. DeviceOK(e)'
        BY <1>1, <2>4, <2>5, <2>7, SameOfSame, DeviceLeft DEF DInv
    <2> QED BY <1>1, <2>7, <2>8 DEF DInv
<1> QED BY <1>2, <1>3

\* A terminated container was the only one on its device: none is left.
LEMMA NoneLeft ==
    ASSUME IInv, DInv, NEW e \in Devices, slot[e].phase = "up", slot[e].deviceAdded,
           NEW c \in OwnOfDevice(e), slot[e].container = {c}, slotBox[e] # <<>>,
           Head(slotBox[e]) = [kind |-> "Terminated", c |-> c],
           UNCHANGED <<rp, agent, agentBox, taskBox>>,
           slotBox'[e] = Tail(slotBox[e]), slot'[e].container = {},
           Active(e)' \subseteq Active(e)
    PROVE  Active(e)' = {} /\ Active(e) # {} /\ e \in rp.devices /\ rp.holder[e] = {c}
<1>1. c \in Active(e) /\ DeviceOK(e)
    BY DEF Active, DInv
<1>2. e \in rp.devices /\ rp.holder[e] = {c}
    BY <1>1 DEF DeviceOK
<1>3. \A b \in Active(e) : b = c
    <2>1. \A b \in Active(e) : rp.holder[e] = {b}
        BY <1>1, <1>2 DEF DeviceOK
    <2> QED BY <1>2, <2>1
<1>4. c \in Own /\ OnSlotOK(c, e) /\ ContainerOK(c)
    BY DEF IInv, LifeOK, OwnOfDevice
<1>5. Head(slotBox[e]) \in SlotEnd(c) /\ slotBox[e] \in Seq(SlotMsgs(e))
    BY SlotTyped DEF SlotEnd
<1>6. Some(slotBox[e], SlotEnd(c)) /\ ~Some(slotBox'[e], SlotEnd(c))
    BY <1>4, <1>5, TailBox DEF OnSlotOK
<1>7. ~Some(slotBox[e], SlotStart(c)) /\ ~Some(slotBox'[e], SlotStart(c))
    BY <1>4, <1>5, TailBox, TailOrder DEF OnSlotOK
<1>8. Born(c) /\ c \notin agent[c.agent].containers /\ ~Offered(c) /\ ~Sent(c)
    BY <1>4, <1>6 DEF OnSlotOK, ContainerOK
<1>9. ~Offered(c)' /\ ~Sent(c)'
    BY <1>8 DEF Offered, Sent
<1>10. c \notin Active(e)'
    BY <1>6, <1>7, <1>8, <1>9 DEF Active
<1> QED BY <1>1, <1>2, <1>3, <1>10

LEMMA SlotContainerTerminatedDevices ==
    ASSUME IInv, DInv, NEW e \in Devices, SlotContainerTerminated(e) PROVE DInv'
<1>1. /\ slot[e].phase = "up" /\ slotBox[e] # <<>> /\ Head(slotBox[e]).kind = "Terminated"
      /\ UNCHANGED <<rp, agent, host, task, taskBox, used>>
    BY DEF SlotContainerTerminated, SlotReceived
<1>2. CASE SlotCloses(e)
    BY <1>1, <1>2, SlotClosesDevices
<1>3. CASE ~SlotCloses(e)
    <2>1. PICK c : c = Head(slotBox[e]).c
        OBVIOUS
    <2>2. c \in OwnOfDevice(e) /\ Head(slotBox[e]) = [kind |-> "Terminated", c |-> c]
        BY <2>1, <1>1, SlotTyped, TailType, SlotMsgFields
    <2>3. PICK x : x = [slot[e] EXCEPT !.container = {}]
        OBVIOUS
    <2>4. /\ slot[e].container = {c} /\ slot' = [slot EXCEPT ![e] = x] /\ UNCHANGED agentBox
          /\ slotBox' = [slotBox EXCEPT ![e] = Tail(slotBox[e])]
          /\ poolBox' = ToPool(IF slot[e].userEnabled
                               THEN <<[kind |-> "FreeDevice", device |-> e]>> ELSE <<>>)
        BY <1>3, <2>1, <2>3, SlotTyped DEF SlotContainerTerminated
    <2>5. x.phase = "up" /\ x.deviceAdded = slot[e].deviceAdded /\ x.container = {}
        BY <1>1, <2>3, SlotTyped
    <2>6. rp.up /\ DeviceOK(e) /\ poolBox \in Seq(PoolMsgs) /\ slot[e].userEnabled = slot[e].deviceAdded
        BY <1>1, SlotTyped, AgentTyped DEF DInv, SlotOK
    <2>7. /\ AgentsHearOf(agentBox', agentBox) /\ \A d \in Devices : Fewer(slotBox'[d], slotBox[d])
          /\ x.container \cap OwnOfDevice(e) \subseteq Active(e)
        BY <1>1, <2>4, <2>5, SlotTakes, QuietBoxes
    <2>8. CASE ~slot[e].userEnabled
        <3>1. poolBox' = poolBox \o <<>>
            BY <2>4, <2>6, <2>8 DEF ToPool
        <3>2. poolBox' = poolBox
            BY <2>6, <3>1, ToPoolForms
        <3>3. /\ slot'[e] = x /\ Active(e)' \subseteq Active(e)
              /\ \A d \in Devices : d # e => DeviceOK(d)'
            BY <1>1, <2>4, <2>7, <3>2, OtherDevices
        <3>4. DeviceOK(e)'
            BY <1>1, <2>5, <2>6, <3>2, <3>3, SameOfSame, DeviceLeft
        <3> QED BY <1>1, <2>6, <3>3, <3>4 DEF DInv
    <2>9. CASE slot[e].userEnabled
        <3>1. PICK m : m = [kind |-> "FreeDevice", device |-> e]
            OBVIOUS
        <3>2. m \in DeviceFreed(e)
            BY <3>1 DEF DeviceFreed
        <3>3. /\ m \in PoolMsgs /\ m.device = e /\ m.kind # "FreeZeroSlot"
              /\ m \notin DeviceAdded(e) /\ m \notin DeviceRemoved(e)
            BY <3>2, DeviceMsgsOf
        <3>4. poolBox' = poolBox \o <<m>>
            BY <2>4, <2>6, <2>9, <3>1 DEF ToPool
        <3>5. poolBox' = Append(poolBox, m)
            BY <2>6, <3>3, <3>4, ToPoolForms
        <3>6. /\ slot'[e] = x /\ Active(e)' \subseteq Active(e)
              /\ \A d \in Devices : d # e => DeviceOK(d)'
            BY <1>1, <2>4, <2>7, <3>3, <3>5, OtherDevices
        <3>7. slotBox'[e] = Tail(slotBox[e])
            BY <2>4, SlotTyped
        <3>8. Active(e)' = {} /\ Active(e) # {} /\ e \in rp.devices /\ rp.holder[e] = {c}
            BY <1>1, <2>2, <2>4, <2>5, <2>6, <2>9, <3>6, <3>7, NoneLeft
        <3>9. /\ ~Some(poolBox, DeviceFreed(e)) /\ ~Some(poolBox, DeviceAdded(e))
              /\ ~Some(poolBox, DeviceRemoved(e))
            BY <2>6, <2>9, <3>8 DEF DeviceOK
        <3>10. m \notin DeviceAddedInUse(e)
            BY <3>3 DEF DeviceAddedInUse
        <3>11. /\ ~Some(poolBox', DeviceAdded(e)) /\ ~Some(poolBox', DeviceRemoved(e))
               /\ ~Some(poolBox', DeviceAddedInUse(e))
               /\ One(poolBox', DeviceAdded(e)) /\ One(poolBox', DeviceFreed(e))
            BY <2>6, <3>3, <3>5, <3>9, <3>10, AppendBox DEF DeviceOK
        <3>12. /\ Before(poolBox', DeviceFreed(e), DeviceRemoved(e))
               /\ Before(poolBox', DeviceAdded(e), DeviceRemoved(e))
            BY <3>11 DEF Before, Some
        <3>13. DeviceOK(e)'
            BY <1>1, <2>5, <3>6, <3>8, <3>11, <3>12 DEF DeviceOK
        <3> QED BY <1>1, <2>6, <3>6, <3>13 DEF DInv
    <2> QED BY <2>8, <2>9
<1> QED BY <1>2, <1>3

-----------------------------------------------------------------------------
(* The pool while no user enables a slot again that was disabled. *)
NeverReenabled == \A d \in Devices : ~slot[d].userEnabled => ~slot'[d].userEnabled

LEMMA InitDevices == Init => DInv
<1> SUFFICES ASSUME Init PROVE DInv
    OBVIOUS
<1>1. /\ rp.up /\ rp.devices = {} /\ poolBox = <<>>
      /\ \A d \in Devices : slot[d].phase = "absent" /\ ~slot[d].deviceAdded /\ slot[d].container = {}
      /\ \A d \in Devices : slotBox[d] = <<>>
      /\ \A a \in Agents : agentBox[a] = <<>> /\ agent[a].containers = {}
      /\ \A t \in Tasks : taskBox[t] = <<>>
    BY DEF Init
<1>2. ASSUME NEW d \in Devices PROVE Active(d) = {}
    <2> SUFFICES ASSUME NEW c \in OwnOfDevice(d) PROVE c \notin Active(d)
        BY DEF Active
    <2>1. c.task \in Tasks /\ c.agent \in Agents
        BY OwnFields DEF OwnOfDevice
    <2>2. \A S : ~Some(<<>>, S)
        BY EmptyBox
    <2> QED BY <1>1, <2>1, <2>2 DEF Active, Offered, Sent
<1>3. \A S, T : ~Some(poolBox, S) /\ One(poolBox, S) /\ Before(poolBox, S, T)
    BY <1>1, EmptyBox
<1> QED BY <1>1, <1>2, <1>3 DEF DInv, DeviceOK

LEMMA PoolReceiveDevices == ASSUME IInv, DInv, PoolReceive PROVE DInv'
BY AddAgentDevices, AddDeviceDevices, FreeDeviceDevices, FreeZeroSlotDevices, RemoveDeviceDevices,
   RemoveAgentDevices, addTaskDevices, resourcesReleasedDevices DEF PoolReceive

LEMMA NextDevices == IInv /\ DInv /\ [Next]_vars /\ [NeverReenabled]_vars => DInv'
<1> SUFFICES ASSUME IInv, DInv, [Next]_vars, [NeverReenabled]_vars PROVE DInv'
    OBVIOUS
<1>1. CASE PoolReceive
    BY <1>1, PoolReceiveDevices
<1>2. CASE schedulerTick
    BY <1>2, schedulerTickDevices
<1>3. ASSUME NEW d \in Devices,
             SlotPreStart(d) \/ SlotStop(d) \/ SlotStartContainer(d) \/ SlotContainerTerminated(d)
      PROVE  DInv'
    BY <1>3, SlotPreStartDevices, SlotStopDevices, SlotStartContainerDevices,
       SlotContainerTerminatedDevices
<1>4. ASSUME NEW a \in Agents,
             \/ StartTaskContainer(a) \/ KillTaskContainer(a) \/ containerStateChanged(a)
             \/ AgentPostStop(a) \/ AgentFails(a) \/ AgentStarted(a)
      PROVE  DInv'
    BY <1>4, StartTaskContainerDevices, KillTaskContainerDevices, containerStateChangedDevices,
       AgentPostStopDevices, AgentFailsDevices, AgentStartedDevices
<1>5. ASSUME NEW c \in host.killed, ContainerKilled(c) PROVE DInv'
    BY <1>5, AgentTyped, ContainerEndsDevices DEF ContainerKilled
<1>6. ASSUME NEW c \in host.live, ContainerExits(c) PROVE DInv'
    BY <1>6, ContainerEndsDevices DEF ContainerExits
<1>7. ASSUME NEW t \in Tasks,
             \/ ResourcesAllocated(t) \/ TaskContainerTerminated(t)
             \/ Launch(t) \/ terminate(t) \/ TaskPostStop(t)
      PROVE  DInv'
    BY <1>7, ResourcesAllocatedDevices, TaskContainerTerminatedDevices, LaunchDevices,
       terminateDevices, TaskPostStopDevices
<1>8. ASSUME NEW d \in Devices, NEW enabled \in BOOLEAN, PatchSlot(d, enabled) PROVE DInv'
    <2>1. ~slot[d].userEnabled => ~slot'[d].userEnabled
        BY DEF NeverReenabled, vars
    <2> QED BY <1>8, <2>1, PatchSlotDevices
<1>9. CASE UNCHANGED vars
    BY <1>9 DEF vars, DInv, DeviceOK, Active, Offered, Sent
<1> QED BY <1>1, <1>2, <1>3, <1>4, <1>5, <1>6, <1>7, <1>8, <1>9 DEF Next, Progress

LEMMA DeviceInvariance == Spec /\ [][NeverReenabled]_vars => [](IInv /\ DInv)
<1>1. Init => IInv /\ DInv
    BY InitKeeps, InitDevices
<1>2. (IInv /\ DInv) /\ [Next]_vars /\ [NeverReenabled]_vars => (IInv /\ DInv)'
    BY NextKeeps, NextDevices
<1> QED BY <1>1, <1>2, PTL DEF Spec

LEMMA NoPanic == IInv /\ DInv => PoolNeverPanics
<1> SUFFICES ASSUME IInv, DInv, NEW a \in Agents, NEW i \in DOMAIN agentBox[a],
                    agentBox[a][i].kind = "Terminated"
             PROVE  agentBox[a][i].c \in agent[a].containers
    BY DEF PoolNeverPanics, DInv
<1>1. PICK m : m = agentBox[a][i]
    OBVIOUS
<1>2. m \in AgentMsgs(a) /\ m.kind = "Terminated"
    BY <1>1, AgentTyped
<1>3. PICK c \in OwnOfAgent(a) : m = [kind |-> "Terminated", c |-> c]
    BY <1>2 DEF AgentMsgs
<1>4. c \in Own /\ c.agent = a /\ m.c = c
    BY <1>3 DEF OwnOfAgent
<1>5. Reported(c)
    BY <1>1, <1>3, <1>4 DEF Reported, Report, Some
<1> QED BY <1>1, <1>4, <1>5 DEF IInv, LifeOK, ContainerOK

LEMMA Idle == IInv /\ DInv => FreeDevicesAreIdle
<1> SUFFICES ASSUME IInv, DInv, NEW d \in rp.devices, rp.holder[d] = {}, NEW c \in Containers,
                    d \in c.devices, c \in host.live \/ Starting(c)
             PROVE  FALSE
    BY DEF FreeDevicesAreIdle
<1>1. d \in Devices /\ DeviceOK(d)
    BY DEF IInv, PoolOK, Pools, DInv
<1>2. Active(d) = {}
    BY <1>1 DEF DeviceOK
<1>3. c.task \in Tasks /\ c.agent \in Agents
    BY DEF Containers
<1>4. CASE c \in host.live
    <2>1. c \in Own /\ c \in agent[c.agent].containers
        BY <1>4, AgentTyped DEF IInv, LifeOK, ContainerOK
    <2> QED BY <1>2, <2>1 DEF Active, OwnOfDevice
<1>5. ASSUME NEW i \in DOMAIN taskBox[c.task], taskBox[c.task][i].kind = "ResourcesAllocated",
             c \in taskBox[c.task][i].cs
      PROVE  FALSE
    <2>1. PICK m : m = taskBox[c.task][i]
        OBVIOUS
    <2>2. m \in TaskMsgs(c.task) /\ m.kind = "ResourcesAllocated" /\ c \in m.cs
        BY <1>3, <1>5, <2>1, TaskTyped
    <2>3. c \in Own
        BY <2>2 DEF TaskMsgs, OwnOfTask
    <2>4. Offered(c)
        BY <2>1, <2>2 DEF Offered, Offering, Some
    <2> QED BY <1>2, <2>3, <2>4 DEF Active, OwnOfDevice
<1>6. ASSUME NEW i \in DOMAIN agentBox[c.agent],
             agentBox[c.agent][i] = [kind |-> "StartTaskContainer", c |-> c]
      PROVE  FALSE
    <2>1. PICK m : m = agentBox[c.agent][i]
        OBVIOUS
    <2>2. m \in AgentMsgs(c.agent) /\ m.c = c
        BY <1>3, <1>6, <2>1, AgentTyped
    <2>3. c \in Own
        BY <2>2 DEF AgentMsgs, OwnOfAgent
    <2>4. Sent(c)
        BY <1>6 DEF Sent, Start, Some
    <2> QED BY <1>2, <2>3, <2>4 DEF Active, OwnOfDevice
<1> QED BY <1>4, <1>5, <1>6 DEF Starting

\* While users disable slots for good, the messages of agents and slots reach
\* the pool in an order it can handle: every device that is added, freed or
\* removed is of an agent it knows, every device that is freed is assigned,
\* however often agents fail and containers end.  An agent is never told of the
\* end of a container it does not know.
THEOREM PoolKeepsUp == Spec /\ [][NeverReenabled]_vars => []PoolNeverPanics
BY DeviceInvariance, NoPanic, PTL

\* While users disable slots for good: a device the pool takes for free has
\* no container, and no message on its way will start one there.
THEOREM FreeIsIdle == Spec /\ [][NeverReenabled]_vars => []FreeDevicesAreIdle
BY DeviceInvariance, Idle, PTL
=============================================================================
