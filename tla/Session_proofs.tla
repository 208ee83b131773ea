--------------------------- MODULE Session_proofs ---------------------------
(***************************************************************************)
(* Proofs about Session: the barriers keep the clients of a node in step   *)
(* and, with one host, nobody leaves before everybody has stopped.         *)
(***************************************************************************)
EXTENDS Session, FiniteSetTheorems, SequenceTheorems, TLAPS

-----------------------------------------------------------------------------
(* Nodes and clients *)

\* The clients of a node are as many as it has threads.
LEMMA OnNode ==
  ASSUME NEW n \in Nodes
  PROVE  /\ On(n) \subseteq Clients /\ IsFiniteSet(On(n)) /\ Cardinality(On(n)) = ThreadCount
         /\ <<n, 0>> \in On(n) /\ Master(<<n, 0>>)
         /\ \A c \in On(n) : NodeOf(c) = n /\ (Master(c) => c = <<n, 0>>)
<1> DEFINE T == 0..(ThreadCount - 1)
<1>1. On(n) = {n} \X T
  BY DEF On, Clients, NodeOf
<1>2. IsFiniteSet(T) /\ Cardinality(T) = ThreadCount /\ 0 \in T
  <2>1. ThreadCount \in Nat /\ ThreadCount > 0
    BY SessionAssumption
  <2>2. 0 \in Int /\ ThreadCount - 1 \in Int /\ ~(0 > ThreadCount - 1)
    BY <2>1
  <2> QED BY <2>1, <2>2, FS_Interval
<1>3. IsFiniteSet({n}) /\ Cardinality({n}) = 1
  BY FS_Singleton
<1>4. IsFiniteSet({n} \X T) /\ Cardinality({n} \X T) = 1 * ThreadCount
  BY <1>2, <1>3, FS_Product, ZenonT(60)
<1>5. 1 * ThreadCount = ThreadCount
  BY SessionAssumption
<1>6. \A c \in On(n) : NodeOf(c) = n /\ (Master(c) => c = <<n, 0>>)
  BY <1>1 DEF NodeOf, Master
<1>7. <<n, 0>> \in On(n) /\ Master(<<n, 0>>)
  BY <1>1, <1>2 DEF Master
<1> QED BY <1>1, <1>4, <1>5, <1>6, <1>7 DEF On

\* A client runs on a node.
LEMMA OfNode ==
  ASSUME NEW c \in Clients
  PROVE  NodeOf(c) \in Nodes /\ c \in On(NodeOf(c))
BY DEF Clients, NodeOf, On

\* There are finitely many clients, and one at least.
LEMMA ClientsFinite == IsFiniteSet(Clients) /\ Cardinality(Clients) \in Nat \ {0} /\ <<0, 0>> \in Clients
<1>1. IsFiniteSet(Nodes) /\ IsFiniteSet(0..(ThreadCount - 1))
  BY SessionAssumption, FS_Interval DEF Nodes
<1>2. IsFiniteSet(Clients)
  BY <1>1, FS_Product DEF Clients
<1>3. <<0, 0>> \in Clients
  BY SessionAssumption DEF Clients, Nodes
<1>4. Cardinality(Clients) \in Nat /\ Cardinality(Clients) # 0
  BY <1>2, <1>3, FS_CardinalityType, FS_EmptySet
<1> QED BY <1>2, <1>3, <1>4

\* The index of a loop over client_sockets is at least one.
LEMMA PosIsPositive ==
  ASSUME TypeOK
  PROVE  pos \in [Clients -> Nat \ {0}]
<1>1. pos \in [Clients -> 1..(Cardinality(Clients) + 1)]
  BY DEF TypeOK, ClientTypes
<1>2. \A i \in 1..(Cardinality(Clients) + 1) : i \in Nat \ {0}
  BY ClientsFinite
<1> QED BY <1>1, <1>2

-----------------------------------------------------------------------------
(* The barriers *)

bvars == <<main, arrived, phase, closer, done>>

\* A client goes on without touching the barrier.
LEMMA MoveBarrier ==
  ASSUME TypeOK, BarrierInv, NEW c \in Clients, main[NodeOf(c)] = "run",
         NEW label, pc' = [pc EXCEPT ![c] = label], UNCHANGED bvars, MayStand(c)',
         c \in Arrivers(NodeOf(c)) <=> c \in Arrivers(NodeOf(c))',
         label # "wait2"
  PROVE  BarrierInv'
<1>1. /\ pc'[c] = label /\ \A d \in Clients : d # c => pc'[d] = pc[d]
      /\ main' = main /\ arrived' = arrived /\ phase' = phase /\ closer' = closer /\ done' = done
  BY DEF TypeOK, ClientTypes, bvars
<1>2. ASSUME NEW d \in Clients PROVE MayStand(d)' /\ (main'[NodeOf(d)] \in {"connect", "failed"} => pc'[d] = "off")
  BY <1>1 DEF BarrierInv, MayStand
<1>3. ASSUME NEW n \in Nodes PROVE Arrivers(n)' = Arrivers(n)
  <2>1. \A d \in On(n) : d # c => pc'[d] = pc[d]
    BY <1>1, OnNode
  <2>2. CASE n = NodeOf(c)
    BY <1>1, <2>1, <2>2 DEF Arrivers
  <2>3. CASE n # NodeOf(c)
    <3>1. c \notin On(n)
      BY <2>3, OnNode
    <3> QED BY <1>1, <2>1, <3>1 DEF Arrivers
  <2> QED BY <2>2, <2>3
<1>4. ASSUME NEW n \in Nodes, pc[<<n, 0>>] # "wait2" PROVE pc'[<<n, 0>>] # "wait2"
  <2>1. <<n, 0>> \in Clients
    BY OnNode
  <2> QED BY <1>1, <1>4, <2>1
<1> QED BY <1>1, <1>2, <1>3, <1>4 DEF BarrierInv

\* One more arrival; the last one finds everybody else there.
LEMMA Arrival ==
  ASSUME TypeOK, BarrierInv, NEW n \in Nodes, NEW c \in On(n), c \notin Arrivers(n)
  PROVE  /\ Cardinality(Arrivers(n) \cup {c}) = arrived[n] + 1
         /\ arrived[n] + 1 = ThreadCount => Arrivers(n) \cup {c} = On(n)
<1> DEFINE A == Arrivers(n)
           B == A \cup {c}
<1>1. A \subseteq On(n) /\ B \subseteq On(n)
  BY DEF Arrivers
<1>2. IsFiniteSet(On(n)) /\ Cardinality(On(n)) = ThreadCount
  BY OnNode
<1>3. arrived[n] = Cardinality(A)
  BY DEF BarrierInv
<1>4. c \notin A
  OBVIOUS
<1> HIDE DEF A
<1>5. IsFiniteSet(A) /\ IsFiniteSet(B)
  BY <1>1, <1>2, FS_Subset
<1>6. Cardinality(B) = Cardinality(A) + 1
  BY <1>4, <1>5, FS_AddElement
<1>7. Cardinality(B) = ThreadCount => B = On(n)
  BY <1>1, <1>2, FS_Subset
<1> QED BY <1>3, <1>6, <1>7 DEF A

\* A client arrives at the barrier in phase k.
LEMMA ArriveBarrier ==
  ASSUME TypeOK, BarrierInv, NEW c \in Clients, main[NodeOf(c)] = "run",
         NEW from, NEW wait, NEW k, ArriveAt(c, from, wait),
         \/ k = 0 /\ from = "populate" /\ wait = "wait1"
         \/ k = 1 /\ from = "start" /\ wait = "wait2"
         \/ k = 2 /\ from = "stop" /\ wait = "wait3"
  PROVE  BarrierInv' /\ NodeTypes'
<1> DEFINE n == NodeOf(c)
<1>1. n \in Nodes /\ c \in On(n) /\ On(n) \subseteq Clients /\ <<n, 0>> \in On(n)
      /\ \A d \in On(n) : NodeOf(d) = n /\ (Master(d) => d = <<n, 0>>)
  BY OfNode, OnNode
<1>2. /\ pc[c] = from /\ pc'[c] = wait /\ \A d \in Clients : d # c => pc'[d] = pc[d]
      /\ main' = main /\ closer' = closer /\ done' = done /\ linked' = linked /\ Arrive(n)
  BY DEF ArriveAt, Become, TypeOK, ClientTypes
<1>3. phase[n] = k
  BY <1>2 DEF BarrierInv, MayStand, Early
<1>4. c \notin Arrivers(n)
  <2>1. k = 2 => ~Master(c)
    BY <1>2, <1>3 DEF BarrierInv, MayStand
  <2> QED BY <1>2, <1>3, <2>1 DEF Arrivers
<1>5. /\ Cardinality(Arrivers(n) \cup {c}) = arrived[n] + 1
      /\ arrived[n] + 1 = ThreadCount => Arrivers(n) \cup {c} = On(n)
  BY <1>1, <1>4, Arrival
<1>6. \A d \in Clients : main'[NodeOf(d)] \in {"connect", "failed"} => pc'[d] = "off"
  BY <1>2 DEF BarrierInv
<1>7. ThreadCount \in Nat /\ ThreadCount > 0 /\ arrived[n] \in 0..(ThreadCount - 1) /\ k \in 0..2
  BY <1>1, SessionAssumption DEF TypeOK, NodeTypes
<1>8. arrived \in [Nodes -> 0..(ThreadCount - 1)] /\ phase \in [Nodes -> 0..3]
  BY DEF TypeOK, NodeTypes
<1> HIDE DEF n
<1>9. ASSUME NEW m \in Nodes, m # n, phase'[m] = phase[m] PROVE Arrivers(m)' = Arrivers(m)
  <2>1. \A d \in On(m) : pc'[d] = pc[d]
    <3>1. c \notin On(m) /\ On(m) \subseteq Clients
      BY <1>9, OnNode DEF n
    <3> QED BY <1>2, <3>1
  <2> QED BY <1>2, <1>9, <2>1 DEF Arrivers
<1>10. CASE arrived[n] + 1 # ThreadCount
  <2>1. /\ arrived'[n] = arrived[n] + 1 /\ phase' = phase
        /\ \A m \in Nodes : m # n => arrived'[m] = arrived[m]
        /\ arrived' \in [Nodes -> 0..(ThreadCount - 1)]
    BY <1>1, <1>2, <1>7, <1>8, <1>10 DEF Arrive
  <2>2. Arrivers(n)' = Arrivers(n) \cup {c}
    BY <1>1, <1>2, <1>3, <2>1 DEF Arrivers
  <2>3. \A m \in Nodes : arrived'[m] = Cardinality(Arrivers(m)')
    BY <1>5, <1>9, <2>1, <2>2, ZenonT(60) DEF BarrierInv
  <2>4. \A d \in Clients : MayStand(d)'
    <3>1. MayStand(c)'
      BY <1>2, <1>3, <2>1 DEF MayStand, n, BarrierInv
    <3>2. \A d \in Clients : d # c => MayStand(d)'
      BY <1>2, <2>1 DEF MayStand, BarrierInv
    <3> QED BY <3>1, <3>2
  <2>5. \A m \in Nodes : phase[m] = 2 /\ closer[m] = "wait" => pc'[<<m, 0>>] # "wait2"
    <3> SUFFICES ASSUME NEW m \in Nodes, phase[m] = 2, closer[m] = "wait" PROVE pc'[<<m, 0>>] # "wait2"
      OBVIOUS
    <3>1. pc[<<m, 0>>] # "wait2" /\ <<m, 0>> \in Clients /\ NodeOf(<<m, 0>>) = m
      BY OnNode DEF BarrierInv
    <3>2. <<m, 0>> = c => wait # "wait2"
      BY <1>3, <3>1 DEF n
    <3> QED BY <1>2, <3>1, <3>2
  <2> QED BY <1>2, <1>6, <2>1, <2>3, <2>4, <2>5 DEF BarrierInv, NodeTypes, TypeOK
<1>11. CASE arrived[n] + 1 = ThreadCount
  <2>1. /\ arrived'[n] = 0 /\ phase'[n] = k + 1
        /\ \A m \in Nodes : m # n => arrived'[m] = arrived[m] /\ phase'[m] = phase[m]
        /\ arrived' \in [Nodes -> 0..(ThreadCount - 1)] /\ phase' \in [Nodes -> 0..3]
    BY <1>1, <1>2, <1>3, <1>7, <1>8, <1>11 DEF Arrive
  <2>2. \A d \in On(n) : d = c \/ d \in Arrivers(n)
    BY <1>5, <1>11
  <2>3. \A d \in On(n) : pc'[d] = wait \/ (k = 2 /\ Master(d) /\ closer[n] = "wait" /\ pc'[d] = pc[d])
    BY <1>1, <1>2, <1>3, <2>2 DEF Arrivers
  <2>4. Arrivers(n)' = {}
    <3>1. k < 2 => closer[n] = "sleep"
      BY <1>1, <1>3 DEF BarrierInv
    <3> QED BY <1>2, <1>7, <2>1, <2>3, <3>1 DEF Arrivers
  <2>5. ASSUME NEW m \in Nodes PROVE arrived'[m] = Cardinality(Arrivers(m)')
    <3>1. Cardinality({}) = 0
      BY FS_EmptySet
    <3>2. CASE m = n
      BY <2>1, <2>4, <3>1, <3>2
    <3>3. CASE m # n
      BY <1>9, <2>1, <3>3, ZenonT(60) DEF BarrierInv
    <3> QED BY <3>2, <3>3
  <2>6. ASSUME NEW d \in Clients PROVE MayStand(d)'
    <3>1. CASE d \in On(n)
      <4>1. NodeOf(d) = n
        BY <1>1, <3>1
      <4>2. CASE pc'[d] = wait
        <5>1. k = 2 => ~Master(d)
          <6> SUFFICES ASSUME k = 2, Master(d) PROVE FALSE
            OBVIOUS
          <6>1. MayStand(d) /\ MayStand(c)
            BY DEF BarrierInv
          <6>2. d # c /\ pc[d] = "wait3"
            BY <1>2, <1>3, <4>2, <6>1 DEF MayStand, n
          <6> QED BY <1>3, <4>1, <6>1, <6>2 DEF MayStand
        <5> QED BY <2>1, <4>1, <4>2, <5>1 DEF MayStand
      <4>3. CASE k = 2 /\ Master(d) /\ closer[n] = "wait" /\ pc'[d] = pc[d]
        <5>1. MayStand(d) /\ pc[d] # "wait2"
          BY <1>1, <1>3, <3>1, <4>3 DEF BarrierInv
        <5> QED BY <1>3, <2>1, <4>1, <4>3, <5>1 DEF MayStand
      <4> QED BY <2>3, <3>1, <4>2, <4>3
    <3>2. CASE d \notin On(n)
      <4>1. NodeOf(d) # n /\ NodeOf(d) \in Nodes /\ d # c
        BY <1>1, <3>2, OfNode
      <4>2. pc'[d] = pc[d] /\ phase'[NodeOf(d)] = phase[NodeOf(d)]
        BY <1>2, <2>1, <4>1
      <4> QED BY <4>2 DEF MayStand, BarrierInv
    <3> QED BY <3>1, <3>2
  <2>7. ASSUME NEW m \in Nodes
        PROVE  /\ phase'[m] < 2 => closer'[m] = "sleep"
               /\ phase'[m] = 2 /\ closer'[m] = "wait" => pc'[<<m, 0>>] # "wait2"
               /\ phase'[m] = 2 => closer'[m] # "end"
               /\ phase'[m] = 3 => closer'[m] # "sleep"
    <3>1. CASE m = n
      <4>1. k < 2 => closer[n] = "sleep"
        BY <1>1, <1>3 DEF BarrierInv
      <4>2. k = 2 => closer[n] = "wait"
        <5> SUFFICES ASSUME k = 2 PROVE closer[n] = "wait"
          OBVIOUS
        <5>1. MayStand(<<n, 0>>) /\ MayStand(c) /\ Master(<<n, 0>>) /\ NodeOf(<<n, 0>>) = n
          BY <1>1, OnNode DEF BarrierInv
        <5>2. pc[<<n, 0>>] # "wait3" /\ <<n, 0>> # c
          BY <1>2, <1>3, <5>1 DEF MayStand
        <5> QED BY <1>1, <1>3, <2>2, <5>2 DEF Arrivers
      <4> QED BY <1>2, <1>7, <2>1, <3>1, <4>1, <4>2
    <3>2. CASE m # n
      <4>1. pc'[<<m, 0>>] = pc[<<m, 0>>]
        <5>1. <<m, 0>> \in Clients /\ NodeOf(<<m, 0>>) = m
          BY OnNode
        <5> QED BY <1>2, <3>2, <5>1 DEF n
      <4> QED BY <1>2, <2>1, <3>2, <4>1 DEF BarrierInv
    <3> QED BY <3>1, <3>2
  <2>8. NodeTypes'
    BY <1>2, <2>1 DEF NodeTypes, TypeOK
  <2> QED BY <1>2, <1>6, <2>5, <2>6, <2>7, <2>8 DEF BarrierInv
<1> QED BY <1>10, <1>11

\* The Run thread arrives for its master client, in the last phase.
LEMMA CloseBarrier ==
  ASSUME TypeOK, BarrierInv, NEW n \in Nodes, main[n] = "run", close_arrive(n)
  PROVE  BarrierInv' /\ NodeTypes'
<1> DEFINE c == <<n, 0>>
<1>1. c \in On(n) /\ On(n) \subseteq Clients /\ NodeOf(c) = n /\ Master(c)
      /\ \A d \in On(n) : NodeOf(d) = n /\ (Master(d) => d = c)
  BY OnNode
<1>2. /\ closer[n] = "sleep" /\ pc[c] \in {"apply", "ack", "waitack", "done"}
      /\ closer'[n] = "wait" /\ \A m \in Nodes : m # n => closer'[m] = closer[m]
      /\ closer' \in [Nodes -> {"sleep", "wait", "end"}]
      /\ main' = main /\ pc' = pc /\ done' = done /\ linked' = linked /\ Arrive(n)
  BY DEF close_arrive, TypeOK, NodeTypes
<1> HIDE DEF c
<1>3. phase[n] = 2
  BY <1>1, <1>2 DEF BarrierInv, MayStand, Early
<1>4. c \notin Arrivers(n)
  BY <1>1, <1>2, <1>3 DEF Arrivers
<1>5. /\ Cardinality(Arrivers(n) \cup {c}) = arrived[n] + 1
      /\ arrived[n] + 1 = ThreadCount => Arrivers(n) \cup {c} = On(n)
  BY <1>1, <1>4, Arrival
<1>6. ThreadCount \in Nat /\ ThreadCount > 0 /\ arrived[n] \in 0..(ThreadCount - 1)
      /\ arrived \in [Nodes -> 0..(ThreadCount - 1)] /\ phase \in [Nodes -> 0..3]
  BY SessionAssumption DEF TypeOK, NodeTypes
<1>7. ASSUME NEW m \in Nodes, m # n, phase'[m] = phase[m] PROVE Arrivers(m)' = Arrivers(m)
  BY <1>2, <1>7 DEF Arrivers
<1>8. done' => closer'[0] = "end"
  <2>1. 0 \in Nodes
    BY SessionAssumption DEF Nodes
  <2> QED BY <1>2, <2>1 DEF BarrierInv
<1>9. CASE arrived[n] + 1 # ThreadCount
  <2>1. /\ arrived'[n] = arrived[n] + 1 /\ phase' = phase
        /\ \A m \in Nodes : m # n => arrived'[m] = arrived[m]
        /\ arrived' \in [Nodes -> 0..(ThreadCount - 1)]
    BY <1>2, <1>6, <1>9 DEF Arrive
  <2>2. Arrivers(n)' = Arrivers(n) \cup {c}
    BY <1>1, <1>2, <1>3, <2>1 DEF Arrivers
  <2>3. \A m \in Nodes : arrived'[m] = Cardinality(Arrivers(m)')
    BY <1>5, <1>7, <2>1, <2>2, ZenonT(60) DEF BarrierInv
  <2>4. \A d \in Clients : MayStand(d)' /\ (main'[NodeOf(d)] \in {"connect", "failed"} => pc'[d] = "off")
    BY <1>2, <2>1 DEF MayStand, BarrierInv
  <2>5. ASSUME NEW m \in Nodes
        PROVE  /\ phase'[m] < 2 => closer'[m] = "sleep"
               /\ phase'[m] = 2 /\ closer'[m] = "wait" => pc'[<<m, 0>>] # "wait2"
               /\ phase'[m] = 2 => closer'[m] # "end"
               /\ phase'[m] = 3 => closer'[m] # "sleep"
    <3>1. CASE m = n
      BY <1>2, <1>3, <2>1, <3>1 DEF c
    <3>2. CASE m # n
      BY <1>2, <2>1, <3>2 DEF BarrierInv
    <3> QED BY <3>1, <3>2
  <2>6. NodeTypes'
    BY <1>2, <2>1 DEF NodeTypes, TypeOK
  <2> QED BY <1>8, <2>3, <2>4, <2>5, <2>6 DEF BarrierInv
<1>10. CASE arrived[n] + 1 = ThreadCount
  <2>1. /\ arrived'[n] = 0 /\ phase'[n] = 3
        /\ \A m \in Nodes : m # n => arrived'[m] = arrived[m] /\ phase'[m] = phase[m]
        /\ arrived' \in [Nodes -> 0..(ThreadCount - 1)] /\ phase' \in [Nodes -> 0..3]
    BY <1>2, <1>3, <1>6, <1>10 DEF Arrive
  <2>2. \A d \in On(n) : d = c \/ pc[d] = "wait3"
    BY <1>1, <1>2, <1>3, <1>5, <1>10 DEF Arrivers
  <2>3. ASSUME NEW m \in Nodes PROVE arrived'[m] = Cardinality(Arrivers(m)')
    <3>1. Cardinality({}) = 0
      BY FS_EmptySet
    <3>2. CASE m = n
      <4>1. Arrivers(n)' = {}
        BY <2>1 DEF Arrivers
      <4> QED BY <2>1, <3>1, <3>2, <4>1
    <3>3. CASE m # n
      <4>1. Arrivers(m)' = Arrivers(m) /\ arrived'[m] = arrived[m]
        BY <1>7, <2>1, <3>3
      <4>2. arrived[m] = Cardinality(Arrivers(m))
        BY DEF BarrierInv
      <4> QED BY <4>1, <4>2
    <3> QED BY <3>2, <3>3
  <2>4. ASSUME NEW d \in Clients PROVE MayStand(d)' /\ (main'[NodeOf(d)] \in {"connect", "failed"} => pc'[d] = "off")
    <3>1. CASE d \in On(n)
      <4>1. NodeOf(d) = n /\ pc'[d] = pc[d] /\ MayStand(d)
        BY <1>1, <1>2, <3>1 DEF BarrierInv
      <4>2. CASE d = c
        BY <1>1, <1>2, <2>1, <4>1, <4>2 DEF MayStand
      <4>3. CASE d # c /\ pc[d] = "wait3"
        <5>1. ~Master(d)
          BY <1>1, <3>1, <4>3
        <5> QED BY <1>2, <2>1, <4>1, <4>3, <5>1 DEF MayStand
      <4> QED BY <2>2, <3>1, <4>2, <4>3
    <3>2. CASE d \notin On(n)
      <4>1. NodeOf(d) # n /\ NodeOf(d) \in Nodes
        BY <3>2, OfNode
      <4> QED BY <1>2, <2>1, <4>1 DEF MayStand, BarrierInv
    <3>3. main'[NodeOf(d)] \in {"connect", "failed"} => pc'[d] = "off"
      BY <1>2 DEF BarrierInv
    <3> QED BY <3>1, <3>2, <3>3
  <2>5. ASSUME NEW m \in Nodes
        PROVE  /\ phase'[m] < 2 => closer'[m] = "sleep"
               /\ phase'[m] = 2 /\ closer'[m] = "wait" => pc'[<<m, 0>>] # "wait2"
               /\ phase'[m] = 2 => closer'[m] # "end"
               /\ phase'[m] = 3 => closer'[m] # "sleep"
    <3>1. CASE m = n
      BY <1>2, <2>1, <3>1
    <3>2. CASE m # n
      BY <1>2, <2>1, <3>2 DEF BarrierInv
    <3> QED BY <3>1, <3>2
  <2>6. NodeTypes'
    BY <1>2, <2>1 DEF NodeTypes, TypeOK
  <2> QED BY <1>8, <2>3, <2>4, <2>5, <2>6 DEF BarrierInv
<1> QED BY <1>9, <1>10

\* The last endpoint of a node lets its clients start.
LEMMA ConnectBarrier ==
  ASSUME TypeOK, BarrierInv, LineInv, NEW n \in Nodes, connect(n)
  PROVE  BarrierInv' /\ NodeTypes'
<1>1. /\ main[n] = "connect" /\ arrived' = arrived /\ phase' = phase /\ closer' = closer /\ done' = done
      /\ main \in [Nodes -> {"connect", "run", "exited", "failed"}] /\ linked \in [Nodes -> 0..ThreadCount]
      /\ linked[n] < ThreadCount /\ ThreadCount \in Nat
  <2>1. ThreadCount \in Nat /\ linked[n] \in 0..ThreadCount /\ linked[n] # ThreadCount
    BY SessionAssumption DEF connect, TypeOK, NodeTypes, LineInv
  <2> QED BY <2>1 DEF connect, TypeOK, NodeTypes
<1>2. \A c \in On(n) : c \in Clients /\ NodeOf(c) = n
  BY OnNode
<1>3. \A c \in On(n) : pc[c] = "off" /\ phase[n] = 0
  BY <1>1, <1>2 DEF BarrierInv, MayStand
<1>4. \A d \in Clients : d \notin On(n) => NodeOf(d) # n /\ NodeOf(d) \in Nodes
  BY OfNode
<1>5. /\ main' \in [Nodes -> {"connect", "run", "exited", "failed"}] /\ linked' \in [Nodes -> 0..ThreadCount]
      /\ \A m \in Nodes : m # n => main'[m] = main[m]
      /\ \A d \in Clients : d \notin On(n) => pc'[d] = pc[d]
      /\ \/ pc' = pc /\ main'[n] \in {"connect", "failed"}
         \/ main'[n] = "run" /\ \A c \in On(n) : pc'[c] = "exchange"
  <2>1. CASE listening /\ linked[n] + 1 = ThreadCount
    <3>1. /\ linked' = [linked EXCEPT ![n] = @ + 1] /\ main' = [main EXCEPT ![n] = "run"]
          /\ pc' = [c \in Clients |-> IF c \in On(n) THEN "exchange" ELSE pc[c]]
      BY <2>1 DEF connect
    <3> QED BY <1>1, <1>2, <3>1
  <2>2. CASE listening /\ linked[n] + 1 # ThreadCount
    <3>1. linked' = [linked EXCEPT ![n] = @ + 1] /\ main' = main /\ pc' = pc
      BY <2>2 DEF connect
    <3> QED BY <1>1, <2>2, <3>1
  <2>3. CASE ~listening
    <3>1. linked' = linked /\ main' = [main EXCEPT ![n] = "failed"] /\ pc' = pc
      BY <2>3 DEF connect
    <3> QED BY <1>1, <3>1
  <2> QED BY <2>1, <2>2, <2>3
<1>6. ASSUME NEW d \in Clients PROVE MayStand(d)' /\ (main'[NodeOf(d)] \in {"connect", "failed"} => pc'[d] = "off")
  <2>1. CASE d \in On(n)
    <3>1. pc'[d] = "exchange" \/ pc'[d] = "off"
      BY <1>3, <1>5, <2>1
    <3>2. MayStand(d)'
      BY <1>1, <1>2, <1>3, <2>1, <3>1 DEF MayStand, Early
    <3> QED BY <1>2, <1>3, <1>5, <2>1, <3>2
  <2>2. CASE d \notin On(n)
    <3>1. pc'[d] = pc[d] /\ main'[NodeOf(d)] = main[NodeOf(d)]
      BY <1>4, <1>5, <2>2
    <3> QED BY <1>1, <3>1 DEF BarrierInv, MayStand
  <2> QED BY <2>1, <2>2
<1>7. ASSUME NEW m \in Nodes PROVE Arrivers(m)' = Arrivers(m)
  <2>1. CASE m = n
    <3>1. \A c \in On(m) : pc'[c] # "wait1" /\ pc[c] # "wait1" /\ phase[m] = 0
      BY <1>3, <1>5, <2>1
    <3> QED BY <1>1, <3>1 DEF Arrivers
  <2>2. CASE m # n
    <3>1. \A c \in On(m) : c \in Clients /\ c \notin On(n)
      BY <1>2, <2>2, OnNode
    <3> QED BY <1>1, <1>5, <3>1 DEF Arrivers
  <2> QED BY <2>1, <2>2
<1>8. ASSUME NEW m \in Nodes, pc[<<m, 0>>] # "wait2" PROVE pc'[<<m, 0>>] # "wait2"
  <2>1. <<m, 0>> \in Clients
    BY OnNode
  <2> QED BY <1>3, <1>5, <1>8, <2>1
<1>9. NodeTypes'
  BY <1>1, <1>5 DEF NodeTypes, TypeOK
<1> QED BY <1>1, <1>6, <1>7, <1>8, <1>9 DEF BarrierInv

\* The process of a node exits, or its Run thread sets the done flag.
LEMMA LeaveBarrier ==
  ASSUME TypeOK, BarrierInv, NEW n \in Nodes, join(n) \/ (main[n] = "run" /\ close_done(n))
  PROVE  BarrierInv' /\ NodeTypes'
<1>0. 0 \in Nodes
  BY SessionAssumption DEF Nodes
<1>1. CASE join(n)
  <2>1. /\ pc' = pc /\ arrived' = arrived /\ phase' = phase /\ closer' = closer /\ done' = done /\ linked' = linked
        /\ main'[n] = "exited" /\ (\A m \in Nodes : m # n => main'[m] = main[m])
        /\ main' \in [Nodes -> {"connect", "run", "exited", "failed"}]
    BY <1>1 DEF join, TypeOK, NodeTypes
  <2>2. \A c \in Clients : main'[NodeOf(c)] \in {"connect", "failed"} => main[NodeOf(c)] \in {"connect", "failed"}
    BY <2>1, OfNode
  <2>3. NodeTypes'
    BY <2>1 DEF NodeTypes, TypeOK
  <2>4. \A c \in Clients : MayStand(c)' <=> MayStand(c)
    BY <2>1 DEF MayStand
  <2>5. \A m \in Nodes : Arrivers(m)' = Arrivers(m)
    BY <2>1 DEF Arrivers
  <2> QED BY <2>1, <2>2, <2>3, <2>4, <2>5 DEF BarrierInv
<1>2. CASE main[n] = "run" /\ close_done(n)
  <2>1. /\ main' = main /\ pc' = pc /\ arrived' = arrived /\ phase' = phase /\ linked' = linked
        /\ closer[n] = "wait" /\ phase[n] >= 3 /\ done' = (done \/ n = 0)
        /\ closer'[n] = "end" /\ (\A m \in Nodes : m # n => closer'[m] = closer[m])
        /\ closer' \in [Nodes -> {"sleep", "wait", "end"}]
    BY <1>2 DEF close_done, TypeOK, NodeTypes
  <2>2. phase[n] = 3
    <3>1. phase[n] \in 0..3
      BY DEF TypeOK, NodeTypes
    <3> QED BY <2>1, <3>1
  <2>3. NodeTypes'
    <3>1. done' \in BOOLEAN
      BY <2>1 DEF TypeOK, NodeTypes
    <3> QED BY <2>1, <3>1 DEF NodeTypes, TypeOK
  <2>4. \A c \in Clients : MayStand(c)' <=> MayStand(c)
    BY <2>1 DEF MayStand
  <2>5. ASSUME NEW m \in Nodes PROVE Arrivers(m)' = Arrivers(m)
    <3>1. CASE m = n
      BY <2>1, <2>2, <3>1 DEF Arrivers
    <3>2. CASE m # n
      BY <2>1, <3>2 DEF Arrivers
    <3> QED BY <3>1, <3>2
  <2>6. done' => closer'[0] = "end"
    BY <1>0, <2>1 DEF BarrierInv
  <2>7. ASSUME NEW m \in Nodes
        PROVE  /\ phase'[m] < 2 => closer'[m] = "sleep"
               /\ phase'[m] = 2 /\ closer'[m] = "wait" => pc'[<<m, 0>>] # "wait2"
               /\ phase'[m] = 2 => closer'[m] # "end"
               /\ phase'[m] = 3 => closer'[m] # "sleep"
    <3>1. CASE m = n
      BY <2>1, <2>2, <3>1
    <3>2. CASE m # n
      BY <2>1, <3>2 DEF BarrierInv
    <3> QED BY <3>1, <3>2
  <2> QED BY <2>1, <2>3, <2>4, <2>5, <2>6, <2>7 DEF BarrierInv
<1> QED BY <1>1, <1>2

\* Every step of a client keeps its node's barrier.
LEMMA ClientBarrier ==
  ASSUME TypeOK, BarrierInv, NEW c \in Clients, main[NodeOf(c)] = "run", Client(c)
  PROVE  BarrierInv' /\ NodeTypes'
<1> DEFINE n == NodeOf(c)
           Moves(label) == /\ pc' = [pc EXCEPT ![c] = label] /\ UNCHANGED <<bvars, linked>>
                           /\ label # "wait2" /\ MayStand(c)'
                           /\ c \in Arrivers(n) <=> c \in Arrivers(n)'
<1>1. n \in Nodes /\ c \in On(n) /\ pc \in [Clients -> {"off", "exchange", "mutex", "send", "populate", "wait1",
                           "start", "wait2", "apply", "stop", "wait3", "ack", "waitack", "done"}]
      /\ phase[n] \in 0..3 /\ MayStand(c)
  BY OfNode DEF TypeOK, NodeTypes, ClientTypes, BarrierInv
<1>2. ASSUME NEW label, Moves(label) PROVE BarrierInv' /\ NodeTypes'
  <2>1. UNCHANGED bvars
    BY <1>2 DEF bvars
  <2>2. BarrierInv'
    BY <1>2, <2>1, MoveBarrier
  <2>3. NodeTypes'
    BY <1>2 DEF NodeTypes, TypeOK, bvars
  <2> QED BY <2>2, <2>3
<1> HIDE DEF n
<1>3. ASSUME NEW label, pc' = [pc EXCEPT ![c] = label], UNCHANGED <<bvars, linked>>,
             pc[c] \in Early, label \in Early
      PROVE  Moves(label)
  <2>1. phase[n] = 0 /\ pc'[c] = label /\ phase' = phase /\ closer' = closer
    BY <1>1, <1>3 DEF MayStand, n, Early, bvars
  <2>2. MayStand(c)' /\ c \notin Arrivers(n) /\ c \notin Arrivers(n)'
    BY <1>3, <2>1 DEF MayStand, Arrivers, n, Early
  <2> QED BY <1>3, <2>2 DEF Early
<1>4. ASSUME NEW label, pc' = [pc EXCEPT ![c] = label], UNCHANGED <<bvars, linked>>,
             \/ pc[c] = "wait1" /\ phase[n] >= 1 /\ label = "start"
             \/ pc[c] = "wait2" /\ phase[n] >= 2 /\ label = "apply"
             \/ pc[c] = "wait3" /\ phase[n] >= 3 /\ label = "ack"
             \/ pc[c] = "apply" /\ label = (IF Master(c) THEN "ack" ELSE "stop")
             \/ pc[c] = "ack" /\ label = "waitack"
             \/ pc[c] = "waitack" /\ label = "done"
      PROVE  Moves(label)
  <2>1. pc'[c] = label /\ phase' = phase /\ closer' = closer
    BY <1>1, <1>4 DEF bvars
  <2>2. MayStand(c)'
    <3>1. Master(c) \/ ~Master(c)
      OBVIOUS
    <3> QED BY <1>1, <1>4, <2>1, <3>1 DEF MayStand, n, Early
  <2>3. c \in Arrivers(n) <=> c \in Arrivers(n)'
    <3>1. pc[c] = "wait1" => phase[n] # 0
      BY <1>4
    <3>2. pc[c] = "wait2" => phase[n] # 1
      BY <1>4
    <3>3. pc[c] = "wait3" => phase[n] # 2
      BY <1>4
    <3>4. label \notin {"wait1", "wait2", "wait3"}
      BY <1>4
    <3> QED BY <1>1, <2>1, <3>1, <3>2, <3>3, <3>4 DEF Arrivers
  <2> QED BY <1>4, <2>2, <2>3
<1>5. CASE ArriveAt(c, "populate", "wait1") \/ ArriveAt(c, "start", "wait2") \/ ArriveAt(c, "stop", "wait3")
  BY <1>5, ArriveBarrier
<1>6. CASE host_instance(c) \/ host_create(c) \/ send_root(c) \/ recv_root(c)
  <2>1. UNCHANGED <<bvars, linked>>
    BY <1>6 DEF host_instance, host_create, send_root, recv_root, bvars
  <2>2. pc[c] \in Early /\ \E label \in Early : pc' = [pc EXCEPT ![c] = label]
    <3>1. pc = [pc EXCEPT ![c] = pc[c]]
      BY <1>1
    <3> QED BY <1>6, <3>1 DEF host_instance, host_create, send_root, recv_root, Become, Early
  <2> HIDE DEF Moves
  <2> QED BY <1>2, <1>3, <2>1, <2>2
<1>7. CASE \/ Released(c, "wait1", 1, "start") \/ Released(c, "wait2", 2, "apply") \/ Released(c, "wait3", 3, "ack")
           \/ last_apply(c) \/ send_server(c) \/ recv_server(c)
  <2>1. UNCHANGED <<bvars, linked>>
    BY <1>7 DEF Released, last_apply, send_server, recv_server, bvars
  <2>2. PICK label :
             /\ pc' = [pc EXCEPT ![c] = label]
             /\ \/ pc[c] = "wait1" /\ phase[n] >= 1 /\ label = "start"
                \/ pc[c] = "wait2" /\ phase[n] >= 2 /\ label = "apply"
                \/ pc[c] = "wait3" /\ phase[n] >= 3 /\ label = "ack"
                \/ pc[c] = "apply" /\ label = (IF Master(c) THEN "ack" ELSE "stop")
                \/ pc[c] = "ack" /\ label = "waitack"
                \/ pc[c] = "waitack" /\ label = "done"
    BY <1>7 DEF Released, last_apply, send_server, recv_server, Become, n
  <2> HIDE DEF Moves
  <2> QED BY <1>2, <1>4, <2>1, <2>2
<1> QED BY <1>5, <1>6, <1>7 DEF Client, run_barrier, start_barrier, stop_barrier

\* The same for every step of the session.
LEMMA BarrierStep ==
  ASSUME TypeOK, BarrierInv, LineInv, [Next]_vars
  PROVE  BarrierInv' /\ NodeTypes'
<1>1. CASE UNCHANGED <<main, linked, pc, arrived, phase, closer, done>>
  <2>1. \A c \in Clients : MayStand(c)' <=> MayStand(c)
    BY <1>1 DEF MayStand
  <2>2. \A m \in Nodes : Arrivers(m)' = Arrivers(m)
    BY <1>1 DEF Arrivers
  <2>3. NodeTypes'
    BY <1>1 DEF NodeTypes, TypeOK
  <2> QED BY <1>1, <2>1, <2>2, <2>3 DEF BarrierInv
<1>2. CASE Server
  BY <1>1, <1>2 DEF Server, server_listen, server_self, server_instance, accept_conn, server_done, recv_from_all, server_ack
<1>3. ASSUME NEW n \in Nodes, Node(n) PROVE BarrierInv' /\ NodeTypes'
  <2>1. CASE connect(n)
    BY <2>1, ConnectBarrier
  <2>2. CASE join(n) \/ (main[n] = "run" /\ close_done(n))
    BY <2>2, LeaveBarrier
  <2>3. CASE main[n] = "run" /\ close_arrive(n)
    BY <2>3, CloseBarrier
  <2>4. CASE main[n] = "run" /\ \E c \in On(n) : Client(c)
    <3>1. PICK c \in On(n) : Client(c)
      BY <2>4
    <3>2. c \in Clients /\ main[NodeOf(c)] = "run"
      BY <2>4, OnNode
    <3> QED BY <3>1, <3>2, ClientBarrier
  <2> QED BY <1>3, <2>1, <2>2, <2>3, <2>4 DEF Node
<1>4. CASE UNCHANGED vars
  BY <1>1, <1>4 DEF vars
<1> QED BY <1>2, <1>3, <1>4 DEF Next

\* Behind the barriers the clients of a node are in step.
LEMMA BarrierMeansStep ==
  ASSUME TypeOK, BarrierInv
  PROVE  InStep
<1>1. ASSUME NEW c \in Clients, NEW d \in Clients, NodeOf(c) = NodeOf(d),
             pc[c] \in {"start", "wait2", "apply", "stop", "wait3"}
      PROVE  pc[d] \notin {"off", "exchange", "mutex", "send", "populate"}
  <2>1. MayStand(c) /\ MayStand(d)
    BY DEF BarrierInv
  <2>2. phase[NodeOf(c)] # 0
    BY <1>1, <2>1 DEF MayStand, Early
  <2> QED BY <1>1, <2>1, <2>2 DEF MayStand
<1>2. ASSUME done, NEW c \in On(0), ~Master(c) PROVE ~Working(c)
  <2>1. 0 \in Nodes
    BY SessionAssumption DEF Nodes
  <2>2. c \in Clients /\ NodeOf(c) = 0
    BY <2>1, OnNode
  <2>3. phase[0] = 3
    <3>1. phase[0] \in 0..3 /\ closer[0] = "end"
      BY <1>2, <2>1 DEF TypeOK, NodeTypes, BarrierInv
    <3>2. (phase[0] < 2 => closer[0] = "sleep") /\ (phase[0] = 2 => closer[0] # "end")
      BY <2>1 DEF BarrierInv
    <3> QED BY <3>1, <3>2
  <2>4. MayStand(c)
    BY <2>2 DEF BarrierInv
  <2> QED BY <1>2, <2>2, <2>3, <2>4 DEF MayStand, Working
<1> QED BY <1>1, <1>2 DEF InStep

-----------------------------------------------------------------------------
(* The connections *)

\* Accepting the first connection that waits keeps the line as it is.
LEMMA AcceptKeepsLine ==
  ASSUME NEW S, NEW s \in Seq(S), NEW b \in Seq(S), b # <<>>
  PROVE  Append(s, Head(b)) \o Tail(b) = s \o b
<1>1. Head(b) \in S /\ Tail(b) \in Seq(S) /\ b = <<Head(b)>> \o Tail(b)
  <2>1. Head(b) \in S /\ Tail(b) \in Seq(S)
    BY HeadTailProperties
  <2>2. Len(Tail(b)) = Len(b) - 1 /\ Len(b) \in Nat /\ Len(b) > 0
    BY HeadTailProperties, LenProperties
  <2>3. Len(<<Head(b)>> \o Tail(b)) = Len(b)
    BY <2>1, <2>2
  <2>4. \A i \in 1..Len(b) : (<<Head(b)>> \o Tail(b))[i] = b[i]
    BY <2>1, <2>2
  <2>5. <<Head(b)>> \o Tail(b) \in Seq(S)
    BY <2>1
  <2> QED BY <2>1, <2>3, <2>4, <2>5, SeqEqual
<1>2. Append(s, Head(b)) = s \o <<Head(b)>>
  BY <1>1, AppendIsConcat
<1>3. <<Head(b)>> \in Seq(S)
  BY <1>1
<1> QED BY <1>1, <1>2, <1>3, ConcatAssociative

\* A connection that comes goes to the end of the line.
LEMMA QueueAppends ==
  ASSUME NEW S, NEW s \in Seq(S), NEW b \in Seq(S), NEW x \in S
  PROVE  s \o Append(b, x) = Append(s \o b, x)
<1>1. Append(b, x) = b \o <<x>> /\ <<x>> \in Seq(S) /\ s \o b \in Seq(S)
  BY AppendIsConcat
<1> QED BY <1>1, AppendIsConcat, ConcatAssociative

\* A line without repetition is no longer than there are clients, and one of
\* that length holds all of them.
LEMMA LineBound ==
  ASSUME NEW s \in Seq(Clients),
         \A i, j \in 1..Len(s) : s[i] = s[j] => i = j
  PROVE  /\ Len(s) \in Nat /\ Len(s) <= Cardinality(Clients)
         /\ Len(s) = Cardinality(Clients) => \A c \in Clients : \E i \in 1..Len(s) : s[i] = c
<1> DEFINE D == 1..Len(s)
<1>1. Len(s) \in Nat /\ s \in [D -> Clients]
  BY LenProperties
<1>2. s \in Injection(D, Clients)
  BY <1>1 DEF Injection, IsInjective
<1>3. IsFiniteSet(Clients)
  BY ClientsFinite
<1>4. Cardinality(D) = Len(s)
  <2>1. 1 \in Int /\ Len(s) \in Int
    BY <1>1
  <2>2. Cardinality(1..Len(s)) = IF 1 > Len(s) THEN 0 ELSE Len(s) - 1 + 1
    BY <2>1, FS_Interval
  <2> QED BY <1>1, <2>2
<1> HIDE DEF D
<1>5. /\ Cardinality(D) <= Cardinality(Clients)
      /\ Cardinality(D) = Cardinality(Clients) <=> s \in Surjection(D, Clients)
  BY <1>2, <1>3, FS_Injection
<1>6. s \in Surjection(D, Clients) => \A c \in Clients : \E i \in D : s[i] = c
  BY DEF Surjection
<1> QED BY <1>1, <1>4, <1>5, <1>6 DEF D

\* A client's step leaves the server and the connections alone.
LEMMA ClientKeeps ==
  ASSUME NEW c, Client(c)
  PROVE  UNCHANGED <<main, linked, backlog, sockets, server, smgr, spos, closer, done>>
<1>1. CASE host_instance(c) \/ host_create(c) \/ send_root(c) \/ recv_root(c)
  BY <1>1 DEF host_instance, host_create, send_root, recv_root
<1>2. CASE run_barrier(c) \/ start_barrier(c) \/ stop_barrier(c)
  BY <1>2 DEF run_barrier, start_barrier, stop_barrier, ArriveAt, Released
<1>3. CASE last_apply(c) \/ send_server(c) \/ recv_server(c)
  BY <1>3 DEF last_apply, send_server, recv_server
<1> QED BY <1>1, <1>2, <1>3 DEF Client

LineTypes ==
    /\ backlog \in [Managers -> Seq(Clients)] /\ sockets \in [Managers -> Seq(Clients)]
    /\ \A m \in Managers : Len(backlog[m]) + Len(sockets[m]) <= Cardinality(Clients)

\* The kernel queues a connection.
LEMMA ConnectLine ==
  ASSUME TypeOK, LineInv, SelfInv, NEW n \in Nodes, connect(n), listening
  PROVE  LineInv' /\ backlog' \in [Managers -> Seq(Clients)] /\ sockets' \in [Managers -> Seq(Clients)]
<1> DEFINE x == <<n, linked[n]>>
<1>1. /\ main[n] = "connect" /\ sockets' = sockets /\ server' = server /\ smgr' = smgr
      /\ main \in [Nodes -> {"connect", "run", "exited", "failed"}] /\ linked \in [Nodes -> 0..ThreadCount]
      /\ linked' = [linked EXCEPT ![n] = @ + 1]
      /\ backlog \in [Managers -> Seq(Clients)] /\ sockets \in [Managers -> Seq(Clients)]
  BY DEF connect, TypeOK, NodeTypes, ServerTypes
<1>2. ThreadCount \in Nat /\ linked[n] \in 0..(ThreadCount - 1)
  <2>1. ThreadCount \in Nat /\ linked[n] \in 0..ThreadCount /\ linked[n] # ThreadCount
    BY <1>1, SessionAssumption DEF LineInv
  <2> QED BY <2>1
<1>3. x \in Clients /\ NodeOf(x) = n /\ x[2] = linked[n]
  BY <1>2 DEF Clients, NodeOf
<1>4. PICK k \in 1..made : backlog' = [backlog EXCEPT ![k] = Append(@, <<n, linked[n]>>)]
  BY DEF connect
<1>5. k \in Managers
  <2>1. made \in Managers \cup {0} /\ Cardinality(Hosts) \in Nat
    <3>1. IsFiniteSet(Hosts)
      BY ClientsFinite, FS_Subset DEF Hosts
    <3> QED BY <3>1, FS_CardinalityType DEF TypeOK, ServerTypes
  <2> QED BY <1>4, <2>1 DEF Managers
<1> HIDE DEF x
<1>6. /\ backlog' \in [Managers -> Seq(Clients)] /\ backlog'[k] = Append(backlog[k], x)
      /\ \A m \in Managers : m # k => backlog'[m] = backlog[m]
  BY <1>1, <1>3, <1>4, <1>5 DEF x
<1>7. Line(k)' = Append(Line(k), x) /\ \A m \in Managers : m # k => Line(m)' = Line(m)
  <2>1. sockets[k] \o Append(backlog[k], x) = Append(sockets[k] \o backlog[k], x)
    BY <1>1, <1>3, <1>5, QueueAppends
  <2> QED BY <1>1, <1>6, <2>1 DEF Line
<1>8. \A m \in Managers : Line(m) \in Seq(Clients)
  BY <1>1 DEF Line
<1>9. /\ Len(Line(k)') = Len(Line(k)) + 1 /\ Line(k)'[Len(Line(k)) + 1] = x
      /\ Len(Line(k)) \in Nat
      /\ \A i \in 1..Len(Line(k)) : Line(k)'[i] = Line(k)[i]
  BY <1>3, <1>5, <1>7, <1>8
<1>10. ASSUME NEW m \in Managers, NEW i \in 1..Len(Line(m)')
       PROVE  \/ i \in 1..Len(Line(m)) /\ Line(m)'[i] = Line(m)[i]
              \/ m = k /\ i = Len(Line(k)) + 1 /\ Line(m)'[i] = x
  <2>1. CASE m = k
    BY <1>9, <2>1
  <2>2. CASE m # k
    BY <1>7, <2>2
  <2> QED BY <2>1, <2>2
<1>11. \A m \in Managers : \A i \in 1..Len(Line(m)) : Line(m)[i] \in Clients /\ Line(m)[i] # x
  <2> SUFFICES ASSUME NEW m \in Managers, NEW i \in 1..Len(Line(m)) PROVE Line(m)[i] \in Clients /\ Line(m)[i] # x
    OBVIOUS
  <2>1. Line(m)[i] \in Clients
    BY <1>8
  <2>2. Line(m)[i][2] < linked[NodeOf(Line(m)[i])]
    BY DEF LineInv
  <2> QED BY <1>2, <1>3, <2>1, <2>2
<1>12. ASSUME NEW m \in Managers, NEW i \in 1..Len(Line(m)') PROVE Line(m)'[i][2] < linked'[NodeOf(Line(m)'[i])]
  <2>1. \A p \in Nodes : linked'[p] \in Int /\ linked[p] \in Int /\ linked'[p] >= linked[p]
    BY <1>1
  <2>2. CASE i \in 1..Len(Line(m)) /\ Line(m)'[i] = Line(m)[i]
    <3>1. Line(m)[i][2] < linked[NodeOf(Line(m)[i])] /\ Line(m)[i] \in Clients
      BY <1>11, <2>2 DEF LineInv
    <3>2. NodeOf(Line(m)[i]) \in Nodes /\ Line(m)[i][2] \in Int
      BY <3>1, SessionAssumption, OfNode DEF Clients
    <3> QED BY <2>1, <2>2, <3>1, <3>2
  <2>3. CASE Line(m)'[i] = x
    BY <1>1, <1>2, <1>3, <2>3
  <2> QED BY <1>10, <2>2, <2>3
<1>13. ASSUME NEW m \in Managers, NEW p \in Managers, NEW i \in 1..Len(Line(m)'), NEW j \in 1..Len(Line(p)'),
              Line(m)'[i] = Line(p)'[j]
       PROVE  m = p /\ i = j
  <2>1. \/ i \in 1..Len(Line(m)) /\ Line(m)'[i] = Line(m)[i]
        \/ m = k /\ i = Len(Line(k)) + 1 /\ Line(m)'[i] = x
    BY <1>10
  <2>2. \/ j \in 1..Len(Line(p)) /\ Line(p)'[j] = Line(p)[j]
        \/ p = k /\ j = Len(Line(k)) + 1 /\ Line(p)'[j] = x
    BY <1>10
  <2>3. CASE i \in 1..Len(Line(m)) /\ j \in 1..Len(Line(p)) /\ Line(m)'[i] = Line(m)[i] /\ Line(p)'[j] = Line(p)[j]
    <3>1. Line(m)[i] = Line(p)[j]
      BY <1>13, <2>3
    <3>2. \A a, b \in Managers : \A u \in 1..Len(Line(a)), v \in 1..Len(Line(b)) :
             Line(a)[u] = Line(b)[v] => a = b /\ u = v
      BY DEF LineInv
    <3> QED BY <2>3, <3>1, <3>2
  <2> QED BY <1>11, <1>13, <2>1, <2>2, <2>3
<1>14. \A p \in Nodes : main'[p] \in {"run", "exited"} <=> linked'[p] = ThreadCount
  <2>1. CASE linked[n] + 1 = ThreadCount
    <3>1. main' = [main EXCEPT ![n] = "run"]
      BY <2>1 DEF connect
    <3> QED BY <1>1, <2>1, <3>1 DEF LineInv
  <2>2. CASE linked[n] + 1 # ThreadCount
    <3>1. main' = main
      BY <2>2 DEF connect
    <3> QED BY <1>1, <2>2, <3>1 DEF LineInv
  <2> QED BY <2>1, <2>2
<1> QED BY <1>1, <1>6, <1>12, <1>13, <1>14 DEF LineInv

\* The server accepts a connection.
LEMMA AcceptLine ==
  ASSUME TypeOK, LineInv, LoopInv, accept_conn
  PROVE  LineInv' /\ backlog' \in [Managers -> Seq(Clients)] /\ sockets' \in [Managers -> Seq(Clients)]
<1>1. /\ server = "accept" /\ backlog[smgr] # <<>> /\ main' = main /\ linked' = linked /\ smgr' = smgr
      /\ sockets' = [sockets EXCEPT ![smgr] = Append(@, Head(backlog[smgr]))]
      /\ backlog' = [backlog EXCEPT ![smgr] = Tail(@)]
      /\ server' = IF AllAccepted(sockets'[smgr]) THEN "sync" ELSE "accept"
      /\ backlog \in [Managers -> Seq(Clients)] /\ sockets \in [Managers -> Seq(Clients)]
  BY DEF accept_conn, TypeOK, ServerTypes
<1>2. smgr \in Managers
  <2>1. made \in Managers \cup {0} /\ smgr \in 0..made /\ smgr # 0 /\ Cardinality(Hosts) \in Nat
    <3>1. IsFiniteSet(Hosts)
      BY ClientsFinite, FS_Subset DEF Hosts
    <3> QED BY <1>1, <3>1, FS_CardinalityType DEF TypeOK, ServerTypes, LoopInv, ServerLoop, NoManager
  <2> QED BY <2>1 DEF Managers
<1>3. Head(backlog[smgr]) \in Clients /\ Tail(backlog[smgr]) \in Seq(Clients)
  <2>1. backlog[smgr] \in Seq(Clients)
    BY <1>1, <1>2
  <2> QED BY <1>1, <2>1, HeadTailProperties
<1>4. /\ backlog' \in [Managers -> Seq(Clients)] /\ sockets' \in [Managers -> Seq(Clients)]
      /\ sockets'[smgr] = Append(sockets[smgr], Head(backlog[smgr])) /\ backlog'[smgr] = Tail(backlog[smgr])
      /\ \A m \in Managers : m # smgr => sockets'[m] = sockets[m] /\ backlog'[m] = backlog[m]
  BY <1>1, <1>2, <1>3
<1>5. \A m \in Managers : Line(m)' = Line(m)
  <2>1. sockets[smgr] \in Seq(Clients) /\ backlog[smgr] \in Seq(Clients)
    BY <1>1, <1>2
  <2>2. Append(sockets[smgr], Head(backlog[smgr])) \o Tail(backlog[smgr]) = sockets[smgr] \o backlog[smgr]
    BY <1>1, <2>1, AcceptKeepsLine
  <2> QED BY <1>4, <2>2 DEF Line
<1>6. ASSUME NEW m \in Managers, sockets'[m] # <<>>
      PROVE  \/ server' = "accept" /\ m = smgr'
             \/ server' \in {"sync", "recv", "send", "end"} /\ Len(sockets'[m]) = Cardinality(Clients)
  <2>1. CASE m = smgr
    BY <1>1, <2>1 DEF AllAccepted
  <2>2. CASE m # smgr
    BY <1>1, <1>4, <1>6, <2>2 DEF LineInv
  <2> QED BY <2>1, <2>2
<1> QED BY <1>1, <1>4, <1>5, <1>6, SMTT(30) DEF LineInv

\* Any step that touches no connection.
LEMMA OtherLine ==
  ASSUME TypeOK, LineInv, UNCHANGED <<linked, backlog, sockets>>,
         \A n \in Nodes : main'[n] \in {"run", "exited"} <=> main[n] \in {"run", "exited"},
         \/ server' = server /\ smgr' = smgr
         \/ server \in {"off", "make", "made"}
         \/ server \in {"sync", "recv", "send", "end"} /\ server' \in {"sync", "recv", "send", "end"}
  PROVE  LineInv' /\ backlog' \in [Managers -> Seq(Clients)] /\ sockets' \in [Managers -> Seq(Clients)]
<1>1. \A m \in Managers : Line(m)' = Line(m)
  BY DEF Line
<1>2. \A m \in Managers : sockets'[m] # <<>> =>
          \/ server' = "accept" /\ m = smgr'
          \/ server' \in {"sync", "recv", "send", "end"} /\ Len(sockets'[m]) = Cardinality(Clients)
  BY DEF LineInv
<1>3. backlog' \in [Managers -> Seq(Clients)] /\ sockets' \in [Managers -> Seq(Clients)]
  BY DEF TypeOK, ServerTypes
<1> QED BY <1>1, <1>2, <1>3 DEF LineInv

\* The lines stay without repetition, and so within their length.
LEMMA LineStep ==
  ASSUME TypeOK, LineInv, SelfInv, LoopInv, [Next]_vars
  PROVE  LineInv' /\ LineTypes'
<1>1. LineInv' /\ backlog' \in [Managers -> Seq(Clients)] /\ sockets' \in [Managers -> Seq(Clients)]
  <2>1. ASSUME NEW n \in Nodes, connect(n)
        PROVE  LineInv' /\ backlog' \in [Managers -> Seq(Clients)] /\ sockets' \in [Managers -> Seq(Clients)]
    <3>1. CASE listening
      BY <2>1, <3>1, ConnectLine
    <3>2. CASE ~listening
      <4>1. /\ UNCHANGED <<linked, backlog, sockets, server, smgr>> /\ main[n] = "connect"
            /\ main' = [main EXCEPT ![n] = "failed"] /\ main \in [Nodes -> {"connect", "run", "exited", "failed"}]
        BY <2>1, <3>2 DEF connect, TypeOK, NodeTypes
      <4>2. \A p \in Nodes : main'[p] \in {"run", "exited"} <=> main[p] \in {"run", "exited"}
        BY <4>1
      <4> QED BY <4>1, <4>2, OtherLine
    <3> QED BY <3>1, <3>2
  <2>2. ASSUME NEW n \in Nodes, join(n)
        PROVE  LineInv' /\ backlog' \in [Managers -> Seq(Clients)] /\ sockets' \in [Managers -> Seq(Clients)]
    <3>1. /\ UNCHANGED <<linked, backlog, sockets, server, smgr>> /\ main[n] = "run"
          /\ main' = [main EXCEPT ![n] = "exited"] /\ main \in [Nodes -> {"connect", "run", "exited", "failed"}]
      BY <2>2 DEF join, TypeOK, NodeTypes
    <3>2. \A p \in Nodes : main'[p] \in {"run", "exited"} <=> main[p] \in {"run", "exited"}
      BY <3>1
    <3> QED BY <3>1, <3>2, OtherLine
  <2>3. CASE UNCHANGED <<main, linked, backlog, sockets, server, smgr>>
    BY <2>3, OtherLine
  <2>4. ASSUME NEW n \in Nodes, close_arrive(n) \/ close_done(n) \/ \E c \in On(n) : Client(c)
        PROVE  UNCHANGED <<main, linked, backlog, sockets, server, smgr>>
    <3>1. (\E c \in On(n) : Client(c)) => UNCHANGED <<main, linked, backlog, sockets, server, smgr>>
      BY ClientKeeps
    <3>2. close_arrive(n) \/ close_done(n) => UNCHANGED <<main, linked, backlog, sockets, server, smgr>>
      BY DEF close_arrive, close_done
    <3> QED BY <2>4, <3>1, <3>2
  <2>5. CASE accept_conn
    BY <2>5, AcceptLine
  <2>6. CASE server_listen \/ server_self \/ server_instance \/ server_done \/ recv_from_all \/ server_ack
    <3>1. /\ UNCHANGED <<main, linked, backlog, sockets>>
          /\ \/ server \in {"off", "make", "made"}
             \/ server \in {"sync", "recv", "send", "end"} /\ server' \in {"sync", "recv", "send", "end"}
      BY <2>6 DEF server_listen, server_self, server_instance, server_done, recv_from_all, server_ack
    <3> QED BY <3>1, OtherLine
  <2>7. UNCHANGED vars => UNCHANGED <<main, linked, backlog, sockets, server, smgr>>
    BY DEF vars
  <2> QED BY <2>1, <2>2, <2>3, <2>4, <2>5, <2>6, <2>7 DEF Next, Node, Server
<1>2. ASSUME NEW m \in Managers PROVE Len(backlog'[m]) + Len(sockets'[m]) <= Cardinality(Clients)
  <2>1. backlog'[m] \in Seq(Clients) /\ sockets'[m] \in Seq(Clients)
    BY <1>1
  <2> DEFINE s == sockets'[m]
             b == backlog'[m]
             l == s \o b
  <2>2. \A i, j \in 1..Len(l) : l[i] = l[j] => i = j
    BY <1>1 DEF LineInv, Line
  <2> HIDE DEF s, b
  <2>3. l \in Seq(Clients) /\ Len(l) = Len(s) + Len(b)
    BY <2>1, ConcatProperties DEF s, b
  <2>4. Len(s) \in Nat /\ Len(b) \in Nat
    BY <2>1, LenProperties DEF s, b
  <2>5. Len(l) <= Cardinality(Clients)
    BY <2>2, <2>3, LineBound
  <2>6. Len(b) + Len(s) <= Cardinality(Clients)
    BY <2>3, <2>4, <2>5
  <2> QED BY <2>6 DEF s, b
<1> QED BY <1>1, <1>2 DEF LineTypes

-----------------------------------------------------------------------------
(* The SocketManagers *)

Marching == {"populate", "wait1", "start", "wait2", "apply", "stop", "wait3"}

\* A client passes a barrier or ends its stream.
March(c) ==
    /\ UNCHANGED <<tcp, up, down, pos, root>>
    /\ pc[c] \in Marching
    /\ \E label \in Marching \cup {"ack"} : label # "populate" /\ pc' = [pc EXCEPT ![c] = label]

\* What a client does is one of these.
LEMMA ClientMoves ==
  ASSUME NEW c, Client(c)
  PROVE  \/ host_instance(c) \/ host_create(c) \/ send_root(c) \/ recv_root(c)
         \/ send_server(c) \/ recv_server(c) \/ March(c)
<1>1. CASE run_barrier(c) \/ start_barrier(c) \/ stop_barrier(c)
  BY <1>1 DEF run_barrier, start_barrier, stop_barrier, ArriveAt, Released, Become, March, Marching
<1>2. CASE last_apply(c)
  BY <1>2 DEF last_apply, Become, March, Marching
<1> QED BY <1>1, <1>2 DEF Client

\* There are finitely many hosts.
LEMMA HostsFinite == IsFiniteSet(Hosts) /\ Cardinality(Hosts) \in Nat /\ Hosts \subseteq Clients
<1>1. IsFiniteSet(Hosts) /\ Hosts \subseteq Clients
  BY ClientsFinite, FS_Subset DEF Hosts
<1> QED BY <1>1, FS_CardinalityType

\* A manager that has been made can be listened on.
LEMMA ManagerOf ==
  ASSUME made \in Managers \cup {0}, NEW m \in 0..made, m # NoManager
  PROVE  m \in Managers
BY HostsFinite DEF Managers, NoManager

\* Steps that construct no manager and settle no host.
LEMMA OtherSelf ==
  ASSUME SelfInv, UNCHANGED <<self, made>>,
         server = "off" <=> server' = "off", server \in {"off", "make"} <=> server' \in {"off", "make"},
         made # 0 \/ linked' = linked,
         \A c \in Clients : pc'[c] \in {"mutex", "send"} => pc'[c] = pc[c],
         \A h \in Hosts : /\ root'[h] = root[h] /\ (pc'[h] = "mutex" <=> pc[h] = "mutex")
                          /\ pc'[h] = "off" => pc[h] = "off"
                          /\ pc'[h] = "exchange" => pc[h] \in {"off", "exchange"}
  PROVE  SelfInv'
<1>1. Settled' = Settled
  BY DEF Settled
<1>2. \A c \in Clients : pc'[c] \in {"mutex", "send"} => c \in Hosts
  BY DEF SelfInv
<1>3. \A h \in Hosts :
          /\ pc'[h] = "off" => root'[h] = NoRoot
          /\ pc'[h] = "exchange" /\ root'[h] # NoRoot => self' # NoManager
          /\ pc'[h] = "mutex" => root'[h] # NoRoot
  BY DEF SelfInv
<1>4. /\ made' = 0 <=> server' = "off"
      /\ made' = 0 => \A n \in Nodes : linked'[n] = 0
      /\ self' = NoManager <=> server' \in {"off", "make"}
  BY DEF SelfInv
<1> QED BY <1>1, <1>2, <1>3, <1>4 DEF SelfInv

\* A host tests self.
LEMMA InstanceSelf ==
  ASSUME TypeOK, SelfInv, NEW c \in Clients, host_instance(c)
  PROVE  SelfInv'
<1>1. /\ pc[c] = "exchange" /\ c \in Hosts /\ UNCHANGED <<self, made, server, linked>>
      /\ root' = [root EXCEPT ![c] = RootOf(c)]
      /\ pc' = [pc EXCEPT ![c] = IF self # NoManager THEN "send" ELSE "mutex"]
      /\ DOMAIN root = Clients /\ DOMAIN pc = Clients /\ Hosts \subseteq Clients
  BY HostsFinite DEF host_instance, Become, TypeOK, ClientTypes
<1>2. RootOf(c) # NoRoot
  BY SessionAssumption DEF RootOf, NoRoot, Clients
<1>3. /\ root'[c] # NoRoot /\ pc'[c] = (IF self # NoManager THEN "send" ELSE "mutex")
      /\ \A h \in Clients : h # c => root'[h] = root[h] /\ pc'[h] = pc[h]
  BY <1>1, <1>2
<1>4. Settled \subseteq Settled' /\ Settled' \subseteq Hosts
  <2>1. self = NoManager => c \notin Settled
    BY <1>1 DEF SelfInv, Settled
  <2> QED BY <1>1, <1>3, <2>1 DEF Settled
<1>5. made' <= 1 + Cardinality(Settled')
  <2>1. IsFiniteSet(Settled') /\ IsFiniteSet(Settled)
    BY <1>4, HostsFinite, FS_Subset
  <2>2. Cardinality(Settled) <= Cardinality(Settled') /\ Cardinality(Settled) \in Nat /\ Cardinality(Settled') \in Nat
    BY <1>4, <2>1, FS_Subset, FS_CardinalityType
  <2>3. made <= 1 + Cardinality(Settled) /\ made \in Nat
    BY HostsFinite DEF SelfInv, TypeOK, ServerTypes, Managers
  <2> QED BY <1>1, <2>2, <2>3
<1>6. \A d \in Clients : pc'[d] \in {"mutex", "send"} => d \in Hosts
  BY <1>1, <1>3 DEF SelfInv
<1>7. ASSUME NEW h \in Hosts
      PROVE  /\ pc'[h] = "off" => root'[h] = NoRoot
             /\ pc'[h] = "exchange" /\ root'[h] # NoRoot => self' # NoManager
             /\ pc'[h] = "mutex" => root'[h] # NoRoot
  BY <1>1, <1>3 DEF SelfInv
<1>8. /\ made' = 0 <=> server' = "off"
      /\ made' = 0 => \A n \in Nodes : linked'[n] = 0
      /\ self' = NoManager <=> server' \in {"off", "make"}
  BY <1>1 DEF SelfInv
<1> QED BY <1>5, <1>6, <1>7, <1>8 DEF SelfInv

\* A host that found no self makes another manager: one for each such host.
LEMMA CreateSelf ==
  ASSUME TypeOK, BarrierInv, LineInv, SelfInv, NEW c \in Clients, main[NodeOf(c)] = "run", host_create(c)
  PROVE  SelfInv' /\ made # 0
<1>1. /\ pc[c] = "mutex" /\ server # "make" /\ UNCHANGED <<server, linked, root>>
      /\ made' = made + 1 /\ self' = made + 1
      /\ pc' = [pc EXCEPT ![c] = "exchange"]
      /\ DOMAIN pc = Clients /\ Hosts \subseteq Clients /\ made \in Nat
  BY HostsFinite DEF host_create, Become, TypeOK, ClientTypes, ServerTypes, Managers
<1>2. made # 0
  <2>1. NodeOf(c) \in Nodes
    BY OfNode
  <2>2. linked[NodeOf(c)] = ThreadCount /\ ThreadCount # 0
    BY <2>1, SessionAssumption DEF LineInv
  <2> QED BY <2>1, <2>2 DEF SelfInv
<1>3. pc'[c] = "exchange" /\ \A h \in Clients : h # c => pc'[h] = pc[h]
  BY <1>1
<1>4. c \in Hosts /\ root[c] # NoRoot
  BY <1>1 DEF SelfInv
<1>5. Settled' = Settled \cup {c} /\ c \notin Settled
  BY <1>1, <1>3, <1>4 DEF Settled
<1>6. made' <= 1 + Cardinality(Settled')
  <2>1. IsFiniteSet(Settled)
    BY HostsFinite, FS_Subset DEF Settled
  <2>2. Cardinality(Settled \cup {c}) = Cardinality(Settled) + 1 /\ Cardinality(Settled) \in Nat
    BY <1>5, <2>1, FS_AddElement, FS_CardinalityType
  <2>3. made <= 1 + Cardinality(Settled)
    BY DEF SelfInv
  <2> QED BY <1>1, <1>5, <2>2, <2>3
<1>7. \A d \in Clients : pc'[d] \in {"mutex", "send"} => d \in Hosts
  BY <1>3 DEF SelfInv
<1>8. made' # 0 /\ self' # NoManager /\ server' # "off" /\ server' \notin {"off", "make"}
  BY <1>1, <1>2 DEF SelfInv, NoManager
<1>9. ASSUME NEW h \in Hosts
      PROVE  /\ pc'[h] = "off" => root'[h] = NoRoot
             /\ pc'[h] = "mutex" => root'[h] # NoRoot
  BY <1>1, <1>3 DEF SelfInv
<1> QED BY <1>2, <1>6, <1>7, <1>8, <1>9 DEF SelfInv

MgrTypes ==
    /\ made \in Managers \cup {0} /\ self \in 0..made /\ smgr \in 0..made
    /\ mgr \in [Clients -> 0..made]

\* The managers in use have been made, and there are no more of them than
\* threads that may make one.
LEMMA SelfStep ==
  ASSUME TypeOK, BarrierInv, LineInv, SelfInv, LoopInv, [Next]_vars
  PROVE  SelfInv' /\ MgrTypes'
<1>1. /\ made \in Nat /\ self \in 0..made /\ smgr \in 0..made /\ mgr \in [Clients -> 0..made]
      /\ DOMAIN pc = Clients /\ Hosts \subseteq Clients
  BY HostsFinite DEF TypeOK, ServerTypes, ClientTypes, Managers
<1> DEFINE Goal == /\ SelfInv' /\ made' \in Nat /\ self' \in 0..made' /\ smgr' \in 0..made'
                   /\ mgr' \in [Clients -> 0..made']
<1>2. ASSUME NEW n \in Nodes, connect(n) PROVE Goal
  <2>1. /\ UNCHANGED <<self, made, mgr, smgr, server, root>> /\ (made # 0 \/ linked' = linked)
        /\ \/ pc' = pc
           \/ pc' = [c \in Clients |-> IF c \in On(n) THEN "exchange" ELSE pc[c]]
    BY <1>1, <1>2 DEF connect, listening, tcp
  <2>2. main[n] = "connect" /\ \A c \in On(n) : c \in Clients /\ NodeOf(c) = n
    BY <1>2, OnNode DEF connect
  <2>3. \A c \in On(n) : pc[c] = "off"
    BY <2>2 DEF BarrierInv
  <2>4. \A c \in Clients : pc'[c] = pc[c] \/ (pc[c] = "off" /\ pc'[c] = "exchange")
    BY <2>1, <2>3
  <2>5. SelfInv'
    <3>1. \A c \in Clients : pc'[c] \in {"mutex", "send"} => pc'[c] = pc[c]
      BY <2>4
    <3>2. \A h \in Hosts : /\ root'[h] = root[h] /\ (pc'[h] = "mutex" <=> pc[h] = "mutex")
                           /\ pc'[h] = "off" => pc[h] = "off"
                           /\ pc'[h] = "exchange" => pc[h] \in {"off", "exchange"}
      BY <1>1, <2>1, <2>4
    <3> QED BY <2>1, <3>1, <3>2, OtherSelf
  <2> QED BY <1>1, <2>1, <2>5
<1>3. ASSUME UNCHANGED <<self, made, mgr, linked, root, pc>>, smgr' \in {smgr, self},
             server = "off" <=> server' = "off", server \in {"off", "make"} <=> server' \in {"off", "make"}
      PROVE  Goal
  <2>1. SelfInv'
    <3>1. \A c \in Clients : pc'[c] \in {"mutex", "send"} => pc'[c] = pc[c]
      BY <1>3
    <3>2. \A h \in Hosts : /\ root'[h] = root[h] /\ (pc'[h] = "mutex" <=> pc[h] = "mutex")
                           /\ pc'[h] = "off" => pc[h] = "off"
                           /\ pc'[h] = "exchange" => pc[h] \in {"off", "exchange"}
      BY <1>3
    <3> QED BY <1>3, <3>1, <3>2, OtherSelf
  <2> QED BY <1>1, <1>3, <2>1
<1>4. ASSUME NEW n \in Nodes, join(n) \/ close_arrive(n) \/ close_done(n) PROVE Goal
  <2>1. UNCHANGED <<self, made, mgr, linked, root, pc, smgr, server>>
    BY <1>4 DEF join, close_arrive, close_done, tcp
  <2> HIDE DEF Goal
  <2> QED BY <1>3, <2>1
<1>5. ASSUME server_instance \/ accept_conn \/ server_done \/ recv_from_all \/ server_ack PROVE Goal
  <2>1. UNCHANGED <<self, made, mgr, linked, root, pc>> /\ smgr' \in {smgr, self}
        /\ server \notin {"off", "make"} /\ server' \notin {"off", "make"}
    BY <1>5 DEF server_instance, accept_conn, server_done, recv_from_all, server_ack, tcp
  <2> HIDE DEF Goal
  <2> QED BY <1>3, <2>1
<1>6. ASSUME server_listen PROVE Goal
  <2>1. made = 0 /\ made' = 1 /\ server = "off" /\ server' = "make" /\ UNCHANGED <<self, mgr, linked, root, pc, smgr>>
    BY <1>1, <1>6 DEF server_listen, SelfInv
  <2>2. Settled' = Settled
    BY <2>1 DEF Settled
  <2>3. Cardinality(Settled) \in Nat
    BY HostsFinite, FS_Subset, FS_CardinalityType DEF Settled
  <2>4. SelfInv'
    BY <2>1, <2>2, <2>3 DEF SelfInv
  <2> QED BY <1>1, <2>1, <2>4
<1>7. ASSUME server_self PROVE Goal
  <2>1. made # 0 /\ self' = 1 /\ server = "make" /\ server' = "made"
        /\ UNCHANGED <<made, mgr, linked, root, pc, smgr>>
    BY <1>1, <1>7 DEF server_self, SelfInv
  <2>2. Settled' = Settled
    BY <2>1 DEF Settled
  <2>3. SelfInv'
    BY <2>1, <2>2 DEF SelfInv, NoManager
  <2> QED BY <1>1, <2>1, <2>3
<1>8. ASSUME NEW c \in Clients, main[NodeOf(c)] = "run", Client(c) PROVE Goal
  <2>1. UNCHANGED <<linked, smgr, server>>
    BY <1>8, ClientKeeps
  <2>2. CASE host_instance(c)
    <3>1. SelfInv'
      BY <2>2, InstanceSelf
    <3>2. made' = made /\ self' = self /\ mgr' \in [Clients -> 0..made]
      BY <1>1, <2>2 DEF host_instance
    <3> QED BY <1>1, <2>1, <3>1, <3>2
  <2>3. CASE host_create(c)
    <3>1. SelfInv'
      BY <1>8, <2>3, CreateSelf
    <3>2. made' = made + 1 /\ self' = made + 1 /\ mgr' = mgr
      BY <2>3 DEF host_create
    <3> QED BY <1>1, <2>1, <3>1, <3>2
  <2> DEFINE SameRoots == \A h \in Hosts : root'[h] = root[h]
  <2>4. ASSUME UNCHANGED <<self, made, mgr>>, NEW label, pc' = [pc EXCEPT ![c] = label] \/ pc' = pc,
               label \notin {"off", "exchange", "mutex", "send"}, pc[c] # "mutex",
               SameRoots
        PROVE  Goal
    <3>1. \A d \in Clients : pc'[d] = pc[d] \/ (d = c /\ pc'[d] = label)
      BY <1>1, <2>4
    <3>2. \A d \in Clients : pc'[d] \in {"mutex", "send"} => pc'[d] = pc[d]
      BY <2>4, <3>1
    <3>3. \A h \in Hosts : /\ root'[h] = root[h] /\ (pc'[h] = "mutex" <=> pc[h] = "mutex")
                           /\ pc'[h] = "off" => pc[h] = "off"
                           /\ pc'[h] = "exchange" => pc[h] \in {"off", "exchange"}
      BY <1>1, <2>4, <3>1
    <3>4. SelfInv'
      BY <2>1, <2>4, <3>2, <3>3, OtherSelf
    <3> QED BY <1>1, <2>1, <2>4, <3>4
  <2>0. (root' = root) => SameRoots
    OBVIOUS
  <2> HIDE DEF Goal, SameRoots
  <2>5. CASE send_root(c)
    <3>1. UNCHANGED <<self, made, mgr, root>> /\ pc[c] = "send" /\ (pc' = [pc EXCEPT ![c] = "populate"] \/ pc' = pc)
      BY <2>5 DEF send_root, Become, tcp
    <3> QED BY <2>0, <2>4, <3>1
  <2>6. CASE recv_root(c)
    <3>1. /\ UNCHANGED <<self, made, mgr>> /\ pc[c] = "exchange"
          /\ pc' = [pc EXCEPT ![c] = "populate"] \/ pc' = pc
      BY <2>6 DEF recv_root, Become, tcp
    <3>2. SameRoots
      BY <1>1, <2>6 DEF recv_root, TypeOK, ClientTypes, SameRoots
    <3> QED BY <2>4, <3>1, <3>2
  <2>7. CASE send_server(c) \/ recv_server(c)
    <3>1. UNCHANGED <<self, made, mgr, root>> /\ pc[c] \in {"ack", "waitack"}
          /\ (pc' = [pc EXCEPT ![c] = "waitack"] \/ pc' = [pc EXCEPT ![c] = "done"])
      BY <2>7 DEF send_server, recv_server, Become, tcp
    <3> QED BY <2>0, <2>4, <3>1
  <2>8. CASE March(c)
    <3>1. PICK label \in Marching \cup {"ack"} : label # "populate" /\ pc' = [pc EXCEPT ![c] = label]
      BY <2>8 DEF March
    <3>2. UNCHANGED <<self, made, mgr, root>> /\ pc[c] # "mutex"
      BY <2>8 DEF March, tcp, Marching
    <3>3. label \notin {"off", "exchange", "mutex", "send"}
      BY DEF Marching
    <3> QED BY <2>0, <2>4, <3>1, <3>2, <3>3
  <2> QED BY <1>8, <2>2, <2>3, <2>5, <2>6, <2>7, <2>8, ClientMoves
<1>9. ASSUME UNCHANGED vars PROVE Goal
  <2>1. UNCHANGED <<self, made, mgr, linked, root, pc, smgr, server>>
    BY <1>9 DEF vars
  <2> HIDE DEF Goal
  <2> QED BY <1>3, <2>1
<1>10. Goal
  <2> HIDE DEF Goal
  <2>1. ASSUME NEW n \in Nodes, main[n] = "run", NEW c \in On(n), Client(c) PROVE Goal
    <3>1. c \in Clients /\ NodeOf(c) = n
      BY OnNode
    <3> QED BY <1>8, <2>1, <3>1
  <2> QED BY <1>2, <1>4, <1>5, <1>6, <1>7, <1>9, <2>1 DEF Next, Node, Server
<1>11. made' \in Managers \cup {0}
  <2>1. Settled' \subseteq Hosts
    BY DEF Settled
  <2>2. Cardinality(Settled') <= Cardinality(Hosts) /\ Cardinality(Settled') \in Nat /\ Cardinality(Hosts) \in Nat
    BY <2>1, HostsFinite, FS_Subset, FS_CardinalityType
  <2>3. made' <= 1 + Cardinality(Settled') /\ made' \in Nat
    BY <1>10 DEF SelfInv
  <2> QED BY <2>2, <2>3 DEF Managers
<1> QED BY <1>10, <1>11 DEF MgrTypes

-----------------------------------------------------------------------------
(* The loops *)

\* A client that has told the server goes nowhere else.
LEMMA StoppedStays ==
  ASSUME TypeOK, BarrierInv, [Next]_vars, NEW d \in Clients, Stopped(d)
  PROVE  Stopped(d)'
<1>1. pc[d] \in {"waitack", "done"} /\ DOMAIN pc = Clients
  BY DEF Stopped, TypeOK, ClientTypes
<1>2. ASSUME NEW c \in Clients, Client(c) PROVE pc'[d] \in {"waitack", "done"}
  <2>1. pc'[d] = pc[d] \/ c = d
    BY <1>1, <1>2, ClientMoves DEF host_instance, host_create, send_root, recv_root, send_server, recv_server, March, Become
  <2>2. CASE c = d
    BY <1>1, <1>2, <2>2, ClientMoves
       DEF host_instance, host_create, send_root, recv_root, send_server, recv_server, March, Marching, Become
  <2> QED BY <1>1, <2>1, <2>2
<1>3. ASSUME NEW n \in Nodes, connect(n) PROVE pc'[d] = pc[d]
  <2>1. main[n] = "connect"
    BY <1>3 DEF connect
  <2>2. d \notin On(n)
    BY <1>1, <2>1, OnNode DEF BarrierInv
  <2> QED BY <1>1, <1>3, <2>2 DEF connect
<1>4. \A n \in Nodes : On(n) \subseteq Clients
  BY OnNode
<1>5. Server => pc' = pc
  BY DEF Server, server_listen, server_self, server_instance, accept_conn, server_done, recv_from_all, server_ack
<1>6. ASSUME NEW n \in Nodes, join(n) \/ close_arrive(n) \/ close_done(n) PROVE pc' = pc
  BY <1>6 DEF join, close_arrive, close_done
<1>7. UNCHANGED vars => pc' = pc
  BY DEF vars
<1>8. pc'[d] \in {"waitack", "done"}
  BY <1>1, <1>2, <1>3, <1>4, <1>5, <1>6, <1>7 DEF Next, Node
<1> QED BY <1>8 DEF Stopped

\* Sockets are added at the end, and only while the server accepts.
LEMMA SocketsGrow ==
  ASSUME TypeOK, LoopInv, [Next]_vars
  PROVE  /\ server # "accept" => sockets' = sockets
         /\ \A m \in Managers : /\ Len(sockets'[m]) >= Len(sockets[m]) /\ Len(sockets[m]) \in Nat /\ Len(sockets'[m]) \in Nat
                                /\ \A i \in 1..Len(sockets[m]) : sockets'[m][i] = sockets[m][i]
<1>1. /\ sockets \in [Managers -> Seq(Clients)] /\ backlog \in [Managers -> Seq(Clients)]
      /\ \A m \in Managers : Len(sockets[m]) \in Nat
  BY LenProperties DEF TypeOK, ServerTypes
<1>2. CASE sockets' = sockets
  BY <1>1, <1>2
<1>3. CASE accept_conn
  <2>1. server = "accept" /\ sockets' = [sockets EXCEPT ![smgr] = Append(@, Head(backlog[smgr]))] /\ backlog[smgr] # <<>>
    BY <1>3 DEF accept_conn
  <2>2. smgr \in Managers
    <3>1. made \in Managers \cup {0} /\ smgr \in 0..made /\ smgr # NoManager
      BY <2>1 DEF TypeOK, ServerTypes, LoopInv, ServerLoop
    <3> QED BY <3>1, ManagerOf
  <2>3. Head(backlog[smgr]) \in Clients
    <3>1. backlog[smgr] \in Seq(Clients)
      BY <1>1, <2>2
    <3> QED BY <2>1, <3>1, HeadTailProperties
  <2>4. /\ sockets'[smgr] = Append(sockets[smgr], Head(backlog[smgr]))
        /\ \A m \in Managers : m # smgr => sockets'[m] = sockets[m]
    BY <1>1, <2>1, <2>2
  <2>5. sockets[smgr] \in Seq(Clients)
    BY <1>1, <2>2
  <2>6. /\ Len(sockets'[smgr]) = Len(sockets[smgr]) + 1
        /\ \A i \in 1..Len(sockets[smgr]) : sockets'[smgr][i] = sockets[smgr][i]
    BY <2>3, <2>4, <2>5, AppendProperties
  <2> QED BY <1>1, <2>1, <2>4, <2>6
<1>4. sockets' = sockets \/ accept_conn
  <2>1. ASSUME NEW n \in Nodes, Node(n) PROVE sockets' = sockets
    <3>1. (\E c \in On(n) : Client(c)) => sockets' = sockets
      BY ClientKeeps
    <3>2. connect(n) \/ join(n) \/ close_arrive(n) \/ close_done(n) => sockets' = sockets
      BY DEF connect, join, close_arrive, close_done
    <3> QED BY <2>1, <3>1, <3>2 DEF Node
  <2>2. Server => sockets' = sockets \/ accept_conn
    BY DEF Server, server_listen, server_self, server_instance, server_done, recv_from_all, server_ack
  <2>3. UNCHANGED vars => sockets' = sockets
    BY DEF vars
  <2> QED BY <2>1, <2>2, <2>3 DEF Next
<1> QED BY <1>2, <1>3, <1>4

\* No client is accepted twice.
LEMMA SocketsOnce ==
  ASSUME TypeOK, LineInv, NEW m \in Managers
  PROVE  /\ sockets[m] \in Seq(Clients) /\ Len(sockets[m]) \in Nat
         /\ \A i \in 1..Len(sockets[m]) : sockets[m][i] \in Clients
         /\ \A i, j \in 1..Len(sockets[m]) : sockets[m][i] = sockets[m][j] => i = j
         /\ Len(sockets[m]) <= Cardinality(Clients)
         /\ Len(sockets[m]) = Cardinality(Clients) => \A c \in Clients : \E i \in 1..Len(sockets[m]) : sockets[m][i] = c
<1> DEFINE s == sockets[m]
           b == backlog[m]
<1>1. s \in Seq(Clients) /\ b \in Seq(Clients)
  BY DEF TypeOK, ServerTypes
<1>2. Line(m) = s \o b
  BY DEF Line
<1> HIDE DEF s, b
<1>3. Len(s) \in Nat /\ Len(b) \in Nat /\ \A i \in 1..Len(s) : s[i] \in Clients
  BY <1>1, LenProperties, ElementOfSeq
<1>4. Len(Line(m)) = Len(s) + Len(b) /\ \A i \in 1..Len(s) : Line(m)[i] = s[i]
  BY <1>1, <1>2, <1>3, ConcatProperties
<1>5. ASSUME NEW i \in 1..Len(s), NEW j \in 1..Len(s), s[i] = s[j] PROVE i = j
  <2>1. i \in 1..Len(Line(m)) /\ j \in 1..Len(Line(m)) /\ Line(m)[i] = Line(m)[j]
    BY <1>3, <1>4, <1>5
  <2>2. \A u, v \in 1..Len(Line(m)) : Line(m)[u] = Line(m)[v] => u = v
    BY DEF LineInv
  <2> QED BY <2>1, <2>2
<1>6. /\ Len(s) <= Cardinality(Clients)
      /\ Len(s) = Cardinality(Clients) => \A c \in Clients : \E i \in 1..Len(s) : s[i] = c
  BY <1>1, <1>5, LineBound
<1> QED BY <1>1, <1>3, <1>5, <1>6 DEF s

\* The server's loops stay within the sockets of its manager, and it answers
\* when every client has told it.
LEMMA ServerLoopStep ==
  ASSUME TypeOK, BarrierInv, LineInv, SelfInv, LoopInv, [Next]_vars
  PROVE  /\ ServerLoop' /\ spos' \in Nat \ {0}
         /\ server' \in {"off", "make", "made", "accept", "sync", "recv", "send", "end"}
<1> DEFINE Kinds == {"off", "make", "made", "accept", "sync", "recv", "send", "end"}
           Goal == ServerLoop' /\ spos' \in Nat \ {0} /\ server' \in Kinds
<1>1. AllStopped => AllStopped'
  BY StoppedStays DEF AllStopped
<1>2. spos \in Nat \ {0} /\ server \in Kinds /\ made \in Managers \cup {0} /\ smgr \in 0..made /\ self \in 0..made
  BY ClientsFinite DEF TypeOK, ServerTypes
<1>3. server # "accept" => sockets' = sockets
  BY SocketsGrow
<1>4. ServerLoop
  BY DEF LoopInv
<1>5. ASSUME server' \in Kinds \ {"recv", "send", "end"}, spos' = 1,
             server' \in {"accept", "sync"} => smgr' # NoManager
      PROVE  Goal
  BY <1>5 DEF ServerLoop
<1>6. ASSUME UNCHANGED <<server, smgr, spos>>, done => done' PROVE Goal
  <2>1. CASE server \notin {"recv", "send", "end"}
    <3>1. server' \in Kinds \ {"recv", "send", "end"} /\ spos' = 1 /\ (server' \in {"accept", "sync"} => smgr' # NoManager)
      BY <1>2, <1>4, <1>6, <2>1 DEF ServerLoop
    <3> HIDE DEF Goal, Kinds
    <3> QED BY <1>5, <3>1
  <2>2. CASE server = "recv"
    <3>1. smgr # NoManager /\ spos <= Len(sockets[smgr]) /\ done /\ \A i \in 1..(spos - 1) : Stopped(sockets[smgr][i])
      BY <1>4, <2>2 DEF ServerLoop
    <3>2. \A i \in 1..(spos - 1) : Stopped(sockets[smgr][i])'
      <4> SUFFICES ASSUME NEW i \in 1..(spos - 1) PROVE Stopped(sockets[smgr][i])'
        OBVIOUS
      <4>1. smgr \in Managers
        BY <1>2, <3>1, ManagerOf
      <4>2. sockets[smgr][i] \in Clients
        <5>1. i \in 1..Len(sockets[smgr])
          BY <1>2, <3>1, <4>1, SocketsOnce
        <5> QED BY <4>1, <5>1, SocketsOnce
      <4>3. Stopped(sockets[smgr][i])
        BY <3>1
      <4>4. pc'[sockets[smgr][i]] \in {"waitack", "done"}
        BY <4>2, <4>3, StoppedStays DEF Stopped
      <4> QED BY <1>3, <1>6, <2>2, <4>4 DEF Stopped
    <3> QED BY <1>2, <1>3, <1>6, <2>2, <3>1, <3>2 DEF ServerLoop
  <2>3. CASE server \in {"send", "end"}
    BY <1>1, <1>2, <1>3, <1>4, <1>6, <2>3 DEF ServerLoop
  <2> QED BY <1>2, <2>1, <2>2, <2>3
<1>7. ASSUME server_listen \/ server_self \/ server_instance \/ accept_conn PROVE Goal
  <2>1. /\ server \in {"off", "make", "made", "accept"} /\ spos' = spos
        /\ server' \in {"make", "made", "accept", "sync"}
        /\ server' \in {"accept", "sync"} =>
              (server = "made" /\ smgr' = self) \/ (server = "accept" /\ smgr' = smgr)
    BY <1>7 DEF server_listen, server_self, server_instance, accept_conn
  <2>2. spos = 1 /\ (server = "made" => self # NoManager) /\ (server = "accept" => smgr # NoManager)
    BY <1>4, <2>1 DEF ServerLoop, SelfInv
  <2> HIDE DEF Goal
  <2> QED BY <1>5, <2>1, <2>2
<1>8. ASSUME server_done PROVE Goal
  <2>1. /\ server = "sync" /\ done /\ done' = done /\ smgr' = self /\ spos' = 1
        /\ server' = IF sockets[self] = <<>> THEN "end" ELSE "recv"
    BY <1>8 DEF server_done
  <2>2. self # NoManager
    BY <2>1 DEF SelfInv
  <2>3. self \in Managers
    BY <1>2, <2>2, ManagerOf
  <2>4. sockets[self] # <<>> => Len(sockets[self]) >= 1
    BY <2>3, SocketsOnce, EmptySeq
  <2> QED BY <1>3, <2>1, <2>2, <2>4 DEF ServerLoop
<1>9. ASSUME server \in {"recv", "send"} PROVE smgr \in Managers /\ Len(sockets[smgr]) \in Nat /\ spos <= Len(sockets[smgr])
  <2>1. smgr # NoManager /\ spos <= Len(sockets[smgr])
    BY <1>4, <1>9 DEF ServerLoop
  <2> QED BY <1>2, <2>1, ManagerOf, SocketsOnce
<1>10. ASSUME recv_from_all PROVE Goal
  <2> DEFINE c == sockets[smgr][spos]
  <2>1. /\ server = "recv" /\ up[c] # <<>> /\ smgr' = smgr /\ done' = done /\ pc' = pc
        /\ IF spos < Len(sockets[smgr]) THEN spos' = spos + 1 /\ server' = server
                              ELSE spos' = 1 /\ server' = "send"
    BY <1>10 DEF recv_from_all
  <2>2. smgr \in Managers /\ Len(sockets[smgr]) \in Nat /\ spos \in 1..Len(sockets[smgr])
    BY <1>2, <1>9, <2>1
  <2>3. c \in Clients
    BY <2>2, SocketsOnce
  <2>4. Stopped(c)
    BY <2>1, <2>3 DEF LoopInv
  <2>5. \A i \in 1..spos : Stopped(sockets[smgr][i])
    BY <1>2, <1>4, <2>1, <2>4 DEF ServerLoop
  <2>6. smgr # NoManager /\ done
    BY <1>4, <2>1 DEF ServerLoop
  <2>7. CASE spos < Len(sockets[smgr])
    <3>1. spos' = spos + 1 /\ server' = "recv"
      BY <2>1, <2>7
    <3>2. \A i \in 1..(spos' - 1) : Stopped(sockets[smgr][i])
      BY <1>2, <2>5, <3>1
    <3>3. \A i \in 1..(spos' - 1) : Stopped(sockets[smgr][i])'
      BY <1>3, <2>1, <3>2 DEF Stopped
    <3> QED BY <1>2, <1>3, <2>1, <2>2, <2>6, <2>7, <3>1, <3>3 DEF ServerLoop
  <2>8. CASE ~(spos < Len(sockets[smgr]))
    <3>1. spos' = 1 /\ server' = "send" /\ spos = Len(sockets[smgr])
      BY <1>2, <2>1, <2>2, <2>8
    <3>2. Len(sockets[smgr]) = Cardinality(Clients)
      <4>1. sockets[smgr] # <<>>
        BY <1>2, <2>2, EmptySeq
      <4> QED BY <2>1, <2>2, <4>1 DEF LineInv
    <3>3. \A d \in Clients : \E i \in 1..Len(sockets[smgr]) : sockets[smgr][i] = d
      BY <2>2, <3>2, SocketsOnce
    <3>4. AllStopped'
      BY <2>1, <2>5, <3>1, <3>3 DEF AllStopped, Stopped
    <3> QED BY <1>2, <1>3, <2>1, <2>2, <2>6, <3>1, <3>4 DEF ServerLoop
  <2> QED BY <2>7, <2>8
<1>11. ASSUME server_ack PROVE Goal
  <2>1. /\ server = "send" /\ smgr' = smgr /\ done' = done
        /\ IF spos < Len(sockets[smgr]) THEN spos' = spos + 1 /\ server' = server
                              ELSE spos' = 1 /\ server' = "end"
    BY <1>11 DEF server_ack
  <2>2. smgr # NoManager /\ done /\ AllStopped'
    BY <1>1, <1>4, <2>1 DEF ServerLoop
  <2> QED BY <1>2, <1>3, <1>9, <2>1, <2>2 DEF ServerLoop
<1>12. ASSUME NEW n \in Nodes, Node(n) PROVE UNCHANGED <<server, smgr, spos>> /\ (done => done')
  <2>1. (\E c \in On(n) : Client(c)) => UNCHANGED <<server, smgr, spos, done>>
    BY ClientKeeps
  <2>2. connect(n) \/ join(n) \/ close_arrive(n) => UNCHANGED <<server, smgr, spos, done>>
    BY DEF connect, join, close_arrive
  <2>3. close_done(n) => UNCHANGED <<server, smgr, spos>> /\ (done => done')
    BY DEF close_done
  <2> QED BY <1>12, <2>1, <2>2, <2>3 DEF Node
<1>13. UNCHANGED vars => UNCHANGED <<server, smgr, spos, done>>
  BY DEF vars
<1>14. Goal
  <2> HIDE DEF Goal
  <2> QED BY <1>6, <1>7, <1>8, <1>10, <1>11, <1>12, <1>13 DEF Next, Server
<1> QED BY <1>14

Asleep == {"off", "exchange", "mutex"}

\* A host's loop stays within the sockets of its manager.
LEMMA HostLoopStep ==
  ASSUME TypeOK, BarrierInv, LineInv, SelfInv, LoopInv, [Next]_vars
  PROVE  HostLoop' /\ pos' \in [Clients -> Nat \ {0}]
<1> DEFINE Good(h) == /\ pc'[h] \in Asleep => pos'[h] = 1
                      /\ pos'[h] > 1 => mgr'[h] # NoManager /\ pos'[h] <= Len(sockets'[mgr'[h]]) + 1
                      /\ h \in Hosts /\ pc'[h] \notin Asleep => mgr'[h] # NoManager
           Goal == (\A h \in Clients : Good(h)) /\ pos' \in [Clients -> Nat \ {0}]
<1>1. /\ pos \in [Clients -> Nat \ {0}] /\ DOMAIN pc = Clients /\ made \in Managers \cup {0}
      /\ mgr \in [Clients -> 0..made] /\ self \in 0..made
  BY PosIsPositive DEF TypeOK, ClientTypes, ServerTypes
<1>2. \A h \in Clients :
          /\ pc[h] \in Asleep => pos[h] = 1
          /\ pos[h] > 1 => mgr[h] # NoManager /\ pos[h] <= Len(sockets[mgr[h]]) + 1
          /\ h \in Hosts /\ pc[h] \notin Asleep => mgr[h] # NoManager
  BY DEF LoopInv, HostLoop, Asleep
<1>3. \A m \in Managers : /\ Len(sockets'[m]) >= Len(sockets[m]) /\ Len(sockets[m]) \in Nat /\ Len(sockets'[m]) \in Nat
  BY SocketsGrow
<1>4. ASSUME NEW h \in Clients, pos'[h] = pos[h], mgr'[h] = mgr[h], pc'[h] \in Asleep => pc[h] \in Asleep,
             h \in Hosts /\ pc'[h] \notin Asleep => pc[h] \notin Asleep
      PROVE  Good(h)
  <2>1. ASSUME pos[h] > 1 PROVE mgr[h] # NoManager /\ pos[h] <= Len(sockets'[mgr[h]]) + 1
    <3>1. mgr[h] # NoManager /\ pos[h] <= Len(sockets[mgr[h]]) + 1 /\ mgr[h] \in 0..made
      BY <1>1, <1>2, <2>1
    <3>2. mgr[h] \in Managers
      BY <1>1, <3>1, ManagerOf
    <3> QED BY <1>1, <1>3, <3>1, <3>2
  <2> QED BY <1>2, <1>4, <2>1
<1>5. ASSUME UNCHANGED <<pos, mgr>>,
             \A h \in Clients : /\ pc'[h] \in Asleep => pc[h] \in Asleep
                                /\ h \in Hosts /\ pc'[h] \notin Asleep => pc[h] \notin Asleep
      PROVE  Goal
  <2>1. ASSUME NEW h \in Clients PROVE Good(h)
    <3>1. pos'[h] = pos[h] /\ mgr'[h] = mgr[h]
      BY <1>5
    <3>2. pc'[h] \in Asleep => pc[h] \in Asleep
      BY <1>5
    <3>3. h \in Hosts /\ pc'[h] \notin Asleep => pc[h] \notin Asleep
      BY <1>5
    <3> HIDE DEF Good
    <3> QED BY <1>4, <3>1, <3>2, <3>3
  <2> HIDE DEF Good
  <2> QED BY <1>1, <1>5, <2>1
<1> HIDE DEF Good
<1>6. ASSUME NEW c \in Clients, Client(c) PROVE Goal
  <2>1. CASE host_instance(c)
    <3>1. /\ pc[c] = "exchange" /\ pos' = pos
          /\ \/ self # NoManager /\ mgr' = [mgr EXCEPT ![c] = self] /\ pc' = [pc EXCEPT ![c] = "send"]
             \/ mgr' = mgr /\ pc' = [pc EXCEPT ![c] = "mutex"]
      BY <2>1 DEF host_instance, Become
    <3>2. ASSUME NEW h \in Clients PROVE Good(h)
      <4>1. CASE h # c
        BY <1>1, <1>4, <3>1, <4>1
      <4>2. CASE h = c
        BY <1>1, <1>2, <3>1, <4>2 DEF Good, Asleep
      <4> QED BY <4>1, <4>2
    <3> QED BY <1>1, <3>1, <3>2
  <2>2. CASE host_create(c)
    <3>1. UNCHANGED <<pos, mgr>> /\ pc[c] = "mutex" /\ pc' = [pc EXCEPT ![c] = "exchange"]
      BY <2>2 DEF host_create, Become
    <3>2. \A h \in Clients : (pc'[h] \in Asleep <=> pc[h] \in Asleep)
      BY <1>1, <3>1 DEF Asleep
    <3> HIDE DEF Goal
    <3> QED BY <1>5, <3>1, <3>2
  <2>3. CASE send_root(c)
    <3>1. pc[c] = "send" /\ mgr' = mgr /\ mgr[c] # NoManager
      <4>1. c \in Hosts
        BY <2>3 DEF send_root, SelfInv
      <4> QED BY <1>2, <2>3, <4>1 DEF send_root, tcp, Asleep
    <3>2. mgr[c] \in Managers
      <4>1. mgr[c] \in 0..made
        BY <1>1
      <4> QED BY <1>1, <3>1, <4>1, ManagerOf
    <3>3. CASE pos[c] <= Len(sockets[mgr[c]])
      <4>1. pos' = [pos EXCEPT ![c] = @ + 1] /\ pc' = pc
        BY <2>3, <3>3 DEF send_root
      <4>2. ASSUME NEW h \in Clients PROVE Good(h)
        <5>1. CASE h # c
          BY <1>1, <1>4, <3>1, <4>1, <5>1
        <5>2. CASE h = c
          <6>1. pos'[c] = pos[c] + 1 /\ pos'[c] <= Len(sockets'[mgr[c]]) + 1
            BY <1>1, <1>3, <3>2, <3>3, <4>1
          <6> QED BY <3>1, <4>1, <5>2, <6>1 DEF Good, Asleep
        <5> QED BY <5>1, <5>2
      <4>3. pos' \in [Clients -> Nat \ {0}]
        BY <1>1, <4>1
      <4> QED BY <4>2, <4>3
    <3>4. CASE ~(pos[c] <= Len(sockets[mgr[c]]))
      <4>1. UNCHANGED <<pos, mgr>> /\ pc' = [pc EXCEPT ![c] = "populate"]
        BY <2>3, <3>1, <3>4 DEF send_root, Become
      <4>2. \A h \in Clients : (pc'[h] \in Asleep <=> pc[h] \in Asleep)
        BY <1>1, <3>1, <4>1 DEF Asleep
      <4> HIDE DEF Goal
      <4> QED BY <1>5, <4>1, <4>2
    <3> QED BY <3>3, <3>4
  <2>4. CASE recv_root(c)
    <3>1. UNCHANGED <<pos, mgr>> /\ pc[c] = "exchange" /\ c \notin Hosts /\ pc' = [pc EXCEPT ![c] = "populate"]
      BY <2>4 DEF recv_root, Become, tcp
    <3>2. \A h \in Clients : /\ pc'[h] \in Asleep => pc[h] \in Asleep
                             /\ h \in Hosts /\ pc'[h] \notin Asleep => pc[h] \notin Asleep
      BY <1>1, <3>1 DEF Asleep
    <3> HIDE DEF Goal
    <3> QED BY <1>5, <3>1, <3>2
  <2>5. CASE send_server(c) \/ recv_server(c) \/ March(c)
    <3>1. /\ UNCHANGED <<pos, mgr>> /\ pc[c] \notin Asleep
          /\ \E label : label \notin Asleep /\ pc' = [pc EXCEPT ![c] = label]
      BY <2>5 DEF send_server, recv_server, March, Marching, Become, tcp, Asleep
    <3>2. \A h \in Clients : (pc'[h] \in Asleep <=> pc[h] \in Asleep)
      BY <1>1, <3>1
    <3> HIDE DEF Goal
    <3> QED BY <1>5, <3>1, <3>2
  <2> QED BY <1>6, <2>1, <2>2, <2>3, <2>4, <2>5, ClientMoves
<1>7. ASSUME NEW n \in Nodes, connect(n) PROVE Goal
  <2>1. main[n] = "connect" /\ UNCHANGED <<pos, mgr>>
        /\ (pc' = pc \/ pc' = [c \in Clients |-> IF c \in On(n) THEN "exchange" ELSE pc[c]])
    BY <1>7 DEF connect, tcp
  <2>2. \A c \in On(n) : pc[c] = "off"
    BY <2>1, OnNode DEF BarrierInv
  <2>3. \A h \in Clients : (pc'[h] \in Asleep <=> pc[h] \in Asleep)
    BY <2>1, <2>2 DEF Asleep
  <2> HIDE DEF Goal
  <2> QED BY <1>5, <2>1, <2>3
<1>8. ASSUME UNCHANGED <<pos, mgr, pc>> PROVE Goal
  <2> HIDE DEF Goal
  <2> QED BY <1>5, <1>8
<1>9. Server => UNCHANGED <<pos, mgr, pc>>
  BY DEF Server, server_listen, server_self, server_instance, accept_conn, server_done, recv_from_all, server_ack, tcp
<1>10. ASSUME NEW n \in Nodes, join(n) \/ close_arrive(n) \/ close_done(n) PROVE UNCHANGED <<pos, mgr, pc>>
  BY <1>10 DEF join, close_arrive, close_done, tcp
<1>11. UNCHANGED vars => UNCHANGED <<pos, mgr, pc>>
  BY DEF vars
<1>12. \A n \in Nodes : On(n) \subseteq Clients
  BY OnNode
<1>13. Goal
  <2> HIDE DEF Goal
  <2> QED BY <1>6, <1>7, <1>8, <1>9, <1>10, <1>11, <1>12 DEF Next, Node
<1> QED BY <1>13 DEF HostLoop, Asleep, Good

Labels == {"off", "exchange", "mutex", "send", "populate", "wait1", "start", "wait2", "apply", "stop", "wait3",
           "ack", "waitack", "done"}

\* The messages and the places of the clients keep their shape, and a message
\* to the server comes from a client that has stopped.
LEMMA MailStep ==
  ASSUME TypeOK, BarrierInv, LineInv, SelfInv, LoopInv, [Next]_vars
  PROVE  /\ up' \in [Clients -> Seq({Ack})] /\ down' \in [Clients -> Seq(Words)]
         /\ pc' \in [Clients -> Labels] /\ root' \in [Clients -> Words \cup {NoRoot}]
         /\ \A c \in Clients : up'[c] # <<>> => Stopped(c)'
<1> DEFINE Places == pc' \in [Clients -> Labels] /\ root' \in [Clients -> Words \cup {NoRoot}]
           Boxes == up' \in [Clients -> Seq({Ack})] /\ down' \in [Clients -> Seq(Words)]
           Heard == \A c \in Clients : up'[c] # <<>> => Stopped(c)'
           Goal == Places /\ Boxes /\ Heard
<1>1. /\ up \in [Clients -> Seq({Ack})] /\ down \in [Clients -> Seq(Words)]
      /\ pc \in [Clients -> Labels] /\ root \in [Clients -> Words \cup {NoRoot}]
  BY DEF TypeOK, ClientTypes, Labels
<1>2. \A c \in Clients : up[c] # <<>> => Stopped(c)'
  BY StoppedStays DEF LoopInv
<1>3. Ack \in Words /\ \A c \in Clients : RootOf(c) \in Words
  BY SessionAssumption DEF Ack, Words, RootOf, Clients
<1>4. ASSUME NEW c \in Clients, Client(c) PROVE Goal
  <2>1. CASE host_instance(c)
    <3>1. UNCHANGED <<up, down>> /\ root' = [root EXCEPT ![c] = RootOf(c)]
          /\ \E label \in Labels : pc' = [pc EXCEPT ![c] = label]
      BY <2>1 DEF host_instance, Become, Labels
    <3> QED BY <1>1, <1>2, <1>3, <3>1
  <2>2. CASE host_create(c) \/ March(c)
    <3>1. UNCHANGED <<up, down, root>> /\ \E label \in Labels : pc' = [pc EXCEPT ![c] = label]
      BY <2>2 DEF host_create, March, Become, Labels, Marching
    <3> QED BY <1>1, <1>2, <3>1
  <2>3. CASE send_root(c)
    <3>1. /\ UNCHANGED <<up, root>> /\ pc[c] = "send"
          /\ \/ pos[c] <= Len(sockets[mgr[c]]) /\ down' = [down EXCEPT ![sockets[mgr[c]][pos[c]]] = Append(@, RootOf(c))]
             \/ down' = down
          /\ pc' = pc \/ pc' = [pc EXCEPT ![c] = "populate"]
      BY <2>3 DEF send_root, Become
    <3>2. Places
      BY <1>1, <3>1 DEF Labels
    <3>3. down' \in [Clients -> Seq(Words)]
      <4>1. CASE pos[c] <= Len(sockets[mgr[c]]) /\ down' = [down EXCEPT ![sockets[mgr[c]][pos[c]]] = Append(@, RootOf(c))]
        <5>1. c \in Hosts /\ mgr[c] # NoManager
          BY <3>1 DEF SelfInv, LoopInv, HostLoop
        <5>2. mgr[c] \in Managers
          <6>1. made \in Managers \cup {0} /\ mgr[c] \in 0..made
            BY DEF TypeOK, ServerTypes, ClientTypes
          <6> QED BY <5>1, <6>1, ManagerOf
        <5>3. pos[c] \in Nat \ {0} /\ Len(sockets[mgr[c]]) \in Nat
          BY <5>2, PosIsPositive, SocketsOnce
        <5>4. pos[c] \in 1..Len(sockets[mgr[c]])
          BY <4>1, <5>3
        <5>5. sockets[mgr[c]][pos[c]] \in Clients
          BY <5>2, <5>4, SocketsOnce
        <5> QED BY <1>1, <1>3, <4>1, <5>5
      <4> QED BY <1>1, <3>1, <4>1
    <3> QED BY <1>1, <1>2, <3>1, <3>2, <3>3
  <2>4. CASE recv_root(c)
    <3>1. /\ up' = up /\ down[c] # <<>> /\ root' = [root EXCEPT ![c] = Head(down[c])]
          /\ down' = [down EXCEPT ![c] = Tail(@)] /\ pc' = [pc EXCEPT ![c] = "populate"]
      BY <2>4 DEF recv_root, Become
    <3>2. down[c] \in Seq(Words)
      BY <1>1
    <3>3. Head(down[c]) \in Words /\ Tail(down[c]) \in Seq(Words)
      BY <3>1, <3>2, HeadTailProperties
    <3>4. Places
      BY <1>1, <3>1, <3>3 DEF Labels
    <3> QED BY <1>1, <1>2, <3>1, <3>3, <3>4
  <2>5. CASE send_server(c)
    <3>1. UNCHANGED <<down, root>> /\ up' = [up EXCEPT ![c] = Append(@, Ack)] /\ pc' = [pc EXCEPT ![c] = "waitack"]
      BY <2>5 DEF send_server, Become
    <3>2. up' \in [Clients -> Seq({Ack})]
      BY <1>1, <3>1
    <3>3. Places
      BY <1>1, <3>1 DEF Labels
    <3>4. Heard
      <4> SUFFICES ASSUME NEW d \in Clients, up'[d] # <<>> PROVE Stopped(d)'
        OBVIOUS
      <4>1. CASE d = c
        BY <1>1, <3>1, <4>1 DEF Stopped
      <4>2. CASE d # c
        BY <1>1, <1>2, <3>1, <4>2
      <4> QED BY <4>1, <4>2
    <3> QED BY <1>1, <3>1, <3>2, <3>3, <3>4
  <2>6. CASE recv_server(c)
    <3>1. /\ UNCHANGED <<up, root>> /\ down[c] # <<>>
          /\ down' = [down EXCEPT ![c] = Tail(@)] /\ pc' = [pc EXCEPT ![c] = "done"]
      BY <2>6 DEF recv_server, Become
    <3>2. down[c] \in Seq(Words)
      BY <1>1
    <3>3. Tail(down[c]) \in Seq(Words)
      BY <3>1, <3>2, HeadTailProperties
    <3>4. Places
      BY <1>1, <3>1 DEF Labels
    <3> QED BY <1>1, <1>2, <3>1, <3>3, <3>4
  <2> HIDE DEF Goal
  <2> QED BY <1>4, <2>1, <2>2, <2>3, <2>4, <2>5, <2>6, ClientMoves
<1>5. ASSUME NEW n \in Nodes, connect(n) PROVE Goal
  <2>1. UNCHANGED <<up, down, root>>
        /\ (pc' = pc \/ pc' = [c \in Clients |-> IF c \in On(n) THEN "exchange" ELSE pc[c]])
    BY <1>5 DEF connect
  <2>2. Places
    BY <1>1, <2>1 DEF Labels
  <2> QED BY <1>1, <1>2, <2>1, <2>2
<1>6. ASSUME UNCHANGED <<up, down, root, pc>> PROVE Goal
  BY <1>1, <1>2, <1>6
<1>7. ASSUME NEW n \in Nodes, join(n) \/ close_arrive(n) \/ close_done(n) PROVE UNCHANGED <<up, down, root, pc>>
  BY <1>7 DEF join, close_arrive, close_done
<1>8. ASSUME server \in {"recv", "send"} PROVE sockets[smgr][spos] \in Clients
  <2>1. smgr # NoManager /\ spos <= Len(sockets[smgr]) /\ made \in Managers \cup {0} /\ smgr \in 0..made /\ spos \in Nat \ {0}
    BY <1>8, ClientsFinite DEF LoopInv, ServerLoop, TypeOK, ServerTypes
  <2>2. smgr \in Managers
    BY <2>1, ManagerOf
  <2>3. spos \in 1..Len(sockets[smgr])
    BY <2>1, <2>2, SocketsOnce
  <2> QED BY <2>2, <2>3, SocketsOnce
<1>9. ASSUME recv_from_all PROVE Goal
  <2> DEFINE c == sockets[smgr][spos]
  <2>1. server = "recv" /\ up[c] # <<>> /\ up' = [up EXCEPT ![c] = Tail(@)] /\ UNCHANGED <<down, root, pc>>
    BY <1>9 DEF recv_from_all
  <2>2. c \in Clients
    BY <1>8, <2>1
  <2> HIDE DEF c
  <2>3. up[c] \in Seq({Ack})
    BY <1>1, <2>2
  <2>4. Tail(up[c]) \in Seq({Ack})
    BY <2>1, <2>3, HeadTailProperties
  <2>5. up' \in [Clients -> Seq({Ack})]
    BY <1>1, <2>1, <2>2, <2>4
  <2>6. Heard
    <3> SUFFICES ASSUME NEW d \in Clients, up'[d] # <<>> PROVE Stopped(d)'
      OBVIOUS
    <3>1. up[d] # <<>>
      <4>1. d # c => up'[d] = up[d]
        BY <1>1, <2>1
      <4> QED BY <2>1, <4>1
    <3> QED BY <1>2, <3>1
  <2> QED BY <1>1, <2>1, <2>5, <2>6
<1>10. ASSUME server_ack PROVE Goal
  <2> DEFINE c == sockets[smgr][spos]
  <2>1. server = "send" /\ down' = [down EXCEPT ![c] = Append(@, Ack)] /\ UNCHANGED <<up, root, pc>>
    BY <1>10 DEF server_ack
  <2>2. c \in Clients
    BY <1>8, <2>1
  <2> HIDE DEF c
  <2>3. down' \in [Clients -> Seq(Words)]
    BY <1>1, <1>3, <2>1, <2>2
  <2> QED BY <1>1, <1>2, <2>1, <2>3
<1>11. ASSUME server_listen \/ server_self \/ server_instance \/ accept_conn \/ server_done
       PROVE  UNCHANGED <<up, down, root, pc>>
  BY <1>11 DEF server_listen, server_self, server_instance, accept_conn, server_done
<1>12. UNCHANGED vars => UNCHANGED <<up, down, root, pc>>
  BY DEF vars
<1>13. \A n \in Nodes : On(n) \subseteq Clients
  BY OnNode
<1>14. Goal
  <2> HIDE DEF Goal
  <2> QED BY <1>4, <1>5, <1>6, <1>7, <1>9, <1>10, <1>11, <1>12, <1>13 DEF Next, Node, Server
<1> QED BY <1>14

-----------------------------------------------------------------------------
(* The invariant of the session *)

\* It holds when every main thread is about to connect.
LEMMA SessionStarts ==
  ASSUME Init
  PROVE  SessionInv
<1>1. ThreadCount \in Nat \ {0} /\ Cardinality(Clients) \in Nat \ {0} /\ Cardinality(Hosts) \in Nat
  BY SessionAssumption, ClientsFinite, HostsFinite
<1>2. <<>> \in Seq(Clients) /\ <<>> \in Seq({Ack}) /\ <<>> \in Seq(Words) /\ Len(<<>>) = 0 /\ <<>> \o <<>> = <<>>
  OBVIOUS
<1>3. NodeTypes
  <2>1. done \in BOOLEAN
    BY DEF Init
  <2>2. main \in [Nodes -> {"connect", "run", "exited", "failed"}] /\ closer \in [Nodes -> {"sleep", "wait", "end"}]
    BY DEF Init
  <2>3. 0 \in 0..ThreadCount /\ 0 \in 0..(ThreadCount - 1) /\ 0 \in 0..3
    BY <1>1
  <2> QED BY <2>1, <2>2, <2>3 DEF Init, NodeTypes
<1>4. ServerTypes
  BY <1>1, <1>2 DEF Init, ServerTypes, Managers, NoManager
<1>5. ClientTypes
  BY <1>1, <1>2 DEF Init, ClientTypes, NoManager
<1>6. BarrierInv
  <2>1. \A c \in Clients : MayStand(c) /\ (main[NodeOf(c)] \in {"connect", "failed"} => pc[c] = "off")
    BY OfNode DEF Init, MayStand, Early
  <2>2. ASSUME NEW n \in Nodes PROVE arrived[n] = Cardinality(Arrivers(n))
    <3>1. Arrivers(n) = {}
      BY OnNode DEF Init, Arrivers
    <3>2. Cardinality({}) = 0
      BY FS_EmptySet
    <3> QED BY <3>1, <3>2 DEF Init
  <2>3. ASSUME NEW n \in Nodes PROVE phase[n] = 0 /\ closer[n] = "sleep" /\ ~done
    BY DEF Init
  <2> QED BY <2>1, <2>2, <2>3 DEF BarrierInv, Init
<1>7. LineInv
  <2>1. \A m \in Managers : Line(m) = <<>> /\ sockets[m] = <<>>
    BY <1>2 DEF Init, Line
  <2>2. \A n \in Nodes : main[n] = "connect" /\ linked[n] = 0
    BY DEF Init
  <2> QED BY <1>1, <1>2, <2>1, <2>2 DEF LineInv
<1>8. SelfInv
  <2>1. \A c \in Clients : pc[c] = "off" /\ root[c] = NoRoot
    BY DEF Init
  <2>2. Cardinality(Settled) \in Nat
    BY HostsFinite, FS_Subset, FS_CardinalityType DEF Settled
  <2> QED BY <2>1, <2>2, HostsFinite DEF Init, SelfInv, NoManager
<1>9. LoopInv
  <2>1. \A c \in Clients : pc[c] = "off" /\ pos[c] = 1 /\ up[c] = <<>>
    BY DEF Init
  <2>2. server = "off" /\ spos = 1
    BY DEF Init
  <2> QED BY <2>1, <2>2 DEF LoopInv, ServerLoop, HostLoop
<1> QED BY <1>3, <1>4, <1>5, <1>6, <1>7, <1>8, <1>9 DEF SessionInv, TypeOK

\* Every step keeps it.
LEMMA SessionStep ==
  ASSUME SessionInv, [Next]_vars
  PROVE  SessionInv'
<1>0. TypeOK /\ BarrierInv /\ LineInv /\ SelfInv /\ LoopInv
  BY DEF SessionInv
<1>1. BarrierInv' /\ NodeTypes'
  BY <1>0, BarrierStep
<1>2. LineInv' /\ LineTypes'
  BY <1>0, LineStep
<1>3. SelfInv' /\ MgrTypes'
  BY <1>0, SelfStep
<1>4. /\ ServerLoop' /\ spos' \in Nat \ {0}
      /\ server' \in {"off", "make", "made", "accept", "sync", "recv", "send", "end"}
  BY <1>0, ServerLoopStep
<1>5. HostLoop' /\ pos' \in [Clients -> Nat \ {0}]
  BY <1>0, HostLoopStep
<1>6. /\ up' \in [Clients -> Seq({Ack})] /\ down' \in [Clients -> Seq(Words)]
      /\ pc' \in [Clients -> Labels] /\ root' \in [Clients -> Words \cup {NoRoot}]
      /\ \A c \in Clients : up'[c] # <<>> => Stopped(c)'
  BY <1>0, MailStep
<1>7. LoopInv'
  BY <1>4, <1>5, <1>6 DEF LoopInv
<1>8. ASSUME NEW m \in 0..made', m # NoManager PROVE Len(sockets'[m]) \in Nat /\ Len(sockets'[m]) <= Cardinality(Clients)
  <2>1. m \in Managers
    BY <1>3, <1>8, HostsFinite DEF MgrTypes, Managers, NoManager
  <2>2. sockets'[m] \in Seq(Clients) /\ backlog'[m] \in Seq(Clients) /\ Len(backlog'[m]) + Len(sockets'[m]) <= Cardinality(Clients)
    BY <1>2, <2>1 DEF LineTypes
  <2> DEFINE s == Len(sockets'[m])
             b == Len(backlog'[m])
  <2>3. s \in Nat /\ b \in Nat /\ b + s <= Cardinality(Clients)
    BY <2>2, LenProperties
  <2> HIDE DEF s, b
  <2>4. s <= Cardinality(Clients)
    BY <2>3, ClientsFinite
  <2> QED BY <2>3, <2>4 DEF s
<1>9. spos' \in 1..Cardinality(Clients)
  <2>1. CASE server' \in {"recv", "send"}
    <3>1. smgr' # NoManager /\ spos' <= Len(sockets'[smgr']) /\ smgr' \in 0..made'
      BY <1>3, <1>4, <2>1 DEF ServerLoop, MgrTypes
    <3> QED BY <1>4, <1>8, <3>1, ClientsFinite
  <2>2. CASE server' \notin {"recv", "send"}
    BY <1>4, <2>2, ClientsFinite DEF ServerLoop
  <2> QED BY <2>1, <2>2
<1>10. pos' \in [Clients -> 1..(Cardinality(Clients) + 1)]
  <2>1. ASSUME NEW h \in Clients PROVE pos'[h] \in 1..(Cardinality(Clients) + 1)
    <3>1. CASE pos'[h] > 1
      <4>1. mgr'[h] # NoManager /\ pos'[h] <= Len(sockets'[mgr'[h]]) + 1 /\ mgr'[h] \in 0..made'
        BY <1>3, <1>5, <3>1 DEF HostLoop, MgrTypes
      <4> QED BY <1>5, <1>8, <4>1, ClientsFinite
    <3>2. CASE ~(pos'[h] > 1)
      BY <1>5, <3>2, ClientsFinite
    <3> QED BY <3>1, <3>2
  <2> QED BY <1>5, <2>1
<1>11. ServerTypes'
  BY <1>2, <1>3, <1>4, <1>9 DEF ServerTypes, LineTypes, MgrTypes
<1>12. ClientTypes'
  BY <1>3, <1>6, <1>10 DEF ClientTypes, MgrTypes, Labels
<1> QED BY <1>1, <1>2, <1>3, <1>7, <1>11, <1>12 DEF SessionInv, TypeOK

\* The inductive invariant of a session, for any number of nodes, threads and
\* pools: barriers, connections, managers and loops (main.cc, tcp.h,
\* role_server.h, role_client.h) stay as SessionInv says.
THEOREM SessionInvariant == Spec => []SessionInv
<1>1. Init => SessionInv
  BY SessionStarts
<1>2. SessionInv /\ [Next]_vars => SessionInv'
  BY SessionStep
<1> QED BY <1>1, <1>2, PTL DEF Spec

\* Every variable keeps its shape: no loop over client_sockets leaves it, and
\* no connection is queued or accepted twice.
THEOREM SessionTyped == Spec => []TypeOK
<1>1. SessionInv => TypeOK
  BY DEF SessionInv
<1> QED BY <1>1, SessionInvariant, PTL

\* The barriers of Run, Start and Stop keep the clients of a node in step, and
\* the done flag of the server comes after every stream but the master's.
THEOREM ClientsInStep == Spec => []InStep
<1>1. SessionInv => InStep
  BY BarrierMeansStep DEF SessionInv
<1> QED BY <1>1, SessionInvariant, PTL

-----------------------------------------------------------------------------
(* One host *)

\* With as many pools as threads only the first thread of node 0 is a host.
LEMMA TheHost ==
  ASSUME OneHost
  PROVE  Hosts = {host} /\ host \in Clients /\ NodeOf(host) = 0 /\ host \in On(0) /\ 0 \in Nodes /\ Master(host)
<1>1. 0 \in Nodes
  BY SessionAssumption DEF Nodes
<1>2. host \in Clients /\ NodeOf(host) = 0 /\ host \in On(0) /\ Master(host)
  BY <1>1, OnNode DEF host
<1>3. ASSUME NEW t \in 0..(ThreadCount - 1) PROVE t % MPools = 0 <=> t = 0
  <2>1. ThreadCount \in Nat \ {0} /\ MPools = ThreadCount
    BY SessionAssumption DEF OneHost
  <2> QED BY <2>1
<1>4. Hosts = {host}
  <2>1. \A c \in Clients : c[2] \in 0..(ThreadCount - 1) /\ c = <<NodeOf(c), c[2]>>
    BY DEF Clients, NodeOf
  <2>2. \A c \in Clients : c \in Hosts <=> NodeOf(c) = 0 /\ c[2] = 0
    BY <1>3, <2>1 DEF Hosts
  <2>3. \A c \in Clients : c \in Hosts <=> c = host
    BY <1>2, <2>1, <2>2 DEF host, Master
  <2> QED BY <1>2, <2>3, HostsFinite
<1> QED BY <1>1, <1>2, <1>4

\* A root that has been sent has been sent.
LEMMA SentStays ==
  ASSUME OneHost, SessionInv, [Next]_vars, NEW c \in Clients, Sent(c)
  PROVE  Sent(c)'
<1>0. TypeOK /\ BarrierInv /\ LineInv /\ SelfInv /\ LoopInv
  BY DEF SessionInv
<1>1. PICK i \in 1..(pos[host] - 1) : sockets[mgr[host]][i] = c
  BY DEF Sent
<1>2. host \in Clients
  BY TheHost
<1>3. pos[host] \in Nat /\ pos[host] > 1 /\ i < pos[host] /\ i \in Nat \ {0}
  BY <1>0, <1>1, <1>2, PosIsPositive
<1>4. mgr[host] # NoManager /\ pos[host] <= Len(sockets[mgr[host]]) + 1 /\ pc[host] \notin Asleep
  BY <1>0, <1>2, <1>3 DEF LoopInv, HostLoop, Asleep
<1>5. mgr[host] \in Managers
  <2>1. made \in Managers \cup {0} /\ mgr[host] \in 0..made
    BY <1>0, <1>2 DEF TypeOK, ServerTypes, ClientTypes
  <2> QED BY <1>4, <2>1, ManagerOf
<1>6. i \in 1..Len(sockets[mgr[host]])
  BY <1>0, <1>3, <1>4, <1>5, SocketsOnce
<1>7. sockets'[mgr[host]][i] = c
  BY <1>0, <1>1, <1>5, <1>6, SocketsGrow
<1>8. mgr'[host] = mgr[host] /\ (pos'[host] = pos[host] \/ pos'[host] = pos[host] + 1)
  <2>1. mgr \in [Clients -> 0..made] /\ pos \in [Clients -> Nat \ {0}]
    BY <1>0, PosIsPositive DEF TypeOK, ClientTypes
  <2> DEFINE Goal == mgr'[host] = mgr[host] /\ (pos'[host] = pos[host] \/ pos'[host] = pos[host] + 1)
  <2>2. ASSUME NEW d \in Clients, Client(d) PROVE Goal
    <3>1. CASE host_instance(d)
      BY <1>2, <1>4, <2>1, <3>1 DEF host_instance, Asleep
    <3>2. CASE send_root(d)
      BY <1>2, <2>1, <3>2 DEF send_root, tcp
    <3>3. CASE host_create(d) \/ recv_root(d) \/ send_server(d) \/ recv_server(d) \/ March(d)
      BY <3>3 DEF host_create, recv_root, send_server, recv_server, March, tcp
    <3> QED BY <2>2, <3>1, <3>2, <3>3, ClientMoves
  <2>3. ASSUME NEW n \in Nodes, connect(n) \/ join(n) \/ close_arrive(n) \/ close_done(n) PROVE UNCHANGED <<pos, mgr>>
    BY <2>3 DEF connect, join, close_arrive, close_done, tcp
  <2>4. Server => UNCHANGED <<pos, mgr>>
    BY DEF Server, server_listen, server_self, server_instance, accept_conn, server_done, recv_from_all, server_ack, tcp
  <2>5. UNCHANGED vars => UNCHANGED <<pos, mgr>>
    BY DEF vars
  <2>6. UNCHANGED <<pos, mgr>> => Goal
    OBVIOUS
  <2>7. \A n \in Nodes : On(n) \subseteq Clients
    BY OnNode
  <2> HIDE DEF Goal
  <2>8. Goal
    BY <2>2, <2>3, <2>4, <2>5, <2>6, <2>7 DEF Next, Node
  <2> QED BY <2>8 DEF Goal
<1>9. i \in 1..(pos'[host] - 1)
  BY <1>3, <1>8
<1> QED BY <1>7, <1>8, <1>9 DEF Sent, host

\* A client that is no host: its first message is the root, the next one says
\* that everybody has stopped.
LEMMA GuestStep ==
  ASSUME OneHost, SessionInv, [Next]_vars, NEW c \in Clients \ Hosts, GuestMail(c)
  PROVE  GuestMail(c)'
<1> DEFINE Young == {"off", "exchange"}
<1>0. TypeOK /\ BarrierInv /\ LineInv /\ SelfInv /\ LoopInv
  BY DEF SessionInv
<1>1. AllStopped => AllStopped'
  BY <1>0, StoppedStays DEF AllStopped
<1>2. Sent(c) => Sent(c)'
  BY SentStays
<1>3. Hosts = {host} /\ c # host /\ c \in Clients
  BY TheHost
<1>4. /\ down \in [Clients -> Seq(Words)] /\ DOMAIN pc = Clients
      /\ pc[c] \in Young => Len(down[c]) <= 1 /\ (down[c] # <<>> => Sent(c))
      /\ pc[c] \notin Young => Sent(c) /\ (down[c] # <<>> => AllStopped)
      /\ pc[c] = "done" => AllStopped
  BY <1>0 DEF TypeOK, ClientTypes, GuestMail
<1>5. ASSUME down'[c] = down[c], pc'[c] \in Young <=> pc[c] \in Young, pc'[c] = "done" => pc[c] = "done"
      PROVE  GuestMail(c)'
  BY <1>1, <1>2, <1>4, <1>5 DEF GuestMail
<1>6. ASSUME NEW d \in Clients, Client(d) PROVE GuestMail(c)'
  <2>1. CASE host_instance(d) \/ host_create(d)
    <3>1. d = host
      BY <1>0, <1>3, <2>1 DEF host_instance, host_create, SelfInv
    <3>2. pc'[c] = pc[c] /\ down' = down
      BY <1>3, <1>4, <2>1, <3>1 DEF host_instance, host_create, Become
    <3> QED BY <1>5, <3>2
  <2>2. CASE send_root(d)
    <3>1. d = host /\ pc[host] = "send" /\ mgr' = mgr /\ sockets' = sockets
      BY <1>0, <1>3, <2>2 DEF send_root, SelfInv, tcp
    <3>2. pc'[c] = pc[c]
      BY <1>3, <1>4, <2>2, <3>1 DEF send_root, Become
    <3>3. CASE down' = down
      BY <1>5, <3>2, <3>3
    <3>4. CASE down' # down
      <4> DEFINE s == sockets[mgr[host]]
                 p == pos[host]
      <4>1. p <= Len(s) /\ down' = [down EXCEPT ![s[p]] = Append(@, RootOf(host))] /\ pos' = [pos EXCEPT ![host] = @ + 1]
        BY <2>2, <3>1, <3>4 DEF send_root
      <4>2. CASE s[p] # c
        <5>1. down'[c] = down[c]
          BY <1>3, <1>4, <4>1, <4>2
        <5> QED BY <1>5, <3>2, <5>1
      <4>3. CASE s[p] = c
        <5>1. mgr[host] \in Managers
          <6>1. mgr[host] # NoManager /\ made \in Managers \cup {0} /\ mgr[host] \in 0..made
            BY <1>0, <1>3, <3>1 DEF LoopInv, HostLoop, TypeOK, ServerTypes, ClientTypes
          <6> QED BY <6>1, ManagerOf
        <5>2. p \in Nat \ {0} /\ Len(s) \in Nat /\ pos'[host] = p + 1
          <6>1. pos \in [Clients -> Nat \ {0}]
            BY <1>0, PosIsPositive
          <6>2. host \in Clients
            BY TheHost
          <6> QED BY <1>0, <4>1, <5>1, <6>1, <6>2, SocketsOnce
        <5>3. \A i, j \in 1..Len(s) : s[i] = s[j] => i = j
          BY <1>0, <5>1, SocketsOnce
        <5>4. ~Sent(c)
          <6>1. p \in 1..Len(s) /\ \A i \in 1..(p - 1) : i \in 1..Len(s) /\ i # p
            BY <4>1, <5>2
          <6>2. \A i \in 1..(p - 1) : s[i] # c
            BY <4>3, <5>3, <6>1
          <6> QED BY <6>2 DEF Sent
        <5>5. pc[c] \in Young /\ down[c] = <<>>
          BY <1>4, <5>4
        <5>6. Len(down'[c]) = 1
          <6>1. down'[c] = Append(<<>>, RootOf(host))
            BY <1>3, <1>4, <4>1, <4>3, <5>5
          <6> QED BY <6>1
        <5>7. Sent(c)'
          <6>1. p \in 1..(pos'[host] - 1) /\ sockets'[mgr'[host]][p] = c
            BY <3>1, <4>3, <5>2
          <6> QED BY <6>1 DEF Sent, host
        <5> QED BY <3>2, <5>5, <5>6, <5>7 DEF GuestMail
      <4> QED BY <4>2, <4>3
    <3> QED BY <3>3, <3>4
  <2>3. CASE d # c /\ (recv_root(d) \/ send_server(d) \/ recv_server(d) \/ March(d))
    <3>1. pc'[c] = pc[c] /\ down'[c] = down[c]
      BY <1>3, <1>4, <2>3 DEF recv_root, send_server, recv_server, March, Become
    <3> QED BY <1>5, <3>1
  <2>4. CASE d = c /\ recv_root(d)
    <3>1. pc[c] = "exchange" /\ down[c] # <<>> /\ down'[c] = Tail(down[c]) /\ pc'[c] = "populate"
      BY <1>3, <1>4, <2>4 DEF recv_root, Become
    <3>2. down[c] \in Seq(Words) /\ Len(down[c]) <= 1 /\ Sent(c)
      BY <1>3, <1>4, <3>1
    <3>3. Tail(down[c]) = <<>>
      BY <3>1, <3>2
    <3> QED BY <1>2, <3>1, <3>2, <3>3 DEF GuestMail
  <2>5. CASE d = c /\ recv_server(d)
    <3>1. pc[c] = "waitack" /\ down[c] # <<>> /\ pc'[c] = "done"
      BY <1>3, <1>4, <2>5 DEF recv_server, Become
    <3> QED BY <1>1, <1>2, <1>4, <3>1 DEF GuestMail
  <2>6. CASE d = c /\ (send_server(d) \/ March(d))
    <3>1. /\ down' = down /\ pc[c] \notin Young
          /\ \E label : label \notin Young \cup {"done"} /\ pc' = [pc EXCEPT ![c] = label]
      BY <2>6 DEF send_server, March, Marching, Become
    <3>2. pc'[c] \notin Young \cup {"done"}
      BY <1>3, <1>4, <3>1
    <3> QED BY <1>5, <3>1, <3>2
  <2> QED BY <1>6, <2>1, <2>2, <2>3, <2>4, <2>5, <2>6, ClientMoves
<1>7. ASSUME NEW n \in Nodes, connect(n) PROVE GuestMail(c)'
  <2>1. /\ main[n] = "connect" /\ down' = down
        /\ (pc' = pc \/ pc' = [d \in Clients |-> IF d \in On(n) THEN "exchange" ELSE pc[d]])
    BY <1>7 DEF connect
  <2>2. \A d \in On(n) : pc[d] = "off"
    BY <1>0, <2>1, OnNode DEF BarrierInv
  <2>3. pc'[c] = pc[c] \/ (pc[c] = "off" /\ pc'[c] = "exchange")
    BY <1>3, <2>1, <2>2
  <2> QED BY <1>5, <2>1, <2>3
<1>8. ASSUME UNCHANGED <<pc, down>> PROVE GuestMail(c)'
  BY <1>5, <1>8
<1>9. ASSUME server_ack PROVE GuestMail(c)'
  <2>1. AllStopped /\ pc' = pc
    BY <1>0, <1>9 DEF server_ack, LoopInv, ServerLoop
  <2>2. pc[c] \notin Young
    BY <1>3, <2>1 DEF AllStopped, Stopped
  <2> QED BY <1>1, <1>2, <1>4, <2>1, <2>2 DEF GuestMail
<1>10. ASSUME NEW n \in Nodes, join(n) \/ close_arrive(n) \/ close_done(n) PROVE UNCHANGED <<pc, down>>
  BY <1>10 DEF join, close_arrive, close_done
<1>11. ASSUME server_listen \/ server_self \/ server_instance \/ accept_conn \/ server_done \/ recv_from_all
       PROVE  UNCHANGED <<pc, down>>
  BY <1>11 DEF server_listen, server_self, server_instance, accept_conn, server_done, recv_from_all
<1>12. UNCHANGED vars => UNCHANGED <<pc, down>>
  BY DEF vars
<1>13. \A n \in Nodes : On(n) \subseteq Clients
  BY OnNode
<1> QED BY <1>6, <1>7, <1>8, <1>9, <1>10, <1>11, <1>12, <1>13 DEF Next, Node, Server

\* A message to the host shows that its manager has sockets, or that all have
\* stopped.
LEMMA HostMailStep ==
  ASSUME OneHost, SessionInv, [Next]_vars, HostMail
  PROVE  HostMail'
<1>0. TypeOK /\ BarrierInv /\ LineInv /\ SelfInv /\ LoopInv
  BY DEF SessionInv
<1>1. AllStopped => AllStopped'
  BY <1>0, StoppedStays DEF AllStopped
<1>2. Hosts = {host} /\ host \in Clients
  BY TheHost
<1>3. /\ down \in [Clients -> Seq(Words)] /\ DOMAIN pc = Clients /\ mgr \in [Clients -> 0..made]
      /\ made \in Managers \cup {0}
  BY <1>0 DEF TypeOK, ClientTypes, ServerTypes
<1>4. /\ pc[host] \notin Asleep => mgr[host] = self
      /\ server \in {"recv", "send", "end"} => smgr = self
      /\ down[host] # <<>> \/ pc[host] = "done" =>
            AllStopped \/ (pc[host] \notin Asleep /\ sockets[mgr[host]] # <<>>)
  BY DEF HostMail, Asleep
<1>5. pc[host] \in Asleep => ~AllStopped /\ down[host] = <<>>
  <2>1. pc[host] \in Asleep => ~AllStopped
    BY <1>2 DEF AllStopped, Stopped, Asleep
  <2> QED BY <1>4, <2>1
<1>6. ASSUME pc[host] \notin Asleep PROVE mgr[host] # NoManager /\ (sockets[mgr[host]] # <<>> => sockets'[mgr[host]] # <<>>)
  <2>1. mgr[host] # NoManager /\ mgr[host] \in 0..made
    BY <1>0, <1>2, <1>3, <1>6 DEF LoopInv, HostLoop, Asleep
  <2>2. mgr[host] \in Managers
    BY <1>3, <2>1, ManagerOf
  <2>3. sockets[mgr[host]] \in Seq(Clients)
    BY <1>0, <2>2, SocketsOnce
  <2>4. sockets[mgr[host]] # <<>> => Len(sockets[mgr[host]]) > 0
    BY <2>3, EmptySeq, LenProperties
  <2>5. Len(sockets'[mgr[host]]) >= Len(sockets[mgr[host]]) /\ Len(sockets[mgr[host]]) \in Nat /\ Len(sockets'[mgr[host]]) \in Nat
    BY <1>0, <2>2, SocketsGrow
  <2>6. sockets'[mgr[host]] = <<>> => Len(sockets'[mgr[host]]) = 0
    OBVIOUS
  <2> QED BY <2>1, <2>4, <2>5, <2>6
<1> DEFINE Mgr  == pc'[host] \notin Asleep => mgr'[host] = self'
           SMgr == server' \in {"recv", "send", "end"} => smgr' = self'
           Mail == down'[host] # <<>> \/ pc'[host] = "done" =>
                      AllStopped' \/ (pc'[host] \notin Asleep /\ sockets'[mgr'[host]] # <<>>)
           Goal == Mgr /\ SMgr /\ Mail
<1>7. ASSUME mgr' = mgr, down'[host] = down[host], pc'[host] \in Asleep <=> pc[host] \in Asleep,
             pc'[host] = "done" => pc[host] = "done"
      PROVE  Mail
  BY <1>1, <1>4, <1>6, <1>7
<1>8. ASSUME NEW d \in Clients, main[NodeOf(d)] = "run", Client(d) PROVE Goal
  <2>1. UNCHANGED <<server, smgr, sockets>>
    BY <1>8, ClientKeeps
  <2>2. CASE host_instance(d)
    <3>1. d = host /\ pc[host] = "exchange" /\ down' = down /\ self' = self
          /\ \/ mgr' = [mgr EXCEPT ![host] = self] /\ pc' = [pc EXCEPT ![host] = "send"]
             \/ mgr' = mgr /\ pc' = [pc EXCEPT ![host] = "mutex"]
      BY <1>2, <2>2 DEF host_instance, Become
    <3>2. down'[host] = <<>> /\ pc'[host] \in {"send", "mutex"} /\ (pc'[host] = "send" => mgr'[host] = self)
      BY <1>2, <1>3, <1>5, <3>1 DEF Asleep
    <3> QED BY <1>4, <2>1, <3>1, <3>2 DEF Asleep
  <2>3. CASE host_create(d)
    <3>1. d = host /\ pc[host] = "mutex" /\ down' = down /\ mgr' = mgr /\ pc' = [pc EXCEPT ![host] = "exchange"]
      BY <1>0, <1>2, <2>3 DEF host_create, Become, SelfInv
    <3>2. down'[host] = <<>> /\ pc'[host] = "exchange"
      BY <1>2, <1>3, <1>5, <3>1 DEF Asleep
    <3>3. server \notin {"recv", "send", "end"}
      <4> SUFFICES ASSUME server \in {"recv", "send", "end"} PROVE FALSE
        OBVIOUS
      <4>1. 0 \in Nodes /\ NodeOf(host) = 0 /\ closer[0] = "end" /\ phase[0] \in 0..3 /\ MayStand(host)
        <5>1. done
          BY <1>0 DEF LoopInv, ServerLoop
        <5> QED BY <1>0, <1>2, <5>1, TheHost DEF BarrierInv, TypeOK, NodeTypes
      <4>2. (phase[0] < 2 => closer[0] = "sleep") /\ (phase[0] = 2 => closer[0] # "end")
        BY <1>0, <4>1 DEF BarrierInv
      <4>3. phase[0] = 3
        BY <4>1, <4>2
      <4> QED BY <3>1, <4>1, <4>3 DEF MayStand
    <3> QED BY <2>1, <3>2, <3>3 DEF Asleep
  <2>4. CASE send_root(d)
    <3>1. d = host /\ pc[host] = "send" /\ mgr' = mgr /\ self' = self
          /\ \/ pos[host] <= Len(sockets[mgr[host]]) /\ pc' = pc
             \/ down' = down /\ pc' = [pc EXCEPT ![host] = "populate"]
      BY <1>0, <1>2, <2>4 DEF send_root, SelfInv, tcp, Become
    <3>2. pc'[host] \in {"send", "populate"} /\ pc[host] \notin Asleep
      BY <1>2, <1>3, <3>1 DEF Asleep
    <3>3. Mgr /\ SMgr
      BY <1>4, <2>1, <3>1, <3>2 DEF Asleep
    <3>4. CASE down' = down
      <4>1. Mail
        BY <1>7, <3>1, <3>2, <3>4 DEF Asleep
      <4> QED BY <3>3, <4>1
    <3>5. CASE pos[host] <= Len(sockets[mgr[host]])
      <4>1. pos[host] \in Nat \ {0}
        <5>1. pos \in [Clients -> Nat \ {0}]
          BY <1>0, PosIsPositive
        <5> QED BY <1>2, <5>1
      <4>2. sockets[mgr[host]] # <<>>
        BY <3>5, <4>1
      <4>3. Mail
        BY <2>1, <3>1, <3>2, <4>2 DEF Asleep
      <4> QED BY <3>3, <4>3
    <3> QED BY <3>1, <3>4, <3>5
  <2>5. CASE d # host /\ (recv_root(d) \/ send_server(d) \/ recv_server(d) \/ March(d))
    <3>1. pc'[host] = pc[host] /\ down'[host] = down[host] /\ mgr' = mgr /\ self' = self
      BY <1>2, <1>3, <2>5 DEF recv_root, send_server, recv_server, March, Become, tcp
    <3>2. Mail
      BY <1>7, <3>1
    <3> QED BY <1>4, <2>1, <3>1, <3>2
  <2>6. CASE d = host /\ recv_server(d)
    <3>1. pc[host] = "waitack" /\ down[host] # <<>> /\ mgr' = mgr /\ self' = self /\ pc'[host] = "done"
      BY <1>2, <1>3, <2>6 DEF recv_server, Become, tcp
    <3>2. Mail
      BY <1>1, <1>4, <2>1, <3>1 DEF Asleep
    <3> QED BY <1>4, <2>1, <3>1, <3>2 DEF Asleep
  <2>7. CASE d = host /\ (send_server(d) \/ March(d))
    <3>1. /\ down' = down /\ mgr' = mgr /\ self' = self /\ pc[host] \notin Asleep
          /\ \E label : label \notin Asleep \cup {"done"} /\ pc' = [pc EXCEPT ![host] = label]
      BY <2>7 DEF send_server, March, Marching, Become, tcp, Asleep
    <3>2. pc'[host] \notin Asleep \cup {"done"}
      BY <1>2, <1>3, <3>1
    <3>3. Mail
      BY <1>7, <3>1, <3>2
    <3> QED BY <1>4, <2>1, <3>1, <3>2, <3>3
  <2>8. recv_root(d) => d # host
    BY <1>2 DEF recv_root
  <2> HIDE DEF Goal
  <2> QED BY <1>8, <2>2, <2>3, <2>4, <2>5, <2>6, <2>7, <2>8, ClientMoves
<1>9. ASSUME NEW n \in Nodes, connect(n) PROVE Goal
  <2>1. /\ main[n] = "connect" /\ UNCHANGED <<down, mgr, self, server, smgr>>
        /\ (pc' = pc \/ pc' = [d \in Clients |-> IF d \in On(n) THEN "exchange" ELSE pc[d]])
    BY <1>9 DEF connect, tcp
  <2>2. \A d \in On(n) : pc[d] = "off"
    BY <1>0, <2>1, OnNode DEF BarrierInv
  <2>3. pc'[host] = pc[host] \/ (pc[host] = "off" /\ pc'[host] = "exchange")
    BY <1>2, <2>1, <2>2
  <2>4. Mail
    BY <1>7, <2>1, <2>3 DEF Asleep
  <2> QED BY <1>4, <2>1, <2>3, <2>4 DEF Asleep
<1>10. ASSUME UNCHANGED <<pc, down, mgr, self, server, smgr>> PROVE Goal
  <2>1. Mail
    BY <1>7, <1>10
  <2> QED BY <1>4, <1>10, <2>1
<1>11. ASSUME NEW n \in Nodes, join(n) \/ close_arrive(n) \/ close_done(n)
       PROVE  UNCHANGED <<pc, down, mgr, self, server, smgr>>
  BY <1>11 DEF join, close_arrive, close_done, tcp
<1>12. UNCHANGED vars => UNCHANGED <<pc, down, mgr, self, server, smgr>>
  BY DEF vars
<1>13. ASSUME server_listen \/ server_instance \/ accept_conn \/ server_done \/ recv_from_all PROVE Goal
  <2>1. /\ UNCHANGED <<pc, down, mgr, self>>
        /\ server' \in {"recv", "send", "end"} => smgr' = self \/ (server = "recv" /\ smgr' = smgr)
    BY <1>13 DEF server_listen, server_instance, accept_conn, server_done, recv_from_all, tcp
  <2>2. Mail
    BY <1>7, <2>1
  <2> QED BY <1>4, <2>1, <2>2
<1>14. ASSUME server_self PROVE Goal
  <2>1. UNCHANGED <<pc, down, mgr>> /\ server = "make" /\ server' = "made"
    BY <1>14 DEF server_self
  <2>2. Mail
    BY <1>7, <2>1
  <2>3. self = NoManager
    BY <1>0, <2>1 DEF SelfInv
  <2> QED BY <1>4, <1>6, <2>1, <2>2, <2>3
<1>15. ASSUME server_ack PROVE Goal
  <2>1. UNCHANGED <<pc, mgr, self, smgr>> /\ server = "send"
    BY <1>15 DEF server_ack, tcp
  <2>2. AllStopped'
    BY <1>0, <1>1, <2>1 DEF LoopInv, ServerLoop
  <2> QED BY <1>4, <2>1, <2>2
<1>16. \A n \in Nodes : \A d \in On(n) : d \in Clients /\ NodeOf(d) = n
  BY OnNode
<1>17. Goal
  <2> HIDE DEF Goal
  <2>1. ASSUME NEW n \in Nodes, main[n] = "run", NEW d \in On(n), Client(d) PROVE Goal
    BY <1>8, <1>16, <2>1
  <2> QED BY <1>9, <1>10, <1>11, <1>12, <1>13, <1>14, <1>15, <2>1 DEF Next, Node, Server
<1>18. HostMail' = Goal
  BY DEF HostMail, Asleep, host
<1> QED BY <1>17, <1>18

\* A process exits when all have stopped.
LEMMA ExitStep ==
  ASSUME OneHost, SessionInv, [Next]_vars, \A c \in Clients \ Hosts : GuestMail(c), HostMail,
         \A n \in Nodes : main[n] = "exited" => AllStopped, NEW m \in Nodes, main'[m] = "exited"
  PROVE  AllStopped'
<1>0. TypeOK /\ BarrierInv /\ LineInv /\ SelfInv /\ LoopInv
  BY DEF SessionInv
<1>1. AllStopped => AllStopped'
  BY <1>0, StoppedStays DEF AllStopped
<1>2. main \in [Nodes -> {"connect", "run", "exited", "failed"}]
  BY <1>0 DEF TypeOK, NodeTypes
<1>3. main[m] = "exited" \/ join(m)
  <2>1. ASSUME NEW n \in Nodes, Node(n) PROVE main[m] = "exited" \/ join(m)
    <3>1. CASE connect(n)
      BY <1>2, <3>1 DEF connect
    <3>2. CASE join(n)
      BY <1>2, <3>2 DEF join
    <3>3. close_arrive(n) \/ close_done(n) \/ (\E c \in On(n) : Client(c)) => main' = main
      BY ClientKeeps DEF close_arrive, close_done
    <3> QED BY <2>1, <3>1, <3>2, <3>3 DEF Node
  <2>2. Server \/ UNCHANGED vars => main' = main
    BY DEF vars, Server, server_listen, server_self, server_instance, accept_conn, server_done, recv_from_all, server_ack
  <2> QED BY <2>1, <2>2 DEF Next
<1>4. CASE join(m)
  <2>1. (\A c \in On(m) : pc[c] = "done") /\ (m = 0 => server = "end")
    BY <1>4 DEF join
  <2>2. CASE m # 0
    <3>1. <<m, 0>> \in On(m) /\ <<m, 0>> \in Clients /\ <<m, 0>> \notin Hosts
      BY <2>2, OnNode DEF Hosts
    <3> QED BY <1>1, <2>1, <3>1 DEF GuestMail
  <2>3. CASE m = 0
    <3>1. pc[host] = "done" /\ server = "end"
      BY <2>1, <2>3, TheHost
    <3>2. mgr[host] = self /\ smgr = self /\ (AllStopped \/ sockets[mgr[host]] # <<>>)
      BY <3>1 DEF HostMail
    <3>3. AllStopped \/ sockets[smgr] = <<>>
      BY <1>0, <3>1 DEF LoopInv, ServerLoop
    <3> QED BY <1>1, <3>2, <3>3
  <2> QED BY <2>2, <2>3
<1> QED BY <1>1, <1>3, <1>4

\* It holds at the start.
LEMMA HostStarts ==
  ASSUME Init, OneHost
  PROVE  /\ \A c \in Clients \ Hosts : GuestMail(c)
         /\ HostMail
         /\ \A n \in Nodes : main[n] = "exited" => AllStopped
<1>1. \A c \in Clients : pc[c] = "off" /\ down[c] = <<>>
  BY DEF Init
<1>2. \A c \in Clients \ Hosts : GuestMail(c)
  <2>1. Len(<<>>) = 0
    OBVIOUS
  <2> QED BY <1>1, <2>1 DEF GuestMail
<1>3. host \in Clients
  BY TheHost
<1>4. HostMail
  <2>1. pc[host] = "off" /\ down[host] = <<>> /\ server = "off"
    BY <1>1, <1>3 DEF Init
  <2> QED BY <2>1 DEF HostMail
<1>5. \A n \in Nodes : main[n] # "exited"
  BY DEF Init
<1> QED BY <1>2, <1>4, <1>5

\* With one host (tcp.h, exchange_ptr.h): every other client gets the root
\* once and reads an acknowledgement only when all have stopped.
THEOREM HostInvariant == Spec => []HostInv
<1>1. Init => HostInv
  BY HostStarts DEF HostInv
<1>2. SessionInv /\ HostInv /\ [Next]_vars => HostInv'
  <2> SUFFICES ASSUME SessionInv, HostInv, [Next]_vars, OneHost
               PROVE  /\ \A c \in Clients \ Hosts : GuestMail(c)'
                      /\ HostMail'
                      /\ \A n \in Nodes : main'[n] = "exited" => AllStopped'
    BY DEF HostInv, OneHost
  <2>1. /\ \A c \in Clients \ Hosts : GuestMail(c)
        /\ HostMail
        /\ \A n \in Nodes : main[n] = "exited" => AllStopped
    BY DEF HostInv
  <2>2. \A c \in Clients \ Hosts : GuestMail(c)'
    BY <2>1, GuestStep
  <2>3. HostMail'
    BY <2>1, HostMailStep
  <2>4. \A n \in Nodes : main'[n] = "exited" => AllStopped'
    BY <2>1, ExitStep
  <2> QED BY <2>2, <2>3, <2>4
<1> QED BY <1>1, <1>2, SessionInvariant, PTL DEF Spec

\* With one host no process takes its memory pools with it while a client of
\* any node may still use them (main.cc joins after Stop's acknowledgement).
THEOREM ShutdownIsSafe == Spec => [](OneHost => SafeShutdown)
<1>1. HostInv => (OneHost => SafeShutdown)
  BY DEF HostInv, SafeShutdown, AllStopped, Stopped, Working
<1> QED BY <1>1, HostInvariant, PTL

\* With one host a client that got the root from it reads the acknowledgement
\* of Stop only when the other clients are done (role_client.h).
THEOREM AckMeansDone == Spec => [](OneHost => GuestAckMeansDone)
<1>1. HostInv => (OneHost => GuestAckMeansDone)
  BY DEF HostInv, GuestMail, GuestAckMeansDone, AllStopped, Stopped
<1> QED BY <1>1, HostInvariant, PTL
=============================================================================
