------------------------------ MODULE Session ------------------------------
(***************************************************************************)
(* One benchmark session (main.cc): how the processes of the nodes connect *)
(* to the server on node 0 (tcp.h), learn the root of the table            *)
(* (exchange_ptr.h), run their clients in step (role_client.h) and shut    *)
(* down (role_server.h).                                                   *)
(*                                                                         *)
(* Messages to one client keep their order (TCP).  A message is the        *)
(* address in its first word, 0 in an acknowledgement.                     *)
(***************************************************************************)
EXTENDS Integers, Sequences, FiniteSets

CONSTANTS
    NodeCount,   \* params.node_count
    ThreadCount, \* params.thread_count
    MPools       \* mp, the memory pools of a node

ASSUME SessionAssumption ==
    /\ NodeCount \in Nat \ {0}
    /\ ThreadCount \in Nat \ {0}
    /\ MPools \in 1..ThreadCount

Nodes   == 0..(NodeCount - 1)
Clients == Nodes \X (0..(ThreadCount - 1))

NodeOf(c) == c[1]
On(n)     == {c \in Clients : NodeOf(c) = n}
Master(c) == c[2] = 0

\* self.id == host.id: the thread works with the first pool of node 0.
Hosts == {c \in Clients : NodeOf(c) = 0 /\ c[2] % MPools = 0}

\* The SocketManagers there can be: one for each thread of node 0 that calls
\* getInstance while it creates.
Managers == 1..(1 + Cardinality(Hosts))
NoManager == 0

\* The address in a message: that of the table a host made, or 0.
RootOf(c) == c[2] + 1
Ack       == 0
NoRoot    == -1

VARIABLES
    main,     \* what each node's main thread does: connect, run, exited, failed
    linked,   \* endpoints each main thread has connected
    self,     \* SocketManager::self, the manager getInstance returns
    made,     \* SocketManagers constructed, all of them listening
    backlog,  \* connections that wait for accept at each manager
    sockets,  \* client_sockets of each manager, in order of acceptance
    server,   \* where the server thread stands
    smgr,     \* the manager the server thread works with
    mgr,      \* the manager a host sends its root through
    spos,     \* index of its recv_from_all or send_to_all loop
    up,       \* messages from each client to the server
    down,     \* messages from the server's process to each client
    pc,       \* where each client stands
    pos,      \* index of a host's send_to_all loop
    root,     \* the root each client works with
    arrived,  \* arrivals at each node's barrier in its current phase
    phase,    \* completed phases of each node's barrier
    closer,   \* what the Run thread of each node's master client does
    done      \* the flag that releases the server

tcp == <<self, made, mgr>>
vars == <<main, linked, self, made, backlog, sockets, server, smgr, mgr, spos, up, down, pc, pos,
          root, arrived, phase, closer, done>>

listening == made > 0 /\ main[0] \notin {"failed", "exited"}
Alive(n)  == main[n] \in {"connect", "run"}

\* Mutation: the loop stops one connection early.
AllButOne(accepted) == Len(accepted) + 1 >= Cardinality(Clients)

\* for i < thread_count * node_count: accept_conn.
AllAccepted(accepted) == Len(accepted) = Cardinality(Clients)

-----------------------------------------------------------------------------
(* The server thread of node 0 *)

\* getInstance tests self before it takes the mutex, and not again behind it.
\* The constructor binds and listens: clients can connect from here on.
server_listen ==
    /\ server = "off" /\ Alive(0)
    /\ server' = "make" /\ made' = made + 1
    /\ UNCHANGED <<main, linked, self, backlog, sockets, smgr, mgr, spos, up, down, pc, pos, root,
                   arrived, phase, closer, done>>

\* The object is assigned to self and the mutex released.
server_self ==
    /\ server = "make" /\ Alive(0)
    /\ server' = "made" /\ self' = 1
    /\ UNCHANGED <<main, linked, made, backlog, sockets, smgr, mgr, spos, up, down, pc, pos, root,
                   arrived, phase, closer, done>>

\* return self, which a host may have replaced by now.
server_instance ==
    /\ server = "made" /\ Alive(0)
    /\ server' = "accept" /\ smgr' = self
    /\ UNCHANGED <<main, linked, tcp, backlog, sockets, spos, up, down, pc, pos, root,
                   arrived, phase, closer, done>>

accept_conn ==
    /\ server = "accept" /\ Alive(0) /\ backlog[smgr] # <<>>
    /\ sockets' = [sockets EXCEPT ![smgr] = Append(@, Head(backlog[smgr]))]
    /\ backlog' = [backlog EXCEPT ![smgr] = Tail(@)]
    /\ server' = IF AllAccepted(sockets'[smgr]) THEN "sync" ELSE "accept"
    /\ UNCHANGED <<main, linked, tcp, smgr, spos, up, down, pc, pos, root, arrived, phase, closer, done>>

\* Mutation: the server does not wait for the clients' messages.
server_doneEarly ==
    /\ server = "sync" /\ Alive(0) /\ done
    /\ smgr' = self /\ spos' = 1
    /\ server' = IF sockets[self] = <<>> THEN "end" ELSE "send"
    /\ UNCHANGED <<main, linked, tcp, backlog, sockets, up, down, pc, pos, root,
                   arrived, phase, closer, done>>

\* Launch: the done flag ends the wait; the manager is asked for again.
server_done ==
    /\ server = "sync" /\ Alive(0) /\ done
    /\ smgr' = self /\ spos' = 1
    /\ server' = IF sockets[self] = <<>> THEN "end" ELSE "recv"
    /\ UNCHANGED <<main, linked, tcp, backlog, sockets, up, down, pc, pos, root,
                   arrived, phase, closer, done>>

\* One read of recv_from_all: blocks until that client has written.
recv_from_all ==
    /\ server = "recv" /\ Alive(0)
    /\ LET c == sockets[smgr][spos]
       IN  up[c] # <<>> /\ up' = [up EXCEPT ![c] = Tail(@)]
    /\ IF spos < Len(sockets[smgr]) THEN spos' = spos + 1 /\ server' = server
                              ELSE spos' = 1 /\ server' = "send"
    /\ UNCHANGED <<main, linked, tcp, backlog, sockets, smgr, down, pc, pos, root,
                   arrived, phase, closer, done>>

\* Mutation: the last client gets no answer.
server_ackButLast ==
    /\ server = "send" /\ Alive(0)
    /\ down' = IF spos < Len(sockets[smgr]) THEN [down EXCEPT ![sockets[smgr][spos]] = Append(@, Ack)] ELSE down
    /\ IF spos < Len(sockets[smgr]) THEN spos' = spos + 1 /\ server' = server
                              ELSE spos' = 1 /\ server' = "end"
    /\ UNCHANGED <<main, linked, tcp, backlog, sockets, smgr, up, pc, pos, root,
                   arrived, phase, closer, done>>

\* Mutation: the loop runs once too often.
server_ackPast ==
    /\ server = "send" /\ Alive(0)
    /\ down' = [down EXCEPT ![sockets[smgr][spos]] = Append(@, Ack)]
    /\ IF spos <= Len(sockets[smgr]) THEN spos' = spos + 1 /\ server' = server
                               ELSE spos' = 1 /\ server' = "end"
    /\ UNCHANGED <<main, linked, tcp, backlog, sockets, smgr, up, pc, pos, root,
                   arrived, phase, closer, done>>

\* One write of the server's send_to_all.
server_ack ==
    /\ server = "send" /\ Alive(0)
    /\ down' = [down EXCEPT ![sockets[smgr][spos]] = Append(@, Ack)]
    /\ IF spos < Len(sockets[smgr]) THEN spos' = spos + 1 /\ server' = server
                              ELSE spos' = 1 /\ server' = "end"
    /\ UNCHANGED <<main, linked, tcp, backlog, sockets, smgr, up, pc, pos, root,
                   arrived, phase, closer, done>>

Server == server_listen \/ server_self \/ server_instance \/ accept_conn \/ server_done \/ recv_from_all \/ server_ack

-----------------------------------------------------------------------------
(* The main thread of a node *)

\* EndpointManager's constructor: connect, or exit when nobody listens (with
\* SO_REUSEPORT the kernel picks one of several listeners).  The
\* client threads start when all endpoints of the node are there.
connect(n) ==
    /\ main[n] = "connect"
    /\ IF listening
       THEN /\ \E m \in 1..made : backlog' = [backlog EXCEPT ![m] = Append(@, <<n, linked[n]>>)]
            /\ linked' = [linked EXCEPT ![n] = @ + 1]
            /\ IF linked[n] + 1 = ThreadCount
               THEN /\ main' = [main EXCEPT ![n] = "run"]
                    /\ pc' = [c \in Clients |-> IF c \in On(n) THEN "exchange" ELSE pc[c]]
               ELSE UNCHANGED <<main, pc>>
       ELSE /\ main' = [main EXCEPT ![n] = "failed"]
            /\ UNCHANGED <<backlog, linked, pc>>
    /\ UNCHANGED <<tcp, sockets, server, smgr, spos, up, down, pos, root, arrived, phase, closer, done>>

\* All threads of the node are joined, then exit(0).
join(n) ==
    /\ main[n] = "run"
    /\ \A c \in On(n) : pc[c] = "done"
    /\ closer[n] = "end"
    /\ n = 0 => server = "end"
    /\ main' = [main EXCEPT ![n] = "exited"]
    /\ UNCHANGED <<linked, tcp, backlog, sockets, server, smgr, spos, up, down, pc, pos, root,
                   arrived, phase, closer, done>>

-----------------------------------------------------------------------------
(* The clients *)

Become(c, label) == pc' = [pc EXCEPT ![c] = label]

\* A host creates a table and asks for the SocketManager: the test of self.
host_instance(c) ==
    /\ pc[c] = "exchange" /\ c \in Hosts
    /\ IF self # NoManager THEN mgr' = [mgr EXCEPT ![c] = self] /\ Become(c, "send")
                           ELSE UNCHANGED mgr /\ Become(c, "mutex")
    /\ root' = [root EXCEPT ![c] = RootOf(c)]
    /\ UNCHANGED <<main, linked, self, made, backlog, sockets, server, smgr, spos, up, down, pos,
                   arrived, phase, closer, done>>

\* It got the mutex: another manager, listening on the same port, replaces
\* the one there is.  It then returns self.
host_create(c) ==
    /\ pc[c] = "mutex" /\ server # "make"
    /\ made' = made + 1 /\ self' = made + 1
    /\ Become(c, "exchange")
    /\ UNCHANGED <<main, linked, backlog, sockets, server, smgr, mgr, spos, up, down, pos, root,
                   arrived, phase, closer, done>>

\* It writes its root to every socket its manager has accepted so far, its
\* own included; the loop reads the number of sockets at each turn.
send_root(c) ==
    /\ pc[c] = "send"
    /\ IF pos[c] <= Len(sockets[mgr[c]])
       THEN /\ down' = [down EXCEPT ![sockets[mgr[c]][pos[c]]] = Append(@, RootOf(c))]
            /\ pos' = [pos EXCEPT ![c] = @ + 1]
            /\ UNCHANGED pc
       ELSE Become(c, "populate") /\ UNCHANGED <<down, pos>>
    /\ UNCHANGED <<main, linked, tcp, backlog, sockets, server, smgr, spos, up, root, arrived, phase, closer, done>>

\* Everybody else waits for the root.
recv_root(c) ==
    /\ pc[c] = "exchange" /\ c \notin Hosts /\ down[c] # <<>>
    /\ root' = [root EXCEPT ![c] = Head(down[c])]
    /\ down' = [down EXCEPT ![c] = Tail(@)]
    /\ Become(c, "populate")
    /\ UNCHANGED <<main, linked, tcp, backlog, sockets, server, smgr, spos, up, pos, arrived, phase, closer, done>>

\* arrive: the last of the node's threads completes the phase.
Arrive(n) ==
    IF arrived[n] + 1 = ThreadCount
    THEN /\ arrived' = [arrived EXCEPT ![n] = 0]
         /\ phase' = [phase EXCEPT ![n] = @ + 1]
    ELSE arrived' = [arrived EXCEPT ![n] = @ + 1] /\ UNCHANGED phase

\* arrive_and_wait, in its two halves: at "from", waiting at "wait", and on
\* to "to" when phase k is complete.
ArriveAt(c, from, wait) ==
    /\ pc[c] = from
    /\ Become(c, wait)
    /\ Arrive(NodeOf(c))
    /\ UNCHANGED <<main, linked, tcp, backlog, sockets, server, smgr, spos, up, down, pos, root, closer, done>>

Released(c, wait, k, to) ==
    /\ pc[c] = wait /\ phase[NodeOf(c)] >= k
    /\ Become(c, to)
    /\ UNCHANGED <<main, linked, tcp, backlog, sockets, server, smgr, spos, up, down, pos, root,
                   arrived, phase, closer, done>>

\* Mutation: a client starts without waiting for the others of its node.
run_barrierSkipped(c) ==
    ArriveAt(c, "populate", "wait1") \/ Released(c, "wait1", 0, "start")

\* Run: the table is populated, all of the node's clients meet.
run_barrier(c) == ArriveAt(c, "populate", "wait1") \/ Released(c, "wait1", 1, "start")

\* Client::Start, called by the driver before the first operation.
start_barrier(c) == ArriveAt(c, "start", "wait2") \/ Released(c, "wait2", 2, "apply")

\* The stream has ended or the driver was told to stop.
last_apply(c) ==
    /\ pc[c] = "apply"
    /\ Become(c, IF Master(c) THEN "ack" ELSE "stop")
    /\ UNCHANGED <<main, linked, tcp, backlog, sockets, server, smgr, spos, up, down, pos, root,
                   arrived, phase, closer, done>>

\* Stop, the barrier of all clients but the master's.
stop_barrier(c) == ArriveAt(c, "stop", "wait3") \/ Released(c, "wait3", 3, "ack")

\* Stop: tell the server.
send_server(c) ==
    /\ pc[c] = "ack"
    /\ up' = [up EXCEPT ![c] = Append(@, Ack)]
    /\ Become(c, "waitack")
    /\ UNCHANGED <<main, linked, tcp, backlog, sockets, server, smgr, spos, down, pos, root,
                   arrived, phase, closer, done>>

\* Stop: wait for the answer, whatever message it is.
recv_server(c) ==
    /\ pc[c] = "waitack" /\ down[c] # <<>>
    /\ down' = [down EXCEPT ![c] = Tail(@)]
    /\ Become(c, "done")
    /\ UNCHANGED <<main, linked, tcp, backlog, sockets, server, smgr, spos, up, pos, root,
                   arrived, phase, closer, done>>

Client(c) ==
    \/ host_instance(c) \/ host_create(c) \/ send_root(c) \/ recv_root(c) \/ run_barrier(c) \/ start_barrier(c)
    \/ last_apply(c) \/ stop_barrier(c) \/ send_server(c) \/ recv_server(c)

\* Run of the master client after the sleep: the barrier for its node, in
\* place of its driver thread, then the done flag of its process.
close_arrive(n) ==
    /\ closer[n] = "sleep" /\ pc[<<n, 0>>] \in {"apply", "ack", "waitack", "done"}
    /\ closer' = [closer EXCEPT ![n] = "wait"]
    /\ Arrive(n)
    /\ UNCHANGED <<main, linked, tcp, backlog, sockets, server, smgr, spos, up, down, pc, pos, root, done>>

close_done(n) ==
    /\ closer[n] = "wait" /\ phase[n] >= 3
    /\ closer' = [closer EXCEPT ![n] = "end"]
    /\ done' = (done \/ n = 0)
    /\ UNCHANGED <<main, linked, tcp, backlog, sockets, server, smgr, spos, up, down, pc, pos, root,
                   arrived, phase>>

Node(n) ==
    \/ connect(n) \/ join(n)
    \/ main[n] = "run" /\ (close_arrive(n) \/ close_done(n) \/ \E c \in On(n) : Client(c))

-----------------------------------------------------------------------------
(* Specification *)

Init ==
    /\ main = [n \in Nodes |-> "connect"]
    /\ linked = [n \in Nodes |-> 0]
    /\ self = NoManager /\ made = 0
    /\ backlog = [m \in Managers |-> <<>>] /\ sockets = [m \in Managers |-> <<>>]
    /\ server = "off" /\ spos = 1
    /\ smgr = NoManager /\ mgr = [c \in Clients |-> NoManager]
    /\ up = [c \in Clients |-> <<>>] /\ down = [c \in Clients |-> <<>>]
    /\ pc = [c \in Clients |-> "off"]
    /\ pos = [c \in Clients |-> 1]
    /\ root = [c \in Clients |-> NoRoot]
    /\ arrived = [n \in Nodes |-> 0] /\ phase = [n \in Nodes |-> 0]
    /\ closer = [n \in Nodes |-> "sleep"]
    /\ done = FALSE

Next == Server \/ \E n \in Nodes : Node(n)

Spec == Init /\ [][Next]_vars

\* Every thread that can go on does: threads are scheduled, accept serves
\* waiting connections, written bytes arrive and operations end.
Fairness ==
    /\ WF_vars(Server)
    /\ \A n \in Nodes :
         /\ WF_vars(connect(n)) /\ WF_vars(join(n))
         /\ WF_vars(main[n] = "run" /\ (close_arrive(n) \/ close_done(n)))
    /\ \A c \in Clients : WF_vars(main[NodeOf(c)] = "run" /\ Client(c))

FairSpec == Spec /\ Fairness

-----------------------------------------------------------------------------
(* Properties *)

Words == 0..ThreadCount \* what a message may hold: Ack or the root of a host

NodeTypes ==
    /\ main \in [Nodes -> {"connect", "run", "exited", "failed"}]
    /\ linked \in [Nodes -> 0..ThreadCount]
    /\ arrived \in [Nodes -> 0..(ThreadCount - 1)] /\ phase \in [Nodes -> 0..3]
    /\ closer \in [Nodes -> {"sleep", "wait", "end"}]
    /\ done \in BOOLEAN

ServerTypes ==
    /\ made \in Managers \cup {0} /\ self \in 0..made /\ smgr \in 0..made
    /\ backlog \in [Managers -> Seq(Clients)] /\ sockets \in [Managers -> Seq(Clients)]
    /\ \A m \in Managers : Len(backlog[m]) + Len(sockets[m]) <= Cardinality(Clients)
    /\ server \in {"off", "make", "made", "accept", "sync", "recv", "send", "end"}
    /\ spos \in 1..Cardinality(Clients)

ClientTypes ==
    /\ mgr \in [Clients -> 0..made]
    /\ up \in [Clients -> Seq({Ack})] /\ down \in [Clients -> Seq(Words)]
    /\ pc \in [Clients -> {"off", "exchange", "mutex", "send", "populate", "wait1", "start", "wait2",
                           "apply", "stop", "wait3", "ack", "waitack", "done"}]
    /\ pos \in [Clients -> 1..(Cardinality(Clients) + 1)]
    /\ root \in [Clients -> Words \cup {NoRoot}]

\* Every variable keeps its shape: the loops over client_sockets stay inside
\* it, each connection is queued or accepted once, and a barrier has at most
\* three phases and fewer arrivals than threads.
TypeOK == NodeTypes /\ ServerTypes /\ ClientTypes

\* A client that will still read or write the table.
Working(c) == pc[c] \in {"off", "exchange", "mutex", "send", "populate", "wait1", "start", "wait2",
                        "apply"}

\* No process leaves, and takes its memory pools with it, while a client of
\* any node may still use them (the remote access error of README.md:92).
SafeShutdown ==
    \A n \in Nodes : main[n] = "exited" => \A c \in Clients : ~Working(c)

\* "Wait to receive an ack back. Letting us know that the other clients are
\* done": so it is for every client that has read the message that held the
\* root; a host never does, and takes its own root for the ack.
GuestAckMeansDone ==
    \A c \in Clients \ Hosts : pc[c] = "done" => \A d \in Clients : pc[d] \in {"waitack", "done"}

\* The barriers of a node keep its clients in step: no client runs its
\* stream before all have populated, and done is set only when every stream
\* but the master's has ended.
InStep ==
    /\ \A c, d \in Clients :
          NodeOf(c) = NodeOf(d) /\ pc[c] \in {"start", "wait2", "apply", "stop", "wait3"} =>
             pc[d] \notin {"off", "exchange", "mutex", "send", "populate"}
    /\ done => \A c \in On(0) : ~Master(c) => ~Working(c)

-----------------------------------------------------------------------------
(* The inductive invariants behind these *)

Early    == {"off", "exchange", "mutex", "send", "populate"}
Stopped(c) == pc[c] \in {"waitack", "done"}
AllStopped == \A c \in Clients : Stopped(c)

\* Where a client can stand in each phase of its node's barrier.
MayStand(c) ==
    \/ phase[NodeOf(c)] = 0 /\ pc[c] \in Early \cup {"wait1"}
    \/ phase[NodeOf(c)] = 1 /\ pc[c] \in {"wait1", "start", "wait2"}
    \/ /\ phase[NodeOf(c)] = 2
       /\ pc[c] \in {"wait2", "apply"} \cup (IF Master(c) THEN {"ack", "waitack", "done"} ELSE {"stop", "wait3"})
    \/ /\ phase[NodeOf(c)] = 3
       /\ pc[c] \in {"ack", "waitack", "done"} \cup (IF Master(c) THEN {"apply"} ELSE {"wait3"})

\* The clients that have arrived in the current phase; in the last one the
\* Run thread arrives for its master client.
Arrivers(n) ==
    {c \in On(n) : \/ phase[n] = 0 /\ pc[c] = "wait1"
                   \/ phase[n] = 1 /\ pc[c] = "wait2"
                   \/ phase[n] = 2 /\ (pc[c] = "wait3" \/ (Master(c) /\ closer[n] = "wait"))}

\* The barrier of a node counts its arrivals, and nobody is ahead of it.
BarrierInv ==
    /\ \A c \in Clients :
          MayStand(c) /\ (main[NodeOf(c)] \in {"connect", "failed"} => pc[c] = "off")
    /\ \A n \in Nodes :
          /\ arrived[n] = Cardinality(Arrivers(n))
          /\ phase[n] < 2 => closer[n] = "sleep"
          /\ phase[n] = 2 /\ closer[n] = "wait" => pc[<<n, 0>>] # "wait2"
          /\ phase[n] = 2 => closer[n] # "end"
          /\ phase[n] = 3 => closer[n] # "sleep"
    /\ done => closer[0] = "end"

\* The connections a manager has, in order: accepted, then waiting.
Line(m) == sockets[m] \o backlog[m]

\* Every endpoint has connected once, and only the server's manager accepts:
\* in the end all of them or, if it was replaced in time, none.
LineInv ==
    /\ \A n \in Nodes : main[n] \in {"run", "exited"} <=> linked[n] = ThreadCount
    /\ \A m \in Managers : \A i \in 1..Len(Line(m)) : Line(m)[i][2] < linked[NodeOf(Line(m)[i])]
    /\ \A m, k \in Managers : \A i \in 1..Len(Line(m)), j \in 1..Len(Line(k)) :
          Line(m)[i] = Line(k)[j] => m = k /\ i = j
    /\ \A m \in Managers : sockets[m] # <<>> =>
          \/ server = "accept" /\ m = smgr
          \/ server \in {"sync", "recv", "send", "end"} /\ Len(sockets[m]) = Cardinality(Clients)

\* The hosts that have made a table and do not wait for the mutex.
Settled == {h \in Hosts : root[h] # NoRoot /\ pc[h] # "mutex"}

\* The singleton: who may have constructed a manager.
SelfInv ==
    /\ made = 0 <=> server = "off"
    /\ made = 0 => \A n \in Nodes : linked[n] = 0
    /\ self = NoManager <=> server \in {"off", "make"}
    /\ made <= 1 + Cardinality(Settled)
    /\ \A c \in Clients : pc[c] \in {"mutex", "send"} => c \in Hosts
    /\ \A h \in Hosts :
          /\ pc[h] = "off" => root[h] = NoRoot
          /\ pc[h] = "exchange" /\ root[h] # NoRoot => self # NoManager
          /\ pc[h] = "mutex" => root[h] # NoRoot

\* The loops of the server, and what it has heard in them: when it answers,
\* it has a message of every client, unless it works with an idle manager.
ServerLoop ==
    /\ server \in {"accept", "sync", "recv", "send"} => smgr # NoManager
    /\ server \in {"recv", "send"} => spos <= Len(sockets[smgr])
    /\ server \notin {"recv", "send"} => spos = 1
    /\ server \in {"recv", "send", "end"} => done
    /\ server = "recv" => \A i \in 1..(spos - 1) : Stopped(sockets[smgr][i])
    /\ server = "send" => AllStopped
    /\ server = "end" => AllStopped \/ sockets[smgr] = <<>>

\* The loop of a host, over the sockets of the manager it asked for.
HostLoop ==
    \A h \in Clients :
       /\ pc[h] \in {"off", "exchange", "mutex"} => pos[h] = 1
       /\ pos[h] > 1 => mgr[h] # NoManager /\ pos[h] <= Len(sockets[mgr[h]]) + 1
       /\ h \in Hosts /\ pc[h] \notin {"off", "exchange", "mutex"} => mgr[h] # NoManager

LoopInv == ServerLoop /\ HostLoop /\ \A c \in Clients : up[c] # <<>> => Stopped(c)

\* The inductive invariant of a session, for any number of hosts: barriers,
\* connections, managers and loops depend on each other.
SessionInv == TypeOK /\ BarrierInv /\ LineInv /\ SelfInv /\ LoopInv

\* With a single host, node 0's first thread: the clients it has sent the
\* root to.
OneHost == MPools = ThreadCount
host    == <<0, 0>>
Sent(c) == \E i \in 1..(pos[host] - 1) : sockets[mgr[host]][i] = c

\* It sends its root once to each client, so that a second message is the
\* server's.
GuestMail(c) ==
    /\ IF pc[c] \in {"off", "exchange"}
       THEN Len(down[c]) <= 1 /\ (down[c] # <<>> => Sent(c))
       ELSE Sent(c) /\ (down[c] # <<>> => AllStopped)
    /\ pc[c] = "done" => AllStopped

\* It stays with the manager the server asks for in the end, and a message
\* to the host itself, if only its own root, shows that this one has sockets.
HostMail ==
    /\ pc[host] \notin {"off", "exchange", "mutex"} => mgr[host] = self
    /\ server \in {"recv", "send", "end"} => smgr = self
    /\ down[host] # <<>> \/ pc[host] = "done" =>
          AllStopped \/ (pc[host] \notin {"off", "exchange", "mutex"} /\ sockets[mgr[host]] # <<>>)

\* So nobody leaves before everybody has stopped.
HostInv ==
    OneHost => /\ \A c \in Clients \ Hosts : GuestMail(c)
               /\ HostMail
               /\ \A n \in Nodes : main[n] = "exited" => AllStopped

Failed == \E n \in Nodes : main[n] = "failed"

\* The pointer has been sent and this client was not among the receivers.
Stranded(c) ==
    /\ c \notin Hosts /\ pc[c] \in {"off", "exchange"} /\ down[c] = <<>>
    /\ \A h \in Hosts : pc[h] \notin {"off", "exchange", "mutex", "send"}

\* The session ends on every node unless a connect was refused, a client missed
\* the pointer, or getInstance made a second manager, so that the server may
\* accept or answer at another one than the clients are connected to:
\* barriers, done flag and acks wait for nothing else.
Ends ==
    <>((\A n \in Nodes : main[n] = "exited") \/ Failed \/ made > 1 \/ \E c \in Clients : Stranded(c))

\* Every connection is accepted by the server in the end, unless a connect was
\* refused or getInstance made a second manager on the same port: then the
\* kernel may queue connections where nobody accepts them.
Accepted ==
    \A c \in Clients :
       (linked[NodeOf(c)] > c[2]) ~> (Failed \/ made > 1 \/ \E i \in 1..Len(sockets[1]) : sockets[1][i] = c)

\* "Send the address over": every client gets the root when all could connect.
AllGetRoot == <>((\A c \in Clients : root[c] # NoRoot) \/ Failed)
=============================================================================
