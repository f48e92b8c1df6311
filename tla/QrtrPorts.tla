----------------------------- MODULE QrtrPorts -----------------------------
(***************************************************************************)
(* The ports of tcl-af-qrtr.c: sockets that bind, rebind and are released, *)
(* the references they are held by, and the lookups that deliver packets.  *)
(***************************************************************************)
EXTENDS Naturals, FiniteSets

CONSTANTS
    Socks, SockPorts,   \* sockets and the ports they bind
    Ctrl,           \* QRTR_PORT_CTRL
    Deliverers           \* threads that deliver packets

Unbound == "none"
ASSUME PortAssumption ==
    /\ Ctrl \in SockPorts /\ Unbound \notin Socks \cup SockPorts
    /\ SockPorts \cap {"idle", "erase", "put", "closed"} = {}
    /\ IsFiniteSet(Deliverers)

VARIABLES
    ports,    \* qrtr_ports: port to socket
    srefs,    \* sk_refcnt of each socket, 0 once it is freed
    bound,    \* ipc->us.sq_port, Unbound while zapped
    looked,   \* the socket each user has from qrtr_port_lookup()
    sockPc,   \* where a socket is: the port a rebind has assigned, or a release step
    reset     \* sockets with ENETRESET pending

portVars == <<ports, srefs, bound, looked, sockPc, reset>>

PortInit ==
    /\ ports = [p \in SockPorts |-> Unbound] /\ srefs = [k \in Socks |-> 1]
    /\ bound = [k \in Socks |-> Unbound] /\ looked = [u \in Deliverers |-> Unbound]
    /\ sockPc = [k \in Socks |-> "idle"] /\ reset = {}

\* Mutant: the control port resets nobody.
ResetPortsNone(k, p) == {}

\* qrtr_reset_ports(), by the socket that has bound the control port.
ResetPorts(k, p) ==
    IF p = Ctrl THEN {ports[q] : q \in SockPorts \ {Ctrl}} \ {Unbound, k} ELSE {}

\* __qrtr_bind() of a zapped socket, and of one that has a port, whose old port
\* is removed afterwards. qrtr_port_assign() takes a reference.
Bind(k, p) ==
    /\ sockPc[k] = "idle" /\ srefs[k] > 0 /\ bound[k] # p /\ ports[p] = Unbound
    /\ ports' = [ports EXCEPT ![p] = k]
    /\ IF bound[k] = Unbound
       THEN /\ srefs' = [srefs EXCEPT ![k] = @ + 1]
            /\ bound' = [bound EXCEPT ![k] = p]
            /\ reset' = reset \cup ResetPorts(k, p)
            /\ UNCHANGED sockPc
       ELSE /\ srefs' = [srefs EXCEPT ![k] = @ + 1]
            /\ sockPc' = [sockPc EXCEPT ![k] = p]
            /\ UNCHANGED <<bound, reset>>
    /\ UNCHANGED <<looked>>

\* qrtr_port_remove(): the port's reference is dropped before the port is erased,
\* and readers that hold the port are waited for. End of a rebind.
Rebound(k) ==
    /\ sockPc[k] \in SockPorts
    /\ ports' = [ports EXCEPT ![bound[k]] = Unbound]
    /\ srefs' = [srefs EXCEPT ![k] = @ - 1]
    /\ bound' = [bound EXCEPT ![k] = sockPc[k]]
    /\ reset' = reset \cup ResetPorts(k, sockPc[k])
    /\ sockPc' = [sockPc EXCEPT ![k] = "idle"]
    /\ UNCHANGED <<looked>>

\* qrtr_release(): __sock_put, then the erase, then the socket's own reference.
ReleaseBegin(k) ==
    /\ sockPc[k] = "idle" /\ srefs[k] > 0
    /\ sockPc' = [sockPc EXCEPT ![k] = "erase"]
    /\ srefs' = [srefs EXCEPT ![k] = IF bound[k] = Unbound THEN @ ELSE @ - 1]
    /\ UNCHANGED <<ports, bound, looked, reset>>

\* Mutant: the socket is put before its port is erased.
ReleaseErasePut(k) ==
    /\ sockPc[k] = "erase"
    /\ srefs' = [srefs EXCEPT ![k] = @ - 1]
    /\ sockPc' = [sockPc EXCEPT ![k] = "put"]
    /\ UNCHANGED <<ports, bound, looked, reset>>

ReleaseErase(k) ==
    /\ sockPc[k] = "erase"
    /\ ports' = [p \in SockPorts |-> IF ports[p] = k THEN Unbound ELSE ports[p]]
    /\ sockPc' = [sockPc EXCEPT ![k] = "put"]
    /\ UNCHANGED <<srefs, bound, looked, reset>>

\* Mutant: the port's reference is dropped a second time.
ReleasePutBoth(k) ==
    /\ sockPc[k] = "put"
    /\ srefs' = [srefs EXCEPT ![k] = @ - 2]
    /\ bound' = [bound EXCEPT ![k] = Unbound]
    /\ sockPc' = [sockPc EXCEPT ![k] = "closed"]
    /\ UNCHANGED <<ports, looked, reset>>

ReleasePut(k) ==
    /\ sockPc[k] = "put"
    /\ srefs' = [srefs EXCEPT ![k] = @ - 1]
    /\ bound' = [bound EXCEPT ![k] = Unbound]
    /\ sockPc' = [sockPc EXCEPT ![k] = "closed"]
    /\ UNCHANGED <<ports, looked, reset>>

\* qrtr_port_lookup() and qrtr_port_put(), around the delivery of a packet.
LookupPort(u, p) ==
    /\ looked[u] = Unbound /\ ports[p] # Unbound
    /\ looked' = [looked EXCEPT ![u] = ports[p]]
    /\ srefs' = [srefs EXCEPT ![ports[p]] = @ + 1]
    /\ UNCHANGED <<ports, bound, sockPc, reset>>

PutPort(u) ==
    /\ looked[u] # Unbound
    /\ looked' = [looked EXCEPT ![u] = Unbound]
    /\ srefs' = [srefs EXCEPT ![looked[u]] = @ - 1]
    /\ UNCHANGED <<ports, bound, sockPc, reset>>

\* The error is reported to the socket's owner once.
ReadError(k) ==
    /\ k \in reset /\ reset' = reset \ {k}
    /\ UNCHANGED <<ports, srefs, bound, looked, sockPc>>

PortNext ==
    \/ \E k \in Socks, p \in SockPorts : Bind(k, p)
    \/ \E k \in Socks : ReadError(k) \/ Rebound(k) \/ ReleaseBegin(k) \/ ReleaseErase(k) \/ ReleasePut(k)
    \/ \E u \in Deliverers, p \in SockPorts : LookupPort(u, p)
    \/ \E u \in Deliverers : PutPort(u)

PortSpec == PortInit /\ [][PortNext]_portVars

-----------------------------------------------------------------------------
PortTypeOK ==
    /\ ports \in [SockPorts -> Socks \cup {Unbound}] /\ srefs \in [Socks -> Nat]
    /\ bound \in [Socks -> SockPorts \cup {Unbound}] /\ looked \in [Deliverers -> Socks \cup {Unbound}]
    /\ sockPc \in [Socks -> SockPorts \cup {"idle", "erase", "put", "closed"}]
    /\ reset \subseteq Socks

\* A socket a packet is being delivered to, or could be looked up, is not freed,
\* although qrtr_port_remove() drops the port's reference before the port.
NoFreedSocket ==
    /\ \A u \in Deliverers : looked[u] # Unbound => srefs[looked[u]] > 0
    /\ \A p \in SockPorts : ports[p] # Unbound => srefs[ports[p]] > 0

\* Notify all open ports about the new controller: a socket that was bound when
\* another socket became the controller has been told.
ControllerAnnounced ==
    [][\A k \in Socks : (ports'[Ctrl] = k /\ bound'[k] = Ctrl /\ bound[k] # Ctrl)
          => \A j \in Socks \ {k} : (\E p \in SockPorts \ {Ctrl} : ports[p] = j) => j \in reset']_portVars

\* The ports a socket is in the table for, and the references it has besides those of
\* the deliverers: its owner's and, until the release drops it, that of each port.
PortsOf(k) ==
    IF sockPc[k] \in SockPorts THEN {bound[k], sockPc[k]}
    ELSE IF sockPc[k] \in {"idle", "erase"} THEN {bound[k]} \ {Unbound} ELSE {}
OwnRefs(k) ==
    IF sockPc[k] \in SockPorts THEN 3
    ELSE IF sockPc[k] = "idle" /\ bound[k] # Unbound THEN 2
    ELSE IF sockPc[k] = "closed" THEN 0 ELSE 1
DeliversTo(k) == {u \in Deliverers : looked[u] = k}

\* The inductive invariant of the table: it holds what the sockets have bound, and the
\* references of a socket are those of its owner, its ports and its deliverers.
PortInv ==
    /\ PortTypeOK
    /\ \A k \in Socks : sockPc[k] \in SockPorts => bound[k] \in SockPorts \ {sockPc[k]}
    /\ \A k \in Socks, p \in SockPorts : ports[p] = k <=> p \in PortsOf(k)
    /\ \A k \in Socks : srefs[k] = OwnRefs(k) + Cardinality(DeliversTo(k))

\* The table of ports leads to no freed socket, and references add up.
PortSafe ==
    /\ PortInv /\ NoFreedSocket
=============================================================================
