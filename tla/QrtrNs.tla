------------------------------- MODULE QrtrNs -------------------------------
(***************************************************************************)
(* The name service of the QRTR network (tcl-kernel-ns.c): one ordered     *)
(* worker reads control packets from its socket and keeps two tables, the  *)
(* servers of every node and the lookups of local observers.  It tells     *)
(* observers (lookup_notify) and the neighbour (service_announce_new and   *)
(* service_announce_del) what changes.  Sockets register, look up and      *)
(* close concurrently; the neighbour's link goes down and comes back.      *)
(*                                                                         *)
(* A socket's queue and the link are first in, first out, so `told` and    *)
(* `nview` hold what the receiver will know once it has read everything    *)
(* already sent; `pend` counts what a socket has not read, because a full  *)
(* receive buffer makes kernel_sendmsg fail.                               *)
(***************************************************************************)
EXTENDS Integers, Sequences, FiniteSets

CONSTANTS
    NsPorts,      \* local sockets; a socket's port orders the walk of an xarray
    Lookers,    \* the local sockets that look servers up
    RPorts,     \* ports of the remote node
    Services,   \* services a server may offer, and
    Instances,  \* instances of them; both positive
    FServices,  \* services a lookup may name, and
    FInstances, \* instances; 0 matches anything
    RcvBuf,     \* packets a socket buffers before a send to it fails
    MaxInbox,   \* bound: packets the worker has not read
    MaxReqs,    \* bound: packets the sockets and the remote node ever send
    MayMisname, \* may a socket send DEL_CLIENT for another socket's port
    MayFail     \* may a broadcast or a hello fail for want of memory

ASSUME QrtrNsAssumption ==
    /\ NsPorts \subseteq Nat /\ Lookers \subseteq NsPorts /\ RPorts \subseteq Nat /\ 0 \notin NsPorts \cup RPorts
    /\ RcvBuf \in Nat \ {0} /\ MaxInbox \in Nat /\ MaxReqs \in Nat
    /\ {MayMisname, MayFail} \subseteq BOOLEAN
    /\ 0 \notin Services

VARIABLES
    inbox,    \* packets queued on the name service's socket
    servers,  \* the nodes xarray: [node, port, id], one per node and port
    lookups,  \* qrtr_ns.lookups: [port, filter]
    replaced, \* servers that another one took the place of on their port
    told,     \* told[p]: servers socket p has been told of and not seen removed
    pend,     \* pend[p]: packets in the receive buffer of p
    lost,     \* receivers a send failed for: local ports, or Nb
    nview,    \* nview[p]: the neighbour's entry for local port p, or NoId
    link,     \* is the endpoint to the remote node registered
    open,     \* local sockets that are open
    mine,     \* mine[p]: what the socket's owner last registered, or NoId
    rmine,    \* the same for the remote node's ports
    quit,     \* local sockets that dropped a lookup; they add no other
    left      \* requests still allowed

nsVars == <<inbox, servers, lookups, replaced, told, pend, lost, nview, link, open,
          mine, rmine, quit, left>>
tables == <<servers, lookups, replaced>>
people == <<link, open, mine, rmine, quit>>

Ids == Services \X Instances
Filters == FServices \X FInstances
NoId == <<0, 0>>
Nb == 0   \* the neighbour, among the receivers of a send
Srv(n, p, i) == [node |-> n, port |-> p, id |-> i]
Local == {s \in servers : s.node = "local"}
Pkt(cmd, n, p, port, arg) == [cmd |-> cmd, node |-> n, from |-> p, port |-> port, arg |-> arg]

-----------------------------------------------------------------------------
(* server_match and the tests on the lookup list: 0 is a wildcard.          *)
Match(f, id) == (f[1] = 0 \/ f[1] = id[1]) /\ (f[2] = 0 \/ f[2] = id[2])

(* Mutant: an instance of 0 is compared like any other.                     *)
WrongMatch(f, id) == (f[1] = 0 \/ f[1] = id[1]) /\ f[2] = id[2]

(* The list walk in server_del and ctrl_cmd_new_server compares fields      *)
(* itself; it must select what the initial listing selects.                 *)
LookupMatch(f, id) == (f[1] = 0 \/ f[1] = id[1]) /\ (f[2] = 0 \/ f[2] = id[2])

Observers(id) == {p \in NsPorts : \E l \in lookups : l.port = p /\ LookupMatch(l.filter, id)}

(* kernel_sendmsg to each socket of S, n[p] packets each: -ENODEV for a     *)
(* closed one, which is ignored; an error from a full buffer loses it.      *)
Fits(p, n) == pend[p] + n[p] <= RcvBuf
Queue(S, n) == pend' = [p \in NsPorts |-> IF p \notin S \cap open THEN pend[p]
                                        ELSE IF Fits(p, n) THEN pend[p] + n[p] ELSE RcvBuf]
Dropped(S, n) == {p \in S \cap open : ~Fits(p, n)}
One == [p \in NsPorts |-> 1]

(* lookup_notify: observers of s learn that it is new, or that it is gone.  *)
Notify(s, new) ==
    /\ told' = [p \in NsPorts |-> IF p \notin Observers(s.id) \/ ~Fits(p, One) THEN told[p]
                                 ELSE IF new THEN told[p] \cup {s} ELSE told[p] \ {s}]
    /\ Queue(Observers(s.id), One)
    /\ lost' = lost \cup Dropped(Observers(s.id), One)

(* ctrl_cmd_bye and ctrl_cmd_del_client walk the local servers in port      *)
(* order, tell each of the departure after n notifications, and stop at the *)
(* first socket that has no room; the sockets behind it are not told.       *)
Walked(there) == {s.port : s \in {t \in there : t.node = "local"}} \cap open
Full(there, n) == {p \in Walked(there) : pend[p] + n[p] >= RcvBuf}
Departed(there, n) == {p \in Walked(there) : \A q \in Full(there, n) : p < q}
Undelivered(there, n) == {p \in Full(there, n) : \A q \in Full(there, n) : p <= q}
WithDeparture(there, n) == [p \in NsPorts |-> n[p] + (IF p \in Departed(there, n) THEN 1 ELSE 0)]

-----------------------------------------------------------------------------
(* The handlers.  Each is one packet taken by the worker.                   *)
Head1 == Head(inbox)
Take(cmd) == inbox # <<>> /\ Head1.cmd = cmd /\ inbox' = Tail(inbox)

OldServers(n, p, id) == {s \in servers : s.node = n /\ s.port = p /\ s.id # id}

(* Mutant: the old server on the port stays beside the new one.             *)
add_beside(n, p, id) == servers' = servers \cup {Srv(n, p, id)} /\ UNCHANGED replaced

(* The old server on the port is freed.  Nobody is told.                    *)
server_add(n, p, id) ==
    /\ servers' = (servers \ OldServers(n, p, id)) \cup {Srv(n, p, id)}
    /\ replaced' = replaced \cup OldServers(n, p, id)

(* server_del for the server at (n, p), if there is one.                    *)
server_del(n, p, bcast) ==
    \/ /\ \A s \in servers : <<s.node, s.port>> # <<n, p>>
       /\ UNCHANGED <<servers, told, pend, lost, nview>>
    \/ \E s \in servers :
         /\ <<s.node, s.port>> = <<n, p>>
         /\ servers' = servers \ {s}
         /\ nview' = IF n = "local" /\ bcast /\ link THEN [nview EXCEPT ![p] = NoId] ELSE nview
         /\ Notify(s, FALSE)

(* Mutant: the hello is answered without the list.                          *)
announce_nothing == nview

announce_servers ==
    [p \in NsPorts |-> IF link /\ \E s \in Local : s.port = p
                       THEN (CHOOSE s \in Local : s.port = p).id ELSE nview[p]]

(* say_hello, then every local server to the node that said hello; the      *)
(* sends fail when the link is gone.                                        *)
ctrl_cmd_hello ==
    /\ Take("hello")
    /\ \/ nview' = announce_servers /\ UNCHANGED lost
       \/ MayFail /\ lost' = lost \cup {Nb} /\ UNCHANGED nview
    /\ UNCHANGED <<tables, told, pend, people, left>>

(* Every server of the node goes, observers are told of each, and the local *)
(* servers are told of the node.                                            *)
ByeGone == {s \in servers : s.node = Head1.node}
ByeNotes == [p \in NsPorts |-> Cardinality({s \in ByeGone : p \in Observers(s.id)})]

ctrl_cmd_bye ==
    /\ Take("bye")
    /\ servers' = servers \ ByeGone
    /\ told' = [p \in NsPorts |-> IF Fits(p, ByeNotes)
                                 THEN told[p] \ {s \in ByeGone : p \in Observers(s.id)} ELSE told[p]]
    /\ Queue(NsPorts, WithDeparture(servers \ ByeGone, ByeNotes))
    /\ lost' = lost \cup Dropped(NsPorts, ByeNotes) \cup Undelivered(servers \ ByeGone, ByeNotes)
    /\ UNCHANGED <<lookups, replaced, nview, people, left>>

(* Mutant: whatever port a local packet names is taken for the sender's.    *)
RefuseNone == FALSE

(* A port is closed.  A packet that names another node or, locally, another *)
(* port than the sender's is refused.                                       *)
Refused == Head1.node = "local" /\ Head1.from # Head1.port

(* Mutant: the lookups of the closed port stay.                             *)
KeepLookups == lookups

(* Remove any lookups by this client.                                       *)
ForgetLookups == {l \in lookups : ~(Head1.node = "local" /\ l.port = Head1.port)}

ClientGone == {s \in servers : s.node = Head1.node /\ s.port = Head1.port}
ClientObs == {q \in NsPorts : \E s \in ClientGone, l \in ForgetLookups :
                                 l.port = q /\ LookupMatch(l.filter, s.id)}
ClientNotes == [q \in NsPorts |-> IF q \in ClientObs THEN 1 ELSE 0]

del_client ==
    /\ lookups' = ForgetLookups
    /\ servers' = servers \ ClientGone
    /\ told' = [q \in NsPorts |-> IF q \in ClientObs /\ Fits(q, ClientNotes)
                                 THEN told[q] \ ClientGone ELSE told[q]]
    /\ Queue(NsPorts, WithDeparture(servers \ ClientGone, ClientNotes))
    /\ lost' = lost \cup Dropped(NsPorts, ClientNotes) \cup Undelivered(servers \ ClientGone, ClientNotes)
    /\ UNCHANGED <<nview, replaced>>

ctrl_cmd_del_client ==
    /\ Take("delclient")
    /\ \/ Refused /\ UNCHANGED <<tables, told, pend, lost, nview>>
       \/ ~Refused /\ del_client
    /\ UNCHANGED <<people, left>>

(* The server is stored, a local one is broadcast, and observers are told;  *)
(* a failed broadcast returns before they are.                              *)
ctrl_cmd_new_server ==
    /\ Take("newserver")
    /\ server_add(Head1.node, Head1.port, Head1.arg)
    /\ \/ /\ nview' = IF Head1.node = "local" /\ link THEN [nview EXCEPT ![Head1.port] = Head1.arg] ELSE nview
          /\ Notify(Srv(Head1.node, Head1.port, Head1.arg), TRUE)
       \/ /\ MayFail /\ Head1.node = "local"
          /\ lost' = lost \cup NsPorts \cup {Nb} /\ UNCHANGED <<nview, told, pend>>
    /\ UNCHANGED <<lookups, people, left>>

ctrl_cmd_del_server ==
    /\ Take("delserver")
    /\ server_del(Head1.node, Head1.port, TRUE)
    /\ UNCHANGED <<lookups, replaced, people, left>>

(* The lookup is added, and the servers that match now are listed to its    *)
(* owner, ended by an empty notification.                                   *)
Listing == {s \in servers : Match(Head1.arg, s.id)}
ListNotes == [q \in NsPorts |-> 1 + Cardinality(Listing)]

ctrl_cmd_new_lookup ==
    /\ Take("newlookup")
    /\ lookups' = lookups \cup {[port |-> Head1.from, filter |-> Head1.arg]}
    /\ told' = IF Fits(Head1.from, ListNotes) THEN [told EXCEPT ![Head1.from] = @ \cup Listing] ELSE told
    /\ Queue({Head1.from}, ListNotes)
    /\ lost' = lost \cup Dropped({Head1.from}, ListNotes)
    /\ UNCHANGED <<servers, replaced, nview, people, left>>

(* The owner's lookups of this very service go, unless they name another    *)
(* instance.                                                                *)
ctrl_cmd_del_lookup ==
    /\ Take("dellookup")
    /\ lookups' = {l \in lookups : ~(/\ l.port = Head1.from
                                     /\ l.filter[1] = Head1.arg[1]
                                     /\ l.filter[2] \in {0, Head1.arg[2]})}
    /\ UNCHANGED <<servers, replaced, told, pend, lost, nview, people, left>>

qrtr_ns_worker ==
    \/ ctrl_cmd_hello \/ ctrl_cmd_bye \/ ctrl_cmd_del_client
    \/ ctrl_cmd_new_server \/ ctrl_cmd_del_server
    \/ ctrl_cmd_new_lookup \/ ctrl_cmd_del_lookup

-----------------------------------------------------------------------------
(* The sockets, the remote node and its link, from how the name service and *)
(* af_qrtr.c use them.                                                      *)
Send(pkt) == Len(inbox) < MaxInbox /\ left > 0 /\ inbox' = Append(inbox, pkt) /\ left' = left - 1
calm == <<tables, told, lost>>

Publish(p, id) ==
    /\ p \in open
    /\ Send(Pkt("newserver", "local", p, p, id))
    /\ mine' = [mine EXCEPT ![p] = id]
    /\ UNCHANGED <<calm, pend, nview, link, open, rmine, quit>>

Withdraw(p) ==
    /\ p \in open /\ mine[p] # NoId
    /\ Send(Pkt("delserver", "local", p, p, mine[p]))
    /\ mine' = [mine EXCEPT ![p] = NoId]
    /\ UNCHANGED <<calm, pend, nview, link, open, rmine, quit>>

Lookup(p, f) ==
    /\ p \in (open \cap Lookers) \ quit /\ Send(Pkt("newlookup", "local", p, p, f))
    /\ UNCHANGED <<calm, pend, nview, people>>

DropLookup(p, f) ==
    /\ p \in open /\ Send(Pkt("dellookup", "local", p, p, f))
    /\ \E l \in lookups : l.port = p /\ l.filter = f
    /\ quit' = quit \cup {p}
    /\ UNCHANGED <<calm, pend, nview, link, open, mine, rmine>>

Misname(p, q) ==
    /\ MayMisname /\ p \in open /\ p # q
    /\ Send(Pkt("delclient", "local", p, q, NoId))
    /\ UNCHANGED <<calm, pend, nview, people>>

(* A socket's owner reads a packet.                                         *)
Read(p) ==
    /\ p \in open /\ pend[p] > 0
    /\ pend' = [pend EXCEPT ![p] = @ - 1]
    /\ UNCHANGED <<inbox, calm, nview, people, left>>

(* qrtr_port_remove broadcasts DEL_CLIENT: to the neighbour at once, and to *)
(* the name service through its queue.                                      *)
Close(p) ==
    /\ p \in open /\ Send(Pkt("delclient", "local", p, p, NoId))
    /\ open' = open \ {p}
    /\ mine' = [mine EXCEPT ![p] = NoId]
    /\ pend' = [pend EXCEPT ![p] = 0]
    /\ nview' = IF link THEN [nview EXCEPT ![p] = NoId] ELSE nview
    /\ UNCHANGED <<calm, link, rmine, quit>>

RemoteNew(p, id) ==
    /\ link /\ rmine[p] = NoId
    /\ Send(Pkt("newserver", "remote", p, p, id))
    /\ rmine' = [rmine EXCEPT ![p] = id]
    /\ UNCHANGED <<calm, pend, nview, link, open, mine, quit>>

RemoteDel(p, cmd) ==
    /\ link /\ rmine[p] # NoId
    /\ Send(Pkt(cmd, "remote", p, p, rmine[p]))
    /\ rmine' = [rmine EXCEPT ![p] = NoId]
    /\ UNCHANGED <<calm, pend, nview, link, open, mine, quit>>

LinkUp ==
    /\ ~link /\ Send(Pkt("hello", "remote", 0, 0, NoId))
    /\ link' = TRUE
    /\ UNCHANGED <<calm, pend, nview, open, mine, rmine, quit>>

(* qrtr_endpoint_unregister puts BYE on the name service's queue; both ends *)
(* of the link forget each other.                                           *)
LinkDown ==
    /\ link /\ Send(Pkt("bye", "remote", 0, 0, NoId))
    /\ link' = FALSE
    /\ rmine' = [p \in RPorts |-> NoId]
    /\ nview' = [p \in NsPorts |-> NoId]
    /\ lost' = lost \ {Nb}
    /\ UNCHANGED <<tables, told, pend, open, mine, quit>>

NsInit ==
    /\ inbox = <<>> /\ servers = {} /\ lookups = {} /\ replaced = {}
    /\ told = [p \in NsPorts |-> {}] /\ pend = [p \in NsPorts |-> 0]
    /\ lost = {}
    /\ nview = [p \in NsPorts |-> NoId]
    /\ link = FALSE /\ open = NsPorts
    /\ mine = [p \in NsPorts |-> NoId] /\ rmine = [p \in RPorts |-> NoId]
    /\ quit = {} /\ left = MaxReqs

NsNext ==
    \/ qrtr_ns_worker
    \/ \E p \in NsPorts :
         \/ \E id \in Ids : Publish(p, id)
         \/ \E f \in Filters : Lookup(p, f) \/ DropLookup(p, f)
         \/ \E q \in NsPorts : Misname(p, q)
         \/ Withdraw(p) \/ Read(p) \/ Close(p)
    \/ \E p \in RPorts : \/ \E id \in Ids : RemoteNew(p, id)
                         \/ \E c \in {"delserver", "delclient"} : RemoteDel(p, c)
    \/ LinkUp \/ LinkDown

NsSpec == NsInit /\ [][NsNext]_nsVars

-----------------------------------------------------------------------------
Entries == [node : {"local"}, port : NsPorts, id : Ids] \cup [node : {"remote"}, port : RPorts, id : Ids]

(* Every table entry is well formed, one server per node and port, and no   *)
(* buffer holds more than it can.                                           *)
NsTypeOK ==
    /\ servers \subseteq Entries
    /\ \A s, t \in servers : s.node = t.node /\ s.port = t.port => s = t
    /\ lookups \subseteq [port : NsPorts, filter : Filters]
    /\ told \in [NsPorts -> SUBSET Entries]
    /\ pend \in [NsPorts -> 0 .. RcvBuf]
    /\ nview \in [NsPorts -> Ids \cup {NoId}] /\ open \subseteq NsPorts
    /\ lost \subseteq NsPorts \cup {Nb}

(* When the worker has read everything, the server table is exactly what    *)
(* the open sockets and the connected node registered last: nothing of a    *)
(* closed port or a departed node is left, and no socket lost its entry to  *)
(* a packet that named its port.                                            *)
RegistryExact ==
    inbox = <<>> =>
        servers = {Srv("local", p, mine[p]) : p \in {q \in NsPorts : mine[q] # NoId}}
             \cup {Srv("remote", p, rmine[p]) : p \in {q \in RPorts : rmine[q] # NoId}}

(* When the worker has read everything, an observer none of whose packets   *)
(* was lost knows every server its lookups select, and believes in no other *)
(* except one that was replaced on its port: the listing at NEW_LOOKUP and  *)
(* the later notifications fit together without gap, also across a node     *)
(* that leaves and a port that closes.                                      *)
Selected(L, p, s) == \E l \in L : l.port = p /\ Match(l.filter, s.id)
ObserverCurrent ==
    inbox = <<>> =>
        \A p \in open \ lost :
            /\ \A s \in servers : Selected(lookups, p, s) => s \in told[p]
            /\ \A s \in told[p] : Selected(lookups, p, s) => s \in servers \cup replaced

(* When the worker has read everything and the link is up, the neighbour    *)
(* knows every local server, and anything else it still believes in was on  *)
(* a port that is closed.                                                   *)
NeighbourKnows ==
    inbox = <<>> /\ link /\ Nb \notin lost =>
        \A p \in NsPorts : nview[p] # mine[p] => mine[p] = NoId /\ p \notin open

(* A closed port's lookups do not outlive the packet that says it closed.   *)
LookupsOfOpenPorts == inbox = <<>> => \A l \in lookups : l.port \in open

-----------------------------------------------------------------------------
(* The inductive invariant.  A packet on the queue concerns a server's      *)
(* entry, (node, port), when it sets or clears it.                          *)
Concerns(m, n, p) ==
    /\ m.node = n
    /\ \/ m.cmd \in {"newserver", "delserver"} /\ m.port = p
       \/ m.cmd = "delclient" /\ m.port = p /\ (n = "local" => m.from = p)
       \/ m.cmd = "bye"
Outcome(m) == IF m.cmd = "newserver" THEN m.arg ELSE NoId
Closes(m, p) == m.cmd = "delclient" /\ m.node = "local" /\ m.from = p /\ m.port = p

Packets == [cmd : {"hello", "bye", "newserver", "delserver", "delclient", "newlookup", "dellookup"},
            node : {"local", "remote"}, from : Nat, port : Nat, arg : Ids \cup Filters \cup {NoId}]
PacketOK(m) ==
    /\ m \in Packets
    /\ m.cmd = "newserver" => m.arg \in Ids
    /\ m.cmd \in {"newlookup", "dellookup"} => m.node = "local" /\ m.arg \in Filters
    /\ m.node = "local" => m.from \in NsPorts /\ m.port \in NsPorts /\ m.cmd \notin {"hello", "bye"}
    /\ m.node = "remote" /\ m.cmd # "bye" /\ m.cmd # "hello" => m.port \in RPorts

(* Types, also of what NsTypeOK leaves out, and tables that are finite.     *)
NsTypes ==
    /\ NsTypeOK /\ IsFiniteSet(servers)
    /\ inbox \in Seq(Packets) /\ \A i \in DOMAIN inbox : PacketOK(inbox[i])
    /\ mine \in [NsPorts -> Ids \cup {NoId}] /\ rmine \in [RPorts -> Ids \cup {NoId}]
    /\ \A p \in NsPorts \ open : mine[p] = NoId
    /\ link \in BOOLEAN /\ quit \subseteq NsPorts /\ left \in Nat

(* The last packet that concerns an entry leaves it as its owner wants it;  *)
(* without one it is so already.                                            *)
SrvAt(S, n, p) == {s \in S : s.node = n /\ s.port = p}
EntryIs(S, n, p, x) == SrvAt(S, n, p) = IF x = NoId THEN {} ELSE {Srv(n, p, x)}
LastToConcern(q, i, n, p) ==
    Concerns(q[i], n, p) /\ \A j \in DOMAIN q : i < j => ~Concerns(q[j], n, p)
EntryFollows(q, S, n, p, x) ==
    /\ \A i \in DOMAIN q : LastToConcern(q, i, n, p) => Outcome(q[i]) = x
    /\ (\A i \in DOMAIN q : ~Concerns(q[i], n, p)) => EntryIs(S, n, p, x)
RegistryFollows ==
    /\ \A p \in NsPorts : EntryFollows(inbox, servers, "local", p, mine[p])
    /\ \A p \in RPorts : EntryFollows(inbox, servers, "remote", p, rmine[p])

(* The packet that closes a port is of a closed one, a lookup of a closed   *)
(* port is followed by it, and an owner that has dropped a lookup asks for  *)
(* no other.                                                                *)
WillClose(q, i, p) == \E j \in DOMAIN q : i < j /\ Closes(q[j], p)
Asks(q, p) == \E i \in DOMAIN q : q[i].cmd = "newlookup" /\ q[i].from = p
LookupsFollow ==
    /\ \A i \in DOMAIN inbox : \A p \in open : ~Closes(inbox[i], p)
    /\ \A l \in lookups : l.port \in open \/ WillClose(inbox, 0, l.port)
    /\ \A i \in DOMAIN inbox : inbox[i].cmd = "newlookup" =>
          inbox[i].from \in open \/ WillClose(inbox, i, inbox[i].from)
    /\ \A i \in DOMAIN inbox : inbox[i].cmd = "dellookup" => inbox[i].from \in quit
    /\ \A i, j \in DOMAIN inbox : inbox[i].cmd = "dellookup" /\ i < j /\ inbox[j].cmd = "newlookup" =>
          inbox[j].from # inbox[i].from

(* What an observer was told is right about what it selects, and right      *)
(* altogether as long as its lookups only grow.                             *)
ObserversFollow ==
    \A p \in open \ lost :
        /\ \A s \in servers : Selected(lookups, p, s) => s \in told[p]
        /\ \A s \in told[p] : Selected(lookups, p, s) => s \in servers \cup replaced
        /\ p \notin quit \/ Asks(inbox, p) =>
              \A s \in told[p] : Selected(lookups, p, s)

(* The neighbour knows nothing without a link, only true entries with one,  *)
(* and all of them once no hello waits to be answered.                      *)
NeighbourFollows ==
    /\ ~link => \A p \in NsPorts : nview[p] = NoId
    /\ link /\ Nb \notin lost => \A p \in open :
          /\ nview[p] # NoId => EntryIs(servers, "local", p, nview[p])
          /\ (\A i \in DOMAIN inbox : inbox[i].cmd # "hello") => EntryIs(servers, "local", p, nview[p])

NsInv == NsTypes /\ RegistryFollows /\ LookupsFollow /\ ObserversFollow /\ NeighbourFollows

-----------------------------------------------------------------------------
(* "Neighbours would've already removed the server belonging to this port   *)
(* due to the DEL_CLIENT broadcast from qrtr_port_remove()": the neighbour   *)
(* believes in no server the name service does not have.                    *)
NeighbourExact ==
    inbox = <<>> /\ link /\ Nb \notin lost =>
        \A p \in NsPorts : nview[p] = mine[p]

\* The name service as a whole: the registry agrees with the sockets and the remote
\* side once everything is read, and observers and neighbour have been told of it.
NsSafe ==
    /\ NsInv /\ RegistryExact /\ ObserverCurrent /\ NeighbourKnows /\ LookupsOfOpenPorts
=============================================================================
